---------------------------- MODULE WQueueProofs ----------------------------
(***************************************************************************)
(* Proofs about WQueue, for any set of pushing threads, any array length   *)
(* and any bounds, and about LoginSend, which runs over it, for any size   *)
(* of a response and of the buffer.  What is proved of WQueue uses nothing *)
(* of LoginSend.                                                           *)
(***************************************************************************)
EXTENDS LoginSend, SequenceTheorems, TLAPS

(***************************************************************************)
(* Sequences: what leaves the front of one and joins the end of another    *)
(* leaves their concatenation alone, and an element appended to a          *)
(* concatenation is appended to its right part.                            *)
(***************************************************************************)

\* Moving the head of t to the end of s does not change s \o t.
LEMMA MoveHead ==
    ASSUME NEW S, NEW s \in Seq(S), NEW t \in Seq(S), t # <<>>
    PROVE  s \o t = Append(s, Head(t)) \o Tail(t)
<1>1. Head(t) \in S /\ Tail(t) \in Seq(S) /\ Len(Tail(t)) = Len(t) - 1
  BY HeadTailProperties
<1>2. Append(s, Head(t)) \in Seq(S) /\ Len(Append(s, Head(t))) = Len(s) + 1
  BY <1>1, AppendProperties
<1>3. Len(s) \in Nat /\ Len(t) \in Nat
  BY LenProperties
<1> DEFINE l == s \o t
           r == Append(s, Head(t)) \o Tail(t)
<1>4. l \in Seq(S) /\ Len(l) = Len(s) + Len(t)
  BY ConcatProperties
<1>5. r \in Seq(S) /\ Len(r) = Len(s) + Len(t)
  BY <1>1, <1>2, <1>3, ConcatProperties
<1>6. ASSUME NEW i \in 1 .. Len(l) PROVE l[i] = r[i]
  <2>1. l[i] = IF i <= Len(s) THEN s[i] ELSE t[i - Len(s)]
    BY <1>4, ConcatProperties
  <2>2. r[i] = IF i <= Len(s) + 1 THEN Append(s, Head(t))[i]
                                  ELSE Tail(t)[i - (Len(s) + 1)]
    BY <1>1, <1>2, <1>3, <1>4, ConcatProperties
  <2>3. CASE i <= Len(s)
    BY <2>1, <2>2, <2>3, <1>1, <1>3, AppendProperties
  <2>4. CASE i = Len(s) + 1
    <3>1. Append(s, Head(t))[i] = Head(t) /\ Head(t) = t[1]
      BY <2>4, <1>1, AppendProperties
    <3> QED BY <3>1, <2>1, <2>2, <2>4, <1>3
  <2>5. CASE i > Len(s) + 1
    <3>1. i - (Len(s) + 1) \in 1 .. Len(Tail(t))
      BY <2>5, <1>1, <1>3, <1>4
    <3>2. Tail(t)[i - (Len(s) + 1)] = t[i - (Len(s) + 1) + 1]
      BY <3>1, HeadTailProperties
    <3>3. i - (Len(s) + 1) + 1 = i - Len(s)
      BY <1>3
    <3> QED BY <3>2, <3>3, <2>1, <2>2, <2>5, <1>3
  <2> QED BY <2>3, <2>4, <2>5, <1>3, <1>4
<1> HIDE DEF l, r
<1>7. l = r
  BY <1>4, <1>5, <1>6, SeqEqual
<1> QED BY <1>7 DEF l, r

\* Appending to s \o t is appending to t.
LEMMA AppendRight ==
    ASSUME NEW S, NEW s \in Seq(S), NEW t \in Seq(S), NEW e \in S
    PROVE  Append(s \o t, e) = s \o Append(t, e)
<1>1. <<e>> \in Seq(S) /\ s \o t \in Seq(S)
  BY ConcatProperties
<1>2. Append(s \o t, e) = (s \o t) \o <<e>> /\ Append(t, e) = t \o <<e>>
  BY <1>1, AppendIsConcat
<1> QED BY <1>1, <1>2, ConcatAssociative

-----------------------------------------------------------------------------

\* The first queue is empty.
LEMMA TypingInit == Init => TypeOK
<1> USE DEF TypeOK, Thread, ThreadState, Fault
<1> SUFFICES ASSUME Init PROVE TypeOK
  OBVIOUS
<1>1. <<>> \in Seq(Work) /\ Len(<<>>) = 0
  BY EmptySeq
<1>2. closed \in BOOLEAN /\ starting \in BOOLEAN
  BY DEF Init
<1> QED BY <1>1, <1>2, BoundAssumption DEF Init

\* A step keeps the variables in their types.
LEMMA TypingStep == TypeOK /\ [Next]_vars => TypeOK'
<1> USE DEF TypeOK, Thread, ThreadState, Fault
<1> SUFFICES ASSUME TypeOK, [Next]_vars PROVE TypeOK'
  OBVIOUS
<1> USE BoundAssumption
<1>1. CASE CheckClosed
  BY <1>1 DEF CheckClosed
<1>2. CASE Take
  <2>1. Head(work) \in Work /\ Tail(work) \in Seq(Work)
        /\ Len(Tail(work)) = Len(work) - 1
    BY <1>2, HeadTailProperties DEF Take
  <2>2. Len(work) \in Nat /\ Append(handled, Head(work)) \in Seq(Work)
    BY <2>1, LenProperties, AppendProperties
  <2> QED BY <1>2, <2>1, <2>2 DEF Take
<1>3. CASE TakeNothing
  BY <1>3 DEF TakeNothing
<1>4. CASE Return
  BY <1>4 DEF Return
<1>5. CASE SpuriousWakeup
  BY <1>5 DEF SpuriousWakeup
<1>6. ASSUME NEW t \in Thread, NEW w \in Work, PushCheck(t, w) PROVE TypeOK'
  BY <1>6 DEF PushCheck
<1>7. ASSUME NEW t \in Thread, PushCommit(t) PROVE TypeOK'
  <2>1. pushing[t] \in Work
    BY <1>7 DEF PushCommit
  <2>2. Append(work, pushing[t]) \in Seq(Work)
        /\ Len(Append(work, pushing[t])) = Len(work) + 1
        /\ Append(pushed, pushing[t]) \in Seq(Work)
    BY <2>1, AppendProperties
  <2>3. Len(work) \in Nat
    BY LenProperties
  <2> QED BY <1>7, <2>1, <2>2, <2>3 DEF PushCommit, Signal
<1>8. ASSUME NEW t \in Thread, PushOverrun(t) PROVE TypeOK'
  BY <1>8 DEF PushOverrun
<1>9. ASSUME NEW t \in Thread, PushDestroyed(t) PROVE TypeOK'
  BY <1>9 DEF PushDestroyed
<1>10. CASE Close
  BY <1>10 DEF Close
<1>11. CASE StartOpen
  <2>1. closed' \in BOOLEAN /\ starting' \in BOOLEAN
    BY <1>11, Zenon DEF StartOpen
  <2> QED BY <1>11, <2>1 DEF StartOpen
<1>12. CASE StartThread
  <2>1. starting' \in BOOLEAN /\ thread' \in ThreadState /\ fault' \in Fault
    BY <1>12, Zenon DEF StartThread
  <2> QED BY <1>12, <2>1 DEF StartThread
<1>13. CASE Destroy
  BY <1>13 DEF Destroy
<1>14. CASE UNCHANGED vars
  BY <1>14 DEF vars
<1> QED BY <1>1, <1>2, <1>3, <1>4, <1>5, <1>6, <1>7, <1>8, <1>9,
            <1>10, <1>11, <1>12, <1>13, <1>14 DEF Next, Push

\* The type invariant; in particular the array never holds more than Capacity.
THEOREM Typing == Spec => []TypeOK
BY TypingInit, TypingStep, PTL DEF Spec

\* Nothing is dropped, repeated or reordered between wpush and the callback.
THEOREM Fifo == Spec => []FifoDelivery
<1>1. Init => FifoDelivery
  BY DEF Init, FifoDelivery
<1>2. TypeOK /\ FifoDelivery /\ [Next]_vars => FifoDelivery'
  <2> SUFFICES ASSUME TypeOK, FifoDelivery, [Next]_vars PROVE FifoDelivery'
    OBVIOUS
  <2>1. CASE Take
    <3>1. work # <<>> /\ work \in Seq(Work) /\ handled \in Seq(Work)
      BY <2>1 DEF Take, TypeOK
    <3>2. handled \o work = Append(handled, Head(work)) \o Tail(work)
      BY <3>1, MoveHead
    <3> QED BY <2>1, <3>2 DEF Take, FifoDelivery
  <2>2. ASSUME NEW t \in Thread, PushCommit(t) PROVE FifoDelivery'
    <3>1. pushing[t] \in Work /\ work \in Seq(Work) /\ handled \in Seq(Work)
      BY <2>2 DEF PushCommit, TypeOK
    <3>2. Append(handled \o work, pushing[t]) = handled \o Append(work, pushing[t])
      BY <3>1, AppendRight
    <3> QED BY <2>2, <3>2 DEF PushCommit, FifoDelivery
  <2>3. CASE UNCHANGED <<work, pushed, handled>>
    BY <2>3 DEF FifoDelivery
  <2>4. [Next]_vars => \/ Take
                       \/ \E t \in Thread : PushCommit(t)
                       \/ UNCHANGED <<work, pushed, handled>>
    BY DEF Next, Push, CheckClosed, TakeNothing, Return, SpuriousWakeup, Close, StartOpen,
           StartThread, Destroy, PushCheck, PushOverrun, PushDestroyed, vars
  <2> QED BY <2>1, <2>2, <2>3, <2>4
<1> QED BY <1>1, <1>2, Typing, PTL DEF Spec

\* The array holds as many items as signals were lost, give or take the
\* wake-up under way and the spurious ones.
THEOREM Backlog == Spec => []BacklogIsLostSignals
<1> USE DEF BacklogIsLostSignals
<1>1. Init => BacklogIsLostSignals
  BY EmptySeq DEF Init
<1>2. TypeOK /\ BacklogIsLostSignals /\ [Next]_vars => BacklogIsLostSignals'
  <2> SUFFICES ASSUME TypeOK, BacklogIsLostSignals, [Next]_vars
               PROVE  BacklogIsLostSignals'
    OBVIOUS
  <2>0. lost \in Nat /\ spurious \in Nat /\ Len(work) \in Nat /\ work \in Seq(Work)
    BY LenProperties DEF TypeOK
  <2>1. CASE CheckClosed
    BY <2>0, <2>1 DEF CheckClosed
  <2>2. CASE Take
    <3>1. Len(Tail(work)) = Len(work) - 1
      BY <2>0, <2>2, HeadTailProperties DEF Take
    <3> QED BY <2>0, <2>2, <3>1 DEF Take
  <2>3. CASE Return
    BY <2>0, <2>3 DEF Return
  <2>4. CASE SpuriousWakeup
    BY <2>0, <2>4 DEF SpuriousWakeup
  <2>5. ASSUME NEW t \in Thread, PushCommit(t) PROVE BacklogIsLostSignals'
    <3>1. pushing[t] \in Work
      BY <2>5 DEF PushCommit, TypeOK
    <3>2. Len(Append(work, pushing[t])) = Len(work) + 1
      BY <2>0, <3>1, AppendProperties
    <3> QED BY <2>0, <2>5, <3>2 DEF PushCommit, Signal
  <2>6. CASE StartThread
    BY <2>0, <2>6 DEF StartThread
  <2>7. CASE Destroy
    BY <2>0, <2>7 DEF Destroy
  <2>8. CASE UNCHANGED <<work, thread, lost, spurious>>
    BY <2>8
  <2>9. \/ CheckClosed \/ Take \/ Return \/ SpuriousWakeup \/ StartThread \/ Destroy
        \/ \E t \in Thread : PushCommit(t)
        \/ UNCHANGED <<work, thread, lost, spurious>>
    BY DEF Next, Push, TakeNothing, Close, StartOpen, PushCheck, PushOverrun,
           PushDestroyed, vars
  <2> QED BY <2>1, <2>2, <2>3, <2>4, <2>5, <2>6, <2>7, <2>8, <2>9
<1> QED BY <1>1, <1>2, Typing, PTL DEF Spec

-----------------------------------------------------------------------------

\* The worker leaves only a closed queue, which wstart alone may have opened since.
ExitedIsClosed == thread \in {"exiting", "exited"} => closed \/ starting

\* The inductive invariant behind FaultCause: a wpush that meets the destroyed
\* mutex is not the worker's, and it meets it in a queue that is closed or in wstart.
FaultInv == FaultCause /\ WorkerPushInCallback /\ ExitedIsClosed

\* A step from a state without a fault keeps the invariant; one from a state
\* with a fault does not exist.
LEMMA FaultInvStep ==
    TypeOK /\ BacklogIsLostSignals /\ FaultInv /\ [Next]_vars => FaultInv'
<1> SUFFICES ASSUME TypeOK, BacklogIsLostSignals, FaultInv, [Next]_vars
             PROVE  FaultInv'
  OBVIOUS
<1> USE DEF FaultInv, FaultCause, WorkerPushInCallback, ExitedIsClosed
<1>0. lost \in Nat /\ spurious \in Nat /\ Len(work) \in Nat
      /\ work \in Seq(Work) /\ Len(work) <= Capacity
      /\ pushing \in [Thread -> Work \cup {None}]
  BY LenProperties DEF TypeOK
<1>1. CASE CheckClosed
  BY <1>1 DEF CheckClosed
<1>2. CASE Take
  BY <1>2 DEF Take
<1>3. CASE TakeNothing
  <2>1. spurious = lost + 1
    BY <1>0, <1>3, EmptySeq DEF TakeNothing, BacklogIsLostSignals
  <2> QED BY <1>0, <1>3, <2>1 DEF TakeNothing
<1>4. CASE Return
  BY <1>4 DEF Return
<1>5. CASE SpuriousWakeup
  BY <1>5 DEF SpuriousWakeup
<1>6. ASSUME NEW t \in Thread, NEW w \in Work, PushCheck(t, w) PROVE FaultInv'
  BY <1>0, <1>6 DEF PushCheck
<1>7. ASSUME NEW t \in Thread, PushCommit(t) PROVE FaultInv'
  BY <1>0, <1>7, WorkAssumption DEF PushCommit, Signal, Thread
<1>8. ASSUME NEW t \in Thread, PushOverrun(t) PROVE FaultInv'
  <2>1. lost + 1 >= Capacity + spurious
    BY <1>0, <1>8, BoundAssumption DEF PushOverrun, BacklogIsLostSignals
  <2> QED BY <1>8, <2>1 DEF PushOverrun
<1>9. ASSUME NEW t \in Thread, PushDestroyed(t) PROVE FaultInv'
  <2>1. (closed \/ starting) /\ t # Worker /\ t \in Pusher
    BY <1>9 DEF PushDestroyed, Thread
  <2> QED BY <1>9, <2>1 DEF PushDestroyed
<1>10. CASE Close
  BY <1>10 DEF Close
<1>11. CASE StartThread
  <2>1. CASE thread = "exited"
    BY <1>11, <2>1 DEF StartThread
  <2>2. CASE thread # "exited"
    BY <1>11, <2>2 DEF StartThread
  <2> QED BY <2>1, <2>2
<1>12. CASE StartOpen
  BY <1>12 DEF StartOpen
<1>13. CASE Destroy
  BY <1>13 DEF Destroy
<1>14. CASE UNCHANGED vars
  BY <1>14 DEF vars
<1> QED BY <1>1, <1>2, <1>3, <1>4, <1>5, <1>6, <1>7, <1>8, <1>9, <1>10,
           <1>11, <1>12, <1>13, <1>14 DEF Next, Push

\* The array is left, or the mutex used after its destruction, only by the
\* histories FaultCause describes: without lost signals or spurious wake-ups
\* wcount stays within the array.
THEOREM Faults == Spec => [](FaultCause /\ WorkerPushInCallback)
<1>1. Init => FaultInv
  BY DEF Init, FaultInv, FaultCause, WorkerPushInCallback, ExitedIsClosed, Thread
<1>2. FaultInv => FaultCause /\ WorkerPushInCallback
  BY DEF FaultInv
<1> QED BY <1>1, <1>2, FaultInvStep, Typing, Backlog, PTL DEF Spec

-----------------------------------------------------------------------------

\* The queue implements the abstract channel: a push is a Send, a take is a
\* Receive, every other step is a stutter.
THEOREM Refinement == Spec => ImplementsChannel
<1>1. Init => Channel!Init
  BY DEF Init, Channel!Init
<1>2. TypeOK /\ FifoDelivery /\ [Next]_vars => [Channel!Next]_<<pushed, handled>>
  <2> SUFFICES ASSUME TypeOK, FifoDelivery, [Next]_vars
               PROVE  [Channel!Next]_<<pushed, handled>>
    OBVIOUS
  <2>1. CASE Take
    <3>1. work \in Seq(Work) /\ handled \in Seq(Work) /\ work # <<>>
      BY <2>1 DEF Take, TypeOK
    <3>2. Len(work) \in Nat \ {0} /\ Len(handled) \in Nat
      BY <3>1, EmptySeq, LenProperties
    <3>3. /\ Len(pushed) = Len(handled) + Len(work)
          /\ pushed[Len(handled) + 1] = work[1]
      BY <3>1, <3>2, ConcatProperties DEF FifoDelivery
    <3>4. Head(work) = work[1]
      BY <3>1
    <3> QED BY <2>1, <3>2, <3>3, <3>4 DEF Take, Channel!Next, Channel!Receive
  <2>2. ASSUME NEW t \in Thread, PushCommit(t)
        PROVE  [Channel!Next]_<<pushed, handled>>
    <3>1. pushing[t] \in Work
      BY <2>2 DEF PushCommit, TypeOK
    <3> QED BY <2>2, <3>1 DEF PushCommit, Channel!Next, Channel!Send
  <2>3. \/ Take
        \/ \E t \in Thread : PushCommit(t)
        \/ UNCHANGED <<pushed, handled>>
    BY DEF Next, Push, CheckClosed, TakeNothing, Return, SpuriousWakeup, Close, StartOpen,
           StartThread, Destroy, PushCheck, PushOverrun, PushDestroyed, vars
  <2> QED BY <2>1, <2>2, <2>3
<1> QED BY <1>1, <1>2, Typing, Fifo, PTL DEF Spec, ImplementsChannel, Channel!Spec
-----------------------------------------------------------------------------
(***************************************************************************)
(* LoginSend: how login responses are sent over the queue.  Whatever the   *)
(* client does the counters stay in order.  Once a response is made before *)
(* the last one was sent and its counters were reset, it can be added to   *)
(* them, and the worker sends bytes of the buffer that belong to neither;  *)
(* until then the client gets its stream.                                  *)
(***************************************************************************)

\* The callback is under way only while the worker runs it.
InCallback == callback \notin {"enter", "return"} => thread = "running"

\* How a step of the worker outside send_responses moves it.
CallbackMoves ==
    \/ callback' = callback
    \/ callback \in {"enter", "return"} /\ callback' = "send" /\ thread' = "running"
    \/ callback = "again" /\ callback' = "pushing"
    \/ callback = "pushing" /\ callback' = "return"

\* What the last net_send took and "sent" does not count yet.
Taken == IF callback = "add" THEN got ELSE 0

\* The count is never below what was sent and what is just being counted as sent,
\* and the copy of it the main thread adds to is not below it either.
CountersOrdered ==
    /\ sent + Taken <= count
    /\ main = "store" => count <= loaded
    /\ callback = "zero count" => sent = 0

\* What holds whatever the client does.
Ordered == LoginTypeOK /\ InCallback /\ CountersOrdered

\* All responses before one that is made and not counted were sent.
UncountedAgrees ==
    main \in {"load", "store"} =>
        /\ produced = Len(received) + Size
        /\ count = 0
        /\ main = "store" => loaded = 0

\* While the counters are 0 nothing is under way.  Otherwise they stand for one
\* response, of which as many bytes were sent as they say, until the callback
\* decides to reset them: that may be a stale decision, made before the response
\* was counted, and then the response is never sent.
CountersAgree ==
    /\ count = 0 => sent = 0 /\ Taken = 0 /\ callback \notin {"again", "pushing"}
    /\ count # 0 =>
         /\ count = Size /\ Size <= produced /\ sent + Taken <= Size
         /\ callback \notin {"zero sent", "zero count"} =>
              produced + sent + Taken = Len(received) + Size
         /\ callback \notin {"add", "test", "zero sent", "zero count"} => sent < Size
         /\ callback = "zero count" => sent = 0

\* The client has all but one response at least, and the buffer holds the last.
BytesAgree ==
    /\ Len(received) <= produced /\ produced <= Len(received) + Size
    /\ \A i \in 1 .. Len(received) : received[i] = <<1, i>>
    /\ produced # 0 =>
         /\ Size <= produced
         /\ \A i \in 1 .. Size : toSend[i] = <<1, (produced - Size) + i>>

\* What holds until a response is made too early.
CalmInv == Ordered /\ UncountedAgrees /\ CountersAgree /\ BytesAgree

\* The inductive invariant.
SendInv == Ordered /\ (~raced => CalmInv)

Octet == {1} \X Nat

\* The types a step needs, with the lengths of the sequences.
LEMMA SendTypes ==
    ASSUME LoginTypeOK
    PROVE  /\ loaded \in Nat /\ count \in Nat /\ sent \in Nat /\ got \in Nat
           /\ produced \in Nat /\ counted \in Nat /\ Taken \in Nat
           /\ toSend \in [1 .. Buffer -> Octet]
           /\ received \in Seq(Octet) /\ Len(received) \in Nat
<1>1. /\ loaded \in Nat /\ count \in Nat /\ sent \in Nat /\ got \in Nat
      /\ produced \in Nat /\ counted \in Nat
      /\ toSend \in [1 .. Buffer -> Octet] /\ received \in Seq(Octet)
  BY DEF LoginTypeOK, Octet
<1> QED BY <1>1, LenProperties DEF Taken

\* Every step of the two programs is a step of the queue or leaves it alone.
LEMMA QueueStep == [LoginNext]_allVars => [Next]_vars
<1>1. Main \in Thread /\ Worker \in Thread /\ Conn \in Work
  BY ThreadAssumption, LoginAssumption DEF Thread
<1>2. Respond \/ LoadCount \/ StoreCount => UNCHANGED vars
  BY DEF Respond, LoadCount, StoreCount
<1>3. MainPushCheck \/ MainPushCommit => Next
  BY <1>1 DEF MainPushCheck, MainPushCommit, Next, Push
<1>4. WorkerWaits \/ WorkerTakes \/ WorkerReturns => Next
  BY DEF WorkerWaits, WorkerTakes, WorkerReturns, Next
<1>5. Send \/ AddSent \/ TestSent \/ ZeroSent \/ ZeroCount => UNCHANGED vars
  BY DEF Send, AddSent, TestSent, ZeroSent, ZeroCount
<1>6. PushAgainCheck \/ PushAgainCommit => Next
  BY <1>1 DEF PushAgainCheck, PushAgainCommit, Next, Push
<1> QED BY <1>2, <1>3, <1>4, <1>5, <1>6 DEF LoginNext, MainStep, WorkerStep, allVars

\* The initial state.
LEMMA SendInit == LoginInit => SendInv
<1> SUFFICES ASSUME LoginInit PROVE SendInv
  OBVIOUS
<1>1. TypeOK
  BY TypingInit DEF LoginInit
<1>2. toSend \in [1 .. Buffer -> {1} \X Nat]
  BY DEF LoginInit
<1>3. received = <<>> /\ received \in Seq({1} \X Nat) /\ Len(received) = 0
  BY EmptySeq DEF LoginInit
<1>4. LoginTypeOK
  <2>1. raced \in BOOLEAN
    BY DEF LoginInit
  <2> QED BY <1>1, <1>2, <1>3, <2>1 DEF LoginInit, LoginTypeOK
<1>5. InCallback /\ UncountedAgrees /\ CountersOrdered
  BY DEF LoginInit, InCallback, UncountedAgrees, CountersOrdered, Taken
<1>6. CountersAgree
  BY LoginAssumption DEF LoginInit, CountersAgree, Taken
<1>7. BytesAgree
  BY <1>3, LoginAssumption DEF LoginInit, BytesAgree
<1> QED BY <1>4, <1>5, <1>6, <1>7 DEF SendInv, CalmInv, Ordered

\* What net_send takes out of the buffer, or past it.
LEMMA BufferPart ==
    ASSUME NEW j \in Nat, NEW m \in Nat, toSend \in [1 .. Buffer -> Octet]
    PROVE  /\ Bytes(j, m) \in Seq(Octet)
           /\ Len(Bytes(j, m)) = m
           /\ \A i \in 1 .. m : j + i <= Buffer => Bytes(j, m)[i] = toSend[j + i]
<1>1. \A i \in 1 .. m : j + i <= Buffer => j + i \in 1 .. Buffer
  BY LoginAssumption
<1>2. <<1, 0>> \in Octet
  BY DEF Octet
<1>3. Bytes(j, m) \in [1 .. m -> Octet]
  BY <1>1, <1>2 DEF Bytes
<1>4. Bytes(j, m) \in Seq(Octet) /\ Len(Bytes(j, m)) = m
  BY <1>3
<1>5. \A i \in 1 .. m : j + i <= Buffer => Bytes(j, m)[i] = toSend[j + i]
  BY DEF Bytes
<1> QED BY <1>4, <1>5

\* net_send, and the bytes it takes.
LEMMA SendOrdered ==
    ASSUME Ordered, Send, TypeOK'
    PROVE  Ordered'
<1>0. /\ loaded \in Nat /\ count \in Nat /\ sent \in Nat /\ produced \in Nat
      /\ counted \in Nat /\ toSend \in [1 .. Buffer -> Octet] /\ received \in Seq(Octet)
  BY SendTypes DEF Ordered
<1>1. /\ callback = "send" /\ callback' = "add" /\ thread = "running"
      /\ thread' = thread /\ main' = main /\ loaded' = loaded
      /\ produced' = produced /\ counted' = counted /\ raced' = raced
      /\ toSend' = toSend /\ count' = count /\ sent' = sent
  BY DEF Send, vars, mainVars, bufVars
<1>2. PICK m \in 0 .. count - sent : received' = received \o Bytes(sent, m) /\ got' = m
  BY DEF Send
<1>3. m \in Nat /\ sent + m <= count
  BY <1>0
<1>4. received' \in Seq(Octet)
  <2>1. Bytes(sent, m) \in Seq(Octet)
    BY <1>0, <1>3, BufferPart
  <2> QED BY <1>0, <1>2, <2>1, ConcatProperties
<1>5. LoginTypeOK'
  BY <1>1, <1>2, <1>3, <1>4 DEF Ordered, LoginTypeOK, Octet
<1>6. InCallback'
  BY <1>1 DEF InCallback
<1>7. CountersOrdered'
  BY <1>1, <1>2, <1>3 DEF Ordered, CountersOrdered, Taken
<1> QED BY <1>5, <1>6, <1>7 DEF Ordered

\* The steps of the callback on the counters.
LEMMA CallbackOrdered ==
    ASSUME Ordered, AddSent \/ TestSent \/ ZeroSent \/ ZeroCount, TypeOK'
    PROVE  Ordered'
<1>0. /\ loaded \in Nat /\ count \in Nat /\ sent \in Nat /\ got \in Nat /\ Taken \in Nat
  BY SendTypes DEF Ordered
<1>1. /\ thread = "running" /\ thread' = thread /\ main' = main /\ loaded' = loaded
      /\ produced' = produced /\ counted' = counted /\ raced' = raced
      /\ toSend' = toSend /\ got' = got /\ received' = received
  BY DEF AddSent, TestSent, ZeroSent, ZeroCount, vars, mainVars, bufVars
<1>2. /\ callback' \in {"test", "again", "zero sent", "zero count", "return"}
      /\ Taken' = 0
  BY DEF AddSent, TestSent, ZeroSent, ZeroCount, Taken
<1>3. sent + Taken <= count /\ (main' = "store" => count <= loaded')
  BY <1>1 DEF Ordered, CountersOrdered
<1>4. sent' \in Nat /\ count' \in Nat /\ sent' <= count' /\ count' <= count
  <2>1. CASE AddSent
    <3>1. Taken = got /\ sent' = sent + got /\ count' = count
      BY <2>1 DEF AddSent, Taken
    <3> QED BY <1>0, <1>3, <3>1
  <2>2. CASE TestSent
    <3>1. sent' = sent /\ count' = count
      BY <2>2 DEF TestSent, bufVars
    <3> QED BY <1>0, <1>3, <3>1
  <2>3. CASE ZeroSent
    <3>1. sent' = 0 /\ count' = count
      BY <2>3 DEF ZeroSent
    <3> QED BY <1>0, <3>1
  <2>4. CASE ZeroCount
    <3>1. sent' = 0 /\ count' = 0
      BY <2>4 DEF ZeroCount, Ordered, CountersOrdered
    <3> QED BY <1>0, <3>1
  <2> QED BY <2>1, <2>2, <2>3, <2>4
<1>5. CountersOrdered'
  <2>1. sent' + Taken' <= count'
    <3>1. Taken' = 0
      BY <1>2
    <3>2. sent' + 0 = sent'
      <4>1. \A x \in Nat : x + 0 = x
        OBVIOUS
      <4> QED BY <1>4, <4>1, Zenon
    <3> QED BY <1>4, <3>1, <3>2, Zenon
  <2>2. main' = "store" => count' <= loaded'
    BY <1>0, <1>1, <1>3, <1>4
  <2>3. callback' = "zero count" => sent' = 0
    BY DEF AddSent, TestSent, ZeroSent, ZeroCount
  <2> QED BY <2>1, <2>2, <2>3 DEF CountersOrdered
<1>6. LoginTypeOK'
  BY <1>1, <1>2, <1>4 DEF Ordered, LoginTypeOK
<1>7. InCallback'
  BY <1>1 DEF InCallback
<1> QED BY <1>5, <1>6, <1>7 DEF Ordered

\* The steps of the worker around the callback, and its wpush.
LEMMA WorkerOrdered ==
    ASSUME Ordered, TypeOK',
           WorkerWaits \/ WorkerTakes \/ WorkerReturns \/ PushAgainCheck \/ PushAgainCommit
    PROVE  Ordered'
<1>1. /\ main' = main /\ loaded' = loaded /\ produced' = produced /\ counted' = counted
      /\ toSend' = toSend /\ count' = count /\ sent' = sent /\ raced' = raced
      /\ got' = got /\ received' = received
  BY DEF WorkerWaits, WorkerTakes, WorkerReturns, PushAgainCheck, PushAgainCommit,
         ownVars, mainVars, bufVars, sendVars
<1>2. CallbackMoves
  <2>1. CASE WorkerTakes
    <3>1. thread = "signalled" /\ thread' = "running" /\ callback' = "send"
      BY <2>1 DEF WorkerTakes, Take
    <3> QED BY <3>1 DEF Ordered, InCallback, CallbackMoves
  <2>2. CASE PushAgainCheck \/ PushAgainCommit
    BY <2>2 DEF PushAgainCheck, PushAgainCommit, CallbackMoves
  <2>3. CASE WorkerWaits \/ WorkerReturns
    BY <2>3 DEF WorkerWaits, WorkerReturns, ownVars, sendVars, CallbackMoves
  <2> QED BY <2>1, <2>2, <2>3
<1>3. \/ thread' = thread
      \/ thread # "running"
      \/ callback' = "return"
  <2>1. CASE WorkerWaits
    BY <2>1 DEF WorkerWaits, CheckClosed, TakeNothing, SpuriousWakeup
  <2>2. CASE WorkerTakes
    BY <2>2 DEF WorkerTakes, Take
  <2>3. CASE WorkerReturns
    BY <2>3 DEF WorkerReturns, ownVars, sendVars
  <2>4. CASE PushAgainCheck \/ PushAgainCommit
    BY <2>4 DEF PushAgainCheck, PushAgainCommit, PushCheck
  <2> QED BY <2>1, <2>2, <2>3, <2>4
<1>4. Taken' = Taken
  BY <1>1, <1>2 DEF Taken, CallbackMoves
<1>5. LoginTypeOK'
  BY <1>1, <1>2 DEF Ordered, LoginTypeOK, CallbackMoves
<1>6. InCallback'
  BY <1>2, <1>3 DEF Ordered, InCallback, CallbackMoves
<1>7. CountersOrdered'
  BY <1>1, <1>2, <1>4 DEF Ordered, CountersOrdered, CallbackMoves
<1> QED BY <1>5, <1>6, <1>7 DEF Ordered

\* The steps of the main thread.
LEMMA MainOrdered ==
    ASSUME Ordered, Respond \/ MainStep, TypeOK'
    PROVE  Ordered'
<1>0. /\ loaded \in Nat /\ count \in Nat /\ sent \in Nat /\ produced \in Nat
      /\ Taken \in Nat /\ got \in Nat /\ counted \in Nat
      /\ toSend \in [1 .. Buffer -> Octet]
  BY SendTypes DEF Ordered
<1>1. sent' = sent /\ received' = received /\ callback' = callback /\ got' = got
  BY DEF Respond, MainStep, LoadCount, StoreCount, MainPushCheck, MainPushCommit, ownVars,
         bufVars, mainVars, sendVars
<1>2. InCallback' /\ Taken' = Taken
  <2>1. thread' = thread \/ (thread = "waiting" /\ thread' = "signalled")
    BY DEF Respond, MainStep, LoadCount, StoreCount, MainPushCheck, MainPushCommit,
           PushCheck, PushCommit, PushOverrun, Signal, vars
  <2> QED BY <1>1, <2>1 DEF Ordered, InCallback, Taken
<1>3. CASE Respond
  <2>1. main' = "load" /\ produced' = produced + Size /\ count' = count
        /\ loaded' = loaded /\ counted' = counted
    BY <1>3 DEF Respond
  <2>2. toSend' \in [1 .. Buffer -> Octet]
    <3>1. toSend' = [i \in 1 .. Buffer |->
                       IF i <= Size THEN <<1, produced + i>> ELSE toSend[i]]
      BY <1>3 DEF Respond
    <3>2. \A i \in 1 .. Buffer : <<1, produced + i>> \in Octet /\ toSend[i] \in Octet
      BY <1>0, LoginAssumption DEF Octet
    <3> QED BY <3>1, <3>2
  <2>3. produced' \in Nat
    BY <1>0, <2>1, LoginAssumption
  <2>4. raced' \in BOOLEAN
    BY <1>3, Zenon DEF Respond
  <2>5. LoginTypeOK'
    BY <1>1, <2>1, <2>2, <2>3, <2>4 DEF Ordered, LoginTypeOK, Octet
  <2>6. CountersOrdered'
    BY <1>1, <1>2, <2>1 DEF Ordered, CountersOrdered
  <2> QED BY <1>2, <2>5, <2>6 DEF Ordered
<1>4. CASE MainStep
  <2>1. toSend' = toSend /\ produced' = produced /\ raced' = raced
    BY <1>4 DEF MainStep, LoadCount, StoreCount, MainPushCheck, MainPushCommit, ownVars,
                bufVars, mainVars
  <2>2. \/ main' = "store" /\ loaded' = count /\ count' = count /\ counted' = counted
        \/ main = "store" /\ main' = "push" /\ loaded' = loaded
           /\ count' = loaded + Size /\ counted' = counted + Size
        \/ main' \in {main, "listen"} /\ loaded' = loaded /\ count' = count
           /\ counted' = counted
    BY <1>4 DEF MainStep, LoadCount, StoreCount, MainPushCheck, MainPushCommit, ownVars,
                bufVars, mainVars
  <2>3. loaded' \in Nat /\ count' \in Nat /\ counted' \in Nat
    BY <1>0, <2>2, LoginAssumption
  <2>4. LoginTypeOK'
    BY <1>1, <2>1, <2>2, <2>3 DEF Ordered, LoginTypeOK
  <2>5. sent + Taken <= count /\ (main = "store" => count <= loaded)
    BY DEF Ordered, CountersOrdered
  <2>6. sent' + Taken' <= count'
    <3>1. sent + Taken <= count' /\ sent' + Taken' = sent + Taken
      BY <1>0, <1>1, <1>2, <2>2, <2>5, LoginAssumption
    <3> QED BY <3>1
  <2>7. main' = "store" => count' <= loaded'
    BY <1>0, <2>2, <2>5
  <2>8. CountersOrdered'
    BY <1>1, <2>6, <2>7 DEF Ordered, CountersOrdered
  <2> QED BY <1>2, <2>4, <2>8 DEF Ordered
<1> QED BY <1>3, <1>4

\* Every step keeps the counters in order.
LEMMA OrderedStep == Ordered /\ [LoginNext]_allVars => Ordered'
<1> SUFFICES ASSUME Ordered, [LoginNext]_allVars PROVE Ordered'
  OBVIOUS
<1>1. TypeOK'
  BY QueueStep, TypingStep DEF Ordered, LoginTypeOK
<1>2. CASE UNCHANGED allVars
  <2>1. /\ thread' = thread
        /\ main' = main /\ loaded' = loaded /\ produced' = produced /\ counted' = counted
        /\ toSend' = toSend /\ count' = count /\ sent' = sent /\ raced' = raced
        /\ callback' = callback /\ got' = got /\ received' = received
    BY <1>2 DEF allVars, vars, ownVars, mainVars, sendVars, bufVars
  <2>2. Taken' = Taken
    BY <2>1 DEF Taken
  <2>3. LoginTypeOK'
    BY <1>1, <2>1 DEF Ordered, LoginTypeOK
  <2> QED BY <2>1, <2>2, <2>3 DEF Ordered, InCallback, CountersOrdered
<1> QED BY <1>1, <1>2, MainOrdered, SendOrdered, CallbackOrdered, WorkerOrdered
        DEF LoginNext, WorkerStep

\* A response that is not too early: the one before was sent and the counters are 0.
LEMMA RespondStep ==
    ASSUME CalmInv, Respond, ~raced', Ordered'
    PROVE  CalmInv'
<1>0. /\ count \in Nat /\ sent \in Nat /\ produced \in Nat /\ Taken \in Nat
      /\ toSend \in [1 .. Buffer -> Octet]
      /\ received \in Seq(Octet) /\ Len(received) \in Nat
  BY SendTypes DEF CalmInv, Ordered
<1>1. /\ main = "listen" /\ main' = "load" /\ produced' = produced + Size
      /\ callback' = callback /\ got' = got /\ received' = received
      /\ count' = count /\ sent' = sent /\ loaded' = loaded /\ counted' = counted
      /\ count = 0 /\ ~(Len(received) < produced)
  BY DEF Respond, sendVars
<1>2. Len(received) = produced
  BY <1>0, <1>1 DEF CalmInv, BytesAgree
<1>3. sent = 0 /\ Taken = 0 /\ callback \notin {"again", "pushing"}
  BY <1>1 DEF CalmInv, CountersAgree
<1>4. \A i \in 1 .. Size : toSend'[i] = <<1, produced + i>>
  BY LoginAssumption DEF Respond
<1>5. UncountedAgrees'
  BY <1>0, <1>1, <1>2, <1>3, LoginAssumption DEF UncountedAgrees
<1>6. CountersAgree'
  BY <1>1, <1>3 DEF CountersAgree, Taken
<1>7. BytesAgree'
  <2>1. produced' - Size = produced /\ Size <= produced' /\ produced' <= Len(received) + Size
    BY <1>0, <1>1, <1>2, LoginAssumption
  <2>2. Len(received) <= produced'
    BY <1>0, <1>1, <1>2, LoginAssumption
  <2> QED BY <1>1, <1>4, <2>1, <2>2 DEF CalmInv, BytesAgree
<1> QED BY <1>5, <1>6, <1>7 DEF CalmInv

\* The other steps of the main thread.
LEMMA MainKeeps ==
    ASSUME CalmInv, MainStep, Ordered'
    PROVE  CalmInv'
<1>0. /\ loaded \in Nat /\ count \in Nat /\ sent \in Nat /\ produced \in Nat
      /\ Taken \in Nat /\ got \in Nat /\ counted \in Nat /\ Len(received) \in Nat
  BY SendTypes DEF CalmInv, Ordered
<1>1. /\ sent' = sent /\ produced' = produced /\ received' = received
      /\ toSend' = toSend /\ callback' = callback /\ got' = got
  BY DEF MainStep, LoadCount, StoreCount, MainPushCheck, MainPushCommit, ownVars, bufVars,
         mainVars, sendVars
<1>2. BytesAgree' /\ Taken' = Taken
  BY <1>1 DEF CalmInv, BytesAgree, Taken
<1>3. CASE LoadCount
  <2>1. main = "load" /\ main' = "store" /\ loaded' = count /\ count' = count
        /\ counted' = counted
    BY <1>3 DEF LoadCount, bufVars
  <2>3. UncountedAgrees' /\ CountersAgree'
    BY <1>1, <1>2, <2>1 DEF CalmInv, UncountedAgrees, CountersAgree
  <2> QED BY <1>2, <2>3 DEF CalmInv
<1>4. CASE StoreCount
  <2>1. main = "store" /\ main' = "push" /\ loaded' = loaded /\ count' = loaded + Size
        /\ counted' = counted + Size
    BY <1>4 DEF StoreCount
  <2>2. loaded = 0 /\ count = 0 /\ produced = Len(received) + Size /\ count' = Size
    BY <2>1, LoginAssumption DEF CalmInv, UncountedAgrees
  <2>4. sent = 0 /\ Taken = 0 /\ callback \notin {"again", "pushing"}
    BY <2>2 DEF CalmInv, CountersAgree
  <2>5. CountersAgree'
    <3>1. Size # 0 /\ Size > 0 /\ 0 + 0 <= Size /\ Size <= produced
          /\ produced + 0 + 0 = Len(received) + Size
      BY <1>0, <2>2, LoginAssumption
    <3>2. sent' = 0 /\ Taken' = 0 /\ count' = Size /\ 0 < Size
      BY <1>1, <1>2, <2>2, <2>4, <3>1, LoginAssumption
    <3> QED BY <1>1, <3>1, <3>2 DEF CountersAgree
  <2>6. UncountedAgrees'
    BY <2>1 DEF UncountedAgrees
  <2> QED BY <1>2, <2>5, <2>6 DEF CalmInv
<1>5. CASE MainPushCheck \/ MainPushCommit
  <2>1. main = "push" => main' \in {"push", "listen"}
    BY <1>5 DEF MainPushCheck, MainPushCommit, ownVars, mainVars
  <2>2. main' = main \/ main' = "listen"
    BY <1>5 DEF MainPushCheck, MainPushCommit, ownVars, mainVars
  <2>3. count' = count /\ loaded' = loaded /\ counted' = counted
    BY <1>5 DEF MainPushCheck, MainPushCommit, ownVars, mainVars, bufVars
  <2>5. UncountedAgrees' /\ CountersAgree'
    BY <1>1, <1>2, <2>2, <2>3 DEF CalmInv, UncountedAgrees, CountersAgree
  <2> QED BY <1>2, <2>5 DEF CalmInv
<1> QED BY <1>3, <1>4, <1>5 DEF MainStep

\* A sequence whose i-th byte is the i-th of the client's stream is that stream.
LEMMA ClientBytes ==
    ASSUME NEW s \in Seq(Octet), \A i \in 1 .. Len(s) : s[i] = <<1, i>>
    PROVE  s = Wire!Stream(1, Len(s))
<1>1. Len(s) \in Nat
  BY LenProperties
<1>2. Wire!Stream(1, Len(s)) \in [1 .. Len(s) -> Octet]
  BY <1>1 DEF Wire!Stream, Octet
<1>3. Wire!Stream(1, Len(s)) \in Seq(Octet) /\ Len(Wire!Stream(1, Len(s))) = Len(s)
  BY <1>1, <1>2
<1>4. \A i \in 1 .. Len(s) : Wire!Stream(1, Len(s))[i] = <<1, i>>
  BY DEF Wire!Stream
<1> QED BY <1>3, <1>4, SeqEqual

\* What net_send adds to the client's bytes: the next bytes of the response.
LEMMA NextBytes ==
    ASSUME CalmInv, NEW m \in 0 .. count - sent, callback = "send"
    PROVE  LET r == received \o Bytes(sent, m) IN
           /\ r \in Seq(Octet)
           /\ Len(r) = Len(received) + m
           /\ Len(r) <= produced
           /\ \A i \in 1 .. Len(r) : r[i] = <<1, i>>
<1> DEFINE p == Bytes(sent, m)
           r == received \o p
<1>0. /\ count \in Nat /\ sent \in Nat /\ produced \in Nat
      /\ toSend \in [1 .. Buffer -> Octet]
      /\ received \in Seq(Octet) /\ Len(received) \in Nat
  BY SendTypes DEF CalmInv, Ordered
<1>1. Taken = 0 /\ Len(received) <= produced
  BY DEF Taken, CalmInv, BytesAgree
<1>2. CASE count = 0
  <2>1. sent = 0 /\ m = 0
    BY <1>2 DEF CalmInv, CountersAgree
  <2>2. p = <<>>
    <3>1. p \in Seq(Octet) /\ Len(p) = 0
      BY <1>0, <2>1, BufferPart
    <3> HIDE DEF p
    <3> QED BY <3>1, EmptySeq
  <2>3. r = received
    BY <2>2, <1>0, ConcatEmptySeq
  <2> HIDE DEF r
  <2>4. \A i \in 1 .. Len(received) : received[i] = <<1, i>>
    BY DEF CalmInv, BytesAgree
  <2>5. /\ r \in Seq(Octet) /\ Len(r) = Len(received) + m /\ Len(r) <= produced
        /\ \A i \in 1 .. Len(r) : r[i] = <<1, i>>
    BY <2>1, <2>3, <2>4, <1>0, <1>1
  <2> QED BY <2>5 DEF r, p
<1>3. CASE count # 0
  <2>1. /\ count = Size /\ Size <= produced /\ sent < Size
        /\ produced + sent = Len(received) + Size
    BY <1>0, <1>1, <1>3 DEF CalmInv, CountersAgree
  <2>2. m \in Nat /\ sent + m <= Size /\ sent + m <= Buffer /\ produced # 0
    BY <1>0, <2>1, LoginAssumption
  <2>3. \A i \in 1 .. Size : toSend[i] = <<1, (produced - Size) + i>>
    BY <2>2 DEF CalmInv, BytesAgree
  <2>4. p \in Seq(Octet) /\ Len(p) = m /\ \A i \in 1 .. m : p[i] = toSend[sent + i]
    <3>1. \A i \in 1 .. m : sent + i <= Buffer
      BY <1>0, <2>2, LoginAssumption
    <3>2. /\ p \in Seq(Octet) /\ Len(p) = m
          /\ \A i \in 1 .. m : sent + i <= Buffer => p[i] = toSend[sent + i]
      BY <1>0, <2>2, BufferPart
    <3> QED BY <3>1, <3>2
  <2> HIDE DEF p
  <2>5. r \in Seq(Octet) /\ Len(r) = Len(received) + m
        /\ \A i \in 1 .. Len(r) :
             r[i] = IF i <= Len(received) THEN received[i] ELSE p[i - Len(received)]
    <3>1. p \in Seq(Octet) /\ received \in Seq(Octet)
      BY <1>0, <2>4
    <3>2. r \in Seq(Octet) /\ Len(r) = Len(received) + Len(p)
      BY <3>1, ConcatProperties
    <3>3. Len(r) = Len(received) + m /\ Len(r) = Len(received) + Len(p)
      BY <2>4, <3>2
    <3>4. \A i \in 1 .. Len(received) + Len(p) :
            r[i] = IF i <= Len(received) THEN received[i] ELSE p[i - Len(received)]
      BY <3>1, ConcatProperties
    <3> QED BY <3>2, <3>3, <3>4
  <2> HIDE DEF r
  <2>6. ASSUME NEW i \in 1 .. Len(r) PROVE r[i] = <<1, i>>
    <3>1. CASE i <= Len(received)
      BY <1>0, <2>5, <3>1 DEF CalmInv, BytesAgree
    <3>2. CASE i > Len(received)
      <4>1. i - Len(received) \in 1 .. m /\ sent + (i - Len(received)) \in 1 .. Size
        BY <1>0, <2>1, <2>2, <2>5, <3>2, LoginAssumption
      <4>2. r[i] = toSend[sent + (i - Len(received))]
        BY <1>0, <2>4, <2>5, <3>2, <4>1
      <4>3. (produced - Size) + (sent + (i - Len(received))) = i
        BY <1>0, <2>1, <4>1, LoginAssumption
      <4> QED BY <2>3, <4>1, <4>2, <4>3
    <3> QED BY <1>0, <2>5, <3>1, <3>2
  <2>7. Len(r) <= produced
    BY <1>0, <2>1, <2>2, <2>5, LoginAssumption
  <2> QED BY <2>5, <2>6, <2>7 DEF r, p
<1> QED BY <1>2, <1>3

\* net_send.
LEMMA SendKeeps ==
    ASSUME CalmInv, Send, Ordered'
    PROVE  CalmInv'
<1>0. /\ loaded \in Nat /\ count \in Nat /\ sent \in Nat /\ produced \in Nat
      /\ counted \in Nat /\ Len(received) \in Nat
  BY SendTypes DEF CalmInv, Ordered
<1>1. /\ callback = "send" /\ callback' = "add" /\ thread = "running"
      /\ thread' = thread /\ main' = main /\ loaded' = loaded
      /\ produced' = produced /\ counted' = counted
      /\ toSend' = toSend /\ count' = count /\ sent' = sent
  BY DEF Send, vars, mainVars, bufVars
<1>2. PICK m \in 0 .. count - sent :
        /\ received' = received \o Bytes(sent, m)
        /\ got' = m
  BY DEF Send
<1>3. m \in Nat
  BY <1>0
<1>4. /\ received' \in Seq(Octet)
      /\ Len(received') = Len(received) + m
      /\ Len(received') <= produced
      /\ \A i \in 1 .. Len(received') : received'[i] = <<1, i>>
  BY <1>1, <1>2, NextBytes
<1>5. Taken = 0 /\ Taken' = m
  BY <1>1, <1>2 DEF Taken
<1>6. count = 0 => m = 0
  BY <1>0, <1>1 DEF CalmInv, CountersAgree
<1>7. UncountedAgrees'
  BY <1>0, <1>1, <1>4, <1>6 DEF CalmInv, UncountedAgrees
<1>8. CountersAgree'
  <2>1. CASE count = 0
    BY <1>1, <1>5, <1>6, <2>1 DEF CalmInv, CountersAgree
  <2>2. CASE count # 0
    <3>1. /\ count = Size /\ Size <= produced
          /\ produced + sent + 0 = Len(received) + Size
      BY <1>1, <1>5, <2>2 DEF CalmInv, CountersAgree
    <3>2. sent + m <= Size /\ produced + sent + m = Len(received) + m + Size
      BY <1>0, <1>3, <3>1, LoginAssumption
    <3> QED BY <1>1, <1>4, <1>5, <2>2, <3>1, <3>2 DEF CountersAgree
  <2> QED BY <2>1, <2>2
<1>9. BytesAgree'
  <2>1. produced <= Len(received) + m + Size
    BY <1>0, <1>3, LoginAssumption DEF CalmInv, BytesAgree
  <2> QED BY <1>1, <1>4, <2>1 DEF CalmInv, BytesAgree
<1> QED BY <1>7, <1>8, <1>9 DEF CalmInv

\* The steps of the callback on the counters.
LEMMA CallbackKeeps ==
    ASSUME CalmInv, AddSent \/ TestSent \/ ZeroSent \/ ZeroCount, Ordered'
    PROVE  CalmInv'
<1>0. /\ loaded \in Nat /\ count \in Nat /\ sent \in Nat /\ produced \in Nat
      /\ got \in Nat /\ counted \in Nat /\ Len(received) \in Nat
  BY SendTypes DEF CalmInv, Ordered
<1>1. /\ thread = "running" /\ thread' = thread /\ main' = main /\ loaded' = loaded
      /\ produced' = produced /\ counted' = counted
      /\ toSend' = toSend /\ got' = got /\ received' = received
  BY DEF AddSent, TestSent, ZeroSent, ZeroCount, vars, mainVars, bufVars
<1>2. BytesAgree'
  BY <1>1 DEF CalmInv, BytesAgree
<1>3. /\ callback \in {"add", "test", "zero sent", "zero count"}
      /\ callback' \in {"test", "again", "zero sent", "zero count", "return"}
      /\ Taken' = 0
  BY DEF AddSent, TestSent, ZeroSent, ZeroCount, Taken
<1>4. sent' \in Nat /\ count' \in Nat /\ (count = 0 => count' = 0)
  <2>1. CASE AddSent
    BY <1>0, <2>1 DEF AddSent
  <2>2. CASE TestSent
    BY <1>0, <2>2 DEF TestSent, bufVars
  <2>3. CASE ZeroSent
    BY <1>0, <2>3 DEF ZeroSent
  <2>4. CASE ZeroCount
    BY <1>0, <2>4 DEF ZeroCount
  <2> QED BY <2>1, <2>2, <2>3, <2>4
<1>5. UncountedAgrees'
  BY <1>1, <1>4 DEF CalmInv, UncountedAgrees
<1>6. CountersAgree'
  <2>1. CASE AddSent
    <3>1. callback = "add" /\ callback' = "test" /\ Taken = got /\ sent' = sent + got
          /\ count' = count
      BY <2>1 DEF AddSent, Taken
    <3>2. sent + Taken = sent' /\ produced + sent + Taken = produced + sent'
          /\ sent' + 0 = sent' /\ produced + sent' + 0 = produced + sent'
      BY <1>0, <3>1
    <3>3. count = 0 => sent' = 0
      BY <3>1, <3>2 DEF CalmInv, CountersAgree
    <3> QED BY <1>1, <1>3, <3>1, <3>2, <3>3 DEF CalmInv, CountersAgree
  <2>2. CASE TestSent
    <3>1. /\ callback = "test" /\ Taken = 0 /\ sent' = sent /\ count' = count
          /\ callback' = IF sent < count THEN "again" ELSE "zero sent"
      BY <2>2 DEF TestSent, Taken, bufVars
    <3>2. CASE count = 0
      <4>1. sent = 0
        BY <3>2 DEF CalmInv, CountersAgree
      <4>2. ~(sent < count)
        BY <3>2, <4>1
      <4>3. callback' = "zero sent"
        BY <3>1, <4>2, Zenon
      <4> QED BY <1>3, <3>1, <3>2, <4>1, <4>3 DEF CountersAgree
    <3>3. CASE count # 0
      <4>1. count = Size /\ (callback' = "again" => sent < Size)
        BY <3>1, <3>3 DEF CalmInv, CountersAgree
      <4> QED BY <1>1, <1>3, <3>1, <3>3, <4>1 DEF CalmInv, CountersAgree
    <3> QED BY <3>2, <3>3
  <2>3. CASE ZeroSent
    <3>1. callback' = "zero count" /\ sent' = 0 /\ count' = count
      BY <2>3 DEF ZeroSent
    <3>2. 0 + 0 <= Size
      BY LoginAssumption
    <3> QED BY <1>1, <1>3, <3>1, <3>2 DEF CalmInv, CountersAgree
  <2>4. CASE ZeroCount
    <3>1. callback = "zero count" /\ callback' = "return" /\ count' = 0 /\ sent' = sent
      BY <2>4 DEF ZeroCount
    <3>2. sent = 0
      BY <3>1 DEF CalmInv, CountersAgree
    <3> QED BY <1>3, <3>1, <3>2 DEF CountersAgree
  <2> QED BY <2>1, <2>2, <2>3, <2>4
<1> QED BY <1>2, <1>5, <1>6 DEF CalmInv

\* The steps of the worker around the callback, and its wpush.
LEMMA WorkerKeeps ==
    ASSUME CalmInv, Ordered',
           WorkerWaits \/ WorkerTakes \/ WorkerReturns \/ PushAgainCheck \/ PushAgainCommit
    PROVE  CalmInv'
<1>1. /\ main' = main /\ loaded' = loaded /\ produced' = produced /\ counted' = counted
      /\ toSend' = toSend /\ count' = count /\ sent' = sent
      /\ got' = got /\ received' = received
  BY DEF WorkerWaits, WorkerTakes, WorkerReturns, PushAgainCheck, PushAgainCommit,
         ownVars, mainVars, bufVars, sendVars
<1>2. CallbackMoves
  <2>1. CASE WorkerTakes
    <3>1. thread = "signalled" /\ thread' = "running" /\ callback' = "send"
      BY <2>1 DEF WorkerTakes, Take
    <3> QED BY <3>1 DEF CalmInv, Ordered, InCallback, CallbackMoves
  <2>2. CASE PushAgainCheck \/ PushAgainCommit
    BY <2>2 DEF PushAgainCheck, PushAgainCommit, CallbackMoves
  <2>3. CASE WorkerWaits \/ WorkerReturns
    BY <2>3 DEF WorkerWaits, WorkerReturns, ownVars, sendVars, CallbackMoves
  <2> QED BY <2>1, <2>2, <2>3
<1>3. Taken' = Taken
  BY <1>1, <1>2 DEF Taken, CallbackMoves
<1>4. UncountedAgrees' /\ CountersAgree' /\ BytesAgree'
  BY <1>1, <1>2, <1>3 DEF CalmInv, UncountedAgrees, CountersAgree, BytesAgree, CallbackMoves
<1> QED BY <1>4 DEF CalmInv

\* Every step keeps the invariant.
LEMMA SendStep == SendInv /\ [LoginNext]_allVars => SendInv'
<1> SUFFICES ASSUME SendInv, [LoginNext]_allVars PROVE SendInv'
  OBVIOUS
<1>1. Ordered'
  BY OrderedStep DEF SendInv
<1>2. ASSUME ~raced' PROVE CalmInv'
  <2>1. ~raced
    BY <1>2 DEF LoginNext, MainStep, WorkerStep, Respond, LoadCount, StoreCount,
                MainPushCheck, MainPushCommit, WorkerWaits, WorkerTakes, Send, AddSent,
                TestSent, PushAgainCheck, PushAgainCommit, ZeroSent, ZeroCount,
                WorkerReturns, allVars, ownVars, mainVars
  <2>2. CalmInv
    BY <2>1 DEF SendInv
  <2>3. CASE UNCHANGED allVars
    <3>1. /\ main' = main /\ loaded' = loaded /\ produced' = produced
          /\ toSend' = toSend /\ count' = count /\ sent' = sent
          /\ callback' = callback /\ got' = got /\ received' = received
      BY <2>3 DEF allVars, ownVars, mainVars, sendVars, bufVars
    <3>2. Taken' = Taken
      BY <3>1 DEF Taken
    <3> QED BY <1>1, <2>2, <3>1, <3>2
            DEF CalmInv, UncountedAgrees, CountersAgree, BytesAgree
  <2> QED BY <1>1, <1>2, <2>2, <2>3, RespondStep, MainKeeps, SendKeeps, CallbackKeeps,
             WorkerKeeps
          DEF LoginNext, WorkerStep
<1> QED BY <1>1, <1>2 DEF SendInv

\* The login server's counters: "to_send_count - sent" never wraps around, whatever
\* the client does, and the worker never reads past the buffer until a response is
\* made before the last one was sent and its counters were reset.
THEOREM WithinBuffer == LoginSpec => []SendWithinBuffer
<1>1. SendInv => SendWithinBuffer
  <2> SUFFICES ASSUME SendInv PROVE SendWithinBuffer
    OBVIOUS
  <2>1. count \in Nat /\ sent \in Nat /\ Taken \in Nat
    BY SendTypes DEF SendInv, Ordered
  <2>2. sent <= count
    <3>1. sent + Taken <= count
      BY DEF SendInv, Ordered, CountersOrdered
    <3> QED BY <2>1, <3>1
  <2>3. raced \/ count <= Buffer
    <3>1. raced \/ count = 0 \/ count = Size
      BY DEF SendInv, CalmInv, CountersAgree
    <3> QED BY <3>1, LoginAssumption
  <2> QED BY <2>2, <2>3 DEF SendInv, Ordered, SendWithinBuffer
<1> QED BY <1>1, SendInit, SendStep, PTL DEF LoginSpec

\* A step hands the client the next bytes of its responses, or makes some.
LEMMA WireStep ==
    SendInv /\ SendInv' /\ [LoginNext]_allVars =>
        [Wire!Next \/ raced']_<<[k \in {1} |-> produced], [k \in {1} |-> received]>>
<1> SUFFICES ASSUME SendInv, SendInv', [LoginNext]_allVars, ~raced'
             PROVE  [Wire!Next]_<<[k \in {1} |-> produced], [k \in {1} |-> received]>>
  OBVIOUS
<1>0. /\ produced \in Nat /\ produced' \in Nat
      /\ received \in Seq(Octet) /\ Len(received) \in Nat
      /\ received' \in Seq(Octet) /\ Len(received') \in Nat
  <2>1. received' \in Seq(Octet) /\ produced' \in Nat
    BY DEF SendInv, Ordered, LoginTypeOK, Octet
  <2> QED BY <2>1, SendTypes, LenProperties DEF SendInv, Ordered
<1>1. CASE Respond
  <2>1. produced' = produced + Size /\ received' = received
    BY <1>1 DEF Respond, sendVars
  <2>2. produced' >= produced
    BY <1>0, <2>1, LoginAssumption
  <2>3. Wire!Produce
    BY <1>0, <2>1, <2>2 DEF Wire!Produce
  <2> QED BY <2>3 DEF Wire!Next
<1>2. CASE Send
  <2>1. produced' = produced /\ callback = "send" /\ raced' = raced
    BY <1>2 DEF Send, mainVars
  <2>2. PICK m \in 0 .. count - sent :
          received' = received \o Bytes(sent, m)
    BY <1>2 DEF Send
  <2>3. m \in Nat /\ Len(received') = Len(received) + m /\ Len(received') <= produced
        /\ \A i \in 1 .. Len(received') : received'[i] = <<1, i>>
    <3>1. m \in Nat /\ CalmInv
      BY <2>1, SendTypes DEF SendInv, Ordered
    <3> QED BY <2>1, <2>2, <3>1, NextBytes
  <2>4. PICK n \in Nat : n = Len(received')
    BY <1>0
  <2>5. received' = Wire!Stream(1, n)
    BY <1>0, <2>3, <2>4, ClientBytes
  <2>6. n \in Len(received) .. produced
    BY <1>0, <2>3, <2>4
  <2>7. [k \in {1} |-> received'] =
          [[k \in {1} |-> received] EXCEPT ![1] = Wire!Stream(1, n)]
    BY <2>5
  <2>8. Wire!Receive(1)
    BY <2>1, <2>6, <2>7 DEF Wire!Receive
  <2> QED BY <2>8 DEF Wire!Next
<1>3. CASE ~Respond /\ ~Send
  <2>1. produced' = produced /\ received' = received
    BY <1>3 DEF LoginNext, MainStep, WorkerStep, LoadCount, StoreCount, MainPushCheck,
                MainPushCommit, WorkerWaits, WorkerTakes, AddSent, TestSent,
                PushAgainCheck, PushAgainCommit, ZeroSent, ZeroCount, WorkerReturns,
                allVars, ownVars, mainVars, sendVars
  <2> QED BY <2>1
<1> QED BY <1>1, <1>2, <1>3

\* The client gets the stream of its responses, whatever the socket takes, whichever
\* signals the worker hears and however its steps and those of the main thread fall,
\* until a response is made before the last one was sent and its counters were reset.
THEOREM LoginStream == LoginSpec => StreamUntilRaced
<1>1. LoginInit => Wire!Init
  BY DEF LoginInit, Wire!Init
<1>2. SendInv /\ SendInv' /\ [LoginNext]_allVars =>
        [Wire!Next \/ raced']_<<[k \in {1} |-> produced], [k \in {1} |-> received]>>
  BY WireStep
<1>3. SendInv /\ [LoginNext]_allVars => SendInv'
  BY SendStep
<1> QED BY <1>1, <1>2, <1>3, SendInit, PTL DEF LoginSpec, StreamUntilRaced
=============================================================================
