------------------------------ MODULE LoginSend ------------------------------
(***************************************************************************)
(* How the responses of the login server reach a client                    *)
(* (src/login_server.c): the main thread writes a response at the start of *)
(* the connection's buffer and adds its size to to_send_count; the worker  *)
(* of the queue sends the buffer and resets the counters.  Nothing guards  *)
(* the buffer or the counters, so every access to them is a step, and      *)
(* "to_send_count += size" is a load and a store.                          *)
(*                                                                         *)
(* One connection and one client, over the whole of WQueue: what the       *)
(* worker does depends on which signals it hears.                          *)
(***************************************************************************)
EXTENDS WQueue

CONSTANTS Main,     \* the main thread
          Conn,     \* the connection
          Size,     \* length of a response
          Buffer,   \* length of to_send: 1024
          MaxAsk    \* bound: responses the client asks for

\* Every response fits into the buffer: the longest lists 8 servers of 22 bytes each.
ASSUME LoginAssumption ==
    /\ Main = Closer /\ Conn \in Work
    /\ Size \in Nat \ {0} /\ Buffer \in Nat /\ Size <= Buffer
    /\ MaxAsk \in Nat

VARIABLES
    main,      \* where the main thread is
    loaded,    \* its copy of to_send_count
    toSend,    \* the buffer
    count,     \* to_send_count
    sent,      \* sent
    callback,  \* where send_responses is
    got,       \* what net_send returned to it
    produced,  \* history: bytes of all responses made
    counted,   \* history: bytes added to to_send_count
    received,  \* history: bytes handed to the socket
    raced      \* history: a response was made before the last one was sent and
               \* its counters were reset

mainVars == <<main, loaded, produced, counted, raced>>
sendVars == <<callback, got, received>>
bufVars == <<toSend, count, sent>>
ownVars == <<mainVars, sendVars, bufVars>>
allVars == <<vars, ownVars>>

LoginInit ==
    /\ Init
    /\ main = "listen" /\ loaded = 0
    /\ toSend = [i \in 1 .. Buffer |-> <<1, 0>>]
    /\ count = 0 /\ sent = 0
    /\ callback = "enter" /\ got = 0
    /\ produced = 0 /\ counted = 0
    /\ received = <<>> /\ raced = FALSE

-----------------------------------------------------------------------------
(* The main thread: handle_event and the handlers it calls *)

\* The client connects or sends a request, whatever it has of the last response.
\* The new one is written at the start of the buffer.
Respond ==
    /\ main = "listen"
    /\ produced < MaxAsk * Size
    /\ raced' = (raced \/ count # 0 \/ Len(received) < produced)
    /\ toSend' = [i \in 1 .. Buffer |-> IF i <= Size THEN <<1, produced + i>> ELSE toSend[i]]
    /\ produced' = produced + Size
    /\ main' = "load"
    /\ UNCHANGED <<vars, loaded, counted, count, sent, sendVars>>

LoadCount ==
    /\ main = "load"
    /\ loaded' = count
    /\ main' = "store"
    /\ UNCHANGED <<vars, produced, counted, raced, bufVars, sendVars>>

StoreCount ==
    /\ main = "store"
    /\ count' = loaded + Size
    /\ counted' = counted + Size
    /\ main' = "push"
    /\ UNCHANGED <<vars, loaded, produced, raced, toSend, sent, sendVars>>

MainPushCheck ==
    /\ main = "push"
    /\ PushCheck(Main, Conn)
    /\ UNCHANGED ownVars

MainPushCommit ==
    /\ PushCommit(Main) \/ PushOverrun(Main)
    /\ main' = "listen"
    /\ UNCHANGED <<loaded, produced, counted, raced, bufVars, sendVars>>

-----------------------------------------------------------------------------
(* The worker: wqueue_thread, and send_responses in its callback *)

WorkerWaits ==
    /\ CheckClosed \/ TakeNothing \/ SpuriousWakeup
    /\ UNCHANGED ownVars

WorkerTakes ==
    /\ Take
    /\ callback' = "send"
    /\ UNCHANGED <<got, received, mainVars, bufVars>>

\* The m bytes that follow the first n of the buffer; past its end is other memory.
Bytes(n, m) ==
    [i \in 1 .. m |-> IF n + i <= Buffer THEN toSend[n + i] ELSE <<1, 0>>]

\* (mutant) sends the buffer from its start
SendFromStart ==
    /\ thread = "running" /\ callback = "send"
    /\ \E m \in 0 .. count - sent :
         /\ received' = received \o Bytes(0, m)
         /\ got' = m
    /\ callback' = "add"
    /\ UNCHANGED <<vars, mainVars, bufVars>>

\* net_send on the rest of the buffer: the socket takes some or all of it.
Send ==
    /\ thread = "running" /\ callback = "send"
    /\ \E m \in 0 .. count - sent :
         /\ received' = received \o Bytes(sent, m)
         /\ got' = m
    /\ callback' = "add"
    /\ UNCHANGED <<vars, mainVars, bufVars>>

AddSent ==
    /\ thread = "running" /\ callback = "add"
    /\ sent' = sent + got
    /\ callback' = "test"
    /\ UNCHANGED <<vars, mainVars, got, received, toSend, count>>

TestSent ==
    /\ thread = "running" /\ callback = "test"
    /\ callback' = IF sent < count THEN "again" ELSE "zero sent"
    /\ UNCHANGED <<vars, mainVars, got, received, bufVars>>

\* Not all of it was sent: the connection goes back to the queue.
PushAgainCheck ==
    /\ callback = "again"
    /\ PushCheck(Worker, Conn)
    /\ callback' = "pushing"
    /\ UNCHANGED <<mainVars, got, received, bufVars>>

PushAgainCommit ==
    /\ callback = "pushing"
    /\ PushCommit(Worker) \/ PushOverrun(Worker)
    /\ callback' = "return"
    /\ UNCHANGED <<mainVars, got, received, bufVars>>

\* (mutant) leaves the counter of sent bytes as it is
ZeroSentForgotten ==
    /\ thread = "running" /\ callback = "zero sent"
    /\ callback' = "zero count"
    /\ UNCHANGED <<vars, mainVars, got, received, bufVars>>

ZeroSent ==
    /\ thread = "running" /\ callback = "zero sent"
    /\ sent' = 0
    /\ callback' = "zero count"
    /\ UNCHANGED <<vars, mainVars, got, received, toSend, count>>

ZeroCount ==
    /\ thread = "running" /\ callback = "zero count"
    /\ count' = 0
    /\ callback' = "return"
    /\ UNCHANGED <<vars, mainVars, got, received, toSend, sent>>

WorkerReturns ==
    /\ callback = "return"
    /\ Return
    /\ UNCHANGED ownVars

-----------------------------------------------------------------------------

MainStep == LoadCount \/ StoreCount \/ MainPushCheck \/ MainPushCommit

WorkerStep ==
    \/ WorkerWaits \/ WorkerTakes
    \/ Send \/ AddSent \/ TestSent
    \/ PushAgainCheck \/ PushAgainCommit
    \/ ZeroSent \/ ZeroCount \/ WorkerReturns

LoginNext == Respond \/ MainStep \/ WorkerStep

LoginSpec == LoginInit /\ [][LoginNext]_allVars

-----------------------------------------------------------------------------
(* Properties *)

LoginTypeOK ==
    /\ TypeOK
    /\ main \in {"listen", "load", "store", "push"}
    /\ callback \in {"enter", "send", "add", "test", "again", "pushing",
                     "zero sent", "zero count", "return"}
    /\ toSend \in [1 .. Buffer -> {1} \X Nat]
    /\ {loaded, count, sent, got, produced, counted} \subseteq Nat
    /\ received \in Seq({1} \X Nat) /\ raced \in BOOLEAN

\* "to_send_count - sent" never wraps around, whatever the client does; and it never
\* reaches past the buffer until a response is made before the last one was sent and
\* its counters were reset: then the counters of the two are added up.
SendWithinBuffer ==
    /\ LoginTypeOK
    /\ sent <= count
    /\ raced \/ count <= Buffer

\* The client gets the bytes of its responses, each once and in order, until a
\* response is made before the last one was sent and its counters were reset.
Wire == INSTANCE ByteStream
          WITH Client <- {1}, produced <- [k \in {1} |-> produced],
               received <- [k \in {1} |-> received]
StreamUntilRaced ==
    /\ Wire!Init
    /\ [][Wire!Next \/ raced']_<<[k \in {1} |-> produced], [k \in {1} |-> received]>>

\* What the comment at login_server.c:803 says, "all data has been sent, reset
\* the counters": when they are reset, every byte counted has been sent.
ResetWhenSent ==
    [][count # 0 /\ count' = 0 => Len(received) >= counted]_allVars
=============================================================================
