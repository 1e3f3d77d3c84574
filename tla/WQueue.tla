------------------------------- MODULE WQueue -------------------------------
(***************************************************************************)
(* The work queue of src/wqueue.c (Linux branch): an array of work items   *)
(* and one worker thread that sleeps on a condition variable, takes the    *)
(* oldest item and hands it to a callback outside the lock.                *)
(*                                                                         *)
(* A critical section of the code is one step; what happens outside the    *)
(* lock (the test of "closed" at the start of wpush, the callback) is a    *)
(* step of its own.  The worker calls pthread_cond_wait without a          *)
(* predicate loop, so the model keeps the wake-ups apart from the items:   *)
(* a signal with nobody asleep is lost, and a sleep may end spuriously.    *)
(*                                                                         *)
(* The worker destroys the mutex and the condition after it has let go of  *)
(* the lock, and wstart clears "closed" before it makes them anew, both    *)
(* without a lock: the two pairs of calls are a step each, and whoever     *)
(* comes between the calls of a pair fares as if it came to what is still  *)
(* destroyed.                                                              *)
(*                                                                         *)
(* Where the code would leave the array, use a destroyed mutex or start a  *)
(* second thread over the first, "fault" names what happened and the       *)
(* model stops: the C program has no defined behaviour from there on.      *)
(***************************************************************************)
EXTENDS Naturals, Sequences

CONSTANTS Pusher,       \* threads, other than the worker, that call wpush
          Worker,       \* the worker thread: its callback may call wpush too
          Closer,       \* the pusher that also calls wclose and wstart
          Work,         \* the work items (connections, in both servers)
          None,         \* no push in progress
          Capacity,     \* length of the work array: 256 in the code
          MaxPush,      \* bound: pushes that reach the array
          MaxSpurious,  \* bound: spurious wake-ups
          MaxStart      \* bound: calls of wstart after the first

ASSUME ThreadAssumption == Closer \in Pusher /\ Worker \notin Pusher
ASSUME WorkAssumption == None \notin Work
ASSUME BoundAssumption ==
    /\ Capacity \in Nat \ {0}
    /\ MaxPush \in Nat /\ MaxSpurious \in Nat /\ MaxStart \in Nat

VARIABLES
    work,      \* work[0 .. wcount-1]
    closed,    \* the closed flag
    starting,  \* the closer is in wstart, before the mutex is made
    thread,    \* where the worker thread is
    pushing,   \* per thread: the item of a wpush that passed the closed test
    fault,     \* what undefined behaviour was reached, or "none"
    starts,    \* calls of wstart after the first
    pushed,    \* history: items written to the array, in order
    handled,   \* history: items handed to the callback, in order
    lost,      \* history: signals sent while the worker was not asleep
    spurious   \* history: spurious wake-ups

vars == <<work, closed, starting, thread, pushing, fault, starts,
          pushed, handled, lost, spurious>>

Thread == Pusher \cup {Worker}

\* "check": about to lock and test closed; "waiting": asleep in cond_wait;
\* "signalled": woken, about to get the lock back; "running": in the callback;
\* "exiting": has seen closed and unlocked; "exited": the mutex is destroyed.
ThreadState == {"check", "waiting", "signalled", "running", "exiting", "exited"}

Fault == {"none", "underflow", "overrun", "destroyed", "restarted"}

Init ==
    /\ work = <<>>
    /\ closed = FALSE
    /\ starting = FALSE
    /\ thread = "check"
    /\ pushing = [t \in Thread |-> None]
    /\ fault = "none"
    /\ starts = 0
    /\ pushed = <<>>
    /\ handled = <<>>
    /\ lost = 0
    /\ spurious = 0

-----------------------------------------------------------------------------
(* The worker thread *)

\* (mutant) the closed flag is never looked at
CheckNothing ==
    /\ fault = "none"
    /\ thread = "check"
    /\ thread' = "waiting"
    /\ UNCHANGED <<work, closed, starting, pushing, fault, starts,
                   pushed, handled, lost, spurious>>

\* Locks, and leaves the loop when the queue is closed; otherwise goes to sleep at
\* once, whatever the array holds.
CheckClosed ==
    /\ fault = "none"
    /\ thread = "check"
    /\ thread' = IF closed THEN "exiting" ELSE "waiting"
    /\ UNCHANGED <<work, closed, starting, pushing, fault, starts,
                   pushed, handled, lost, spurious>>

\* Destroys the condition and the mutex, and returns.
Destroy ==
    /\ fault = "none"
    /\ thread = "exiting"
    /\ thread' = "exited"
    /\ UNCHANGED <<work, closed, starting, pushing, fault, starts,
                   pushed, handled, lost, spurious>>

\* (mutant) takes work[wcount - 1] instead of work[0]
TakeNewest ==
    /\ fault = "none"
    /\ thread = "signalled"
    /\ work # <<>>
    /\ thread' = "running"
    /\ work' = SubSeq(work, 1, Len(work) - 1)
    /\ handled' = Append(handled, work[Len(work)])
    /\ UNCHANGED <<closed, starting, pushing, fault, starts, pushed, lost, spurious>>

\* Wakes up holding the lock, takes the oldest item and shifts the others.
Take ==
    /\ fault = "none"
    /\ thread = "signalled"
    /\ work # <<>>
    /\ thread' = "running"
    /\ work' = Tail(work)
    /\ handled' = Append(handled, Head(work))
    /\ UNCHANGED <<closed, starting, pushing, fault, starts, pushed, lost, spurious>>

\* Wakes up with nothing queued: work[0] is stale and wcount-- wraps around.
TakeNothing ==
    /\ fault = "none"
    /\ thread = "signalled"
    /\ work = <<>>
    /\ fault' = "underflow"
    /\ UNCHANGED <<work, closed, starting, thread, pushing, starts,
                   pushed, handled, lost, spurious>>

\* (mutant) goes for the next item without a wait
ReturnWithoutWait ==
    /\ fault = "none"
    /\ thread = "running"
    /\ pushing[Worker] = None
    /\ thread' = "signalled"
    /\ UNCHANGED <<work, closed, starting, pushing, fault, starts,
                   pushed, handled, lost, spurious>>

\* The callback returns (its own wpush, if any, has ended).
Return ==
    /\ fault = "none"
    /\ thread = "running"
    /\ pushing[Worker] = None
    /\ thread' = "check"
    /\ UNCHANGED <<work, closed, starting, pushing, fault, starts,
                   pushed, handled, lost, spurious>>

\* POSIX allows pthread_cond_wait to return without a signal.
SpuriousWakeup ==
    /\ fault = "none"
    /\ thread = "waiting"
    /\ spurious < MaxSpurious
    /\ thread' = "signalled"
    /\ spurious' = spurious + 1
    /\ UNCHANGED <<work, closed, starting, pushing, fault, starts,
                   pushed, handled, lost>>

-----------------------------------------------------------------------------
(* wpush *)

\* The test of closed, made before the lock is taken.
PushCheck(t, w) ==
    /\ fault = "none"
    /\ pushing[t] = None
    /\ t = Worker => thread = "running"
    /\ t = Closer => ~starting
    /\ ~closed
    /\ Len(pushed) < MaxPush
    /\ pushing' = [pushing EXCEPT ![t] = w]
    /\ UNCHANGED <<work, closed, starting, thread, fault, starts,
                   pushed, handled, lost, spurious>>

\* (mutant) the signal is not sent
NoSignal == UNCHANGED <<thread, lost>>

\* What pthread_cond_signal does: it wakes the worker if it is asleep.
Signal ==
    IF thread = "waiting"
    THEN thread' = "signalled" /\ lost' = lost
    ELSE thread' = thread /\ lost' = lost + 1

\* The critical section: write the item, signal, unlock.
PushCommit(t) ==
    /\ fault = "none"
    /\ pushing[t] # None
    /\ thread # "exited"
    /\ Len(work) < Capacity
    /\ work' = Append(work, pushing[t])
    /\ pushed' = Append(pushed, pushing[t])
    /\ pushing' = [pushing EXCEPT ![t] = None]
    /\ Signal
    /\ UNCHANGED <<closed, starting, fault, starts, handled, spurious>>

\* The array is full: wcount++ is used as an index past its end.
PushOverrun(t) ==
    /\ fault = "none"
    /\ pushing[t] # None
    /\ thread # "exited"
    /\ Len(work) >= Capacity
    /\ fault' = "overrun"
    /\ UNCHANGED <<work, closed, starting, thread, pushing, starts,
                   pushed, handled, lost, spurious>>

\* The mutex is destroyed: the worker exited between the two halves of wpush, or
\* wstart has cleared closed and not made the new mutex yet.
PushDestroyed(t) ==
    /\ fault = "none"
    /\ pushing[t] # None
    /\ thread = "exited"
    /\ fault' = "destroyed"
    /\ UNCHANGED <<work, closed, starting, thread, pushing, starts,
                   pushed, handled, lost, spurious>>

-----------------------------------------------------------------------------
(* wclose and wstart *)

\* wclose sets the flag and wakes nobody.
Close ==
    /\ fault = "none"
    /\ pushing[Closer] = None /\ ~starting
    /\ ~closed
    /\ closed' = TRUE
    /\ UNCHANGED <<work, starting, thread, pushing, fault, starts,
                   pushed, handled, lost, spurious>>

\* wstart on a closed queue (the game server does this after a reload) opens it
\* first; the array and wcount are left as they are.
StartOpen ==
    /\ fault = "none"
    /\ pushing[Closer] = None /\ ~starting
    /\ closed
    /\ starts < MaxStart
    /\ starts' = starts + 1
    /\ closed' = FALSE /\ starting' = TRUE
    /\ UNCHANGED <<work, thread, pushing, fault, pushed, handled, lost, spurious>>

\* Then it makes the mutex and the condition and starts a thread.  To make a mutex
\* that the old worker has not destroyed yet is undefined.
StartThread ==
    /\ fault = "none"
    /\ starting
    /\ IF thread = "exited"
       THEN starting' = FALSE /\ thread' = "check" /\ fault' = fault
       ELSE fault' = "restarted" /\ UNCHANGED <<starting, thread>>
    /\ UNCHANGED <<work, closed, pushing, starts, pushed, handled, lost, spurious>>

-----------------------------------------------------------------------------

Push(t) ==
    \/ \E w \in Work : PushCheck(t, w)
    \/ PushCommit(t)
    \/ PushOverrun(t)
    \/ PushDestroyed(t)

Next ==
    \/ CheckClosed
    \/ Destroy
    \/ Take
    \/ TakeNothing
    \/ Return
    \/ SpuriousWakeup
    \/ \E t \in Thread : Push(t)
    \/ Close
    \/ StartOpen
    \/ StartThread

Spec == Init /\ [][Next]_vars

\* Threads that can run do: the worker's steps and the second halves of a wpush and
\* of wstart.  Nobody has to push, close, start or be woken spuriously.
Fairness ==
    /\ WF_vars(CheckClosed \/ Destroy \/ Take \/ TakeNothing \/ Return)
    /\ WF_vars(StartThread)
    /\ \A t \in Thread : WF_vars(PushCommit(t) \/ PushOverrun(t) \/ PushDestroyed(t))

FairSpec == Spec /\ Fairness

-----------------------------------------------------------------------------
(* Properties *)

\* The variables stay in their types: wcount never exceeds the array.
TypeOK ==
    /\ work \in Seq(Work) /\ Len(work) <= Capacity
    /\ closed \in BOOLEAN /\ starting \in BOOLEAN
    /\ thread \in ThreadState
    /\ pushing \in [Thread -> Work \cup {None}]
    /\ fault \in Fault
    /\ starts \in Nat
    /\ pushed \in Seq(Work)
    /\ handled \in Seq(Work)
    /\ lost \in Nat
    /\ spurious \in Nat

\* What was pushed is what the callback was given followed by what the array
\* still holds: pushes of several threads, wake-ups with nothing to do, a close
\* and a new wstart neither drop, repeat nor reorder an item.
FifoDelivery == pushed = handled \o work

\* The array holds one item for every signal that found the worker awake, one
\* more while a wake-up is being answered, and one fewer for every spurious
\* wake-up: a lost signal leaves its item behind for good (wqueue.c:54, 110).
BacklogIsLostSignals ==
    Len(work) + spurious = lost + (IF thread = "signalled" THEN 1 ELSE 0)

\* Which histories lead to undefined behaviour.  wcount wraps around only after
\* more spurious wake-ups than lost signals; the array overflows only when lost
\* signals fill it; a destroyed mutex is used only by a wpush of another thread than
\* the worker, in a queue that is closed or in wstart; and wstart makes a mutex anew
\* under a worker that is not gone only while it holds the queue open, so that the
\* worker may have gone back to sleep in it.
FaultCause ==
    /\ fault = "underflow" => spurious > lost
    /\ fault = "overrun" => lost + 1 >= Capacity + spurious
    /\ fault = "destroyed" =>
         /\ thread = "exited" /\ (closed \/ starting)
         /\ \E t \in Pusher : pushing[t] # None
    /\ fault = "restarted" => starting /\ thread # "exited"

\* The worker's own callback never finds the mutex destroyed: a thread that
\* has exited is not in wpush.
WorkerPushInCallback == pushing[Worker] # None => thread = "running"

\* The queue is a channel: it implements WorkChannel step by step.
Channel == INSTANCE WorkChannel WITH sent <- pushed, received <- handled
ImplementsChannel == Channel!Spec

\* Every item reaches the callback, except as many as signals were lost.
AllButLostDelivered ==
    \A n \in 1 .. MaxPush :
        Len(pushed) >= n ~> (Len(handled) + lost >= n \/ fault # "none")

\* A close that finds the worker in its callback stops it, and a wstart that is too
\* early for that is a fault: the two never both go on.  (A close that finds the
\* worker asleep does not: nobody signals, README of the repository, "todo".)
CloseStopsBusyWorker ==
    (closed /\ thread = "running") ~> (thread = "exited" \/ fault # "none")
=============================================================================
