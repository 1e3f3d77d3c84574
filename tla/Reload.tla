------------------------------- MODULE Reload -------------------------------
(***************************************************************************)
(* How the game server replaces its library while it runs: library_load    *)
(* (src/library.c, Linux branch), the loop of handle_net_event             *)
(* (src/game_server.c) that calls it before every event, and what the      *)
(* library does about its threads before and after (on_pevent in           *)
(* src/game_server_lib.c).                                                 *)
(*                                                                         *)
(* A copy of the library is numbered by its dlopen; its timer and its      *)
(* worker run the code of that copy.  Cancelling the timer takes effect    *)
(* where it sleeps or writes a trace; nobody waits for that, nor for the   *)
(* worker, which only wakes for a push.  A thread that runs on in a copy   *)
(* that was closed is a fault, and the model stops there.  The queue is    *)
(* left to WQueue: here a push only wakes a waiting worker, and since      *)
(* wstart sets the condition up again under those that wait, of any copy.  *)
(***************************************************************************)
EXTENDS Naturals

CONSTANTS Retries,      \* tries of handle_net_event to load the library: 5
          MaxVersion,   \* bound: versions of the file
          MaxTime       \* bound: the time at which the clock stops

ASSUME ReloadAssumption ==
    /\ Retries \in Nat \ {0}
    /\ MaxVersion \in Nat \ {0} /\ MaxTime \in Nat

\* Each dlopen but the first follows a later st_mtime, so the clock bounds them.
Copy == 1 .. (MaxTime + 1)

VARIABLES
    file,       \* game_server.so: its version, whether it is there and whole, st_mtime
    now,        \* the clock, in the seconds of st_mtime
    handle,     \* library.handle: the version that is loaded, or 0
    loadedTime, \* library.loaded_time
    flag,       \* library.reload_on_next_call
    statted,    \* st_mtime as the library_load under way read it
    copy,       \* number of dlopens so far; the last is loaded, if handle is
    main,       \* where the main thread is
    tries,      \* the loop counter of handle_net_event
    mutex,      \* state->lock: "free", "destroyed" or the kind of thread that holds it
    closed,     \* send_responses_worker.closed
    timer,      \* where the timer thread of a copy is
    cancelled,  \* copies whose timer was cancelled
    worker,     \* where the worker thread of a copy is
    fault,      \* the thread that ran code of a closed copy, or "none"
    current,    \* history: the last whole version of the file that a stat met
    awake       \* history: copies closed while their timer was up

fileVars == <<file, now>>
libVars == <<handle, loadedTime, flag, copy, statted, current, awake>>
mainVars == <<main, tries>>
threadVars == <<timer, cancelled, worker>>
vars == <<fileVars, libVars, mainVars, mutex, closed, threadVars, fault>>

\* epoll_wait; the two calls of library_load and the dlopen in each; the reload
\* handlers' parts; the sleep before another try; on_pevent; the failed assertion.
MainPlace == {"epoll", "first", "firstOpen", "close", "cancel", "destroy", "second",
              "secondOpen", "timer", "worker", "sleep", "lock", "inside", "down"}

\* main() loaded the library and ran on_init, whose init_threads started both threads.
Init ==
    /\ file = [version |-> 1, there |-> TRUE, whole |-> TRUE, mtime |-> 0]
    /\ now = 0
    /\ handle = 1 /\ loadedTime = 0 /\ flag = FALSE /\ copy = 1
    /\ statted = 0 /\ current = 1 /\ awake = {}
    /\ main = "epoll" /\ tries = 0
    /\ mutex = "free"
    /\ closed = FALSE
    /\ timer = [g \in Copy |-> IF g = 1 THEN "asleep" ELSE "none"]
    /\ cancelled = {}
    /\ worker = [g \in Copy |-> IF g = 1 THEN "check" ELSE "none"]
    /\ fault = "none"

Running == fault = "none" /\ main # "down"

\* The code that a thread of copy g runs is there.
Loaded(g) == handle # 0 /\ g = copy

-----------------------------------------------------------------------------
(* The file, which a build removes, creates anew and fills *)

Remove ==
    /\ file.there /\ file.version < MaxVersion
    /\ file' = [file EXCEPT !.there = FALSE, !.whole = FALSE]
    /\ UNCHANGED <<now, libVars, mainVars, mutex, closed, threadVars, fault>>

Create ==
    /\ ~file.there
    /\ file' = [version |-> file.version + 1, there |-> TRUE, whole |-> FALSE, mtime |-> now]
    /\ UNCHANGED <<now, libVars, mainVars, mutex, closed, threadVars, fault>>

Fill ==
    /\ file.there /\ ~file.whole
    /\ file' = [file EXCEPT !.whole = TRUE, !.mtime = now]
    /\ UNCHANGED <<now, libVars, mainVars, mutex, closed, threadVars, fault>>

Tick ==
    /\ now < MaxTime
    /\ now' = now + 1
    /\ UNCHANGED <<file, libVars, mainVars, mutex, closed, threadVars, fault>>

-----------------------------------------------------------------------------
\* What a stat meets, for current.
Seen == IF file.whole THEN file.version ELSE current

(* library_load: what it reads of the file, and the dlopen some time later *)

\* (mutant) Return that takes a library that needs a reload for a loaded one.
ReturnLater(call, status) ==
    IF call = "second" THEN IF status = "reloaded" THEN "timer" ELSE "down"
    ELSE IF status = "failed" THEN "sleep" ELSE "lock"

\* Where the main thread goes when library_load returns status to its first or second
\* call in the loop.
Return(call, status) ==
    IF call = "second" THEN IF status = "reloaded" THEN "timer" ELSE "down"
    ELSE CASE status = "failed"      -> "sleep"
           [] status = "needsReload" -> "close"
           [] OTHER                  -> "lock"

StatFails(call) ==
    /\ main = call
    /\ ~file.there
    /\ main' = Return(call, "failed")
    /\ UNCHANGED <<fileVars, libVars, tries, mutex, closed, threadVars, fault>>

UpToDate(call) ==
    /\ main = call
    /\ file.there
    /\ handle # 0 /\ loadedTime = file.mtime
    /\ current' = Seen
    /\ main' = Return(call, "upToDate")
    /\ UNCHANGED <<fileVars, handle, loadedTime, flag, copy, statted, awake, tries, mutex,
                   closed, threadVars, fault>>

\* (mutant) NeedsReload that does not set reload_on_next_call.
NeedsReloadAgain(call) ==
    /\ main = call
    /\ file.there
    /\ handle # 0 /\ loadedTime # file.mtime /\ ~flag
    /\ current' = Seen
    /\ main' = Return(call, "needsReload")
    /\ UNCHANGED <<fileVars, handle, loadedTime, flag, copy, statted, awake, tries, mutex,
                   closed, threadVars, fault>>

NeedsReload(call) ==
    /\ main = call
    /\ file.there
    /\ handle # 0 /\ loadedTime # file.mtime /\ ~flag
    /\ flag' = TRUE
    /\ current' = Seen
    /\ main' = Return(call, "needsReload")
    /\ UNCHANGED <<fileVars, handle, loadedTime, copy, statted, awake, tries, mutex, closed,
                   threadVars, fault>>

\* dlclose: whoever still runs code of the copy runs on in nothing.
CloseLibrary(call) ==
    /\ main = call
    /\ file.there
    /\ handle # 0 /\ loadedTime # file.mtime /\ flag
    /\ handle' = 0
    /\ awake' = IF timer[copy] \in {"awake", "inside"} THEN awake \union {copy} ELSE awake
    /\ statted' = file.mtime
    /\ current' = Seen
    /\ main' = IF call = "first" THEN "firstOpen" ELSE "secondOpen"
    /\ UNCHANGED <<fileVars, loadedTime, flag, copy, tries, mutex, closed, threadVars, fault>>

\* dlopen of what is there by now.
Open(call) ==
    /\ main = IF call = "first" THEN "firstOpen" ELSE "secondOpen"
    /\ file.whole
    /\ handle' = file.version
    /\ copy' = copy + 1
    /\ loadedTime' = statted
    /\ flag' = FALSE
    /\ main' = Return(call, "reloaded")
    /\ UNCHANGED <<fileVars, statted, current, awake, tries, mutex, closed, threadVars, fault>>

\* A missing or half written file is no library.
OpenFails(call) ==
    /\ main = IF call = "first" THEN "firstOpen" ELSE "secondOpen"
    /\ ~file.whole
    /\ main' = Return(call, "failed")
    /\ UNCHANGED <<fileVars, libVars, tries, mutex, closed, threadVars, fault>>

LibraryLoad(call) ==
    \/ StatFails(call)
    \/ UpToDate(call)
    \/ NeedsReload(call)
    \/ CloseLibrary(call)
    \/ Open(call)
    \/ OpenFails(call)

-----------------------------------------------------------------------------
(* handle_net_event and the reload handlers *)

TakeEvent ==
    /\ main = "epoll"
    /\ main' = "first"
    /\ tries' = 0
    /\ UNCHANGED <<fileVars, libVars, mutex, closed, threadVars, fault>>

Sleep ==
    /\ main = "sleep"
    /\ tries' = tries + 1
    /\ main' = IF tries + 1 = Retries THEN "down" ELSE "first"
    /\ UNCHANGED <<fileVars, libVars, mutex, closed, threadVars, fault>>

\* wclose: the worker is told, not woken.
CloseQueue ==
    /\ main = "close"
    /\ main' = "cancel"
    /\ closed' = TRUE
    /\ UNCHANGED <<fileVars, libVars, tries, mutex, threadVars, fault>>

\* (mutant) CancelTimer that forgets to.
CancelNothing ==
    /\ main = "cancel"
    /\ main' = "destroy"
    /\ UNCHANGED <<fileVars, libVars, tries, mutex, closed, threadVars, fault>>

CancelTimer ==
    /\ main = "cancel"
    /\ main' = "destroy"
    /\ cancelled' = cancelled \union {copy}
    /\ UNCHANGED <<fileVars, libVars, tries, mutex, closed, timer, worker, fault>>

\* pthread_mutex_destroy fails on a mutex that is held, and nobody looks.
DestroyLock ==
    /\ main = "destroy"
    /\ main' = "second"
    /\ mutex' = IF mutex = "free" THEN "destroyed" ELSE mutex
    /\ UNCHANGED <<fileVars, libVars, tries, closed, threadVars, fault>>

\* (mutant) StartTimer without a new lock.
StartTimerOnly ==
    /\ main = "timer"
    /\ main' = "worker"
    /\ timer' = [timer EXCEPT ![copy] = "asleep"]
    /\ UNCHANGED <<fileVars, libVars, tries, mutex, closed, cancelled, worker, fault>>

\* init_threads, its first half: a new lock in the old one's place and a new timer.
StartTimer ==
    /\ main = "timer"
    /\ main' = "worker"
    /\ mutex' = "free"
    /\ timer' = [timer EXCEPT ![copy] = "asleep"]
    /\ UNCHANGED <<fileVars, libVars, tries, closed, cancelled, worker, fault>>

\* init_threads, its second half: wstart.
StartWorker ==
    /\ main = "worker"
    /\ main' = "lock"
    /\ closed' = FALSE
    /\ worker' = [worker EXCEPT ![copy] = "check"]
    /\ UNCHANGED <<fileVars, libVars, tries, mutex, timer, cancelled, fault>>

-----------------------------------------------------------------------------
(* The lock of the state, and the pushes of those who hold it *)

\* lock() ignores that a destroyed mutex cannot be locked.
CanEnter == mutex \in {"free", "destroyed"}
Entered(who) == IF mutex = "free" THEN who ELSE mutex
Released(who) == IF mutex = who THEN "free" ELSE mutex

\* What the pushes of a handler, if it has any, leave of the workers: nothing new once the
\* queue is closed; otherwise the signal wakes a worker that waits, or is lost.
Pushed ==
    {worker} \union
    {[worker EXCEPT ![g] = "woken"] : g \in {h \in Copy : worker[h] = "waiting" /\ ~closed}}

Lock ==
    /\ main = "lock"
    /\ CanEnter
    /\ mutex' = Entered("main")
    /\ main' = "inside"
    /\ UNCHANGED <<fileVars, libVars, tries, closed, threadVars, fault>>

\* The handler of the event, which pushes the connection when it is a request.
Handle ==
    /\ main = "inside"
    /\ main' = "epoll"
    /\ mutex' = Released("main")
    /\ worker' \in Pushed
    /\ UNCHANGED <<fileVars, libVars, tries, closed, timer, cancelled, fault>>

-----------------------------------------------------------------------------
(* The threads *)

TimerWakes(g) ==
    /\ timer[g] = "asleep"
    /\ timer' = [timer EXCEPT ![g] = IF g \in cancelled THEN "dead" ELSE "awake"]
    /\ UNCHANGED <<fileVars, libVars, mainVars, mutex, closed, cancelled, worker, fault>>

TimerLocks(g) ==
    /\ timer[g] = "awake"
    /\ Loaded(g)
    /\ CanEnter
    /\ mutex' = Entered("timer")
    /\ timer' = [timer EXCEPT ![g] = "inside"]
    /\ UNCHANGED <<fileVars, libVars, mainVars, closed, cancelled, worker, fault>>

\* on_tick, with the pushes of what is left to send.
TimerTicks(g) ==
    /\ timer[g] = "inside"
    /\ Loaded(g)
    /\ mutex' = Released("timer")
    /\ timer' = [timer EXCEPT ![g] = "asleep"]
    /\ worker' \in Pushed
    /\ UNCHANGED <<fileVars, libVars, mainVars, closed, cancelled, fault>>

\* Cancelled at a trace in on_tick: nobody unlocks what the thread held.
TimerDiesInside(g) ==
    /\ timer[g] = "inside"
    /\ Loaded(g)
    /\ g \in cancelled
    /\ timer' = [timer EXCEPT ![g] = "dead"]
    /\ UNCHANGED <<fileVars, libVars, mainVars, mutex, closed, cancelled, worker, fault>>

WorkerChecks(g) ==
    /\ worker[g] = "check"
    /\ Loaded(g)
    /\ worker' = [worker EXCEPT ![g] = IF closed THEN "exited" ELSE "waiting"]
    /\ UNCHANGED <<fileVars, libVars, mainVars, mutex, closed, timer, cancelled, fault>>

WorkerLocks(g) ==
    /\ worker[g] = "woken"
    /\ Loaded(g)
    /\ CanEnter
    /\ mutex' = Entered("worker")
    /\ worker' = [worker EXCEPT ![g] = "inside"]
    /\ UNCHANGED <<fileVars, libVars, mainVars, closed, timer, cancelled, fault>>

WorkerSends(g) ==
    /\ worker[g] = "inside"
    /\ Loaded(g)
    /\ mutex' = Released("worker")
    /\ worker' = [worker EXCEPT ![g] = "check"]
    /\ UNCHANGED <<fileVars, libVars, mainVars, closed, timer, cancelled, fault>>

\* A thread goes on where its code used to be.
Strays(g) ==
    /\ ~Loaded(g)
    /\ \/ /\ timer[g] \in {"awake", "inside"}
          /\ fault' = "timer"
       \/ /\ worker[g] \in {"check", "woken", "inside"}
          /\ fault' = "worker"
    /\ UNCHANGED <<fileVars, libVars, mainVars, mutex, closed, threadVars>>

-----------------------------------------------------------------------------
Load == Running /\ \E call \in {"first", "second"} : LibraryLoad(call)

Manage ==
    Running /\ (Sleep \/ CloseQueue \/ CancelTimer \/ DestroyLock \/ StartTimer \/ StartWorker)

Enter == Running /\ Lock
Leave == Running /\ Handle

TimerRuns(g) == Running /\ (TimerTicks(g) \/ TimerDiesInside(g))
TimerEnters(g) == Running /\ (TimerWakes(g) \/ TimerLocks(g))
WorkerRuns(g) == Running /\ (WorkerChecks(g) \/ WorkerSends(g))
WorkerEnters(g) == Running /\ WorkerLocks(g)

Next ==
    \/ Running /\ (Remove \/ Create \/ Fill \/ Tick \/ TakeEvent)
    \/ Load
    \/ Manage
    \/ Enter
    \/ Leave
    \/ \E g \in Copy : TimerRuns(g) \/ TimerEnters(g) \/ WorkerRuns(g) \/ WorkerEnters(g)
    \/ Running /\ \E g \in Copy : Strays(g)

Spec == Init /\ [][Next]_vars

\* The processor is given to every thread that can go on.  The lock is not queued for,
\* but the timer sleeps a second between two of its turns and the worker waits for a push,
\* so whoever asks for it again and again gets it.  Nothing is assumed of clients, of the
\* build or of the clock.
Fairness ==
    /\ WF_vars(Load) /\ WF_vars(Manage) /\ WF_vars(Leave) /\ SF_vars(Enter)
    /\ \A g \in Copy : WF_vars(TimerRuns(g)) /\ WF_vars(WorkerRuns(g))

FairSpec == Spec /\ Fairness

-----------------------------------------------------------------------------
(* Properties *)

\* The types of the variables.
TypeOK ==
    /\ file \in [version : 1 .. MaxVersion, there : BOOLEAN, whole : BOOLEAN,
                 mtime : 0 .. MaxTime]
    /\ now \in 0 .. MaxTime
    /\ handle \in 0 .. MaxVersion
    /\ loadedTime \in 0 .. MaxTime /\ statted \in 0 .. MaxTime
    /\ flag \in BOOLEAN /\ closed \in BOOLEAN
    /\ copy \in Copy
    /\ main \in MainPlace
    /\ tries \in 0 .. Retries
    /\ mutex \in {"free", "destroyed", "main", "timer", "worker"}
    /\ timer \in [Copy -> {"none", "asleep", "awake", "inside", "dead"}]
    /\ cancelled \subseteq Copy
    /\ worker \in [Copy -> {"none", "check", "waiting", "woken", "inside", "exited"}]
    /\ fault \in {"none", "timer", "worker"}
    /\ current \in 1 .. MaxVersion
    /\ awake \subseteq Copy

\* The main thread is between the wclose and the wstart of a reload.
Reloading == main \in {"cancel", "destroy", "second", "secondOpen", "timer", "worker"}

\* Outside a reload the world has one clock: one timer that is not cancelled, and it runs
\* the copy that is loaded, however the reloads and the ends of the threads interleave;
\* the queue takes work again and the new worker is there to do it (pevent_before_reload
\* and pevent_after_reload in game_server_lib.c).
OneOfEach ==
    TypeOK /\ (Running /\ ~Reloading =>
        /\ {g \in Copy : timer[g] \notin {"none", "dead"} /\ g \notin cancelled} = {copy}
        /\ ~closed
        /\ worker[copy] \in {"check", "waiting", "woken", "inside"})

\* The timer, or the worker, of the copy that is loaded has the state to itself.
TimerInside == handle # 0 /\ timer[copy] = "inside"
WorkerInside == handle # 0 /\ worker[copy] = "inside"

\* The lock is destroyed and set up again in the middle of its users.  Outside a reload no
\* two of the main thread, the timer and the worker are in the state together: neither the
\* destroyed lock nor a holder that was cancelled lets anyone past the new one.
ExclusionUnlessReloading ==
    Running /\ ~Reloading =>
        /\ ~(main = "inside" /\ TimerInside)
        /\ ~(main = "inside" /\ WorkerInside)
        /\ ~(TimerInside /\ WorkerInside)

\* What a reload can kill the server with: a timer that was awake when its copy was
\* closed (a cancelled timer that slept dies in its sleep), or the old worker, whom
\* wclose does not wake and nobody waits for.  Without a reload no thread is lost.
FaultCause ==
    /\ fault # "none" => \E g \in cancelled : ~Loaded(g)
    /\ fault = "timer" => awake # {}

\* The server goes down only when all its tries are spent, or when the second library_load
\* of a reload, which has no second try, met a library that was missing or half written:
\* never because a sound library was loaded twice, or was found to be up to date after
\* the threads of the old copy had been told to stop.
DownCause == main = "down" /\ tries < Retries => ~file.whole

\* The two ways a reload can end the process, and no third.
EndCause == FaultCause /\ DownCause

\* An event is handled, unless the server goes down or a thread strays: a reload in the
\* middle of the lock's users leaves no lock behind that nobody opens, although a timer
\* may be cancelled while it holds it.
EventHandled ==
    main = "first" ~> (main \in {"epoll", "down"} \/ fault # "none")

\* A new library whose st_mtime differs is loaded, or one that is newer still, before the
\* event that met it is over, unless the server goes down or a thread strays.
UpdateTaken ==
    \A v \in 1 .. MaxVersion :
        (main = "first" /\ file.version = v /\ file.whole /\ file.mtime # loadedTime)
            ~> (handle >= v \/ main = "down" \/ fault # "none")

=============================================================================
