---------------------------- MODULE ReloadProofs ----------------------------
(***************************************************************************)
(* Proofs about Reload, for any number of tries, versions of the file and  *)
(* reloads.  They need no fairness: Spec is the specification of its steps.*)
(***************************************************************************)
EXTENDS Reload, TLAPS

\* A build gives a version a later time, and removes one that has a successor.
Files ==
    /\ file.whole => file.there
    /\ ~file.there => file.version < MaxVersion
    /\ file.mtime <= now
    /\ loadedTime <= file.mtime
    /\ copy <= loadedTime + 1

\* Where a reload is: library_load asked for one, and the file it was asked for is newer.
Asked == {"close", "cancel", "destroy", "second"}

\* reload_on_next_call is set exactly from the first call to the second, so neither of
\* them meets a state that was meant for the other.
Calls ==
    /\ main # "firstOpen"
    /\ main \in Asked \union {"secondOpen"} => flag
    /\ main \notin Asked \union {"secondOpen", "down"} => ~flag
    /\ main \in Asked => loadedTime < file.mtime
    /\ main = "secondOpen" => handle = 0 /\ loadedTime < statted /\ statted <= file.mtime
    /\ main \notin {"secondOpen", "down"} => handle # 0
    /\ main # "down" => tries < Retries
    /\ DownCause

\* Between CancelTimer and the next StartTimer there is no clock that counts.
Stopped == {"destroy", "second", "secondOpen"}

\* The copies before the last had their timer cancelled, those after it have not begun.
Threads ==
    /\ \A g \in Copy : g < copy => g \in cancelled
    /\ \A g \in Copy : g > copy => g \notin cancelled /\ timer[g] = "none" /\ worker[g] = "none"
    /\ main \notin Stopped \union {"down"} => copy \notin cancelled
    /\ main \in Stopped => copy \in cancelled
    /\ main = "timer" => timer[copy] = "none" /\ worker[copy] = "none"
    /\ main = "worker" => timer[copy] \in {"asleep", "awake", "inside"} /\ worker[copy] = "none"
    /\ ~Reloading /\ main # "down" =>
          /\ timer[copy] \in {"asleep", "awake", "inside"}
          /\ worker[copy] \in {"check", "waiting", "woken", "inside"}
          /\ ~closed

\* Where the lock says who is in the state: from the new lock of one reload to the
\* cancelled timer of the next, which may take it along.
Guarded == {"worker", "epoll", "first", "sleep", "lock", "inside", "close", "cancel"}

Locks ==
    main \in Guarded =>
        /\ mutex # "destroyed"
        /\ mutex = "main" <=> main = "inside"
        /\ mutex = "timer" <=> timer[copy] = "inside"
        /\ mutex = "worker" <=> worker[copy] = "inside"

\* A timer that is up in a copy that was closed was up when it was closed.
Strayed ==
    /\ \A g \in Copy : ~Loaded(g) /\ timer[g] \in {"awake", "inside"} => g \in awake
    /\ FaultCause

Inv == TypeOK /\ Files /\ Calls /\ Threads /\ Locks /\ Strayed

-----------------------------------------------------------------------------
(* Facts about the file, library_load and the pushes *)

\* What the file is made of.
FileType == [version : 1 .. MaxVersion, there : BOOLEAN, whole : BOOLEAN, mtime : 0 .. MaxTime]

LEMMA FileIs ==
    ASSUME TypeOK
    PROVE  /\ file \in FileType
           /\ file.version \in 1 .. MaxVersion /\ file.mtime \in 0 .. MaxTime
           /\ file.there \in BOOLEAN /\ file.whole \in BOOLEAN
BY Zenon DEF TypeOK, FileType

\* Where library_load returns to, of the calls and results that happen.
LEMMA ReturnIs ==
    ASSUME NEW call \in {"first", "second"}
    PROVE  /\ Return(call, "failed") = IF call = "first" THEN "sleep" ELSE "down"
           /\ Return("second", "reloaded") = "timer"
           /\ Return("first", "needsReload") = "close"
           /\ Return("first", "upToDate") = "lock"
BY SMT DEF Return

\* A push wakes workers that wait and touches no other.
LEMMA PushedIs ==
    ASSUME TypeOK, NEW w \in Pushed
    PROVE  /\ w \in [Copy -> {"none", "check", "waiting", "woken", "inside", "exited"}]
           /\ \A g \in Copy : w[g] = worker[g] \/ (worker[g] = "waiting" /\ w[g] = "woken")
BY SMT DEF TypeOK, Pushed

-----------------------------------------------------------------------------
(* The invariant *)

\* main() starts with one copy, its timer and its worker.
LEMMA InitInv == Init => Inv
<1> SUFFICES ASSUME Init PROVE Inv
  OBVIOUS
<1>1. TypeOK
  <2>1. file \in FileType
    BY ReloadAssumption, SMT DEF Init, FileType
  <2>2. 1 \in Copy /\ Copy \subseteq Nat
    BY ReloadAssumption, SMT DEF Copy
  <2>3. /\ timer \in [Copy -> {"none", "asleep", "awake", "inside", "dead"}]
        /\ worker \in [Copy -> {"none", "check", "waiting", "woken", "inside", "exited"}]
    BY SMT DEF Init
  <2>4. /\ now \in 0 .. MaxTime /\ handle \in 0 .. MaxVersion /\ loadedTime \in 0 .. MaxTime
        /\ statted \in 0 .. MaxTime /\ tries \in 0 .. Retries /\ current \in 1 .. MaxVersion
    BY ReloadAssumption, SMT DEF Init
  <2>. QED
    BY <2>1, <2>2, <2>3, <2>4, Zenon DEF Init, TypeOK, FileType, MainPlace
<1>2. Files /\ Calls
  BY ReloadAssumption, SMT DEF Init, Files, Calls, Asked, DownCause
<1>3. Threads /\ Locks /\ Strayed
  BY ReloadAssumption, SMT DEF Init, Threads, Stopped, Locks, Guarded, Strayed, FaultCause,
     Loaded, Reloading, Copy
<1>. QED
  BY <1>1, <1>2, <1>3 DEF Inv

\* A build: only the times and the version matter to the rest.
LEMMA RemoveInv ==
    ASSUME Inv, Running, Remove
    PROVE  Inv'
<1>a. TypeOK /\ Files /\ Calls /\ Threads /\ Locks /\ Strayed /\ fault = "none" /\ main # "down"
  BY DEF Inv, Running
<1>1. TypeOK'
  <2>0. file.version \in 1 .. MaxVersion
    BY <1>a, FileIs, ReloadAssumption, SMT DEF Remove, TypeOK, Files
  <2>1. file' \in FileType
    BY <1>a, <2>0, FileIs, Zenon DEF Remove, FileType
  <2>. QED
    BY <1>a, <2>1, Zenon DEF Remove, TypeOK, FileType, libVars, mainVars, threadVars
<1>2. Files'
  BY <1>a, SMT DEF Remove, libVars, mainVars, threadVars, Files
<1>3. Calls'
  BY <1>a, SMT DEF Remove, libVars, mainVars, threadVars, Calls, Asked, DownCause
<1>4. Threads'
  BY <1>a, SMT DEF Remove, libVars, mainVars, threadVars, Threads, Stopped, Reloading, Copy
<1>5. Locks'
  BY <1>a, SMT DEF Remove, libVars, mainVars, threadVars, Locks, Guarded
<1>6. Strayed'
  BY <1>a, SMT DEF Remove, libVars, mainVars, threadVars, Strayed, FaultCause, Loaded
<1>. QED
  BY <1>1, <1>2, <1>3, <1>4, <1>5, <1>6 DEF Inv

LEMMA CreateInv ==
    ASSUME Inv, Running, Create
    PROVE  Inv'
<1>a. TypeOK /\ Files /\ Calls /\ Threads /\ Locks /\ Strayed /\ fault = "none" /\ main # "down"
  BY DEF Inv, Running
<1>1. TypeOK'
  <2>0. file.version + 1 \in 1 .. MaxVersion /\ now \in 0 .. MaxTime
    BY <1>a, FileIs, ReloadAssumption, SMT DEF Create, TypeOK, Files
  <2>1. file' \in FileType
    BY <1>a, <2>0, FileIs, Zenon DEF Create, FileType
  <2>. QED
    BY <1>a, <2>1, Zenon DEF Create, TypeOK, FileType, libVars, mainVars, threadVars
<1>2. Files'
  BY <1>a, ReloadAssumption, SMT DEF Create, libVars, mainVars, threadVars, TypeOK, Copy,
     MainPlace, Files
<1>3. Calls'
  BY <1>a, ReloadAssumption, SMT DEF Create, libVars, mainVars, threadVars, TypeOK, Copy,
     MainPlace, Files, Calls, Asked, DownCause
<1>4. Threads'
  BY <1>a, SMT DEF Create, libVars, mainVars, threadVars, Threads, Stopped, Reloading, Copy
<1>5. Locks'
  BY <1>a, SMT DEF Create, libVars, mainVars, threadVars, Locks, Guarded
<1>6. Strayed'
  BY <1>a, SMT DEF Create, libVars, mainVars, threadVars, Strayed, FaultCause, Loaded
<1>. QED
  BY <1>1, <1>2, <1>3, <1>4, <1>5, <1>6 DEF Inv

LEMMA FillInv ==
    ASSUME Inv, Running, Fill
    PROVE  Inv'
<1>a. TypeOK /\ Files /\ Calls /\ Threads /\ Locks /\ Strayed /\ fault = "none" /\ main # "down"
  BY DEF Inv, Running
<1>1. TypeOK'
  <2>0. now \in 0 .. MaxTime
    BY <1>a, FileIs, ReloadAssumption, SMT DEF Fill, TypeOK, Files
  <2>1. file' \in FileType
    BY <1>a, <2>0, FileIs, Zenon DEF Fill, FileType
  <2>. QED
    BY <1>a, <2>1, Zenon DEF Fill, TypeOK, FileType, libVars, mainVars, threadVars
<1>2. Files'
  BY <1>a, ReloadAssumption, SMT DEF Fill, libVars, mainVars, threadVars, TypeOK, Copy,
     MainPlace, Files
<1>3. Calls'
  BY <1>a, ReloadAssumption, SMT DEF Fill, libVars, mainVars, threadVars, TypeOK, Copy,
     MainPlace, Files, Calls, Asked, DownCause
<1>4. Threads'
  BY <1>a, SMT DEF Fill, libVars, mainVars, threadVars, Threads, Stopped, Reloading, Copy
<1>5. Locks'
  BY <1>a, SMT DEF Fill, libVars, mainVars, threadVars, Locks, Guarded
<1>6. Strayed'
  BY <1>a, SMT DEF Fill, libVars, mainVars, threadVars, Strayed, FaultCause, Loaded
<1>. QED
  BY <1>1, <1>2, <1>3, <1>4, <1>5, <1>6 DEF Inv

LEMMA TickInv ==
    ASSUME Inv, Running, Tick
    PROVE  Inv'
<1>a. TypeOK /\ Files /\ Calls /\ Threads /\ Locks /\ Strayed /\ fault = "none" /\ main # "down"
  BY DEF Inv, Running
<1>1. TypeOK'
  BY <1>a, ReloadAssumption, SMT DEF Tick, libVars, mainVars, threadVars, TypeOK, Copy,
     MainPlace
<1>2. Files'
  BY <1>a, ReloadAssumption, SMT DEF Tick, libVars, mainVars, threadVars, TypeOK, Copy,
     MainPlace, Files
<1>3. Calls'
  BY <1>a, SMT DEF Tick, libVars, mainVars, threadVars, Calls, Asked, DownCause
<1>4. Threads'
  BY <1>a, SMT DEF Tick, libVars, mainVars, threadVars, Threads, Stopped, Reloading, Copy
<1>5. Locks'
  BY <1>a, SMT DEF Tick, libVars, mainVars, threadVars, Locks, Guarded
<1>6. Strayed'
  BY <1>a, SMT DEF Tick, libVars, mainVars, threadVars, Strayed, FaultCause, Loaded
<1>. QED
  BY <1>1, <1>2, <1>3, <1>4, <1>5, <1>6 DEF Inv

\* The loop of handle_net_event begins with all its tries.
LEMMA TakeEventInv ==
    ASSUME Inv, Running, TakeEvent
    PROVE  Inv'
<1>a. TypeOK /\ Files /\ Calls /\ Threads /\ Locks /\ Strayed /\ fault = "none" /\ main # "down"
  BY DEF Inv, Running
<1>1. TypeOK'
  BY <1>a, ReloadAssumption, SMT DEF TakeEvent, fileVars, libVars, threadVars, TypeOK,
     Copy, MainPlace
<1>2. Files'
  BY <1>a, SMT DEF TakeEvent, fileVars, libVars, threadVars, Files
<1>3. Calls'
  BY <1>a, ReloadAssumption, SMT DEF TakeEvent, fileVars, libVars, threadVars, TypeOK,
     Copy, MainPlace, Files, Calls, Asked, DownCause
<1>4. Threads'
  BY <1>a, SMT DEF TakeEvent, fileVars, libVars, threadVars, Threads, Stopped, Reloading,
     Copy
<1>5. Locks'
  BY <1>a, SMT DEF TakeEvent, fileVars, libVars, threadVars, Locks, Guarded
<1>6. Strayed'
  BY <1>a, SMT DEF TakeEvent, fileVars, libVars, threadVars, Strayed, FaultCause, Loaded
<1>. QED
  BY <1>1, <1>2, <1>3, <1>4, <1>5, <1>6 DEF Inv

\* library_load, first the stat.
LEMMA StatFailsInv ==
    ASSUME Inv, Running, NEW call \in {"first", "second"}, StatFails(call)
    PROVE  Inv'
<1>a. TypeOK /\ Files /\ Calls /\ Threads /\ Locks /\ Strayed /\ fault = "none" /\ main # "down"
  BY DEF Inv, Running
<1>b. main' = (IF call = "first" THEN "sleep" ELSE "down") /\ ~file.whole
  BY <1>a, ReturnIs, Zenon DEF StatFails, Calls, Asked, Files
<1>1. TypeOK'
  BY <1>a, <1>b, SMT DEF StatFails, fileVars, libVars, threadVars, TypeOK, MainPlace
<1>2. Files'
  BY <1>a, <1>b, SMT DEF StatFails, fileVars, libVars, threadVars, Files
<1>3. Calls'
  BY <1>a, <1>b, SMT DEF StatFails, fileVars, libVars, threadVars, Calls, Asked, DownCause
<1>4. Threads'
  BY <1>a, <1>b, SMT DEF StatFails, fileVars, libVars, threadVars, Threads, Stopped,
     Reloading, Copy
<1>5. Locks'
  BY <1>a, <1>b, SMT DEF StatFails, fileVars, libVars, threadVars, Locks, Guarded
<1>6. Strayed'
  BY <1>a, <1>b, SMT DEF StatFails, fileVars, libVars, threadVars, Strayed, FaultCause,
     Loaded
<1>. QED
  BY <1>1, <1>2, <1>3, <1>4, <1>5, <1>6 DEF Inv

LEMMA UpToDateInv ==
    ASSUME Inv, Running, NEW call \in {"first", "second"}, UpToDate(call)
    PROVE  Inv'
<1>a. TypeOK /\ Files /\ Calls /\ Threads /\ Locks /\ Strayed /\ fault = "none" /\ main # "down"
  BY DEF Inv, Running
<1>1. TypeOK'
  BY <1>a, SMT DEF UpToDate, Return, Seen, fileVars, threadVars, TypeOK, Copy, MainPlace
<1>2. Files'
  BY <1>a, SMT DEF UpToDate, fileVars, threadVars, Files
<1>3. Calls'
  BY <1>a, ReloadAssumption, SMT DEF UpToDate, Return, Seen, fileVars, threadVars, TypeOK,
     Copy, MainPlace, Files, Calls, Asked, DownCause
<1>4. Threads'
  BY <1>a, SMT DEF UpToDate, Return, Seen, fileVars, threadVars, Threads, Stopped,
     Reloading, Copy
<1>5. Locks'
  BY <1>a, SMT DEF UpToDate, Return, Seen, fileVars, threadVars, Locks, Guarded
<1>6. Strayed'
  BY <1>a, SMT DEF UpToDate, fileVars, threadVars, Strayed, FaultCause, Loaded
<1>. QED
  BY <1>1, <1>2, <1>3, <1>4, <1>5, <1>6 DEF Inv

\* The flag is clear, so this is the first call.
LEMMA NeedsReloadInv ==
    ASSUME Inv, Running, NEW call \in {"first", "second"}, NeedsReload(call)
    PROVE  Inv'
<1>a. TypeOK /\ Files /\ Calls /\ Threads /\ Locks /\ Strayed /\ fault = "none" /\ main # "down"
  BY DEF Inv, Running
<1>b. call = "first" /\ main = "first" /\ main' = "close"
  BY <1>a, ReturnIs, Zenon DEF NeedsReload, Calls, Asked, Files
<1>1. TypeOK'
  BY <1>a, <1>b, SMT DEF NeedsReload, Seen, fileVars, threadVars, TypeOK, Copy, MainPlace
<1>2. Files'
  BY <1>a, <1>b, SMT DEF NeedsReload, fileVars, threadVars, Files
<1>3. Calls'
  BY <1>a, <1>b, ReloadAssumption, SMT DEF NeedsReload, Seen, fileVars, threadVars, TypeOK,
     Copy, MainPlace, Files, Calls, Asked, DownCause
<1>4. Threads'
  BY <1>a, <1>b, SMT DEF NeedsReload, fileVars, threadVars, Threads, Stopped, Reloading,
     Copy
<1>5. Locks'
  BY <1>a, <1>b, SMT DEF NeedsReload, Seen, fileVars, threadVars, Locks, Guarded
<1>6. Strayed'
  BY <1>a, <1>b, SMT DEF NeedsReload, fileVars, threadVars, Strayed, FaultCause, Loaded
<1>. QED
  BY <1>1, <1>2, <1>3, <1>4, <1>5, <1>6 DEF Inv

\* The flag is set, so this is the second; a timer that is up goes to awake.
LEMMA CloseLibraryInv ==
    ASSUME Inv, Running, NEW call \in {"first", "second"}, CloseLibrary(call)
    PROVE  Inv'
<1>a. TypeOK /\ Files /\ Calls /\ Threads /\ Locks /\ Strayed /\ fault = "none" /\ main # "down"
  BY DEF Inv, Running
<1>1. TypeOK'
  BY <1>a, ReloadAssumption, SMT DEF CloseLibrary, Seen, fileVars, threadVars, TypeOK,
     Copy, MainPlace
<1>2. Files'
  BY <1>a, SMT DEF CloseLibrary, fileVars, threadVars, Files
<1>3. Calls'
  BY <1>a, ReloadAssumption, SMT DEF CloseLibrary, Seen, fileVars, threadVars, TypeOK,
     Copy, MainPlace, Files, Calls, Asked, DownCause
<1>4. Threads'
  BY <1>a, SMT DEF CloseLibrary, fileVars, threadVars, Threads, Stopped, Reloading, Copy
<1>5. Locks'
  BY <1>a, SMT DEF CloseLibrary, Seen, fileVars, threadVars, Locks, Guarded
<1>6. Strayed'
  BY <1>a, SMT DEF CloseLibrary, fileVars, threadVars, Strayed, FaultCause, Loaded
<1>. QED
  BY <1>1, <1>2, <1>3, <1>4, <1>5, <1>6 DEF Inv

\* The new copy is one that no thread has run, and the clock has passed since the last.
LEMMA OpenInv ==
    ASSUME Inv, Running, NEW call \in {"first", "second"}, Open(call)
    PROVE  Inv'
<1>a. TypeOK /\ Files /\ Calls /\ Threads /\ Locks /\ Strayed /\ fault = "none" /\ main # "down"
  BY DEF Inv, Running
<1>b. call = "second" /\ main = "secondOpen" /\ main' = "timer"
  BY <1>a, ReturnIs, Zenon DEF Open, Calls, Asked, Files
<1>1. TypeOK'
  <2>1. copy + 1 \in Copy
    BY <1>a, <1>b, ReloadAssumption, SMT DEF TypeOK, Files, Calls, Copy
  <2>2. file.version \in 0 .. MaxVersion
    BY <1>a, FileIs, SMT
  <2>. QED
    BY <1>a, <1>b, <2>1, <2>2, Zenon DEF Open, TypeOK, MainPlace, fileVars, threadVars
<1>2. Files'
  <2>1. copy \in Nat /\ copy <= loadedTime + 1 /\ loadedTime < statted /\ statted <= file.mtime
    BY <1>a, <1>b DEF TypeOK, Copy, Files, Calls
  <2>2. loadedTime \in Nat /\ statted \in Nat
    BY <1>a DEF TypeOK
  <2>3. copy + 1 <= statted + 1
    BY <2>1, <2>2, SMT
  <2>. QED
    BY <1>a, <2>1, <2>3 DEF Open, Files, fileVars
<1>3. Calls'
  BY <1>a, <1>b, ReloadAssumption, SMT DEF Open, fileVars, threadVars, TypeOK, Copy,
     MainPlace, Files, Calls, Asked, DownCause
<1>4. Threads'
  <2>1. copy \in Copy /\ copy + 1 \in Copy
    BY <1>a, <1>b, ReloadAssumption, SMT DEF TypeOK, Files, Calls, Copy
  <2>2. copy \in cancelled
    BY <1>a, <1>b DEF Threads, Stopped
  <2>3. \A g \in Copy : (g < copy + 1 <=> g < copy \/ g = copy) /\ (g > copy + 1 => g > copy)
    BY <2>1, SMT DEF Copy
  <2>4. \A g \in Copy : g < copy + 1 => g \in cancelled
    BY <1>a, <2>2, <2>3 DEF Threads
  <2>5. /\ copy + 1 \notin cancelled /\ timer[copy + 1] = "none" /\ worker[copy + 1] = "none"
        /\ \A g \in Copy : g > copy + 1 =>
              g \notin cancelled /\ timer[g] = "none" /\ worker[g] = "none"
    BY <1>a, <2>1, <2>3, SMT DEF Threads, Copy
  <2>. QED
    BY <1>a, <1>b, <2>4, <2>5, Zenon DEF Open, Threads, Stopped, Reloading, threadVars
<1>5. Locks'
  BY <1>a, <1>b, SMT DEF Open, fileVars, threadVars, Locks, Guarded
<1>6. Strayed'
  BY <1>a, <1>b, ReloadAssumption, SMT DEF Open, fileVars, threadVars, TypeOK, Copy,
     MainPlace, Calls, Asked, DownCause, Threads, Stopped, Reloading, Strayed, FaultCause,
     Loaded
<1>. QED
  BY <1>1, <1>2, <1>3, <1>4, <1>5, <1>6 DEF Inv

LEMMA OpenFailsInv ==
    ASSUME Inv, Running, NEW call \in {"first", "second"}, OpenFails(call)
    PROVE  Inv'
<1>a. TypeOK /\ Files /\ Calls /\ Threads /\ Locks /\ Strayed /\ fault = "none" /\ main # "down"
  BY DEF Inv, Running
<1>b. call = "second" /\ main = "secondOpen" /\ main' = "down" /\ ~file.whole
  BY <1>a, ReturnIs, Zenon DEF OpenFails, Calls, Asked, Files
<1>1. TypeOK'
  BY <1>a, <1>b, SMT DEF OpenFails, fileVars, libVars, threadVars, TypeOK, MainPlace
<1>2. Files'
  BY <1>a, <1>b, SMT DEF OpenFails, fileVars, libVars, threadVars, Files
<1>3. Calls'
  BY <1>a, <1>b, SMT DEF OpenFails, fileVars, libVars, threadVars, Calls, Asked, DownCause
<1>4. Threads'
  BY <1>a, <1>b, SMT DEF OpenFails, fileVars, libVars, threadVars, Threads, Stopped,
     Reloading, Copy
<1>5. Locks'
  BY <1>a, <1>b, SMT DEF OpenFails, fileVars, libVars, threadVars, Locks, Guarded
<1>6. Strayed'
  BY <1>a, <1>b, SMT DEF OpenFails, fileVars, libVars, threadVars, Strayed, FaultCause,
     Loaded
<1>. QED
  BY <1>1, <1>2, <1>3, <1>4, <1>5, <1>6 DEF Inv

\* The last try is the end.
LEMMA SleepInv ==
    ASSUME Inv, Running, Sleep
    PROVE  Inv'
<1>a. TypeOK /\ Files /\ Calls /\ Threads /\ Locks /\ Strayed /\ fault = "none" /\ main # "down"
  BY DEF Inv, Running
<1>1. TypeOK'
  <2>1. tries' \in 0 .. Retries
    BY <1>a, ReloadAssumption, SMT DEF Sleep, TypeOK, Calls
  <2>. QED
    BY <1>a, <2>1, Zenon DEF Sleep, TypeOK, MainPlace, fileVars, libVars, threadVars
<1>2. Files'
  BY <1>a, SMT DEF Sleep, fileVars, libVars, threadVars, Files
<1>3. Calls'
  BY <1>a, ReloadAssumption, SMT DEF Sleep, fileVars, libVars, threadVars, TypeOK, Copy,
     MainPlace, Files, Calls, Asked, DownCause
<1>4. Threads'
  BY <1>a, SMT DEF Sleep, fileVars, libVars, threadVars, Threads, Stopped, Reloading, Copy
<1>5. Locks'
  BY <1>a, SMT DEF Sleep, fileVars, libVars, threadVars, Locks, Guarded
<1>6. Strayed'
  BY <1>a, SMT DEF Sleep, fileVars, libVars, threadVars, Strayed, FaultCause, Loaded
<1>. QED
  BY <1>1, <1>2, <1>3, <1>4, <1>5, <1>6 DEF Inv

\* The handlers of the reload, up to the second call of library_load.
LEMMA CloseQueueInv ==
    ASSUME Inv, Running, CloseQueue
    PROVE  Inv'
<1>a. TypeOK /\ Files /\ Calls /\ Threads /\ Locks /\ Strayed /\ fault = "none" /\ main # "down"
  BY DEF Inv, Running
<1>1. TypeOK'
  BY <1>a, SMT DEF CloseQueue, fileVars, libVars, threadVars, TypeOK, MainPlace
<1>2. Files'
  BY <1>a, SMT DEF CloseQueue, fileVars, libVars, threadVars, Files
<1>3. Calls'
  BY <1>a, SMT DEF CloseQueue, fileVars, libVars, threadVars, Calls, Asked, DownCause
<1>4. Threads'
  BY <1>a, SMT DEF CloseQueue, fileVars, libVars, threadVars, Threads, Stopped, Reloading,
     Copy
<1>5. Locks'
  BY <1>a, SMT DEF CloseQueue, fileVars, libVars, threadVars, Locks, Guarded
<1>6. Strayed'
  BY <1>a, SMT DEF CloseQueue, fileVars, libVars, threadVars, Strayed, FaultCause, Loaded
<1>. QED
  BY <1>1, <1>2, <1>3, <1>4, <1>5, <1>6 DEF Inv

LEMMA CancelTimerInv ==
    ASSUME Inv, Running, CancelTimer
    PROVE  Inv'
<1>a. TypeOK /\ Files /\ Calls /\ Threads /\ Locks /\ Strayed /\ fault = "none" /\ main # "down"
  BY DEF Inv, Running
<1>1. TypeOK'
  BY <1>a, SMT DEF CancelTimer, fileVars, libVars, TypeOK, MainPlace
<1>2. Files'
  BY <1>a, SMT DEF CancelTimer, fileVars, libVars, Files
<1>3. Calls'
  BY <1>a, SMT DEF CancelTimer, fileVars, libVars, Calls, Asked, DownCause
<1>4. Threads'
  BY <1>a, SMT DEF CancelTimer, fileVars, libVars, Threads, Stopped, Reloading, Copy
<1>5. Locks'
  BY <1>a, SMT DEF CancelTimer, fileVars, libVars, Locks, Guarded
<1>6. Strayed'
  BY <1>a, SMT DEF CancelTimer, fileVars, libVars, Strayed, FaultCause, Loaded
<1>. QED
  BY <1>1, <1>2, <1>3, <1>4, <1>5, <1>6 DEF Inv

LEMMA DestroyLockInv ==
    ASSUME Inv, Running, DestroyLock
    PROVE  Inv'
<1>a. TypeOK /\ Files /\ Calls /\ Threads /\ Locks /\ Strayed /\ fault = "none" /\ main # "down"
  BY DEF Inv, Running
<1>1. TypeOK'
  BY <1>a, SMT DEF DestroyLock, fileVars, libVars, threadVars, TypeOK, MainPlace
<1>2. Files'
  BY <1>a, SMT DEF DestroyLock, fileVars, libVars, threadVars, Files
<1>3. Calls'
  BY <1>a, SMT DEF DestroyLock, fileVars, libVars, threadVars, Calls, Asked, DownCause
<1>4. Threads'
  BY <1>a, SMT DEF DestroyLock, fileVars, libVars, threadVars, Threads, Stopped, Reloading,
     Copy
<1>5. Locks'
  BY <1>a, SMT DEF DestroyLock, fileVars, libVars, threadVars, Locks, Guarded
<1>6. Strayed'
  BY <1>a, SMT DEF DestroyLock, fileVars, libVars, threadVars, Strayed, FaultCause, Loaded
<1>. QED
  BY <1>1, <1>2, <1>3, <1>4, <1>5, <1>6 DEF Inv

\* The new lock is free, and so it is true again that the lock tells who is inside.
LEMMA StartTimerInv ==
    ASSUME Inv, Running, StartTimer
    PROVE  Inv'
<1>a. TypeOK /\ Files /\ Calls /\ Threads /\ Locks /\ Strayed /\ fault = "none" /\ main # "down"
  BY DEF Inv, Running
<1>1. TypeOK'
  BY <1>a, SMT DEF StartTimer, fileVars, libVars, TypeOK, MainPlace
<1>2. Files'
  BY <1>a, SMT DEF StartTimer, fileVars, libVars, Files
<1>3. Calls'
  BY <1>a, SMT DEF StartTimer, fileVars, libVars, Calls, Asked, DownCause
<1>4. Threads'
  BY <1>a, ReloadAssumption, SMT DEF StartTimer, fileVars, libVars, TypeOK, Copy,
     MainPlace, Calls, Asked, DownCause, Threads, Stopped, Reloading
<1>5. Locks'
  BY <1>a, ReloadAssumption, SMT DEF StartTimer, fileVars, libVars, TypeOK, Copy,
     MainPlace, Threads, Stopped, Reloading, Locks, Guarded
<1>6. Strayed'
  BY <1>a, SMT DEF StartTimer, fileVars, libVars, Strayed, FaultCause, Loaded
<1>. QED
  BY <1>1, <1>2, <1>3, <1>4, <1>5, <1>6 DEF Inv

LEMMA StartWorkerInv ==
    ASSUME Inv, Running, StartWorker
    PROVE  Inv'
<1>a. TypeOK /\ Files /\ Calls /\ Threads /\ Locks /\ Strayed /\ fault = "none" /\ main # "down"
  BY DEF Inv, Running
<1>1. TypeOK'
  <2>1. worker' \in [Copy -> {"none", "check", "waiting", "woken", "inside", "exited"}]
    BY <1>a, SMT DEF StartWorker, TypeOK
  <2>. QED
    BY <1>a, <2>1, Zenon DEF StartWorker, TypeOK, MainPlace, fileVars, libVars
<1>2. Files'
  BY <1>a, SMT DEF StartWorker, fileVars, libVars, Files
<1>3. Calls'
  BY <1>a, SMT DEF StartWorker, fileVars, libVars, Calls, Asked, DownCause
<1>4. Threads'
  BY <1>a, ReloadAssumption, SMT DEF StartWorker, fileVars, libVars, TypeOK, Copy,
     MainPlace, Calls, Asked, DownCause, Threads, Stopped, Reloading
<1>5. Locks'
  BY <1>a, ReloadAssumption, SMT DEF StartWorker, fileVars, libVars, TypeOK, Copy,
     MainPlace, Threads, Stopped, Reloading, Locks, Guarded
<1>6. Strayed'
  BY <1>a, SMT DEF StartWorker, fileVars, libVars, Strayed, FaultCause, Loaded
<1>. QED
  BY <1>1, <1>2, <1>3, <1>4, <1>5, <1>6 DEF Inv

\* A thread enters the state when the lock is free: it is not destroyed outside a reload.
LEMMA LockInv ==
    ASSUME Inv, Running, Lock
    PROVE  Inv'
<1>a. TypeOK /\ Files /\ Calls /\ Threads /\ Locks /\ Strayed /\ fault = "none" /\ main # "down"
  BY DEF Inv, Running
<1>1. TypeOK'
  BY <1>a, SMT DEF Lock, CanEnter, Entered, fileVars, libVars, threadVars, TypeOK, Copy,
     MainPlace
<1>2. Files'
  BY <1>a, SMT DEF Lock, fileVars, libVars, threadVars, Files
<1>3. Calls'
  BY <1>a, SMT DEF Lock, CanEnter, Entered, fileVars, libVars, threadVars, Calls, Asked,
     DownCause
<1>4. Threads'
  BY <1>a, SMT DEF Lock, fileVars, libVars, threadVars, Threads, Stopped, Reloading, Copy
<1>5. Locks'
  BY <1>a, SMT DEF Lock, CanEnter, Entered, fileVars, libVars, threadVars, Locks, Guarded
<1>6. Strayed'
  BY <1>a, SMT DEF Lock, fileVars, libVars, threadVars, Strayed, FaultCause, Loaded
<1>. QED
  BY <1>1, <1>2, <1>3, <1>4, <1>5, <1>6 DEF Inv

LEMMA HandleInv ==
    ASSUME Inv, Running, Handle
    PROVE  Inv'
<1>a. TypeOK /\ Files /\ Calls /\ Threads /\ Locks /\ Strayed /\ fault = "none" /\ main # "down"
  BY DEF Inv, Running
<1>b. /\ worker' \in [Copy -> {"none", "check", "waiting", "woken", "inside", "exited"}]
      /\ \A h \in Copy : worker'[h] = worker[h] \/ (worker[h] = "waiting" /\ worker'[h] = "woken")
  BY <1>a, PushedIs DEF Handle
<1>1. TypeOK'
  BY <1>a, <1>b, SMT DEF Handle, Released, fileVars, libVars, TypeOK, Copy, MainPlace
<1>2. Files'
  BY <1>a, <1>b, SMT DEF Handle, fileVars, libVars, Files
<1>3. Calls'
  BY <1>a, <1>b, SMT DEF Handle, Released, fileVars, libVars, Calls, Asked, DownCause
<1>4. Threads'
  BY <1>a, <1>b, ReloadAssumption, SMT DEF Handle, Released, fileVars, libVars, TypeOK,
     Copy, MainPlace, Calls, Asked, DownCause, Threads, Stopped, Reloading
<1>5. Locks'
  BY <1>a, <1>b, ReloadAssumption, SMT DEF Handle, Released, fileVars, libVars, TypeOK,
     Copy, MainPlace, Threads, Stopped, Reloading, Locks, Guarded
<1>6. Strayed'
  BY <1>a, <1>b, SMT DEF Handle, fileVars, libVars, Strayed, FaultCause, Loaded
<1>. QED
  BY <1>1, <1>2, <1>3, <1>4, <1>5, <1>6 DEF Inv

\* The timer; one that was cancelled dies in its sleep.
LEMMA TimerWakesInv ==
    ASSUME Inv, Running, NEW g \in Copy, TimerWakes(g)
    PROVE  Inv'
<1>a. TypeOK /\ Files /\ Calls /\ Threads /\ Locks /\ Strayed /\ fault = "none" /\ main # "down"
  BY DEF Inv, Running
<1>1. TypeOK'
  BY <1>a, SMT DEF TimerWakes, fileVars, libVars, mainVars, TypeOK, MainPlace
<1>2. Files'
  BY <1>a, SMT DEF TimerWakes, fileVars, libVars, mainVars, Files
<1>3. Calls'
  BY <1>a, SMT DEF TimerWakes, fileVars, libVars, mainVars, Calls, Asked, DownCause
<1>4. Threads'
  BY <1>a, SMT DEF TimerWakes, fileVars, libVars, mainVars, Threads, Stopped, Reloading,
     Copy
<1>5. Locks'
  BY <1>a, SMT DEF TimerWakes, fileVars, libVars, mainVars, Locks, Guarded
<1>6. Strayed'
  BY <1>a, ReloadAssumption, SMT DEF TimerWakes, fileVars, libVars, mainVars, TypeOK, Copy,
     MainPlace, Calls, Asked, DownCause, Threads, Stopped, Reloading, Strayed, FaultCause,
     Loaded
<1>. QED
  BY <1>1, <1>2, <1>3, <1>4, <1>5, <1>6 DEF Inv

LEMMA TimerLocksInv ==
    ASSUME Inv, Running, NEW g \in Copy, TimerLocks(g)
    PROVE  Inv'
<1>a. TypeOK /\ Files /\ Calls /\ Threads /\ Locks /\ Strayed /\ fault = "none" /\ main # "down"
  BY DEF Inv, Running
<1>1. TypeOK'
  BY <1>a, SMT DEF TimerLocks, CanEnter, Entered, Loaded, fileVars, libVars, mainVars,
     TypeOK, Copy, MainPlace
<1>2. Files'
  BY <1>a, SMT DEF TimerLocks, fileVars, libVars, mainVars, Files
<1>3. Calls'
  BY <1>a, SMT DEF TimerLocks, CanEnter, Entered, Loaded, fileVars, libVars, mainVars,
     Calls, Asked, DownCause
<1>4. Threads'
  BY <1>a, SMT DEF TimerLocks, fileVars, libVars, mainVars, Threads, Stopped, Reloading,
     Copy
<1>5. Locks'
  BY <1>a, ReloadAssumption, SMT DEF TimerLocks, CanEnter, Entered, Loaded, fileVars,
     libVars, mainVars, TypeOK, Copy, MainPlace, Threads, Stopped, Reloading, Locks,
     Guarded
<1>6. Strayed'
  BY <1>a, SMT DEF TimerLocks, fileVars, libVars, mainVars, Strayed, FaultCause, Loaded
<1>. QED
  BY <1>1, <1>2, <1>3, <1>4, <1>5, <1>6 DEF Inv

LEMMA TimerTicksInv ==
    ASSUME Inv, Running, NEW g \in Copy, TimerTicks(g)
    PROVE  Inv'
<1>a. TypeOK /\ Files /\ Calls /\ Threads /\ Locks /\ Strayed /\ fault = "none" /\ main # "down"
  BY DEF Inv, Running
<1>b. /\ worker' \in [Copy -> {"none", "check", "waiting", "woken", "inside", "exited"}]
      /\ \A h \in Copy : worker'[h] = worker[h] \/ (worker[h] = "waiting" /\ worker'[h] = "woken")
  BY <1>a, PushedIs DEF TimerTicks
<1>1. TypeOK'
  BY <1>a, <1>b, SMT DEF TimerTicks, Released, Loaded, fileVars, libVars, mainVars, TypeOK,
     Copy, MainPlace
<1>2. Files'
  BY <1>a, <1>b, SMT DEF TimerTicks, fileVars, libVars, mainVars, Files
<1>3. Calls'
  BY <1>a, <1>b, SMT DEF TimerTicks, Released, Loaded, fileVars, libVars, mainVars, Calls,
     Asked, DownCause
<1>4. Threads'
  BY <1>a, <1>b, SMT DEF TimerTicks, Released, Loaded, fileVars, libVars, mainVars,
     Threads, Stopped, Reloading, Copy
<1>5. Locks'
  BY <1>a, <1>b, ReloadAssumption, SMT DEF TimerTicks, Released, Loaded, fileVars, libVars,
     mainVars, TypeOK, Copy, MainPlace, Threads, Stopped, Reloading, Locks, Guarded
<1>6. Strayed'
  BY <1>a, <1>b, SMT DEF TimerTicks, fileVars, libVars, mainVars, Strayed, FaultCause,
     Loaded
<1>. QED
  BY <1>1, <1>2, <1>3, <1>4, <1>5, <1>6 DEF Inv

\* A holder dies only after it was cancelled, when the lock tells nothing any more.
LEMMA TimerDiesInsideInv ==
    ASSUME Inv, Running, NEW g \in Copy, TimerDiesInside(g)
    PROVE  Inv'
<1>a. TypeOK /\ Files /\ Calls /\ Threads /\ Locks /\ Strayed /\ fault = "none" /\ main # "down"
  BY DEF Inv, Running
<1>1. TypeOK'
  BY <1>a, SMT DEF TimerDiesInside, fileVars, libVars, mainVars, TypeOK, MainPlace
<1>2. Files'
  BY <1>a, SMT DEF TimerDiesInside, fileVars, libVars, mainVars, Files
<1>3. Calls'
  BY <1>a, SMT DEF TimerDiesInside, Loaded, fileVars, libVars, mainVars, Calls, Asked,
     DownCause
<1>4. Threads'
  BY <1>a, SMT DEF TimerDiesInside, fileVars, libVars, mainVars, Threads, Stopped,
     Reloading, Copy
<1>5. Locks'
  BY <1>a, ReloadAssumption, SMT DEF TimerDiesInside, Loaded, fileVars, libVars, mainVars,
     TypeOK, Copy, MainPlace, Threads, Stopped, Reloading, Locks, Guarded
<1>6. Strayed'
  BY <1>a, SMT DEF TimerDiesInside, fileVars, libVars, mainVars, Strayed, FaultCause,
     Loaded
<1>. QED
  BY <1>1, <1>2, <1>3, <1>4, <1>5, <1>6 DEF Inv

\* The worker.
LEMMA WorkerChecksInv ==
    ASSUME Inv, Running, NEW g \in Copy, WorkerChecks(g)
    PROVE  Inv'
<1>a. TypeOK /\ Files /\ Calls /\ Threads /\ Locks /\ Strayed /\ fault = "none" /\ main # "down"
  BY DEF Inv, Running
<1>1. TypeOK'
  BY <1>a, SMT DEF WorkerChecks, fileVars, libVars, mainVars, TypeOK, MainPlace
<1>2. Files'
  BY <1>a, SMT DEF WorkerChecks, fileVars, libVars, mainVars, Files
<1>3. Calls'
  BY <1>a, SMT DEF WorkerChecks, Loaded, fileVars, libVars, mainVars, Calls, Asked,
     DownCause
<1>4. Threads'
  BY <1>a, SMT DEF WorkerChecks, fileVars, libVars, mainVars, Threads, Stopped, Reloading,
     Copy
<1>5. Locks'
  BY <1>a, SMT DEF WorkerChecks, Loaded, fileVars, libVars, mainVars, Locks, Guarded
<1>6. Strayed'
  BY <1>a, SMT DEF WorkerChecks, fileVars, libVars, mainVars, Strayed, FaultCause, Loaded
<1>. QED
  BY <1>1, <1>2, <1>3, <1>4, <1>5, <1>6 DEF Inv

LEMMA WorkerLocksInv ==
    ASSUME Inv, Running, NEW g \in Copy, WorkerLocks(g)
    PROVE  Inv'
<1>a. TypeOK /\ Files /\ Calls /\ Threads /\ Locks /\ Strayed /\ fault = "none" /\ main # "down"
  BY DEF Inv, Running
<1>1. TypeOK'
  BY <1>a, SMT DEF WorkerLocks, CanEnter, Entered, Loaded, fileVars, libVars, mainVars,
     TypeOK, Copy, MainPlace
<1>2. Files'
  BY <1>a, SMT DEF WorkerLocks, fileVars, libVars, mainVars, Files
<1>3. Calls'
  BY <1>a, SMT DEF WorkerLocks, CanEnter, Entered, Loaded, fileVars, libVars, mainVars,
     Calls, Asked, DownCause
<1>4. Threads'
  BY <1>a, SMT DEF WorkerLocks, fileVars, libVars, mainVars, Threads, Stopped, Reloading,
     Copy
<1>5. Locks'
  BY <1>a, ReloadAssumption, SMT DEF WorkerLocks, CanEnter, Entered, Loaded, fileVars,
     libVars, mainVars, TypeOK, Copy, MainPlace, Threads, Stopped, Reloading, Locks,
     Guarded
<1>6. Strayed'
  BY <1>a, SMT DEF WorkerLocks, fileVars, libVars, mainVars, Strayed, FaultCause, Loaded
<1>. QED
  BY <1>1, <1>2, <1>3, <1>4, <1>5, <1>6 DEF Inv

LEMMA WorkerSendsInv ==
    ASSUME Inv, Running, NEW g \in Copy, WorkerSends(g)
    PROVE  Inv'
<1>a. TypeOK /\ Files /\ Calls /\ Threads /\ Locks /\ Strayed /\ fault = "none" /\ main # "down"
  BY DEF Inv, Running
<1>1. TypeOK'
  BY <1>a, SMT DEF WorkerSends, Released, Loaded, fileVars, libVars, mainVars, TypeOK,
     Copy, MainPlace
<1>2. Files'
  BY <1>a, SMT DEF WorkerSends, fileVars, libVars, mainVars, Files
<1>3. Calls'
  BY <1>a, SMT DEF WorkerSends, Released, Loaded, fileVars, libVars, mainVars, Calls,
     Asked, DownCause
<1>4. Threads'
  BY <1>a, SMT DEF WorkerSends, fileVars, libVars, mainVars, Threads, Stopped, Reloading,
     Copy
<1>5. Locks'
  BY <1>a, ReloadAssumption, SMT DEF WorkerSends, Released, Loaded, fileVars, libVars,
     mainVars, TypeOK, Copy, MainPlace, Threads, Stopped, Reloading, Locks, Guarded
<1>6. Strayed'
  BY <1>a, SMT DEF WorkerSends, fileVars, libVars, mainVars, Strayed, FaultCause, Loaded
<1>. QED
  BY <1>1, <1>2, <1>3, <1>4, <1>5, <1>6 DEF Inv

\* Who strays is of a copy that was closed, hence cancelled.
LEMMA StraysInv ==
    ASSUME Inv, Running, NEW g \in Copy, Strays(g)
    PROVE  Inv'
<1>a. TypeOK /\ Files /\ Calls /\ Threads /\ Locks /\ Strayed /\ fault = "none" /\ main # "down"
  BY DEF Inv, Running
<1>1. TypeOK'
  BY <1>a, SMT DEF Strays, fileVars, libVars, mainVars, threadVars, TypeOK, MainPlace
<1>2. Files'
  BY <1>a, SMT DEF Strays, fileVars, libVars, mainVars, threadVars, Files
<1>3. Calls'
  BY <1>a, SMT DEF Strays, Loaded, fileVars, libVars, mainVars, threadVars, Calls, Asked,
     DownCause
<1>4. Threads'
  BY <1>a, SMT DEF Strays, fileVars, libVars, mainVars, threadVars, Threads, Stopped,
     Reloading, Copy
<1>5. Locks'
  BY <1>a, SMT DEF Strays, Loaded, fileVars, libVars, mainVars, threadVars, Locks, Guarded
<1>6. Strayed'
  BY <1>a, ReloadAssumption, SMT DEF Strays, Loaded, fileVars, libVars, mainVars,
     threadVars, TypeOK, Copy, MainPlace, Calls, Asked, DownCause, Threads, Stopped,
     Reloading, Strayed, FaultCause
<1>. QED
  BY <1>1, <1>2, <1>3, <1>4, <1>5, <1>6 DEF Inv

\* Every step keeps the invariant.
LEMMA NextInv == Inv /\ [Next]_vars => Inv'
<1> SUFFICES ASSUME Inv, [Next]_vars PROVE Inv'
  OBVIOUS
<1>1. CASE Running /\ (Remove \/ Create \/ Fill \/ Tick \/ TakeEvent)
  BY <1>1, RemoveInv, CreateInv, FillInv, TickInv, TakeEventInv
<1>2. CASE Load
  <2>1. PICK call \in {"first", "second"} : LibraryLoad(call)
    BY <1>2 DEF Load
  <2>2. Running
    BY <1>2 DEF Load
  <2>. QED
    BY <2>1, <2>2, StatFailsInv, UpToDateInv, NeedsReloadInv, CloseLibraryInv, OpenInv,
       OpenFailsInv DEF LibraryLoad
<1>3. CASE Manage
  BY <1>3, SleepInv, CloseQueueInv, CancelTimerInv, DestroyLockInv, StartTimerInv,
     StartWorkerInv DEF Manage
<1>4. CASE Enter \/ Leave
  BY <1>4, LockInv, HandleInv DEF Enter, Leave
<1>5. ASSUME NEW g \in Copy, TimerRuns(g) \/ TimerEnters(g)
      PROVE  Inv'
  BY <1>5, TimerTicksInv, TimerDiesInsideInv, TimerWakesInv, TimerLocksInv
     DEF TimerRuns, TimerEnters
<1>6. ASSUME NEW g \in Copy, WorkerRuns(g) \/ WorkerEnters(g)
      PROVE  Inv'
  BY <1>6, WorkerChecksInv, WorkerSendsInv, WorkerLocksInv DEF WorkerRuns, WorkerEnters
<1>7. CASE Running /\ \E g \in Copy : Strays(g)
  BY <1>7, StraysInv
<1>8. CASE UNCHANGED vars
  <2>1. UNCHANGED <<file, now, handle, loadedTime, flag, copy, statted, current, awake, main,
                    tries, mutex, closed, timer, cancelled, worker, fault>>
    BY <1>8 DEF vars, fileVars, libVars, mainVars, threadVars
  <2>2. (TypeOK /\ Files /\ Calls)' = (TypeOK /\ Files /\ Calls)
    BY <2>1 DEF TypeOK, Files, Calls, DownCause
  <2>3. (Threads /\ Locks /\ Strayed)' = (Threads /\ Locks /\ Strayed)
    BY <2>1 DEF Threads, Reloading, Locks, Strayed, Loaded, FaultCause
  <2>. QED
    BY <2>2, <2>3 DEF Inv
<1>. QED
  BY <1>1, <1>2, <1>3, <1>4, <1>5, <1>6, <1>7, <1>8 DEF Next

\* The invariant holds of every behaviour (library_load, on_pevent and the threads).
THEOREM InvHolds == Spec => []Inv
BY InitInv, NextInv, PTL DEF Spec

-----------------------------------------------------------------------------
(* What follows *)

\* Outside a reload the world has one clock, that of the copy that is loaded, and the queue
\* a worker (pevent_before_reload and pevent_after_reload): for any number of reloads.
THEOREM OneOfEachHolds == Spec => []OneOfEach
<1>1. ASSUME Inv PROVE OneOfEach
  <2>1. TypeOK /\ Calls /\ Threads
    BY <1>1 DEF Inv
  <2>2. SUFFICES ASSUME Running, ~Reloading
        PROVE  /\ {g \in Copy : timer[g] \notin {"none", "dead"} /\ g \notin cancelled} = {copy}
               /\ ~closed
               /\ worker[copy] \in {"check", "waiting", "woken", "inside"}
    BY <2>1 DEF OneOfEach
  <2>3. /\ timer[copy] \in {"asleep", "awake", "inside"} /\ ~closed
        /\ worker[copy] \in {"check", "waiting", "woken", "inside"}
        /\ copy \notin cancelled
    BY <2>1, <2>2 DEF Threads, Running, Reloading, Stopped
  <2>4. ASSUME NEW g \in Copy, timer[g] \notin {"none", "dead"}, g \notin cancelled
        PROVE  g = copy
    <3>1. g \in Nat /\ copy \in Nat
      BY <2>1 DEF TypeOK, Copy
    <3>2. ~(g < copy) /\ ~(g > copy)
      BY <2>1, <2>4 DEF Threads
    <3>. QED
      BY <3>1, <3>2
  <2>5. copy \in Copy
    BY <2>1 DEF TypeOK
  <2>. QED
    BY <2>3, <2>4, <2>5
<1>. QED
  BY <1>1, InvHolds, PTL

\* The lock that a reload destroys and sets up under its users lets no two of the main
\* thread, the timer and the worker into the state once the reload is over.
THEOREM Exclusion == Spec => []ExclusionUnlessReloading
<1>1. ASSUME Inv PROVE ExclusionUnlessReloading
  <2>1. SUFFICES ASSUME Running, ~Reloading
        PROVE  /\ ~(main = "inside" /\ TimerInside)
               /\ ~(main = "inside" /\ WorkerInside)
               /\ ~(TimerInside /\ WorkerInside)
    BY DEF ExclusionUnlessReloading
  <2>2. main \in Guarded
    BY <1>1, <2>1, Zenon DEF Inv, TypeOK, MainPlace, Calls, Running, Reloading, Guarded
  <2>. QED
    BY <1>1, <2>2 DEF Inv, Locks, TimerInside, WorkerInside
<1>. QED
  BY <1>1, InvHolds, PTL

\* A reload ends the process in two ways and no third: a thread of the old copy that was
\* not waited for, or a library that was missing when there was no further try.
THEOREM EndHasCause == Spec => []EndCause
<1>1. Inv => EndCause
  BY DEF Inv, Strayed, Calls, EndCause
<1>. QED
  BY <1>1, InvHolds, PTL

\* The variables keep their types; with that, dlopens never outnumber the values of the
\* clock (library_load).
THEOREM Typing == Spec => []TypeOK
<1>1. Inv => TypeOK
  BY DEF Inv
<1>. QED
  BY <1>1, InvHolds, PTL

=============================================================================
