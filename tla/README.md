# l2auth in TLA+

A verification project for l2auth, a server emulator for Lineage 2 (chronicle 4)
written in C. It holds TLA+ modules that model the servers' logic, TLC runs that
check them on small instances, and proofs, checked by TLAPS, of what holds for
instances of every size. Everything models the Linux build.

## The system

Two processes. The **login server** (`login_server.c`) authenticates a client,
creates its account on first use and writes a session key to a file. The **game
server** (`game_server.c`, `game_server_lib.c`) reads that file, lets the client
pick a character and runs the world. Both sit on the same two libraries: an epoll
loop (`net_linux.c`) that calls a handler on the main thread, and a **work queue**
(`wqueue.c`) whose worker thread sends the responses. The game server's logic is a
shared library that is reloaded when its file changes, and has a third thread, a
timer that moves the world once a second.

| Component | State | Operations | Runs on | What is hard | What makes it correct |
|---|---|---|---|---|---|
| Work queue | `work[256]`, `wcount`, `closed` | `wstart`, `wpush`, `wclose`, the worker loop | any thread; worker | a wait without a predicate, lost signals, spurious wake-ups, an unlocked test of `closed`, a mutex that is destroyed and made anew outside every lock | items come out in order, once; how far it falls behind is known; undefined behaviour has a known cause |
| Game sessions and slots | `connections[1024]`, `characters[1024]` | `on_connection`, `on_disconnect`, the packets of login, lobby, entering, leaving, spawning | main thread, under the state lock | pointers both ways that are not cleared together, slots that are used again, clients that vanish, packets behind the one that got its client dropped | every packet finds its own connection; a player's character is its own |
| Movement and combat | per character: action, saved action, target, hit points | `move_to`, `moving_update`, `attacking_update`, `die`, `on_tick`, the packets that start them | main thread and timer, under the state lock | a coroutine that yields in mid-blow, a union read by a tag, a saved action resumed later, slots taken over | tag and payload agree; the dead lie still; a hunt goes on and a pursuit ends |
| Delivery, game server | `to_send`, `to_send_count`, `sent` | `push_response`, `broadcast`, `on_tick`, `send_responses` | all three, under the state lock | partial sends, connections freed and used again while queued | every client gets its bytes, once, in order |
| Delivery, login server | the same | the handlers' responses, `send_responses` | main thread and worker, with **no** lock | a race for the counters, a response written over another, a push from the worker itself | the same, until a response is made before the last one was sent and its counters were reset |
| Login session, accounts | `username`, keys; a directory and two files per account, the list of servers | four requests | main thread | requests in any order, files written in several steps, a crash or a full disk between them, files that do not open, a null `FILE` | an account has one password, and its keys go to who knows it |
| Session-key handover | `access.txt` | written by login, read by game | two processes | expiry, overwriting, no lock, a session that never logged in | a key is accepted only if it was given out less than a minute ago, for the right password |
| Reload | library handle, threads, lock | `library_load`, `before_reload`, `after_reload` | main thread | threads that run code that is unloaded, a cancelled thread that holds the lock, a file that is half written | one timer, one worker and a lock that excludes afterwards; no other end than the two it has |
| Network loop | epoll set, descriptors | `net_listen`, `net_send`, `net_close` | main thread | edge triggering, batches of old events, leaked descriptors, resets told to nobody, a drop that closes descriptor 0 | each event reaches the handler of its socket, and none is missed |
| Framing | request buffers, the game's cipher key | `handle_request`, `decrypt`, `on_request` | main thread | several packets in a read, or one packet in several; a size read before it is there | requests are handled whole, once, in order, each with its key |
| Character files | a file per character | `handle_character_creation`, `handle_send_character_list`, `handle_select_character`, `directory.c` | main thread | an index into a walk that is made anew, several logins of an account, files emptied before they are written | who chose a character gets it |
| Packet contents, ciphers | | `bprintf`, `pscanf`, `encrypt`, `checksum`, Blowfish, RSA | main thread | buffers at their limit | |

`PROJECT.json` lists the components with their status, and under "hazards" what in
this code is hard to test, line by line, with the properties that cover it.

The login server and the game server share only files; the parts of one server
share memory: the main thread's handlers and the timer write responses into the
buffer of a connection and push the connection to the work queue; the worker pops
it and sends. A handler that moves or hits a character writes into the slots of
others and, by `broadcast`, into the buffers of everybody in the world.

## The modules

| Module | Models | By |
|---|---|---|
| `WorkChannel` | what a user of the queue expects | an abstract specification: items in, items out |
| `WQueue` | `wqueue.c` | one action per critical section and per step outside the lock |
| `GameSession` | the tables of the game server | one action per handler and outcome |
| `World` | movement and combat | one action per packet, one per character of a tick |
| `ByteStream` | what a client expects of its connection | an abstract specification: bytes made, bytes received |
| `GameSend` | delivery in the game server | one action per critical section |
| `Delivery` | `GameSend` in time | fairness, and what it brings about |
| `LoginSend` | delivery in the login server, over all of `WQueue` | one action per access to the counters |
| `LoginSession` | the login server's table, requests and files | one action per handler and outcome, or per step of a file |
| `Tickets` | what the session keys promise | an abstract specification: tickets ordered, issued, shown |
| `Handover` | both servers over `access.txt`, over all of `LoginSession` | the read and the look at the clock are two actions |
| `Reload` | `library_load`, `handle_net_event`, the reload handlers, the threads | one action per call and per critical section |
| `Net` | `net_listen` | one action per system call, and per effect of a handler on descriptors |
| `Requests` | what a handler expects of its requests | an abstract specification: sent, arrived, handled |
| `Framing` | `on_request` of both servers, `handle_request`, `decrypt` | one action per read and per request |
| `Characters` | the character files of an account | one action per handler and outcome, creation in two |
| `...Proofs` | | theorems; `LoginProofs` about `LoginSession` and `Handover`, `WQueueProofs` about `WQueue` and `LoginSend`, `SystemProofs` about `Net` and `Characters` |
| `MC...` | | constants and symmetry for TLC |

`LoginSend` extends `WQueue`, `Handover` extends `LoginSession`, `Delivery` extends
`GameSend`. The others meet at interfaces that are small enough to be stated twice:
`GameSend` allows any order of the queue that `WQueue` has, `Reload` keeps of the queue
that a push wakes a waiting worker, `GameSession` takes the outcome of `handle_auth`
that `Handover` computes, and `Net` keeps of the handlers what they do with descriptors.

**WQueue.** `work` is the array up to `wcount`. The worker is at `check` (line 48),
`waiting` inside `pthread_cond_wait`, `signalled` on its way out of it, `running`
the callback, `exiting` once it has seen `closed` and unlocked, or `exited`. `wpush` is
two steps: the unlocked test of `closed` (`PushCheck`) and the critical section
(`PushCommit`). `wstart` after a close is two as well: it clears `closed` (`StartOpen`) and
then makes the mutex and the thread (`StartThread`), and a push may pass the test in
between. The two calls of 64-65 and those of 89-90 are a step each: whoever comes between
the calls of a pair fares as at what is still destroyed. Since the wait has no loop around
it, wake-ups and items are kept apart: `lost` counts the signals that found nobody asleep.
Where the C code has no defined behaviour any more (an index past the array, `wcount`
wrapped around, a destroyed mutex, a mutex made anew under a worker that is not gone)
`fault` says which and the model stops. The callback may push, as that of the login
server does.

**GameSession.** `socket`, `line`, `username`, `character` are the fields of
`connections[c]`; `line` is the line the coroutine of `handle_request_by_type`
resumes at. `active`, `owner` and `orc` are those of `characters[s]`; `owner` is the
`conn` pointer. The clients are part of the model: `screen` is what the client of a
socket shows, and decides which packets it sends; it may close (a `recv` of 0), be
reset (an error that `net_listen` reports to nobody) or send something else while
the first two packets are due. `open` are the descriptors the server has not closed:
after a peer's close it never closes them, so they are not handed out again.
A handler that drops a client does not end the loop of `on_request` (172): `rest` is the
connection, with socket 0, while packets of the same read are left, and the `Late...`
actions are their handlers; a client may have sent anything there. The slots taken by
them are in `late`. `granted`, `late` and `known` are history. Handlers that touch neither
table (`handle_send_character_list`, quests, ...) are not actions here.

**World.** A record per slot with the action, the union `action_payload` (the member
last written to it), the saved pair, the target and `wait_before_attacking`. The
timer locks the state for a whole tick, so packets are handled only while `turn` is
0; the updates of the slots within a tick are separate steps, because each reads what
the ones before it left. Positions are points of a line. `state->d` is a second and
the wait of a blow is 200 ms, so it ends at the next tick. A walk counts the ticks
since it began and its length in tenths of one (`ticks_to_move`); the offset of a walk
to a target shortens its time and not its way, as in the code. Packets of a
client that is not in the world are in `GameSession`.

**GameSend** and **Delivery.** The buffer of a connection is the sequence of its bytes,
each labelled with the client it was made for and its place in that client's stream;
`sent` is the counter. The queue is the set of connections in it, from which the worker
may take one and leave a second entry: `WQueue` shows that order and number of entries
are all the queue adds, and `GameSend` allows any. `Delivery` adds the fairness below.

**LoginSend.** Extends `WQueue` with a main thread that writes a response, loads and
stores `to_send_count` and pushes, and a worker whose callback sends, adds, tests and
resets in separate steps: no lock is held anywhere. The client may send its next request
at any time. `raced` notes when a response was made before the last one was sent and its
counters were reset; from then on the buffer holds parts of two responses.

**LoginSession.** One thread handles a request at a time; `busy` says in the middle of
which file it is, because the process may be killed there, and every operation on a file
may fail, opening one included. `on_request` asks for no order: requests come in any, with
any name and any password, and a connection that has not logged in has the empty name
(`None`) and the keys 0 and 0 (`Zero`). The two random keys of a login are drawn when it is
granted (`Key`), never twice the same. An account is `absent`, a `folder` without a file, a
file that is `empty` (or has only part of its 48 bytes), or the hash of a password. Reading
or writing through a null `FILE` ends the process; `fault` says whether the file was not
there or could not be opened (`AuthUnopened`: the directory or the hash of a sound account,
for lack of descriptors). A client is one connection. `OnConn` takes any free connection,
because `find_connection` clears the first one and they are alike.

**Handover.** A client connects to the game server as often as it likes, one connection at
a time, with any name and any keys it was sent, or 0 and 0. The game server reads the file
(`ReadAccess`), or cannot open it (`AccessUnopened`), and then looks at the clock
(`CheckExpiry`), while the login server goes on, in any step of writing the file again.
`Tickets` is seen through it by four mappings: a ticket is ordered while the file is being
written for it (`orderedBar`), valid while the file holds it with an expiry (`validBar`,
`untilBar`), and a client that read an empty file is as good as refused (`doorBar`). What a
client showed stays in `card`, so that `Tickets` knows which refusal it must account for.

**Reload.** A copy of the library has the number of its `dlopen`, and its own timer and
worker, which run that copy's code. The file is removed, created and filled again by a
build, at any time. A thread of a copy that is closed is a fault as soon as it would run
on; one that sleeps and was cancelled dies in its sleep, one that waits for a push stays
there. The queue's array is left to `WQueue`; a push wakes one waiting worker of any copy
or nobody, since `wstart` sets the condition up anew under those that wait.

**Net.** The kernel's side is a set of events that are due (`ready`), of which a wait takes
at most `MaxEvents` in any order; bytes are counted. The handler's side is `table` and the
descriptors it closes or leaves open (`files`): `recv` hands it a read (`RecvData`), and in
the course of it, at `handle`, it may leave files and directories open (`LeaveOpen`) and
drop the client (`DropClient`), more than once, since the game server's loop goes on behind
a drop with `socket` 0. The second drop closes standard input (`zero`), and from then on
descriptor 0 is given out, to files and to clients, while the table takes an entry with
socket 0 for a free one. The login server handles one request of a read, so that its
behaviours are among these.

**Framing.** A stream is the sequence of its requests and what was read of the last one;
a request is its size and the key it was encrypted with. A key is its running count,
since the other bytes never change. `stale` is the second byte of the buffer where no byte
of the next request is yet.

**Characters.** `dir` is the directory in the order of a walk, into which a new file goes
anywhere; `whole` are the files with contents. Only the list overruns its buffer; what is
beyond that is undefined and the model stops (`broken`). Clients of one account each have
a list on their screen and choose by their index in it.

## What the runs check

| Run | Instance | Shows |
|---|---|---|
| `wqueue` | 2 pushers, 2 items, array of 3, 4 pushes, 1 spurious wake-up, 1 restart | the backlog equals the lost signals; the causes of each fault; `WorkChannel` is implemented; all but as many items as signals were lost are delivered; a close stops a busy worker |
| `session` | 3 sockets, 2 connections, 3 slots, 1 account, 1 slot taken behind a drop | the tables agree with each other and with the clients; only a connection that kept its pointer after a restart can take a player's slot away (`EvictedByStalePointer`) |
| `world` | 1 player, 1 orc, places 20 apart, 3 hit points, blows of 2 | payloads agree with actions; npcs walk only up to somebody; the dead stay dead unless their own player clicks; an npc that is hit hunts on; only a second blow falls out of range; a pursuit of someone who left ends |
| `gamesend` | 2 connections, 2 clients, packets of 0 to 2 bytes, buffers of 2 | no byte is lost; `ByteStream` is implemented; a player gets everything |
| `loginsend` | 3 responses of 2 bytes, a buffer of 4, array of 2, 2 spurious wake-ups | the counters never wrap, and until a response is made too early they stay within the buffer and the client gets its stream |
| `handover` | 1 connection, 2 clients, 1 account and the empty name, 2 passwords, 2 keys valid to the end of their second, of 2, 1 kill, 1 failure | an account is half-made, and the login server ends by itself, only for the causes named; a stored hash stays; whoever is in the game under an account's name has keys issued for its password; `Tickets` is implemented |
| `reload` | 2 versions, 2 tries, 3 seconds | one timer and worker, exclusion, the two ends a reload can have, every event handled, the update taken |
| `net` | 2 clients, 3 descriptors (standard input is one), a table of 1, batches of 2 | descriptors and table agree, what is left open and why they run out, through drops that close descriptor 0; nothing missed; everybody served, once the clients rest |
| `framing` | both servers, 4 requests of 3 to 513 bytes, reads that end anywhere in the first 3 bytes | `Requests` is implemented; nothing whole stays in the buffer; the one way to misframe |
| `characters` | 2 logins, 3 names, a list for 2, 1 kill, 1 failure | the choice is what is entered; why a file is empty; why a list overruns |

Some properties are conjunctions of what belongs together: `DescriptorsKept` of `TypeOK`,
`DescriptorsAgree`, `LeftBehind` and `RunsOutByLeak`; `Served` of `BytesRead` and
`AcceptedAtLast`; `EndCause` of `FaultCause` and `DownCause`; `OneOfEach`, `EmptyCause`,
`NothingLeft` and `SendWithinBuffer` include the types of their modules. Where descriptors
and entries of the table are equally many, `RunsOutByLeak` says nothing: 1024 clients use up
a limit of 1024 descriptors before anything is left open.

Two runs find a disagreement between the code and what it says of itself:

- `session_orcs` (`OrcsKnown`): `handle_show_map` does not clear the slot of an orc; in
  the slot of a player that left, the orc keeps the connection, and neither the players
  in the world nor newcomers are told of it.
- `loginsend_reset` (`ResetWhenSent`): counters reset over a response that was not sent.

What else the models show the code to do, which a reader of it may not expect:

- A second blow waits a tick in mid-coroutine and falls on a victim that has walked out of
  range meanwhile; `LateBlowCause` says that nothing else does. A click on the ground
  during the walk to a target ends in the attack that was saved.
- A dead player that clicks walks (`DeathHolds` allows it).
- The rest of a partial response in the game's lobby waits for the client's next packet
  (`PlayerServed` is about players in the world); in the login server it is pushed by the
  worker itself, whose signal nobody hears, and waits for somebody else's push.
- A process that is killed while it creates an account, or a disk that is full then, leaves
  an account that ends the login server at each login (no file: `FaultCause`) or refuses
  everybody for ever (no hash). `login_server.c:345` announces that the connection will be
  dropped when the file cannot be created; the write through null comes first. Nor does it
  take a half-made account: when the hash of a sound one cannot be opened (296-298), the
  login server ends too. Descriptors run out, so this can be: every login leaves the
  directory of the accounts open (319), as a selection in the game server leaves that of
  the characters (1310).
- `0x02` without a login before it writes an `access.txt` of the empty name with the keys 0
  and 0, and the game server lets that name in with them (`AdmittedByPassword` says that no
  other name is let in without a password). `game_server_lib.c:692` drops a client with
  valid keys when the file cannot be opened.
- The game server handles the packets behind the one that got their client dropped. A
  character chosen there is in the world, belongs to a connection that is free, and stays
  when that is used again (`PlayerHeld` names it as the exception); a second packet that
  was not expected closes descriptor 0, and a client accepted on it has no connection.
- A reload that is not finished at the second `library_load` ends the server without the
  four tries that are left, and a timer that is awake when its code is unloaded ends it too
  (`EndCause`). A build that ends in the second in which a half-made library was loaded is
  not noticed, since `st_mtime` is the same.
- Each client that closes costs a descriptor for good, and so does every `access.txt` that
  `handle_auth` reads. A client that resets its connection keeps its connection and its
  character for good.
- Two logins of an account, or a name that is used again, change what an index means.

**Bounds.** Histories and counters are cut by `MaxPush`, `MaxSpurious`, `MaxStart`,
`MaxSaved`, `MaxLate`, `MaxProduced`, `NClient`, `MaxAsk`, `MaxTime`, `MaxKill`, `MaxFail`,
`MaxVersion`, `MaxUnread` and `MaxSent`, each a guard of one action, and by the finite sets
`Client` and `Key`. Four pushes overrun an array of three after the lost signals that takes;
one spurious wake-up is enough for every place the worker can be in. Two connections and
three sockets fill the connection table while a third client waits, and three slots hold two
players and an orc, or a player, an orc and a slot left behind. In `World` the places are
out of range of each other and two ticks apart, so that a chase is aimed anew at least once;
three hit points and blows of two leave an orc alive after the first. A buffer of two with
packets of two makes partial sends leave one byte in front of a new packet. In `loginsend` a
buffer of two responses is enough for a third one, made too early, to run past it. In
`handover` two seconds are enough for keys to be written, to expire before or after they are
read and to be written again by the other client, and one kill or failure to fall between
any two steps; `Minute` is 0 there, so that an expiry is reached on the first tick. The
login server has one connection, so its clients come one after the other, or while it has
none to spare; what two at a time, or two accounts, add is covered by the theorems, which
are about any number. In `reload` two versions make one reload, or one that is interrupted
by a build; three seconds bound the copies to three, since the half-made file can be loaded
too. In `net` two descriptors besides standard input and a table of one make a second client
wait for a descriptor that is given back or leaked, or for descriptor 0, or be turned away;
one byte at a time is enough, because the loops read until nothing is left. In `session` one
slot taken behind a drop can be left behind for good, be reached by a newcomer in the same
connection, or be used again by the others. In `framing` the sizes are the smallest there
are, one that is longer than any cut, and 256 and 513, whose first byte by itself is 0 or 1;
four requests have two before and after the cipher starts. In `characters` three names
overrun a list for two.

**Fairness.** `FairSpec` of `WQueue`: the worker's own steps, its end included, and the
second halves of a push and of a `wstart` that began are weakly fair, because all are only
scheduled (the mutex is held for a few instructions and handed on). No push, close, start or
spurious wake-up is fair; a `fault` ends the obligations. `World`: only the timer is, a loop
around `sleep(1)`. `Delivery`: the timer and the worker's send are weakly fair. That the
worker takes a given connection is strongly fair: a connection that `on_tick` pushes every
second comes out at last, because the queue is first in, first out and never drops an item
(`FifoDelivery`); and so is that its socket takes something, as the client reads. This is so
only short of the array's end: `on_tick` holds the state lock while it pushes N connections,
a worker that the first push woke waits for that lock in `send_responses`, and the other N-1
signals are lost. The backlog then grows with every tick, up to `work[256]` and the overrun
that `BacklogIsLostSignals` and `FaultCause` describe; `Delivery` is about a queue that has
not come to that. `Reload`: all threads are scheduled; taking the lock is strongly fair,
since the timer sleeps a second and the worker waits for a push between two turns. The
build, the clock and the clients are not fair. `Net`: the loop is weakly fair, and so is the
end of the handling of a read, which has finitely many packets; that everybody is accepted
holds under `ClientsRest`, for a client that never stops sending keeps the loop at itself.

Deadlock is not checked: a queue nobody pushes to, a finished bounded history and a
crashed server do stop.

## What is proved

For every value of the constants that satisfies the modules' assumptions (named
`...Assumption`: sizes are natural numbers, names are distinct, requests and responses have
sizes the code can cope with):

- **WQueueProofs**: type correctness; `FifoDelivery`; `BacklogIsLostSignals`;
  `FaultCause` and `WorkerPushInCallback`; and that `WQueue` implements `WorkChannel`.
  The backlog is inductive by itself: a push adds one to the array and one to either
  `lost` or the wake-ups under way, a take removes one of each. `FaultCause` is not: it
  needs that a thread that ends does so on a queue that is closed or just being opened
  again (`ExitedIsClosed`), and the
  backlog equation, from which the bounds on the overrun and the underflow are
  arithmetic. The module also holds the theorems of `LoginSend`, whose steps are steps of
  the queue or leave it alone (`QueueStep`): `SendWithinBuffer`, and that `LoginSend` takes
  only steps of `ByteStream` until a response is made too early (`StreamUntilRaced`). Whatever
  the client does, the counters stay in order (`Ordered`: what was sent never passes the
  count, nor the copy that the main thread is adding to). As long as nothing `raced`,
  `CalmInv` says what they stand for at each place of either thread: for nothing
  while a response is made and not counted (`UncountedAgrees`, so that the load of
  `to_send_count` reads 0), otherwise for one response of which `sent` bytes were sent
  (`CountersAgree`), except after the decision to reset, which may be older than the
  response; and that `to_send` holds the response they count (`BytesAgree`). The inductive
  invariant `SendInv` is `Ordered` and, unless `raced`, `CalmInv`. For any length of a
  response and of a buffer it fits in.
- **GameSessionProofs**: type correctness, `SocketsDistinct`, `ClientServerAgree`,
  `AuthBeforeGame`, `PlayerHeld` and `NpcsKnown`, and the action property
  `EvictedByStalePointer`. Agreement needs to know what
  `get_connection_from_socket` returns, which is the lemma `ConnectionFound`
  (the least match of a loop, from the well-foundedness of the naturals); that a screen
  belongs to one connection; and that the slot the handlers pick is not active. The last
  two rest on what a packet of one client does to the others (`Elsewhere`): it writes to no
  slot in use but the one its own connection points at, and leaves what others know alone.
  The `Late...` actions have lemmas of their own (`LateStep`, `LateElsewhere`): what they
  have in common is that their connection has no client (`RestDropped`), so that the
  invariant says nothing of it. That a newcomer does not get the character which was chosen
  behind a drop in its connection is a second invariant, `ChosenInv`: such a character is
  owned by the connection that chose it, and a connection in use points at another's.
- **GameSendProofs**: type correctness, `CountersAgree`, `NothingLost`, and that
  `GameSend` implements `ByteStream`. The inductive invariant `Inv` adds to the three:
  a client has one connection at most (`Distinct`), connections belong to clients that
  were accepted (`Accepted`), one that was not has no bytes (`Fresh`), and what a client
  received is the start of its stream (`Delivered`). `PushStep` and `SendStep` are the
  two steps that move bytes; for the abstract specification a push is a `Produce`, a send
  to a client is a `Receive` and the rest stutters.
- **WorldProofs**: type correctness, `PayloadMatchesAction`, `NpcNeverStrolls` and
  `DeadNpcsLieStill`, and the action properties `DeathHolds`, `LateBlowCause` and
  `NpcHuntsOn`. The first two of these need a second invariant, `Sound`: an npc without hit
  points is dead, or it would fight back; a second blow follows a first (`Fine`); and nobody
  aims at a slot that was never used (`Aims`). The inductive invariant `Inv` says of every slot, the
  inactive ones included, that it is `Good`: action and payload agree, the saved ones too,
  and the rules for npcs hold. It adds that a walk is longer than the offset it is aimed
  with, without which the position on a leg is not defined, and that a player only steers a
  slot with a connection (`Steering`), so that no packet reaches an npc. The updates of
  the timer are lemmas about a table of characters (`StrikeGood`, `AttackGood`,
  `ArriveGood`, `MovingGood`), cited by the timer's step and by the packet that attacks.
  The hunt is followed through the same tables (`HuntKept`): each update keeps the attack,
  under way or saved for an arrival, unless the quarry is dead or gone (`Lost`).
- **LoginProofs**, of `LoginSession`: type correctness, `SessionAgrees`, `GrantedByPassword`,
  `KeysOfAccount`, `HalfMadeIsCut`, `RefusedForCause`, `FaultCause`, `EmptyListCause` and
  `PasswordKept`, with requests in any order. The inductive invariant `Inv` has four parts
  besides the types. `SessionAgrees` is what a connection holds. `Files` relates the disk to
  its history: a hash is that of the account's owner, who is unknown before it was stored or
  lost, and what is half-made was cut. `Rights` relates what was issued to it: keys go with a
  name and the password of that account, in memory and in the files. `Handling` is what the
  handler under way knows and has done: one that creates an account is alone at it.
  Of `Handover`: that this invariant carries over (a step of `Handover` is one of
  `LoginSession`, or leaves all of its variables but `fails` alone), `AdmittedByPassword`, and
  that `Handover` implements `Tickets`. The inductive invariant `HInv` adds `CardAgrees`:
  a client whose keys were read with an expiry, or that is in, has shown keys it was sent,
  issued for the name it shows and its password, or the empty name and no keys.
- **FramingProofs**: type correctness, `NothingLeft`, `MisframedCause`, and that `Framing`
  implements `Requests`. The inductive invariant `Inv` says what the two ends have counted:
  what was handled is the start of what was sent (`Prefix`) and had arrived (`Ahead`), each
  key is the one after the last request of its side (`Keys`), and the byte left in the
  buffer is the high byte of the last size (`Remainder`). A client of the login server is
  one request ahead at most (`Patience`). `HandlesWhatWasSent` is the step that counts: the
  request a handler decrypts is the one that was encrypted.
- **ReloadProofs**: type correctness, `OneOfEach`, `ExclusionUnlessReloading` and
  `EndCause`, for any number of reloads. The inductive invariant `Inv` says when the flag of
  `library_load` is set (`Calls`, from which the first call never closes and the second
  never finds the library up to date), that the copies before the last had their timer
  cancelled (`Threads`), and that between the new lock of one reload and the cancelled timer
  of the next the lock tells who is in the state (`Locks`). That the clock bounds the number
  of copies is `copy <= loadedTime + 1` in `Files`.
- **SystemProofs**, of `Net`: `DescriptorsKept` and `NothingMissed`, for any numbers of
  clients and descriptors, any table and any size of a batch. `NothingMissed` speaks of a loop
  that waits; its inductive form, `Noticed`, says at every place of the loop that whatever
  there is to see in a watched descriptor is in the kernel's set, in the batch or in the
  `recv` loop, or the handling of a read, under way. `LeftBehind` needs that a client that was
  closed had nothing left
  to read (`Strays`, which leaves out descriptor 0), and `RunsOutByLeak` that the table is
  never fuller than it is long (`TableFits`): when no descriptor is free, each is in an entry
  or was left open, so at least all but the length of the table were, whatever that is.
  Of `Characters`: `EmptyCause`, `ListOverrunCause` and `ChoiceIsEntered`, for any numbers
  of logins, names and places in the list. The inductive invariant `CharInv` says that the
  directory has a name once (`Distinct`), that the file being made is in it and empty
  (`Made`), and that the entry of a list that is not shifted is what stands at its place in
  the directory (`ListsAgree`). The lemmas before it are about a directory into which a file
  is put anywhere.

One hypothesis restricts more than types and bounds: that a response of the login server
fits into its buffer (`LoginAssumption` of `LoginSend`): the longest is the list of servers,
of which there are 8 at most in 22 bytes each, for a buffer of 1024.

**Only model-checked**: the liveness properties (`AllButLostDelivered`,
`CloseStopsBusyWorker`, `PursuitEnds`, `PlayerServed`, `EventHandled`, `UpdateTaken`,
`Served`), which rest on fairness and are out of the prover's reach. Every invariant and
every action property of the passing runs, and every refinement, is a theorem.

## What is not modelled

- The Windows branches; OpenSSL, whose headers are more than nine tenths of the
  repository's lines; the contents and the layout of packets: `bprintf`, `pscanf`, the
  checksum, Blowfish, RSA and the XOR of the game's cipher are functions on bytes without
  state, except for the running count of the key, which `Framing` has.
- In `World`: space (a line instead), heights and headings, distances that do not fit 32
  bits (`distance_between` squares them), the position a client reports (its correction is
  sent when the distance is below `sqr(32)`, not above, 2303), and a click on the place one
  stands on (a walk of length zero divides by zero in floating point).
- In `GameSession` a client waits for the answer to a packet before it sends the next, as one
  that follows its screens does, except in the read that gets it dropped. How packets share
  reads is in `Framing`, and a read is finite in all modules: a request of size 0, on which
  `handle_request` makes no progress and its caller loops for ever, is left out by the sizes
  that `Framing` assumes.
- In `GameSend` the bytes pushed fit the buffer, and a send to a client that reset its
  connection takes nothing; in fact it raises SIGPIPE, which nobody handles.
- In `LoginSend` the connection is not given to a second client while it is queued, and
  every read holds a whole request, so that every push follows a response.
- In `LoginSession` names of accounts are well formed and `memmove`s of requests are in
  `Framing`. `data/accounts` is there when the server starts. That it is there and cannot be
  listed is modelled as far as descriptors run out, where the `fopen` that follows fails
  too (`AuthUnopened`); if only the right to list it is missing, `account_exists` stays 0 and
  `fopen` with "w" writes the hash of whoever asks over one that is there: `PasswordKept`
  does not hold then.
- In `Characters` a file that was emptied shows a name nobody initialised; it is `Unnamed`,
  and `ChoiceIsEntered` says nothing of it.
- In `Net` the epoll set has room and `epoll_ctl` does not fail.
- `net_port`, `net_sock`, `on_init` and `setlocale` run once before everything else; they
  are the initial states.

## Running

    tlc -workers 2 -config MCWQueue.cfg MCWQueue
    tlapm GameSendProofs.tla

The name of a configuration starts with the name of its module.
