----------------------------- MODULE Characters -----------------------------
(***************************************************************************)
(* The character files of one account, in the game server                  *)
(* (src/game_server_lib.c): handle_character_creation writes one,          *)
(* handle_send_character_list reads them all, handle_select_character      *)
(* takes the one at the index that the client chose from the last list it  *)
(* was sent, and src/directory.c yields them in an order of its own.       *)
(* Nothing but the index ties a choice to a file, the account may be       *)
(* logged in more than once, and the list has room for a few characters.   *)
(***************************************************************************)
EXTENDS Naturals, FiniteSets, Sequences, SequencesExt

CONSTANTS Conn,         \* connections of the account
          Name,         \* names of characters
          Unnamed,      \* what is read from a file with nothing in it
          Room,         \* characters that fit the list of 1024 bytes: two, or three
          MaxKill,      \* bound: ends of the server in the middle of something
          MaxFail       \* bound: files that cannot be opened or written

ASSUME CharacterAssumption ==
    /\ Unnamed \notin Name
    /\ Room \in Nat /\ MaxKill \in Nat /\ MaxFail \in Nat

VARIABLES
    dir,        \* the files of the directory, in the order readdir yields them
    whole,      \* those whose contents were written
    screen,     \* what a client does: "away", "list", "waiting" or "world"
    shown,      \* the list that its screen shows
    chosen,     \* the character it chose
    entered,    \* the character it was given
    making,     \* the creation under way: a connection and a name, or nothing
    server,     \* "up", "down", or "broken": beyond what the code defines
    kills, fails,
    shifted,    \* history: connections whose list misses a file, since another
                \* connection made one or a file could not be opened
    broken      \* history: characters whose last creation was cut short

fileVars == <<dir, whole>>
clientVars == <<screen, shown, chosen, entered>>
faultVars == <<kills, fails, broken>>
charVars == <<fileVars, clientVars, making, server, faultVars, shifted>>

CharInit ==
    /\ dir = <<>> /\ whole = {}
    /\ screen = [c \in Conn |-> "away"]
    /\ shown = [c \in Conn |-> <<>>]
    /\ chosen = [c \in Conn |-> Unnamed] /\ entered = [c \in Conn |-> Unnamed]
    /\ making = <<>>
    /\ server = "up" /\ kills = 0 /\ fails = 0
    /\ shifted = {} /\ broken = {}

Idle == server = "up" /\ making = <<>>

\* What reading a file gives, written being the files with contents.  An empty one is
\* read all the same: in the list its name was never set, in the world it is a
\* character of zeros.
ReadFile(n, written) == IF n \in written THEN n ELSE Unnamed

\* (mutant) a file is in the directory once for every time it is made
AddedAgain(n) == \E i \in 1 .. Len(dir) + 1 : dir' = InsertAt(dir, i, n)

\* A file that is there stays where it is, a new one appears anywhere.
Added(n) ==
    IF n \in Range(dir)
    THEN UNCHANGED dir
    ELSE \E i \in 1 .. Len(dir) + 1 : dir' = InsertAt(dir, i, n)

-----------------------------------------------------------------------------
\* handle_send_character_list: reads the files that can be opened into a buffer on the
\* stack.  bprintf looks at the room before each value, so the character that does not
\* fit any more is cut after a value, at the end of the buffer or past it; after the
\* latter the room that is left wraps around, and nothing is checked any more.
SendList(c, files, written) ==
    /\ screen' = [screen EXCEPT ![c] = "list"]
    /\ shown' = [shown EXCEPT ![c] =
                    [i \in 1 .. Min({Len(files), Room}) |-> ReadFile(files[i], written)]]
    /\ \/ UNCHANGED server
       \/ Len(files) > Room /\ server' = "broken"

\* The list that ends handle_auth, and handle_restart.
OpenList(c) ==
    /\ Idle /\ screen[c] \in {"away", "world"}
    /\ SendList(c, dir, whole)
    /\ shifted' = shifted \ {c}
    /\ UNCHANGED <<fileVars, chosen, entered, making, faultVars>>

\* One of the files cannot be opened: the list goes on without it.
OpenListSkips(c) ==
    /\ Idle /\ screen[c] \in {"away", "world"} /\ fails < MaxFail
    /\ \E i \in DOMAIN dir : SendList(c, RemoveAt(dir, i), whole)
    /\ fails' = fails + 1
    /\ shifted' = shifted \union {c}
    /\ UNCHANGED <<fileVars, chosen, entered, making, kills, broken>>

Leave(c) ==
    /\ Idle /\ screen[c] # "away"
    /\ screen' = [screen EXCEPT ![c] = "away"]
    /\ UNCHANGED <<fileVars, shown, chosen, entered, making, server, faultVars, shifted>>

\* fopen "w" in handle_character_creation empties the file that has the name.
OpenFile(c, n) ==
    /\ Idle /\ screen[c] = "list"
    /\ Added(n)
    /\ whole' = whole \ {n}
    /\ making' = <<c, n>>
    /\ shifted' = IF n \in Range(dir) THEN shifted ELSE shifted \union (Conn \ {c})
    /\ UNCHANGED <<clientVars, server, faultVars>>

\* It cannot be opened: the handler returns, and the client is told nothing.
OpenFails(c, n) ==
    /\ Idle /\ screen[c] = "list" /\ fails < MaxFail
    /\ fails' = fails + 1
    /\ screen' = [screen EXCEPT ![c] = "waiting"]
    /\ UNCHANGED <<fileVars, shown, chosen, entered, making, server, kills, shifted, broken>>

\* (mutant) a full disk is taken for a success
WriteFileUnwritten ==
    /\ server = "up" /\ making # <<>>
    /\ broken' = broken \ {making[2]}
    /\ SendList(making[1], dir, whole)
    /\ shifted' = shifted \ {making[1]}
    /\ making' = <<>>
    /\ UNCHANGED <<fileVars, chosen, entered, kills, fails>>

\* The contents reach the file with fclose; then the answer and the list.
WriteFile ==
    /\ server = "up" /\ making # <<>>
    /\ whole' = whole \union {making[2]}
    /\ broken' = broken \ {making[2]}
    /\ SendList(making[1], dir, whole')
    /\ shifted' = shifted \ {making[1]}
    /\ making' = <<>>
    /\ UNCHANGED <<dir, chosen, entered, kills, fails>>

\* They do not reach it, and nobody looks: the client is told of a success.
WriteFails ==
    /\ server = "up" /\ making # <<>> /\ fails < MaxFail
    /\ fails' = fails + 1
    /\ broken' = broken \union {making[2]}
    /\ SendList(making[1], dir, whole)
    /\ shifted' = shifted \ {making[1]}
    /\ making' = <<>>
    /\ UNCHANGED <<fileVars, chosen, entered, kills>>

-----------------------------------------------------------------------------
\* (mutant) counts the files from one
SelectNext(c, i) ==
    /\ Idle /\ screen[c] = "list"
    /\ chosen' = [chosen EXCEPT ![c] = shown[c][i]]
    /\ entered' = [entered EXCEPT ![c] = ReadFile(dir[(i % Len(dir)) + 1], whole)]
    /\ screen' = [screen EXCEPT ![c] = "world"]
    /\ UNCHANGED <<fileVars, shown, making, server, faultVars, shifted>>

\* handle_select_character: the client sends the index of its choice, the server walks
\* the directory anew.
Select(c, i) ==
    /\ Idle /\ screen[c] = "list"
    /\ chosen' = [chosen EXCEPT ![c] = shown[c][i]]
    /\ entered' = [entered EXCEPT ![c] = ReadFile(dir[i], whole)]
    /\ screen' = [screen EXCEPT ![c] = "world"]
    /\ UNCHANGED <<fileVars, shown, making, server, faultVars, shifted>>

\* The file cannot be opened: the client is dropped.
SelectFails(c, i) ==
    /\ Idle /\ screen[c] = "list" /\ fails < MaxFail
    /\ fails' = fails + 1
    /\ chosen' = [chosen EXCEPT ![c] = shown[c][i]]
    /\ screen' = [screen EXCEPT ![c] = "away"]
    /\ UNCHANGED <<fileVars, shown, entered, making, server, kills, broken, shifted>>

\* The server is ended, and starts again.
Kill ==
    /\ server = "up" /\ kills < MaxKill
    /\ kills' = kills + 1
    /\ server' = "down"
    /\ broken' = IF making = <<>> THEN broken ELSE broken \union {making[2]}
    /\ making' = <<>>
    /\ screen' = [c \in Conn |-> "away"]
    /\ UNCHANGED <<fileVars, shown, chosen, entered, fails, shifted>>

Boot ==
    /\ server = "down"
    /\ server' = "up"
    /\ UNCHANGED <<fileVars, clientVars, making, faultVars, shifted>>

CharNext ==
    \/ \E c \in Conn :
        \/ OpenList(c) \/ OpenListSkips(c) \/ Leave(c)
        \/ \E n \in Name : OpenFile(c, n) \/ OpenFails(c, n)
        \/ \E i \in DOMAIN shown[c] : Select(c, i) \/ SelectFails(c, i)
    \/ WriteFile \/ WriteFails
    \/ Kill \/ Boot

CharSpec == CharInit /\ [][CharNext]_charVars

-----------------------------------------------------------------------------
(* Properties *)

\* The types of the variables.
CharTypeOK ==
    /\ dir \in Seq(Name) /\ whole \subseteq Range(dir)
    /\ screen \in [Conn -> {"away", "list", "waiting", "world"}]
    /\ shown \in [Conn -> Seq(Name \union {Unnamed})]
    /\ {chosen, entered} \subseteq [Conn -> Name \union {Unnamed}]
    /\ making \in {<<>>} \union (Conn \X Name)
    /\ server \in {"up", "down", "broken"}
    /\ shifted \subseteq Conn /\ broken \subseteq Name

\* A client enters the world with the character it chose, whatever it or the other
\* logins of the account did before: the one index means the same file in the list and
\* in the walk of handle_select_character.  Only a file made by another login since, or
\* one that could not be opened, shifts it; and only a character whose creation was cut
\* short comes without what it was.
ChoiceIsEntered ==
    [][\A c \in Conn :
          (screen[c] = "list" /\ screen'[c] = "world" /\ c \notin shifted
             /\ chosen'[c] \in Name \ broken)
          => entered'[c] = chosen'[c]]_charVars

\* A character without contents is one whose last creation was cut short, by the end of
\* the server or a disk that was full, or is being made: nothing else empties a file,
\* and a creation that could not be begun does no harm to the character of that name.
EmptyCause ==
    CharTypeOK /\ \A n \in Range(dir) \ whole : n \in broken \/ (making # <<>> /\ making[2] = n)

\* The list outgrows its buffer only for an account with more characters than it has
\* room for: one that is made over again, by whichever login and however often its
\* creation was cut short, takes its place in the list once.
ListOverrunCause ==
    server = "broken" => Cardinality(Range(dir)) > Room
=============================================================================
