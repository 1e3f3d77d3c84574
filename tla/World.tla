-------------------------------- MODULE World --------------------------------
(***************************************************************************)
(* What characters do in the world of the game server: players walk,       *)
(* select a target and attack it; orcs fight back; the timer moves         *)
(* everybody once per second (src/game_server_lib.c).                      *)
(*                                                                         *)
(* The timer holds the state lock while it updates the characters, in the  *)
(* order of their slots; "turn" is the slot it is at, and packets are      *)
(* handled between two ticks.  Positions are points of a line and one tick *)
(* covers Speed of them; the height, the heading and every number that     *)
(* only ends up in a reply are left out.                                   *)
(***************************************************************************)
EXTENDS Integers

CONSTANTS NSlot,    \* length of characters[] less its first element: 1023
          Player,   \* connections with a client in the game
          Nobody,   \* a null conn pointer: the character is an npc
          Place,    \* where a client may stand and click
          Speed,    \* way covered between two ticks (run_speed)
          Range,    \* atk_range: 60
          Offset,   \* how near a walk to a target has to lead: 50
          MaxHp,    \* hit points of a fresh character
          Damage    \* of one blow: 10

ASSUME WorldAssumption ==
    /\ NSlot \in Nat \ {0}
    /\ Nobody \notin Player
    /\ Place \subseteq Int
    /\ Speed \in Nat \ {0} /\ Range \in Nat /\ Offset \in 0 .. Range
    /\ MaxHp \in Nat \ {0} /\ Damage \in Nat \ {0}

VARIABLES
    char,     \* the characters: one record per slot
    mine,     \* per player: the slot its connection points at, 0 for none
    inWorld,  \* per player: its client is in the world
    turn      \* the slot the timer is at, 0 when the lock is free

vars == <<char, mine, inWorld, turn>>

Slot == 1 .. NSlot

Action == {"idle", "moving", "attacking", "dead"}

\* The union action_payload, with the member last written to it.
NoPayload == [kind |-> "none"]
Attacking(t) == [kind |-> "attacking", obj |-> t, line |-> "start"]

\* A slot after memset: not active, at 0, without hit points.
Cleared == [active |-> FALSE, conn |-> Nobody, x |-> 0, hp |-> 0, target |-> 0,
            act |-> "idle", payload |-> NoPayload,
            prevAct |-> "idle", prevPayload |-> NoPayload, waiting |-> FALSE]

Init ==
    /\ char = [s \in Slot |-> Cleared]
    /\ mine = [p \in Player |-> 0]
    /\ inWorld = [p \in Player |-> FALSE]
    /\ turn = 0

-----------------------------------------------------------------------------
(* What one character does: operators on the table of characters *)

Abs(n) == IF n < 0 THEN -n ELSE n
AtLeastOne(n) == IF n < 1 THEN 1 ELSE n

\* distance_between_characters compared with r: 0 when either is not active.
Within(cs, a, b, r) ==
    \/ ~cs[a].active \/ ~cs[b].active
    \/ Abs(cs[b].x - cs[a].x) <= r

\* The member "moving" of the union.  "since" counts the ticks since the walk began
\* and "ticks" is its length in tenths of one.  The offset makes a walk shorter in
\* time and not in space: sin and cos are taken of the length less the offset, so
\* it ends at "to", faster than Speed.
Walk(from, to, offset, goal) ==
    [kind |-> "moving", offset |-> offset, goal |-> goal, src |-> from, dest |-> to,
     ticks |-> AtLeastOne((10 * (Abs(to - from) - offset)) \div Speed), since |-> 0]

\* Where a walk has led after the ticks since it began, before its time is up.
Leg(m) ==
    LET way == Abs(m.dest - m.src)
        gone == (Speed * m.since * way) \div (way - m.offset)
    IN IF m.dest < m.src THEN m.src - gone ELSE m.src + gone

\* (mutant) saves the action and forgets its payload
MoveToHalfSaved(c, x, offset, goal, queued) ==
    [c EXCEPT !.prevAct = IF queued THEN c.act ELSE @,
              !.act = "moving",
              !.payload = Walk(c.x, x, offset, goal)]

\* move_to: c walks to x.  The queued form saves what c was doing.
MoveTo(c, x, offset, goal, queued) ==
    [c EXCEPT !.prevAct = IF queued THEN c.act ELSE @,
              !.prevPayload = IF queued THEN c.payload ELSE @,
              !.act = "moving",
              !.payload = Walk(c.x, x, offset, goal)]

Die(c) == [c EXCEPT !.hp = 0, !.act = "dead", !.payload = NoPayload,
                    !.prevAct = "idle", !.prevPayload = NoPayload]

\* (mutant) the test for an npc is inverted
FightBackPlayer(c, a) ==
    IF c.conn # Nobody /\ c.act # "attacking"
    THEN [c EXCEPT !.act = "attacking", !.payload = Attacking(a)]
    ELSE c

\* An npc that is hit turns against the attacker unless it is attacking already.
FightBack(c, a) ==
    IF c.conn = Nobody /\ c.act # "attacking"
    THEN [c EXCEPT !.act = "attacking", !.payload = Attacking(a)]
    ELSE c

\* The damage of one blow, and death.
Wound(c) ==
    LET hit == [c EXCEPT !.hp = @ - Damage] IN
    IF hit.hp <= 0 THEN Die(hit) ELSE hit

\* (mutant) an npc turns against its killer after it died
HurtThenFightBack(c, a) == FightBack(Wound(c), a)

\* The blow as its victim takes it.
Hurt(c, a) == Wound(FightBack(c, a))

\* "launch attack" and what follows: the coroutine ends and starts over.
Strike(cs, a) ==
    LET t == cs[a].payload.obj
        struck == [cs EXCEPT ![a] = [@ EXCEPT !.waiting = TRUE, !.payload = Attacking(t)]]
    IN [struck EXCEPT ![t] = Hurt(@, a)]

\* The end of an attack: nothing is left to attack.
GiveUp(cs, a) == [cs EXCEPT ![a] = [@ EXCEPT !.act = "idle", !.waiting = FALSE]]

\* (mutant) walks to the place of the target instead of to the target
ChaseToPlace(cs, a, t) == [cs EXCEPT ![a] = MoveTo(@, cs[t].x, Offset, 0, TRUE)]

\* Too far away: the attack is saved for the end of a walk to the target.
Chase(cs, a, t) == [cs EXCEPT ![a] = MoveTo(@, cs[t].x, Offset, t, TRUE)]

\* (mutant) strikes from afar when it has a target already
AttackingUpdateFromAfar(cs, a) ==
    LET me == cs[a]
        t == me.payload.obj
    IN IF me.payload.line = "swing" THEN Strike(cs, a)
       ELSE IF ~cs[t].active \/ cs[t].hp <= 0 THEN GiveUp(cs, a)
       ELSE IF me.waiting /\ ~Within(cs, a, t, Range) THEN Chase(cs, a, t)
       ELSE IF me.waiting THEN [cs EXCEPT ![a].payload.line = "swing"]
       ELSE Strike(cs, a)

\* (mutant) attacks on when the target has left
AttackingUpdateBlind(cs, a) ==
    LET me == cs[a]
        t == me.payload.obj
    IN IF me.payload.line = "swing" THEN Strike(cs, a)
       ELSE IF ~Within(cs, a, t, Range) THEN Chase(cs, a, t)
       ELSE IF me.waiting THEN [cs EXCEPT ![a].payload.line = "swing"]
       ELSE Strike(cs, a)

\* attacking_update.  A second blow waits for a tick in the middle of the
\* coroutine; when the wait is over it falls without another look at the target.
AttackingUpdate(cs, a) ==
    LET me == cs[a]
        t == me.payload.obj
    IN IF me.payload.line = "swing" THEN Strike(cs, a)
       ELSE IF ~cs[t].active \/ cs[t].hp <= 0 THEN GiveUp(cs, a)
       ELSE IF ~Within(cs, a, t, Range) THEN Chase(cs, a, t)
       ELSE IF me.waiting THEN [cs EXCEPT ![a].payload.line = "swing"]
       ELSE Strike(cs, a)

\* The end of a walk, at x: whatever was saved is taken up again and, when it is
\* an attack, goes on at once.
Arrive(cs, s, x) ==
    LET c == [cs[s] EXCEPT !.x = x, !.act = cs[s].prevAct, !.payload = cs[s].prevPayload,
                           !.prevAct = "idle", !.prevPayload = NoPayload]
        at == [cs EXCEPT ![s] = c]
    IN IF c.act = "attacking" THEN AttackingUpdate(at, s) ELSE at

\* moving_update: the time is up; or one more leg, after which a walk to a
\* target ends, when the target is gone or near enough, or is aimed anew.
MovingUpdate(cs, s) ==
    LET m == cs[s].payload
        x == Leg(m)
        at == [cs EXCEPT ![s].x = x]
    IN IF 10 * m.since >= m.ticks THEN Arrive(cs, s, m.dest)
       ELSE IF m.goal = 0 THEN at
       ELSE IF ~cs[m.goal].active \/ Within(at, s, m.goal, m.offset) THEN Arrive(cs, s, x)
       ELSE [at EXCEPT ![s] = MoveTo(@, cs[m.goal].x, m.offset, m.goal, FALSE)]

CharacterUpdate(cs, s) ==
    CASE cs[s].act = "moving" -> MovingUpdate(cs, s)
      [] cs[s].act = "attacking" -> AttackingUpdate(cs, s)
      [] OTHER -> cs

-----------------------------------------------------------------------------
(* The timer: on_tick *)

\* The time that passed, as moving_update sees it; what is over stays over.
Older(c) ==
    IF c.payload.kind = "moving" /\ 10 * c.payload.since < c.payload.ticks
    THEN [c EXCEPT !.payload.since = @ + 1]
    ELSE c

Next1(s) == IF s = NSlot THEN 0 ELSE s + 1

TickStart ==
    /\ turn = 0
    /\ turn' = 1
    /\ char' = [s \in Slot |-> Older(char[s])]
    /\ UNCHANGED <<mine, inWorld>>

TickCharacter ==
    /\ turn # 0
    /\ char[turn].active
    /\ char' = CharacterUpdate(char, turn)
    /\ turn' = Next1(turn)
    /\ UNCHANGED <<mine, inWorld>>

TickInactive ==
    /\ turn # 0
    /\ ~char[turn].active
    /\ turn' = Next1(turn)
    /\ UNCHANGED <<char, mine, inWorld>>

-----------------------------------------------------------------------------
(* Packets *)

\* The loops over characters[] that look for a slot to use: the first that is
\* not active.
IsFreeSlot(s) == ~char[s].active /\ \A t \in 1 .. s - 1 : char[t].active

\* handle_select_character: the slot is cleared and filled from the file.
HandleSelectCharacter(p, x) ==
    /\ turn = 0
    /\ ~inWorld[p]
    /\ \E s \in Slot :
         /\ IsFreeSlot(s)
         /\ char' = [char EXCEPT ![s] = [Cleared EXCEPT !.active = TRUE, !.conn = p,
                                                        !.x = x, !.hp = MaxHp]]
         /\ mine' = [mine EXCEPT ![p] = s]
    /\ inWorld' = [inWorld EXCEPT ![p] = TRUE]
    /\ UNCHANGED turn

\* handle_restart, handle_leave_world: only the active flag is reset.
HandleRestart(p) ==
    /\ turn = 0
    /\ inWorld[p]
    /\ char' = [char EXCEPT ![mine[p]].active = FALSE]
    /\ inWorld' = [inWorld EXCEPT ![p] = FALSE]
    /\ UNCHANGED <<mine, turn>>

\* on_disconnect, in the world or at the list of characters.
OnDisconnect(p) ==
    /\ turn = 0
    /\ mine[p] # 0
    /\ char' = [char EXCEPT ![mine[p]].active = FALSE]
    /\ mine' = [mine EXCEPT ![p] = 0]
    /\ inWorld' = [inWorld EXCEPT ![p] = FALSE]
    /\ UNCHANGED turn

\* handle_show_map: the orc takes the fields listed there; the connection, the
\* actions, the target and "waiting" are what the slot holds.
HandleShowMap(p) ==
    /\ turn = 0
    /\ inWorld[p]
    /\ \E s \in Slot :
         /\ IsFreeSlot(s)
         /\ char' = [char EXCEPT ![s] = [@ EXCEPT !.active = TRUE, !.hp = MaxHp,
                                                  !.x = char[mine[p]].x]]
    /\ UNCHANGED <<mine, inWorld, turn>>

\* handle_movement: a click on the ground.  The client says where it stands and
\* does not ask to walk to where it stands.
HandleMovement(p, origin, x) ==
    /\ turn = 0
    /\ inWorld[p]
    /\ origin # x
    /\ char' = [char EXCEPT ![mine[p]] = MoveTo([@ EXCEPT !.x = origin], x, 0, 0, FALSE)]
    /\ UNCHANGED <<mine, inWorld, turn>>

\* start_interaction, on the selected target unless it is oneself.
StartInteraction(s) ==
    LET t == char[s].target
        cs == [char EXCEPT ![s].act = "attacking", ![s].payload = Attacking(t)]
    IN IF t \in {0, s} THEN char' = char ELSE char' = AttackingUpdate(cs, s)

SelectTarget(s, t) ==
    char' = IF char[t].active THEN [char EXCEPT ![s].target = t] ELSE char

\* handle_action: a click on a character.  The second click on the same one
\* interacts with it.
HandleAction(p, t) ==
    LET s == mine[p] IN
    /\ turn = 0
    /\ inWorld[p]
    /\ CASE char[s].target = t /\ char[s].act \in {"idle", "moving"} -> StartInteraction(s)
         [] char[s].target = t /\ char[s].act = "attacking" -> char' = char
         [] OTHER -> SelectTarget(s, t)
    /\ UNCHANGED <<mine, inWorld, turn>>

\* handle_deselect_target: the look-up of the old target always succeeds, so
\* the character stops what it is doing even when it had no target.
HandleDeselectTarget(p) ==
    /\ turn = 0
    /\ inWorld[p]
    /\ char' = [char EXCEPT ![mine[p]] = [@ EXCEPT !.target = 0, !.act = "idle"]]
    /\ UNCHANGED <<mine, inWorld, turn>>

-----------------------------------------------------------------------------

Packet(p) ==
    \/ \E x \in Place : HandleSelectCharacter(p, x)
    \/ HandleRestart(p) \/ OnDisconnect(p)
    \/ HandleShowMap(p)
    \/ \E origin, x \in Place : HandleMovement(p, origin, x)
    \/ \E t \in Slot : HandleAction(p, t)
    \/ HandleDeselectTarget(p)

Next ==
    \/ TickStart \/ TickCharacter \/ TickInactive
    \/ \E p \in Player : Packet(p)

Spec == Init /\ [][Next]_vars

\* The timer thread keeps running; clients need not do anything.
FairSpec == Spec /\ WF_vars(TickStart \/ TickCharacter \/ TickInactive)

-----------------------------------------------------------------------------
(* Properties *)

IsAttack(p) == p.kind = "attacking"
IsWalk(p) == p.kind = "moving"

TypeOK ==
    /\ \A s \in Slot :
         /\ char[s].active \in BOOLEAN
         /\ char[s].conn \in Player \cup {Nobody}
         /\ char[s].x \in Int
         /\ char[s].hp \in 0 .. MaxHp
         /\ char[s].target \in Slot \cup {0}
         /\ char[s].act \in Action
         /\ char[s].waiting \in BOOLEAN
    /\ mine \in [Player -> Slot \cup {0}]
    /\ inWorld \in [Player -> BOOLEAN]
    /\ turn \in Slot \cup {0}

\* The action and the member of the union that was last written agree, for what
\* a character does and for what it will take up again after a walk: no update
\* reads a walk as an attack or the other way round, also in a slot that an orc
\* took over from a player.  Nobody attacks or walks up to itself.
PayloadMatchesAction ==
    \A s \in Slot : LET c == char[s] IN
        /\ c.act = "attacking" => IsAttack(c.payload)
        /\ c.act = "moving" => IsWalk(c.payload)
        /\ c.prevAct \in {"idle", "attacking"}
        /\ c.prevAct = "attacking" => IsAttack(c.prevPayload)
        /\ IsAttack(c.payload) => c.payload.obj \in Slot \ {s}
        /\ IsAttack(c.prevPayload) => c.prevPayload.obj \in Slot \ {s}
        /\ IsWalk(c.payload) => c.payload.goal \in (Slot \cup {0}) \ {s}

IsNpc(s) == char[s].active /\ char[s].conn = Nobody

\* An npc only ever walks up to somebody.  At the end of the first leg of a walk
\* to a place moving_update writes to the connection, which an npc has not.
NpcNeverStrolls ==
    \A s \in Slot : IsNpc(s) /\ char[s].act = "moving" => char[s].payload.goal # 0

\* An npc without hit points lies dead: neither the blow that finds it dead, nor
\* its own walk or attack that was under way, sets it going again.
DeadNpcsLieStill ==
    \A s \in Slot : IsNpc(s) /\ char[s].hp = 0 => char[s].act = "dead"

\* Whom a blow leaves without hit points is dead at once, and stays dead until the slot
\* is left or its own player clicks: no walk or attack that was under way, no second
\* blow and no fight back sets it going again.
DeathHolds ==
    [][\A s \in Slot :
         /\ char[s].hp > 0 /\ char'[s].hp = 0 => char'[s].act = "dead"
         /\ char[s].act = "dead" /\ char'[s].act # "dead" =>
              \/ ~char[s].active
              \/ turn = 0 /\ \E p \in Player : mine[p] = s]_vars

\* c attacks t, or walks with the attack on t saved for its arrival.
Hunts(c, t) ==
    \/ c.act = "attacking" /\ c.payload.obj = t
    \/ c.act = "moving" /\ c.prevAct = "attacking" /\ c.prevPayload.obj = t

\* An npc that is hit and lives hunts somebody, and one that hunts goes on, over
\* every walk, arrival and further blow, until it dies or its target does or
\* leaves.
NpcHuntsOn ==
    [][\A s \in Slot : IsNpc(s) /\ IsNpc(s)' /\ char'[s].hp > 0 =>
         /\ char'[s].hp < char[s].hp => \E t \in Slot : Hunts(char'[s], t)
         /\ \A t \in Slot : Hunts(char[s], t) =>
              \/ ~char[t].active \/ char[t].hp = 0
              \/ \E u \in Slot : Hunts(char'[s], u)]_vars

\* c attacks t or walks up to it.
Pursues(c, t) ==
    /\ c.active
    /\ \/ c.act = "attacking" /\ c.payload.obj = t
       \/ c.act = "moving" /\ c.payload.goal = t

\* Nobody pursues a character that has left for ever: the timer ends the attack
\* or the walk, unless somebody else comes to that slot first.
PursuitEnds ==
    \A s, t \in Slot :
        Pursues(char[s], t) /\ ~char[t].active ~> ~Pursues(char[s], t) \/ char[t].active

\* A blow falls within range of its attacker, except a second blow of the same attack:
\* between the look at the distance ("check if the attacker is in attack range",
\* game_server_lib.c:2373) and that blow there is the wait of a tick, and nothing else.
LateBlowCause ==
    [][\A t \in Slot : char'[t].hp < char[t].hp =>
         \E a \in Slot : /\ IsAttack(char'[a].payload) /\ char'[a].payload.obj = t
                         /\ \/ Within(char', a, t, Range)
                            \/ turn = a /\ char[a].waiting /\ char[a].act = "attacking"]_vars
=============================================================================
