----------------------------- MODULE WorldProofs -----------------------------
(***************************************************************************)
(* Proofs about World, for any number of characters and players, any       *)
(* places, ranges, speeds, hit points and damage.                          *)
(***************************************************************************)
EXTENDS World, TLAPS

(***************************************************************************)
(* What the slot s may hold.  A walk is longer than the offset it is aimed *)
(* with, so that the division in Leg has a positive divisor.               *)
(***************************************************************************)
AttackOf(s) ==
    [kind : {"attacking"}, obj : Slot \ {s}, line : {"start", "swing"}]

AnyWalk(s) ==
    [kind : {"moving"}, offset : Nat, goal : (Slot \cup {0}) \ {s},
     src : Int, dest : Int, ticks : Nat, since : Nat]

WalkOf(s) == {w \in AnyWalk(s) : Abs(w.dest - w.src) > w.offset}

PayloadOf(s) == {NoPayload} \cup AttackOf(s) \cup WalkOf(s)
SavedOf(s) == {NoPayload} \cup AttackOf(s)

CharOf(s) ==
    [active : BOOLEAN, conn : Player \cup {Nobody}, x : Int, hp : 0 .. MaxHp,
     target : Slot \cup {0}, act : Action, payload : PayloadOf(s),
     prevAct : {"idle", "attacking"}, prevPayload : SavedOf(s), waiting : BOOLEAN]

\* Action and payload of c agree.
Agrees(s, c) ==
    /\ c.act = "attacking" => c.payload \in AttackOf(s)
    /\ c.act = "moving" => c.payload \in WalkOf(s)
    /\ c.prevAct = "attacking" => c.prevPayload \in AttackOf(s)

\* An npc walks up to somebody, and is dead when it has no hit points; one that
\* is not in the world yet may have none.
NpcRules(c) ==
    c.conn = Nobody =>
        /\ c.act = "moving" => c.payload.goal # 0
        /\ c.active /\ c.hp = 0 => c.act = "dead"

Good(s, c) == c \in CharOf(s) /\ Agrees(s, c) /\ NpcRules(c)

Table(cs) ==
    /\ cs \in [Slot -> UNION {CharOf(s) : s \in Slot}]
    /\ \A s \in Slot : Good(s, cs[s])

\* A player steers a slot that has a connection, its own or a later player's.
Steering ==
    /\ \A p \in Player : mine[p] # 0 => char[mine[p]].conn # Nobody
    /\ \A p \in Player : inWorld[p] => mine[p] # 0

Inv ==
    /\ Table(char)
    /\ mine \in [Player -> Slot \cup {0}]
    /\ inWorld \in [Player -> BOOLEAN]
    /\ turn \in Slot \cup {0}
    /\ Steering

\* No connection is taken from a slot.
SameConn(cs, ds) == \A s \in Slot : ds[s].conn = cs[s].conn

-----------------------------------------------------------------------------
(* One character *)

LEMMA SlotFacts == /\ Slot \subseteq Nat /\ 0 \notin Slot
                   /\ Speed \in Nat \ {0} /\ Range \in Nat /\ Offset \in Nat
                   /\ Offset <= Range /\ MaxHp \in Nat \ {0} /\ Damage \in Nat \ {0}
                   /\ Nobody \notin Player
BY WorldAssumption DEF Slot

\* Changing one slot of a table.
LEMMA TableUpdate ==
    ASSUME NEW cs, Table(cs), NEW a \in Slot, NEW e, Good(a, e)
    PROVE  /\ Table([cs EXCEPT ![a] = e])
           /\ [cs EXCEPT ![a] = e][a] = e
           /\ \A s \in Slot \ {a} : [cs EXCEPT ![a] = e][s] = cs[s]
<1> DEFINE ds == [cs EXCEPT ![a] = e]
<1>1. cs \in [Slot -> UNION {CharOf(s) : s \in Slot}]
  BY DEF Table
<1>2. e \in UNION {CharOf(s) : s \in Slot}
  BY DEF Good
<1>3. ds \in [Slot -> UNION {CharOf(s) : s \in Slot}]
  BY <1>1, <1>2
<1>4. ds[a] = e /\ \A s \in Slot \ {a} : ds[s] = cs[s]
  BY <1>1
<1>5. \A s \in Slot : Good(s, ds[s])
  BY <1>4 DEF Table
<1> QED BY <1>3, <1>4, <1>5 DEF Table

\* A walk that is longer than its offset.
LEMMA WalkGood ==
    ASSUME NEW s \in Slot, NEW from \in Int, NEW to \in Int, NEW offset \in Nat,
           NEW goal \in (Slot \cup {0}) \ {s}, Abs(to - from) > offset
    PROVE  Walk(from, to, offset, goal) \in WalkOf(s)
<1>1. Abs(to - from) \in Int
  BY DEF Abs
<1>2. (10 * (Abs(to - from) - offset)) \div Speed \in Int
  BY <1>1, SlotFacts
<1>3. AtLeastOne((10 * (Abs(to - from) - offset)) \div Speed) \in Nat
  BY <1>2 DEF AtLeastOne
<1> QED BY <1>3 DEF Walk, WalkOf, AnyWalk

\* Every leg of it ends somewhere.
LEMMA LegGood ==
    ASSUME NEW s \in Slot, NEW m \in WalkOf(s)
    PROVE  Leg(m) \in Int
<1>1. m.src \in Int /\ m.dest \in Int /\ m.since \in Nat /\ m.offset \in Nat
  BY DEF WalkOf, AnyWalk
<1>2. PICK way \in Int : way = Abs(m.dest - m.src) /\ way - m.offset \in Nat \ {0}
  BY <1>1 DEF Abs, WalkOf
<1>3. Speed * m.since * way \in Int
  BY <1>1, SlotFacts
<1>4. (Speed * m.since * way) \div (way - m.offset) \in Int
  BY <1>2, <1>3
<1> QED BY <1>1, <1>2, <1>4 DEF Leg

\* Starting a walk, from an attack that is saved or from anything else.
LEMMA MoveToGood ==
    ASSUME NEW s \in Slot, NEW c, Good(s, c), NEW x \in Int, NEW offset \in Nat,
           NEW goal \in (Slot \cup {0}) \ {s}, NEW queued \in BOOLEAN,
           Abs(x - c.x) > offset, queued => c.act = "attacking",
           c.conn = Nobody => goal # 0 /\ (c.active => c.hp # 0)
    PROVE  /\ Good(s, MoveTo(c, x, offset, goal, queued))
           /\ MoveTo(c, x, offset, goal, queued).conn = c.conn
<1> DEFINE w == Walk(c.x, x, offset, goal)
           d == MoveTo(c, x, offset, goal, queued)
<1>1. c \in CharOf(s) /\ c.x \in Int
  BY DEF Good, CharOf
<1>2. w \in WalkOf(s) /\ w.goal = goal
  BY <1>1, WalkGood DEF Walk
<1>3. w \in PayloadOf(s)
  BY <1>2 DEF PayloadOf
<1>4. queued => c.payload \in AttackOf(s) /\ c.payload \in SavedOf(s)
  BY DEF Good, Agrees, SavedOf
<1>5. /\ d.act = "moving" /\ d.payload = w /\ d.conn = c.conn /\ d.active = c.active
      /\ d.hp = c.hp
      /\ d.prevAct = (IF queued THEN c.act ELSE c.prevAct)
      /\ d.prevPayload = (IF queued THEN c.payload ELSE c.prevPayload)
  BY <1>1 DEF MoveTo, CharOf
<1>6. d \in CharOf(s)
  BY <1>1, <1>3, <1>4 DEF MoveTo, CharOf, Action
<1>7. Agrees(s, d)
  BY <1>2, <1>4, <1>5 DEF Agrees, Good
<1>8. NpcRules(d)
  BY <1>2, <1>5, <1>1 DEF NpcRules, Good
<1> QED BY <1>5, <1>6, <1>7, <1>8 DEF Good

\* A blow, as its victim takes it.
LEMMA HurtGood ==
    ASSUME NEW t \in Slot, NEW c, Good(t, c), NEW a \in Slot \ {t}
    PROVE  Good(t, Hurt(c, a)) /\ Hurt(c, a).conn = c.conn
<1> DEFINE f == FightBack(c, a)
           hit == [f EXCEPT !.hp = @ - Damage]
<1>1. Attacking(a) \in AttackOf(t) /\ Attacking(a) \in PayloadOf(t)
  BY DEF Attacking, AttackOf, PayloadOf
<1>2. NoPayload \in PayloadOf(t) /\ NoPayload \in SavedOf(t)
  BY DEF PayloadOf, SavedOf
<1>3. /\ f \in CharOf(t) /\ f.conn = c.conn /\ f.active = c.active /\ Agrees(t, f)
      /\ f.hp \in 0 .. MaxHp
      /\ f.conn = Nobody => f.act = "attacking"
  BY <1>1 DEF FightBack, Good, CharOf, Agrees, Action
<1>4. f.hp - Damage \in Int /\ f.hp - Damage <= MaxHp
  BY <1>3, SlotFacts
<1>5. hit.hp = f.hp - Damage /\ Hurt(c, a) = IF hit.hp <= 0 THEN Die(hit) ELSE hit
  BY <1>3 DEF Hurt, Wound, CharOf
<1>6. CASE hit.hp <= 0
  <2>1. Die(hit) = [f EXCEPT !.hp = 0, !.act = "dead", !.payload = NoPayload,
                             !.prevAct = "idle", !.prevPayload = NoPayload]
    BY <1>3 DEF Die, CharOf
  <2>2. 0 \in 0 .. MaxHp
    BY SlotFacts
  <2>3. Die(hit) \in CharOf(t)
    BY <1>2, <1>3, <2>1, <2>2 DEF CharOf, Action
  <2>4. Die(hit).conn = c.conn /\ Die(hit).act = "dead" /\ Die(hit).prevAct = "idle"
    BY <1>3, <2>1 DEF CharOf
  <2> QED BY <2>3, <2>4, <1>5, <1>6 DEF Good, Agrees, NpcRules
<1>7. CASE ~(hit.hp <= 0)
  <2>1. /\ hit \in CharOf(t) /\ hit.conn = c.conn /\ hit.act = f.act
        /\ hit.payload = f.payload /\ hit.hp # 0
        /\ hit.prevAct = f.prevAct /\ hit.prevPayload = f.prevPayload
    BY <1>3, <1>4, <1>5, <1>7 DEF CharOf
  <2>2. Agrees(t, hit) /\ NpcRules(hit)
    BY <2>1, <1>3 DEF Agrees, NpcRules
  <2> QED BY <2>1, <2>2, <1>5, <1>7 DEF Good
<1> QED BY <1>6, <1>7

-----------------------------------------------------------------------------
(* The table of characters *)

\* What an update of a table leaves true.
Kept(cs, ds) == Table(ds) /\ SameConn(cs, ds)

\* Giving one slot a good character of the same connection.
LEMMA KeptUpdate ==
    ASSUME NEW cs, Table(cs), NEW a \in Slot, NEW e, Good(a, e), e.conn = cs[a].conn
    PROVE  Kept(cs, [cs EXCEPT ![a] = e])
BY TableUpdate DEF Kept, SameConn

\* A blow: the attacker first, then its victim.
LEMMA StrikeGood ==
    ASSUME NEW cs, Table(cs), NEW a \in Slot, cs[a].act = "attacking"
    PROVE  Kept(cs, Strike(cs, a))
<1> DEFINE t == cs[a].payload.obj
           e == [cs[a] EXCEPT !.waiting = TRUE, !.payload = Attacking(t)]
           mid == [cs EXCEPT ![a] = e]
           h == Hurt(mid[t], a)
<1>1. Good(a, cs[a])
  BY DEF Table
<1>2. t \in Slot \ {a}
  BY <1>1 DEF Good, Agrees, AttackOf
<1>3. Attacking(t) \in AttackOf(a) /\ Attacking(t) \in PayloadOf(a)
  BY <1>2 DEF Attacking, AttackOf, PayloadOf
<1>4. /\ e \in CharOf(a) /\ e.conn = cs[a].conn /\ e.act = cs[a].act
      /\ e.payload = Attacking(t) /\ e.active = cs[a].active /\ e.hp = cs[a].hp
      /\ e.prevAct = cs[a].prevAct /\ e.prevPayload = cs[a].prevPayload
  BY <1>1, <1>3 DEF Good, CharOf
<1>5. Good(a, e)
  BY <1>1, <1>3, <1>4 DEF Good, Agrees, NpcRules
<1>6. Table(mid) /\ SameConn(cs, mid)
  BY <1>4, <1>5, KeptUpdate DEF Kept
<1>7. Good(t, h) /\ h.conn = mid[t].conn
  BY <1>2, <1>6, HurtGood DEF Table
<1>8. Kept(mid, [mid EXCEPT ![t] = h])
  BY <1>2, <1>6, <1>7, KeptUpdate
<1>9. Strike(cs, a) = [mid EXCEPT ![t] = h]
  BY DEF Strike, Table
<1> QED BY <1>6, <1>8, <1>9 DEF Kept, SameConn

\* The walk of an attacker to a target out of range.
LEMMA ChaseGood ==
    ASSUME NEW cs, Table(cs), NEW a \in Slot, cs[a].act = "attacking",
           ~Within(cs, a, cs[a].payload.obj, Range)
    PROVE  LET t == cs[a].payload.obj
               e == MoveTo(cs[a], cs[t].x, Offset, t, TRUE)
           IN  Good(a, e) /\ e.conn = cs[a].conn
<1> DEFINE me == cs[a]
           t == me.payload.obj
<1>0. me.act = "attacking" /\ ~Within(cs, a, t, Range)
  OBVIOUS
<1>1. Good(a, me) /\ me \in CharOf(a)
  BY DEF Table, Good
<1>2. t \in Slot \ {a}
  BY <1>1 DEF Good, Agrees, AttackOf
<1>3. cs[t].x \in Int /\ me.x \in Int
  BY <1>1, <1>2 DEF Table, Good, CharOf
<1>4. Abs(cs[t].x - me.x) > Offset
  BY <1>0, <1>3, SlotFacts DEF Within, Abs
<1>5. t \in (Slot \cup {0}) \ {a} /\ t # 0
  BY <1>2, SlotFacts
<1>6. me.conn = Nobody => (me.active => me.hp # 0)
  BY <1>1 DEF Good, NpcRules
<1> HIDE DEF me, t
<1>7. \A queued \in BOOLEAN :
         LET d == MoveTo(me, cs[t].x, Offset, t, queued)
         IN  Good(a, d) /\ d.conn = me.conn
  BY <1>0, <1>1, <1>3, <1>4, <1>5, <1>6, SlotFacts, MoveToGood
<1> QED BY <1>7 DEF me, t

\* The update of a character that attacks.
LEMMA AttackGood ==
    ASSUME NEW cs, Table(cs), NEW a \in Slot, cs[a].act = "attacking"
    PROVE  Kept(cs, AttackingUpdate(cs, a))
<1> DEFINE me == cs[a]
           t == me.payload.obj
<1>0. me.act = "attacking"
  OBVIOUS
<1>1. Good(a, me) /\ me \in CharOf(a)
  BY DEF Table, Good
<1>2. t \in Slot \ {a} /\ me.payload \in AttackOf(a)
  BY <1>1 DEF Good, Agrees, AttackOf
<1>3. cs[t] \in CharOf(t)
  BY <1>2 DEF Table, Good
<1>4. CASE me.payload.line = "swing"
  BY <1>4, StrikeGood DEF AttackingUpdate
<1>5. CASE /\ ~(me.payload.line = "swing")
           /\ ~cs[t].active \/ cs[t].hp <= 0
  <2> DEFINE e == [me EXCEPT !.act = "idle", !.waiting = FALSE]
  <2>1. /\ e \in CharOf(a) /\ e.conn = me.conn /\ e.act = "idle" /\ e.hp = me.hp
        /\ e.active = me.active /\ e.prevAct = me.prevAct
        /\ e.prevPayload = me.prevPayload
    BY <1>1 DEF CharOf, Action
  <2>2. Good(a, e)
    BY <2>1, <1>1 DEF Good, Agrees, NpcRules
  <2>3. AttackingUpdate(cs, a) = [cs EXCEPT ![a] = e]
    BY <1>5 DEF AttackingUpdate, GiveUp
  <2> HIDE DEF e
  <2>4. Kept(cs, [cs EXCEPT ![a] = e])
    BY <2>1, <2>2, KeptUpdate
  <2> QED BY <2>3, <2>4
<1>6. CASE /\ ~(me.payload.line = "swing")
           /\ ~(~cs[t].active \/ cs[t].hp <= 0)
           /\ ~Within(cs, a, t, Range)
  <2> DEFINE e == MoveTo(me, cs[t].x, Offset, t, TRUE)
  <2>5. Good(a, e) /\ e.conn = me.conn
    BY <1>0, <1>6, ChaseGood
  <2>6. AttackingUpdate(cs, a) = [cs EXCEPT ![a] = e]
    BY <1>6 DEF AttackingUpdate, Chase
  <2> HIDE DEF e
  <2>7. Kept(cs, [cs EXCEPT ![a] = e])
    BY <2>5, KeptUpdate
  <2> QED BY <2>6, <2>7
<1>7. CASE /\ ~(me.payload.line = "swing")
           /\ ~(~cs[t].active \/ cs[t].hp <= 0)
           /\ Within(cs, a, t, Range)
           /\ me.waiting
  <2> DEFINE e == [me EXCEPT !.payload.line = "swing"]
  <2>1. [me.payload EXCEPT !.line = "swing"] \in AttackOf(a)
    BY <1>2 DEF AttackOf
  <2>2. /\ e \in CharOf(a) /\ e.conn = me.conn /\ e.act = me.act /\ e.hp = me.hp
        /\ e.payload \in AttackOf(a)
        /\ e.active = me.active /\ e.prevAct = me.prevAct
        /\ e.prevPayload = me.prevPayload
    BY <1>1, <2>1 DEF CharOf, PayloadOf
  <2>3. Good(a, e)
    BY <2>2, <1>1 DEF Good, Agrees, NpcRules
  <2>4. AttackingUpdate(cs, a) = [cs EXCEPT ![a] = e]
    BY <1>7 DEF AttackingUpdate
  <2> HIDE DEF e
  <2>5. Kept(cs, [cs EXCEPT ![a] = e])
    BY <2>2, <2>3, KeptUpdate
  <2> QED BY <2>4, <2>5
<1>8. CASE /\ ~(me.payload.line = "swing")
           /\ ~(~cs[t].active \/ cs[t].hp <= 0)
           /\ Within(cs, a, t, Range)
           /\ ~me.waiting
  BY <1>8, StrikeGood DEF AttackingUpdate
<1> QED BY <1>4, <1>5, <1>6, <1>7, <1>8

\* The end of a walk.
LEMMA ArriveGood ==
    ASSUME NEW cs, Table(cs), NEW s \in Slot, cs[s].act = "moving", NEW x \in Int
    PROVE  Kept(cs, Arrive(cs, s, x))
<1> DEFINE me == cs[s]
           c == [me EXCEPT !.x = x, !.act = me.prevAct, !.payload = me.prevPayload,
                           !.prevAct = "idle", !.prevPayload = NoPayload]
           at == [cs EXCEPT ![s] = c]
<1>1. Good(s, me) /\ me \in CharOf(s) /\ me.act = "moving"
  BY DEF Table, Good
<1>2. NoPayload \in SavedOf(s) /\ me.prevPayload \in PayloadOf(s)
  BY <1>1 DEF SavedOf, PayloadOf, CharOf
<1>3. /\ c \in CharOf(s) /\ c.conn = me.conn /\ c.active = me.active /\ c.hp = me.hp
      /\ c.act = me.prevAct /\ c.payload = me.prevPayload /\ c.prevAct = "idle"
  BY <1>1, <1>2 DEF CharOf, Action
<1>4. c.act \in {"idle", "attacking"}
  BY <1>1, <1>3 DEF CharOf
<1>5. Good(s, c)
  BY <1>1, <1>3, <1>4 DEF Good, Agrees, NpcRules
<1>6. Arrive(cs, s, x) = IF c.act = "attacking" THEN AttackingUpdate(at, s) ELSE at
  BY DEF Arrive
<1> HIDE DEF c
<1>7. Kept(cs, at) /\ at[s] = c
  BY <1>3, <1>5, KeptUpdate, TableUpdate
<1>8. CASE c.act = "attacking"
  <2>1. Kept(at, AttackingUpdate(at, s))
    BY <1>7, <1>8, AttackGood DEF Kept
  <2> QED BY <2>1, <1>6, <1>7, <1>8 DEF Kept, SameConn
<1>9. CASE c.act # "attacking"
  BY <1>9, <1>6, <1>7
<1> QED BY <1>8, <1>9

\* The update of a character that walks.
LEMMA MovingGood ==
    ASSUME NEW cs, Table(cs), NEW s \in Slot, cs[s].act = "moving"
    PROVE  Kept(cs, MovingUpdate(cs, s))
<1> DEFINE me == cs[s]
           m == me.payload
           x == Leg(m)
           e == [me EXCEPT !.x = x]
           at == [cs EXCEPT ![s].x = x]
<1>1. Good(s, me) /\ me \in CharOf(s) /\ me.act = "moving" /\ m \in WalkOf(s)
  BY DEF Table, Good, Agrees
<1>2. x \in Int /\ m.dest \in Int /\ m.goal \in (Slot \cup {0}) \ {s} /\ m.offset \in Nat
  BY <1>1, LegGood DEF WalkOf, AnyWalk
<1>3. /\ e \in CharOf(s) /\ e.conn = me.conn /\ e.active = me.active /\ e.hp = me.hp
      /\ e.act = me.act /\ e.payload = m /\ e.x = x
      /\ e.prevAct = me.prevAct /\ e.prevPayload = me.prevPayload
  <2> HIDE DEF x
  <2> QED BY <1>1, <1>2 DEF CharOf
<1>4. Good(s, e)
  BY <1>1, <1>3 DEF Good, Agrees, NpcRules
<1>5. at = [cs EXCEPT ![s] = e]
  OBVIOUS
<1> HIDE DEF x, e, at
<1>6. Kept(cs, at) /\ at[s] = e /\ \A t \in Slot \ {s} : at[t] = cs[t]
  <2>1. Kept(cs, [cs EXCEPT ![s] = e])
    BY <1>3, <1>4, KeptUpdate
  <2> QED BY <2>1, <1>4, <1>5, TableUpdate
<1>7. CASE 10 * m.since >= m.ticks
  BY <1>2, <1>7, ArriveGood DEF MovingUpdate
<1>8. CASE ~(10 * m.since >= m.ticks) /\ m.goal = 0
  BY <1>6, <1>8 DEF MovingUpdate, at, x
<1>9. CASE /\ ~(10 * m.since >= m.ticks) /\ m.goal # 0
           /\ ~cs[m.goal].active \/ Within(at, s, m.goal, m.offset)
  <2>1. MovingUpdate(cs, s) = Arrive(cs, s, x)
    BY <1>9 DEF MovingUpdate, at, x
  <2> QED BY <2>1, <1>2, ArriveGood
<1>10. CASE /\ ~(10 * m.since >= m.ticks) /\ m.goal # 0
            /\ ~(~cs[m.goal].active \/ Within(at, s, m.goal, m.offset))
  <2> DEFINE g == m.goal
             d == MoveTo(e, cs[g].x, m.offset, g, FALSE)
  <2>1. g \in Slot \ {s} /\ g \in (Slot \cup {0}) \ {s} /\ g # 0
    BY <1>2, <1>10
  <2>2. at[g] = cs[g] /\ cs[g].x \in Int
    BY <1>6, <2>1 DEF Table, Good, CharOf
  <2>3. Abs(cs[g].x - e.x) > m.offset
    <3>1. ~(Abs(cs[g].x - e.x) <= m.offset)
      BY <1>6, <1>10, <2>2 DEF Within
    <3>2. e.x \in Int
      BY <1>2, <1>3
    <3> QED BY <3>1, <3>2, <2>2, <1>2 DEF Abs
  <2>4. e.conn = Nobody => (e.active => e.hp # 0)
    BY <1>1, <1>3 DEF Good, NpcRules
  <2>5. Good(s, d) /\ d.conn = e.conn
    <3> HIDE DEF g, m
    <3>1. \A queued \in BOOLEAN : (queued => e.act = "attacking") =>
             LET f == MoveTo(e, cs[g].x, m.offset, g, queued)
             IN  Good(s, f) /\ f.conn = e.conn
      BY <1>2, <1>4, <2>1, <2>2, <2>3, <2>4, MoveToGood
    <3> QED BY <3>1
  <2>6. MovingUpdate(cs, s) = [at EXCEPT ![s] = MoveTo(@, cs[g].x, m.offset, g, FALSE)]
    BY <1>10 DEF MovingUpdate, at, x
  <2>7. MovingUpdate(cs, s) = [at EXCEPT ![s] = d]
    BY <1>6, <2>6
  <2> HIDE DEF d
  <2>8. Kept(at, [at EXCEPT ![s] = d])
    BY <1>6, <2>5, KeptUpdate DEF Kept
  <2> QED BY <1>6, <2>7, <2>8 DEF Kept, SameConn
<1> QED BY <1>7, <1>8, <1>9, <1>10

\* The update of one slot by the timer.
LEMMA CharacterGood ==
    ASSUME NEW cs, Table(cs), NEW s \in Slot
    PROVE  Kept(cs, CharacterUpdate(cs, s))
<1>1. CASE cs[s].act = "moving"
  BY <1>1, MovingGood DEF CharacterUpdate
<1>2. CASE cs[s].act = "attacking"
  BY <1>2, AttackGood DEF CharacterUpdate
<1>3. CASE cs[s].act \notin {"moving", "attacking"}
  BY <1>3 DEF CharacterUpdate, Kept, SameConn
<1> QED BY <1>1, <1>2, <1>3

\* Time passes for everybody.
LEMMA OlderGood ==
    ASSUME NEW s \in Slot, NEW c, Good(s, c)
    PROVE  Good(s, Older(c)) /\ Older(c).conn = c.conn
<1> DEFINE w == [c.payload EXCEPT !.since = @ + 1]
           e == [c EXCEPT !.payload = w]
<1>1. c \in CharOf(s) /\ c.payload \in PayloadOf(s)
  BY DEF Good, CharOf
<1>2. CASE c.payload.kind = "moving" /\ 10 * c.payload.since < c.payload.ticks
  <2>1. c.payload \in WalkOf(s)
    BY <1>1, <1>2 DEF PayloadOf, AttackOf, NoPayload
  <2>2. /\ w \in AnyWalk(s) /\ w.dest = c.payload.dest /\ w.src = c.payload.src
        /\ w.offset = c.payload.offset /\ w.goal = c.payload.goal
    BY <2>1 DEF WalkOf, AnyWalk
  <2>3. w \in WalkOf(s) /\ w \in PayloadOf(s)
    BY <2>1, <2>2 DEF WalkOf, PayloadOf
  <2>4. Older(c) = e
    BY <1>2 DEF Older
  <2>5. c.payload \notin AttackOf(s)
    BY <1>2 DEF AttackOf
  <2> HIDE DEF w
  <2>6. /\ e \in CharOf(s) /\ e.conn = c.conn /\ e.active = c.active /\ e.hp = c.hp
        /\ e.act = c.act /\ e.payload = w
        /\ e.prevAct = c.prevAct /\ e.prevPayload = c.prevPayload
    BY <1>1, <2>3 DEF CharOf
  <2> HIDE DEF e
  <2>7. Good(s, e)
    BY <2>2, <2>3, <2>5, <2>6 DEF Good, Agrees, NpcRules
  <2> QED BY <2>4, <2>6, <2>7
<1>3. CASE ~(c.payload.kind = "moving" /\ 10 * c.payload.since < c.payload.ticks)
  BY <1>3 DEF Older
<1> QED BY <1>2, <1>3

-----------------------------------------------------------------------------
(* The invariant *)

\* A cleared slot.
LEMMA ClearedGood == \A s \in Slot : Good(s, Cleared)
<1> SUFFICES ASSUME NEW s \in Slot PROVE Good(s, Cleared)
  OBVIOUS
<1>1. NoPayload \in PayloadOf(s) /\ NoPayload \in SavedOf(s)
  BY DEF PayloadOf, SavedOf
<1>2. 0 \in 0 .. MaxHp
  BY SlotFacts
<1>3. Cleared \in CharOf(s)
  BY <1>1, <1>2 DEF Cleared, CharOf, Action
<1> QED BY <1>3 DEF Good, Agrees, NpcRules, Cleared

LEMMA InitInv == Init => Inv
<1> SUFFICES ASSUME Init PROVE Inv
  OBVIOUS
<1>1. \A s \in Slot : char[s] = Cleared
  BY DEF Init
<1>2. \A s \in Slot : Cleared \in UNION {CharOf(t) : t \in Slot}
  BY ClearedGood DEF Good
<1>3. Table(char)
  BY <1>1, <1>2, ClearedGood DEF Init, Table
<1> QED BY <1>3, SlotFacts DEF Init, Inv, Steering

\* A step that keeps the table and puts nobody into the world.
LEMMA KeptInv ==
    ASSUME Inv, Kept(char, char'), mine' = mine, turn' \in Slot \cup {0},
           inWorld' \in [Player -> BOOLEAN], \A p \in Player : inWorld'[p] => inWorld[p]
    PROVE  Inv'
<1>1. \A p \in Player : mine'[p] # 0 => mine'[p] \in Slot
  BY DEF Inv
<1>2. Steering'
  BY <1>1 DEF Inv, Steering, Kept, SameConn
<1> QED BY <1>2 DEF Inv, Kept

\* The slot that a player in the world steers.
LEMMA SteeredSlot ==
    ASSUME Inv, NEW p \in Player, mine[p] # 0
    PROVE  /\ mine[p] \in Slot
           /\ Good(mine[p], char[mine[p]]) /\ char[mine[p]] \in CharOf(mine[p])
           /\ char[mine[p]].conn # Nobody
<1>1. mine[p] \in Slot
  BY DEF Inv
<1> QED BY <1>1 DEF Inv, Steering, Table, Good

\* Leaving the world.
LEMMA InactiveGood ==
    ASSUME NEW s \in Slot, NEW c, Good(s, c)
    PROVE  /\ Good(s, [c EXCEPT !.active = FALSE])
           /\ [c EXCEPT !.active = FALSE].conn = c.conn
<1> DEFINE e == [c EXCEPT !.active = FALSE]
<1>1. c \in CharOf(s)
  BY DEF Good
<1>2. /\ e \in CharOf(s) /\ e.conn = c.conn /\ e.active = FALSE
      /\ e.act = c.act /\ e.payload = c.payload
      /\ e.prevAct = c.prevAct /\ e.prevPayload = c.prevPayload
  BY <1>1 DEF CharOf
<1> HIDE DEF e
<1>3. Good(s, e)
  BY <1>2 DEF Good, Agrees, NpcRules
<1> QED BY <1>2, <1>3 DEF e

LEMMA TickStartInv == Inv /\ TickStart => Inv'
<1> SUFFICES ASSUME Inv, TickStart PROVE Inv'
  OBVIOUS
<1>1. 1 \in Slot
  BY SlotFacts, WorldAssumption DEF Slot
<1>2. \A s \in Slot : Good(s, char'[s]) /\ char'[s].conn = char[s].conn
  BY OlderGood DEF TickStart, Inv, Table
<1>3. char' \in [Slot -> UNION {CharOf(s) : s \in Slot}]
  BY <1>2 DEF TickStart, Good
<1>4. Kept(char, char')
  BY <1>2, <1>3 DEF Kept, Table, SameConn
<1> QED BY <1>1, <1>4, KeptInv DEF TickStart, Inv

\* The slot after this one, or the end of the tick.
LEMMA Next1InSlot == \A s \in Slot : Next1(s) \in Slot \cup {0}
BY WorldAssumption DEF Slot, Next1

LEMMA TickInv == Inv /\ (TickCharacter \/ TickInactive) => Inv'
<1> SUFFICES ASSUME Inv, TickCharacter \/ TickInactive PROVE Inv'
  OBVIOUS
<1>1. turn \in Slot /\ turn' = Next1(turn) /\ mine' = mine /\ inWorld' = inWorld
  BY DEF Inv, TickCharacter, TickInactive
<1>2. Kept(char, char')
  <2>1. CASE TickCharacter
    BY <2>1, <1>1, CharacterGood DEF TickCharacter, Inv
  <2>2. CASE TickInactive
    BY <2>2 DEF TickInactive, Inv, Kept, SameConn
  <2> QED BY <2>1, <2>2
<1> QED BY <1>1, <1>2, KeptInv, Next1InSlot DEF Inv

LEMMA SelectInv ==
    ASSUME Inv, NEW p \in Player, NEW x \in Place, HandleSelectCharacter(p, x)
    PROVE  Inv'
<1>1. PICK s \in Slot :
         /\ char' = [char EXCEPT ![s] = [Cleared EXCEPT !.active = TRUE, !.conn = p,
                                                        !.x = x, !.hp = MaxHp]]
         /\ mine' = [mine EXCEPT ![p] = s]
  BY DEF HandleSelectCharacter
<1> DEFINE e == [Cleared EXCEPT !.active = TRUE, !.conn = p, !.x = x, !.hp = MaxHp]
<1>2. x \in Int /\ MaxHp \in 0 .. MaxHp /\ p # Nobody
  BY WorldAssumption
<1>3. Cleared \in CharOf(s)
  BY ClearedGood DEF Good
<1>4. e \in CharOf(s) /\ e.conn = p /\ e.act = "idle" /\ e.prevAct = "idle"
  BY <1>2, <1>3 DEF CharOf, Cleared
<1> HIDE DEF e
<1>5. Good(s, e)
  BY <1>2, <1>4 DEF Good, Agrees, NpcRules
<1>6. char' = [char EXCEPT ![s] = e]
  BY <1>1 DEF e
<1>7. Table(char') /\ char'[s] = e /\ \A t \in Slot \ {s} : char'[t] = char[t]
  <2> DEFINE ds == [char EXCEPT ![s] = e]
  <2>1. Table(ds) /\ ds[s] = e /\ \A t \in Slot \ {s} : ds[t] = char[t]
    BY <1>5, TableUpdate DEF Inv
  <2> HIDE DEF ds
  <2>2. char' = ds
    BY <1>6 DEF ds
  <2> QED BY <2>1, <2>2
<1>8. /\ mine' \in [Player -> Slot \cup {0}] /\ mine'[p] = s
      /\ \A q \in Player \ {p} : mine'[q] = mine[q]
  BY <1>1 DEF Inv
<1>9. /\ inWorld' \in [Player -> BOOLEAN] /\ turn' = turn
      /\ \A q \in Player \ {p} : inWorld'[q] = inWorld[q]
  BY DEF Inv, HandleSelectCharacter
<1>10. \A q \in Player : mine'[q] # 0 => char'[mine'[q]].conn # Nobody
  <2> SUFFICES ASSUME NEW q \in Player, mine'[q] # 0
               PROVE  char'[mine'[q]].conn # Nobody
    OBVIOUS
  <2>1. CASE mine'[q] = s
    BY <2>1, <1>2, <1>4, <1>7
  <2>2. CASE mine'[q] # s
    BY <2>2, <1>7, <1>8 DEF Inv, Steering
  <2> QED BY <2>1, <2>2
<1>11. \A q \in Player : inWorld'[q] => mine'[q] # 0
  BY <1>8, <1>9, SlotFacts DEF Inv, Steering
<1> QED BY <1>7, <1>8, <1>9, <1>10, <1>11 DEF Inv, Steering

LEMMA RestartInv ==
    ASSUME Inv, NEW p \in Player, HandleRestart(p)
    PROVE  Inv'
<1> DEFINE s == mine[p]
           e == [char[s] EXCEPT !.active = FALSE]
<1>1. s \in Slot /\ Good(s, char[s])
  BY SteeredSlot DEF HandleRestart, Inv, Steering
<1>2. Good(s, e) /\ e.conn = char[s].conn
  BY <1>1, InactiveGood
<1>3. char' = [char EXCEPT ![s] = e]
  BY DEF HandleRestart
<1> HIDE DEF e, s
<1>4. Kept(char, char')
  BY <1>1, <1>2, <1>3, KeptUpdate DEF Inv
<1>5. inWorld' \in [Player -> BOOLEAN] /\ \A q \in Player : inWorld'[q] => inWorld[q]
  BY DEF HandleRestart, Inv
<1> QED BY <1>4, <1>5, KeptInv DEF HandleRestart, Inv

LEMMA DisconnectInv ==
    ASSUME Inv, NEW p \in Player, OnDisconnect(p)
    PROVE  Inv'
<1> DEFINE s == mine[p]
           e == [char[s] EXCEPT !.active = FALSE]
<1>1. s \in Slot /\ Good(s, char[s])
  BY SteeredSlot DEF OnDisconnect
<1>2. Good(s, e) /\ e.conn = char[s].conn
  BY <1>1, InactiveGood
<1>3. char' = [char EXCEPT ![s] = e]
  BY DEF OnDisconnect
<1> HIDE DEF e, s
<1>4. Table(char') /\ SameConn(char, char')
  BY <1>1, <1>2, <1>3, KeptUpdate DEF Inv, Kept
<1>5. /\ inWorld' \in [Player -> BOOLEAN] /\ mine' \in [Player -> Slot \cup {0}]
      /\ turn' = turn
      /\ \A q \in Player : mine'[q] # 0 => mine'[q] = mine[q] /\ mine[q] \in Slot
      /\ \A q \in Player : inWorld'[q] => inWorld[q] /\ mine'[q] = mine[q]
  BY DEF OnDisconnect, Inv
<1>6. Steering'
  <2>1. ASSUME NEW q \in Player, mine'[q] # 0
        PROVE  char'[mine'[q]].conn # Nobody
    <3>1. mine'[q] = mine[q] /\ mine[q] \in Slot /\ mine[q] # 0
      BY <1>5, <2>1
    <3>2. char[mine[q]].conn # Nobody
      BY <3>1 DEF Inv, Steering
    <3> QED BY <3>1, <3>2, <1>4 DEF SameConn
  <2>2. ASSUME NEW q \in Player, inWorld'[q]
        PROVE  mine'[q] # 0
    BY <1>5, <2>2 DEF Inv, Steering
  <2> QED BY <2>1, <2>2 DEF Steering
<1> QED BY <1>4, <1>5, <1>6 DEF Inv

LEMMA ShowMapInv ==
    ASSUME Inv, NEW p \in Player, HandleShowMap(p)
    PROVE  Inv'
<1> DEFINE x == char[mine[p]].x
<1>1. x \in Int
  <2>1. mine[p] # 0
    BY DEF HandleShowMap, Inv, Steering
  <2>2. char[mine[p]] \in CharOf(mine[p])
    BY <2>1, SteeredSlot
  <2> QED BY <2>2 DEF CharOf
<1> HIDE DEF x
<1>2. PICK s \in Slot :
         char' = [char EXCEPT ![s] = [@ EXCEPT !.active = TRUE, !.hp = MaxHp, !.x = x]]
  BY DEF HandleShowMap, x
<1> DEFINE c == char[s]
           e == [c EXCEPT !.active = TRUE, !.hp = MaxHp, !.x = x]
<1>3. Good(s, c) /\ c \in CharOf(s)
  BY DEF Inv, Table, Good
<1>4. MaxHp \in 0 .. MaxHp /\ MaxHp # 0
  BY WorldAssumption
<1>5. /\ e \in CharOf(s) /\ e.conn = c.conn /\ e.hp = MaxHp
      /\ e.act = c.act /\ e.payload = c.payload
      /\ e.prevAct = c.prevAct /\ e.prevPayload = c.prevPayload
  BY <1>1, <1>3, <1>4 DEF CharOf
<1>6. char' = [char EXCEPT ![s] = e]
  BY <1>2
<1> HIDE DEF e
<1>7. Good(s, e)
  BY <1>3, <1>4, <1>5 DEF Good, Agrees, NpcRules
<1>8. Kept(char, char')
  BY <1>5, <1>6, <1>7, KeptUpdate DEF Inv
<1> QED BY <1>8, KeptInv DEF HandleShowMap, Inv

\* A step of a player changes the slot it steers, and nothing but characters.
LEMMA SteeredInv ==
    ASSUME Inv, NEW p \in Player, inWorld[p], Kept(char, char'),
           UNCHANGED <<mine, inWorld, turn>>
    PROVE  Inv'
BY KeptInv DEF Inv

LEMMA MovementInv ==
    ASSUME Inv, NEW p \in Player, NEW origin \in Place, NEW x \in Place,
           HandleMovement(p, origin, x)
    PROVE  Inv'
<1> DEFINE s == mine[p]
           c == char[s]
           e == [c EXCEPT !.x = origin]
           d == MoveTo(e, x, 0, 0, FALSE)
<1>1. s \in Slot /\ Good(s, c) /\ c \in CharOf(s) /\ c.conn # Nobody
  BY SteeredSlot DEF HandleMovement, Inv, Steering
<1>2. origin \in Int /\ x \in Int /\ origin # x
  BY WorldAssumption DEF HandleMovement
<1>3. char' = [char EXCEPT ![s] = d]
  BY DEF HandleMovement
<1>4. /\ e \in CharOf(s) /\ e.conn = c.conn /\ e.x = origin
      /\ e.act = c.act /\ e.payload = c.payload
      /\ e.prevAct = c.prevAct /\ e.prevPayload = c.prevPayload
  BY <1>1, <1>2 DEF CharOf
<1> HIDE DEF c, s, e
<1>5. Good(s, e)
  BY <1>1, <1>4 DEF Good, Agrees, NpcRules
<1>6. Abs(x - e.x) > 0 /\ 0 \in Nat /\ 0 \in (Slot \cup {0}) \ {s} /\ e.conn # Nobody
  BY <1>1, <1>2, <1>4, SlotFacts DEF Abs
<1>7. Good(s, d) /\ d.conn = e.conn
  <2>1. \A queued \in BOOLEAN : (queued => e.act = "attacking") =>
          LET f == MoveTo(e, x, 0, 0, queued) IN Good(s, f) /\ f.conn = e.conn
    BY <1>1, <1>2, <1>5, <1>6, MoveToGood
  <2> QED BY <2>1
<1> HIDE DEF d
<1>8. Kept(char, char')
  BY <1>1, <1>3, <1>4, <1>7, KeptUpdate DEF Inv, c
<1> QED BY <1>8, SteeredInv DEF HandleMovement

\* The first blow, or the first steps towards it.
LEMMA InteractionKept ==
    ASSUME Inv, NEW s \in Slot, char[s].conn # Nobody, StartInteraction(s)
    PROVE  Kept(char, char')
<1> DEFINE c == char[s]
           t == c.target
           e == [c EXCEPT !.act = "attacking", !.payload = Attacking(t)]
           cs == [char EXCEPT ![s] = e]
<1>1. Good(s, c) /\ c \in CharOf(s) /\ t \in Slot \cup {0} /\ Table(char)
  BY DEF Inv, Table, Good, CharOf
<1>2. CASE t \in {0, s}
  BY <1>1, <1>2 DEF StartInteraction, Kept, SameConn
<1>3. CASE t \notin {0, s}
  <2>1. Attacking(t) \in AttackOf(s) /\ Attacking(t) \in PayloadOf(s)
    BY <1>1, <1>3 DEF Attacking, AttackOf, PayloadOf
  <2>2. /\ e \in CharOf(s) /\ e.conn = c.conn /\ e.act = "attacking"
        /\ e.payload = Attacking(t)
        /\ e.prevAct = c.prevAct /\ e.prevPayload = c.prevPayload
    BY <1>1, <2>1 DEF CharOf, Action
  <2>3. char' = AttackingUpdate([char EXCEPT ![s].act = "attacking",
                                             ![s].payload = Attacking(t)], s)
    BY <1>3 DEF StartInteraction
  <2>4. [char EXCEPT ![s].act = "attacking", ![s].payload = Attacking(t)] = cs
    BY <1>1 DEF Table
  <2>5. char' = AttackingUpdate(cs, s)
    BY <2>3, <2>4
  <2> HIDE DEF e
  <2>6. Good(s, e)
    BY <1>1, <2>1, <2>2 DEF Good, Agrees, NpcRules
  <2>7. Kept(char, cs) /\ cs[s] = e
    BY <1>1, <2>2, <2>6, KeptUpdate, TableUpdate
  <2>8. Kept(cs, AttackingUpdate(cs, s))
    BY <2>2, <2>7, AttackGood DEF Kept
  <2> QED BY <2>5, <2>7, <2>8 DEF Kept, SameConn
<1> QED BY <1>2, <1>3

LEMMA TargetKept ==
    ASSUME Inv, NEW s \in Slot, char[s].conn # Nobody, NEW t \in Slot, SelectTarget(s, t)
    PROVE  Kept(char, char')
<1> DEFINE c == char[s]
           e == [c EXCEPT !.target = t]
<1>1. Good(s, c) /\ c \in CharOf(s) /\ Table(char)
  BY DEF Inv, Table, Good
<1>2. CASE char[t].active
  <2>1. /\ e \in CharOf(s) /\ e.conn = c.conn /\ e.act = c.act
        /\ e.payload = c.payload
        /\ e.prevAct = c.prevAct /\ e.prevPayload = c.prevPayload
    BY <1>1 DEF CharOf
  <2>2. char' = [char EXCEPT ![s] = e]
    BY <1>2 DEF SelectTarget
  <2> HIDE DEF e
  <2>3. Good(s, e)
    BY <1>1, <2>1 DEF Good, Agrees, NpcRules
  <2> QED BY <1>1, <2>1, <2>2, <2>3, KeptUpdate
<1>3. CASE ~char[t].active
  BY <1>1, <1>3 DEF SelectTarget, Kept, SameConn
<1> QED BY <1>2, <1>3

LEMMA ActionInv ==
    ASSUME Inv, NEW p \in Player, NEW t \in Slot, HandleAction(p, t)
    PROVE  Inv'
<1> DEFINE s == mine[p]
<1>1. s \in Slot /\ char[s].conn # Nobody
  BY SteeredSlot DEF HandleAction, Inv, Steering
<1>2. inWorld[p] /\ UNCHANGED <<mine, inWorld, turn>>
  BY DEF HandleAction
<1>3. StartInteraction(s) \/ char' = char \/ SelectTarget(s, t)
  BY DEF HandleAction
<1>4. Kept(char, char')
  <2>1. CASE char' = char
    BY <2>1 DEF Inv, Kept, SameConn
  <2> QED BY <1>1, <1>3, <2>1, InteractionKept, TargetKept
<1> QED BY <1>2, <1>4, SteeredInv

LEMMA DeselectInv ==
    ASSUME Inv, NEW p \in Player, HandleDeselectTarget(p)
    PROVE  Inv'
<1> DEFINE s == mine[p]
           c == char[s]
           e == [c EXCEPT !.target = 0, !.act = "idle"]
<1>1. s \in Slot /\ Good(s, c) /\ c \in CharOf(s) /\ c.conn # Nobody
  BY SteeredSlot DEF HandleDeselectTarget, Inv, Steering
<1>2. /\ e \in CharOf(s) /\ e.conn = c.conn /\ e.act = "idle"
      /\ e.prevAct = c.prevAct /\ e.prevPayload = c.prevPayload
  BY <1>1 DEF CharOf, Action
<1>3. char' = [char EXCEPT ![s] = e]
  BY DEF HandleDeselectTarget
<1> HIDE DEF e, c, s
<1>4. Good(s, e)
  BY <1>1, <1>2 DEF Good, Agrees, NpcRules
<1>5. Kept(char, char')
  BY <1>1, <1>2, <1>3, <1>4, KeptUpdate DEF Inv, c
<1> QED BY <1>5, SteeredInv DEF HandleDeselectTarget

LEMMA PacketInv == \A p \in Player : Inv /\ Packet(p) => Inv'
BY SelectInv, RestartInv, DisconnectInv, ShowMapInv, MovementInv, ActionInv, DeselectInv
   DEF Packet

LEMMA NextInv == Inv /\ [Next]_vars => Inv'
<1> SUFFICES ASSUME Inv, [Next]_vars PROVE Inv'
  OBVIOUS
<1>1. CASE UNCHANGED vars
  BY <1>1 DEF vars, Inv, Steering
<1>2. CASE TickStart \/ TickCharacter \/ TickInactive
  BY <1>2, TickStartInv, TickInv
<1>3. CASE \E p \in Player : Packet(p)
  BY <1>3, PacketInv
<1> QED BY <1>1, <1>2, <1>3 DEF Next

-----------------------------------------------------------------------------
(* The properties *)

THEOREM Invariance == Spec => []Inv
<1> QED BY InitInv, NextInv, PTL DEF Spec

\* Every field of every character has its type, in every reachable state; above
\* all, hit points never fall below 0.
THEOREM Typing == Spec => []TypeOK
<1>1. Inv => TypeOK
  BY DEF Inv, Table, Good, CharOf, TypeOK
<1> QED BY <1>1, Invariance, PTL

\* Action and union member agree, now and after the walk that is under way.
THEOREM Payloads == Spec => []PayloadMatchesAction
<1>1. ASSUME NEW s \in Slot, NEW c, Good(s, c)
      PROVE  /\ c.act = "attacking" => IsAttack(c.payload)
             /\ c.act = "moving" => IsWalk(c.payload)
             /\ c.prevAct \in {"idle", "attacking"}
             /\ c.prevAct = "attacking" => IsAttack(c.prevPayload)
             /\ IsAttack(c.payload) => c.payload.obj \in Slot \ {s}
             /\ IsAttack(c.prevPayload) => c.prevPayload.obj \in Slot \ {s}
             /\ IsWalk(c.payload) => c.payload.goal \in (Slot \cup {0}) \ {s}
  <2>1. /\ c.payload \in PayloadOf(s) /\ c.prevPayload \in SavedOf(s)
        /\ c.prevAct \in {"idle", "attacking"} /\ Agrees(s, c)
    BY <1>1 DEF Good, CharOf
  <2>2. \A q \in AttackOf(s) : IsAttack(q) /\ ~IsWalk(q) /\ q.obj \in Slot \ {s}
    BY DEF AttackOf, IsAttack, IsWalk
  <2>3. \A w \in WalkOf(s) :
           IsWalk(w) /\ ~IsAttack(w) /\ w.goal \in (Slot \cup {0}) \ {s}
    BY DEF WalkOf, AnyWalk, IsAttack, IsWalk
  <2>4. ~IsAttack(NoPayload) /\ ~IsWalk(NoPayload)
    BY DEF NoPayload, IsAttack, IsWalk
  <2> QED BY <2>1, <2>2, <2>3, <2>4 DEF PayloadOf, SavedOf, Agrees
<1>2. Inv => PayloadMatchesAction
  BY <1>1 DEF Inv, Table, PayloadMatchesAction
<1> QED BY <1>2, Invariance, PTL

\* An npc has no connection to write to, and no walk that would need one.
THEOREM Strolls == Spec => []NpcNeverStrolls
<1>1. Inv => NpcNeverStrolls
  BY DEF Inv, Table, Good, NpcRules, NpcNeverStrolls, IsNpc
<1> QED BY <1>1, Invariance, PTL

\* Death of an npc is the end of its attack and of its walk.
THEOREM Dead == Spec => []DeadNpcsLieStill
<1>1. Inv => DeadNpcsLieStill
  BY DEF Inv, Table, Good, NpcRules, DeadNpcsLieStill, IsNpc
<1> QED BY <1>1, Invariance, PTL

-----------------------------------------------------------------------------
(***************************************************************************)
(* Death, and where blows come from.  An npc that is dead has no hit       *)
(* points, or it would fight back when it is hit; nobody looks forward to  *)
(* a blow without having struck before; and nobody aims at a slot that was *)
(* never used, where a blow would wake an npc that is not there.           *)
(***************************************************************************)
Fine(c) ==
    /\ c.conn = Nobody /\ c.act = "dead" => c.hp = 0
    /\ c.conn = Nobody /\ ~c.active => c.act = "idle"
    /\ c.act = "attacking" /\ c.payload.line = "swing" => c.waiting
    /\ IsAttack(c.prevPayload) => c.prevPayload.line = "start"

Used(cs, t) == cs[t].active \/ cs[t].conn # Nobody

Aims(cs, c) ==
    /\ c.target # 0 => Used(cs, c.target)
    /\ IsAttack(c.payload) => Used(cs, c.payload.obj)
    /\ IsAttack(c.prevPayload) => Used(cs, c.prevPayload.obj)

Sound(cs) == Table(cs) /\ \A s \in Slot : Fine(cs[s]) /\ Aims(cs, cs[s])

\* What becomes of a character in an update: it dies when its hit points are gone, and
\* does not rise.
Passing(c, d) ==
    /\ c.hp > 0 /\ d.hp = 0 => d.act = "dead"
    /\ c.act = "dead" => d.act = "dead"

Stays(cs, ds) == \A s \in Slot : ds[s].conn = cs[s].conn /\ (cs[s].active => ds[s].active)

Held(cs, ds) == Sound(ds) /\ Stays(cs, ds) /\ \A s \in Slot : Passing(cs[s], ds[s])

\* Who is hit is within range of a, or a was about to strike again.
Late(cs, ds, a) ==
    \A t \in Slot : ds[t].hp < cs[t].hp =>
        /\ IsAttack(ds[a].payload) /\ ds[a].payload.obj = t
        /\ Within(ds, a, t, Range) \/ (cs[a].act = "attacking" /\ cs[a].payload.line = "swing")

LEMMA HpIsNat ==
    ASSUME NEW cs, Table(cs)
    PROVE  \A s \in Slot : cs[s].hp \in Nat
BY SlotFacts DEF Table, Good, CharOf

LEMMA HeldTwice ==
    ASSUME NEW cs, NEW ds, NEW es, Table(cs), Held(cs, ds), Held(ds, es)
    PROVE  Held(cs, es)
<1>1. Stays(cs, es)
  BY DEF Held, Stays
<1>2. \A s \in Slot : cs[s].hp \in Nat /\ ds[s].hp \in Nat
  BY HpIsNat DEF Held, Sound
<1>3. \A s \in Slot : Passing(cs[s], es[s])
  BY <1>2 DEF Held, Passing
<1> QED BY <1>1, <1>3 DEF Held

LEMMA HeldSame ==
    ASSUME NEW cs, Sound(cs)
    PROVE  Held(cs, cs)
<1>1. \A s \in Slot : cs[s].hp \in Nat
  BY HpIsNat DEF Sound
<1> QED BY <1>1 DEF Held, Stays, Passing

\* Aims stay good when a slot that was used is one for ever.
LEMMA AimsStay ==
    ASSUME NEW cs, NEW ds, \A t \in Slot : Used(cs, t) => Used(ds, t),
           NEW s \in Slot, NEW c, c \in CharOf(s), Aims(cs, c)
    PROVE  Aims(ds, c)
<1>1. c.target \in Slot \cup {0}
  BY DEF CharOf
<1>2. IsAttack(c.payload) => c.payload.obj \in Slot
  BY DEF CharOf, PayloadOf, AttackOf, WalkOf, AnyWalk, NoPayload, IsAttack
<1>3. IsAttack(c.prevPayload) => c.prevPayload.obj \in Slot
  BY DEF CharOf, SavedOf, AttackOf, NoPayload, IsAttack
<1> QED BY <1>1, <1>2, <1>3 DEF Aims

\* Changing one slot.
LEMMA HeldUpdate ==
    ASSUME NEW cs, Sound(cs), NEW a \in Slot, NEW e, Good(a, e), Fine(e), Aims(cs, e),
           e.conn = cs[a].conn, cs[a].active => e.active, Passing(cs[a], e)
    PROVE  Held(cs, [cs EXCEPT ![a] = e])
<1> DEFINE ds == [cs EXCEPT ![a] = e]
<1>1. Table(ds) /\ ds[a] = e /\ \A s \in Slot \ {a} : ds[s] = cs[s]
  BY TableUpdate DEF Sound
<1> HIDE DEF ds
<1>2. Stays(cs, ds)
  BY <1>1 DEF Stays
<1>3. \A s \in Slot : Fine(ds[s])
  BY <1>1 DEF Sound
<1>4. \A s \in Slot : Aims(cs, ds[s])
  BY <1>1 DEF Sound
<1>5. \A s \in Slot : ds[s] \in CharOf(s)
  BY <1>1 DEF Table, Good
<1>6. \A s \in Slot : Aims(ds, ds[s])
  <2>1. \A t \in Slot : Used(cs, t) => Used(ds, t)
    BY <1>2 DEF Stays, Used
  <2> QED BY <2>1, <1>4, <1>5, AimsStay
<1>7. \A s \in Slot : Passing(cs[s], ds[s])
  <2>1. \A s \in Slot : cs[s].hp \in Nat
    BY HpIsNat DEF Sound
  <2> QED BY <1>1, <2>1 DEF Passing
<1>8. Held(cs, ds)
  BY <1>1, <1>2, <1>3, <1>6, <1>7 DEF Held, Sound
<1> QED BY <1>8 DEF ds

\* A blow, as its victim takes it.
LEMMA HurtHeld ==
    ASSUME NEW cs, NEW t \in Slot, NEW c, Good(t, c), Fine(c), Aims(cs, c),
           NEW a \in Slot \ {t}, Used(cs, a), c.conn = Nobody => c.active
    PROVE  /\ Fine(Hurt(c, a)) /\ Aims(cs, Hurt(c, a)) /\ Passing(c, Hurt(c, a))
           /\ Hurt(c, a).active = c.active /\ Hurt(c, a).x = c.x
<1> DEFINE f == FightBack(c, a)
           hit == [f EXCEPT !.hp = @ - Damage]
<1>1. c \in CharOf(t) /\ c.hp \in Nat /\ Damage \in Nat \ {0}
  BY SlotFacts DEF Good, CharOf
<1>2. Attacking(a).kind = "attacking" /\ Attacking(a).obj = a /\ Attacking(a).line = "start"
  BY DEF Attacking
<1>3. /\ f.conn = c.conn /\ f.active = c.active /\ f.hp = c.hp /\ f.x = c.x
      /\ f.target = c.target /\ f.prevPayload = c.prevPayload /\ f.waiting = c.waiting
      /\ f.conn = Nobody => f.act = "attacking"
      /\ \/ f.act = c.act /\ f.payload = c.payload
         \/ f.act = "attacking" /\ f.payload = Attacking(a)
      /\ f.conn # Nobody => f.act = c.act
  BY <1>1 DEF FightBack, CharOf
<1>4. f \in CharOf(t)
  <2>1. Attacking(a) \in PayloadOf(t)
    BY DEF Attacking, AttackOf, PayloadOf
  <2> QED BY <1>1, <2>1 DEF FightBack, CharOf, Action
<1> HIDE DEF f
<1>5. /\ hit.conn = c.conn /\ hit.active = c.active /\ hit.hp = c.hp - Damage /\ hit.x = c.x
      /\ hit.target = c.target /\ hit.prevPayload = c.prevPayload /\ hit.waiting = c.waiting
      /\ hit.act = f.act /\ hit.payload = f.payload
      /\ Hurt(c, a) = IF hit.hp <= 0 THEN Die(hit) ELSE hit
      /\ LET d == Die(hit) IN
            /\ d.conn = c.conn /\ d.active = c.active /\ d.x = c.x /\ d.hp = 0 /\ d.act = "dead"
            /\ d.target = c.target /\ d.payload = NoPayload /\ d.prevPayload = NoPayload
  BY <1>3, <1>4 DEF Hurt, Wound, Die, CharOf, f
<1> HIDE DEF hit
<1>6. CASE hit.hp <= 0
  <2>1. ~IsAttack(NoPayload)
    BY DEF NoPayload, IsAttack
  <2> QED BY <1>5, <1>6, <2>1 DEF Fine, Aims, Passing
<1>7. CASE ~(hit.hp <= 0)
  <2>1. c.hp > 0 /\ c.hp - Damage # 0
    BY <1>1, <1>5, <1>7
  <2>2. Fine(hit)
    BY <1>2, <1>3, <1>5, <2>1 DEF Fine
  <2>3. Aims(cs, hit)
    BY <1>2, <1>3, <1>5 DEF Aims
  <2>4. Passing(c, hit)
    BY <1>3, <1>5, <2>1 DEF Passing, Fine
  <2> QED BY <1>5, <1>7, <2>2, <2>3, <2>4
<1> QED BY <1>6, <1>7

\* A blow: who strikes keeps its place, and nobody else is hit.
LEMMA StrikeHeld ==
    ASSUME NEW cs, Sound(cs), NEW a \in Slot, cs[a].act = "attacking", Used(cs, a)
    PROVE  /\ Held(cs, Strike(cs, a))
           /\ LET ds == Strike(cs, a)
                  t == cs[a].payload.obj
              IN  /\ IsAttack(ds[a].payload) /\ ds[a].payload.obj = t
                  /\ \A s \in Slot : ds[s].x = cs[s].x /\ ds[s].active = cs[s].active
                  /\ \A s \in Slot \ {t} : ds[s].hp = cs[s].hp
<1> DEFINE t == cs[a].payload.obj
           e == [cs[a] EXCEPT !.waiting = TRUE, !.payload = Attacking(t)]
           mid == [cs EXCEPT ![a] = e]
           h == Hurt(mid[t], a)
           ds == [mid EXCEPT ![t] = h]
<1>1. Table(cs) /\ Good(a, cs[a]) /\ Fine(cs[a]) /\ Aims(cs, cs[a])
  BY DEF Table, Sound
<1>2. t \in Slot \ {a} /\ IsAttack(cs[a].payload)
  BY <1>1 DEF Good, Agrees, AttackOf, IsAttack
<1>3. /\ Attacking(t) \in AttackOf(a) /\ Attacking(t) \in PayloadOf(a)
      /\ Attacking(t).line = "start" /\ Attacking(t).obj = t
  BY <1>2 DEF Attacking, AttackOf, PayloadOf
<1>4. /\ e \in CharOf(a) /\ e.conn = cs[a].conn /\ e.act = cs[a].act /\ e.waiting
      /\ e.payload = Attacking(t) /\ e.active = cs[a].active /\ e.hp = cs[a].hp
      /\ e.x = cs[a].x /\ e.target = cs[a].target
      /\ e.prevAct = cs[a].prevAct /\ e.prevPayload = cs[a].prevPayload
  BY <1>1, <1>3 DEF Good, CharOf
<1> HIDE DEF e, t
<1>5. Good(a, e)
  BY <1>1, <1>3, <1>4 DEF Good, Agrees, NpcRules
<1>6. Fine(e) /\ Aims(cs, e) /\ Passing(cs[a], e)
  <2>1. Fine(e)
    BY <1>1, <1>3, <1>4 DEF Fine
  <2>2. Aims(cs, e)
    BY <1>1, <1>2, <1>3, <1>4 DEF Aims, t
  <2>3. cs[a].hp \in Nat
    BY <1>1, HpIsNat
  <2> QED BY <2>1, <2>2, <2>3, <1>4 DEF Passing
<1>7. Held(cs, mid)
  BY <1>4, <1>5, <1>6, HeldUpdate
<1>8. Table(mid) /\ mid[a] = e /\ \A s \in Slot \ {a} : mid[s] = cs[s]
  BY <1>1, <1>5, TableUpdate
<1> HIDE DEF mid
<1>9. Used(cs, t)
  BY <1>1, <1>2 DEF Aims, t
<1>10. /\ Good(t, mid[t]) /\ Fine(mid[t]) /\ Aims(mid, mid[t]) /\ Used(mid, a)
       /\ mid[t].conn = Nobody => mid[t].active
  <2>1. Sound(mid)
    BY <1>7 DEF Held
  <2>2. Used(mid, a)
    BY <1>4, <1>8 DEF Used
  <2>3. mid[t].conn = Nobody => mid[t].active
    BY <1>2, <1>8, <1>9 DEF Used
  <2> QED BY <1>2, <2>1, <2>2, <2>3 DEF Sound, Table
<1>11. /\ Good(t, h) /\ h.conn = mid[t].conn
       /\ Fine(h) /\ Aims(mid, h) /\ Passing(mid[t], h)
       /\ h.active = mid[t].active /\ h.x = mid[t].x
  <2>1. a \in Slot \ {t}
    BY <1>2
  <2>2. Good(t, h) /\ h.conn = mid[t].conn
    BY <1>2, <1>10, <2>1, HurtGood
  <2>3. /\ Fine(h) /\ Aims(mid, h) /\ Passing(mid[t], h)
        /\ h.active = mid[t].active /\ h.x = mid[t].x
    BY <1>2, <1>10, <2>1, HurtHeld
  <2> QED BY <2>2, <2>3
<1> HIDE DEF h
<1>12. Held(mid, ds)
  BY <1>2, <1>7, <1>11, HeldUpdate DEF Held
<1>13. Table(ds) /\ ds[t] = h /\ \A s \in Slot \ {t} : ds[s] = mid[s]
  BY <1>2, <1>7, <1>11, TableUpdate DEF Held, Sound
<1>14. Strike(cs, a) = ds
  BY DEF Strike, t, e, mid, h
<1> HIDE DEF ds
<1>15. Held(cs, ds)
  BY <1>1, <1>7, <1>12, HeldTwice
<1>16. /\ IsAttack(ds[a].payload) /\ ds[a].payload.obj = t
       /\ \A s \in Slot : ds[s].x = cs[s].x /\ ds[s].active = cs[s].active
       /\ \A s \in Slot \ {t} : ds[s].hp = cs[s].hp
  BY <1>2, <1>3, <1>4, <1>8, <1>11, <1>13 DEF IsAttack, Attacking
<1> QED BY <1>14, <1>15, <1>16 DEF t

\* The update of a character that attacks.
LEMMA AttackHeld ==
    ASSUME NEW cs, Sound(cs), NEW a \in Slot, cs[a].act = "attacking", Used(cs, a)
    PROVE  Held(cs, AttackingUpdate(cs, a)) /\ Late(cs, AttackingUpdate(cs, a), a)
<1> DEFINE me == cs[a]
           t == me.payload.obj
<1>1. /\ Table(cs) /\ Good(a, me) /\ Fine(me) /\ Aims(cs, me) /\ me \in CharOf(a)
      /\ me.act = "attacking" /\ \A s \in Slot : cs[s].hp \in Nat
  BY HpIsNat DEF Table, Sound, Good
<1>2. t \in Slot \ {a} /\ me.payload \in AttackOf(a) /\ IsAttack(me.payload)
  BY <1>1 DEF Good, Agrees, AttackOf, IsAttack
\* An update of the attacker that is no blow.
<1>3. ASSUME NEW e, Good(a, e), Fine(e), Aims(cs, e), e.conn = me.conn,
             e.active = me.active, e.hp = me.hp, e.act # "dead"
      PROVE  Held(cs, [cs EXCEPT ![a] = e]) /\ Late(cs, [cs EXCEPT ![a] = e], a)
  <2> DEFINE ds == [cs EXCEPT ![a] = e]
  <2>1. Passing(me, e)
    BY <1>1, <1>3 DEF Passing
  <2>2. Held(cs, ds)
    BY <1>3, <2>1, HeldUpdate
  <2>3. Table(ds) /\ ds[a] = e /\ \A s \in Slot \ {a} : ds[s] = cs[s]
    BY <1>1, <1>3, TableUpdate
  <2> HIDE DEF ds
  <2>4. Late(cs, ds, a)
    BY <1>1, <1>3, <2>3 DEF Late
  <2> QED BY <2>2, <2>4 DEF ds
<1>4. CASE /\ AttackingUpdate(cs, a) = Strike(cs, a)
           /\ me.payload.line = "swing" \/ Within(cs, a, t, Range)
  <2> DEFINE ds == Strike(cs, a)
  <2>1. /\ Held(cs, ds) /\ IsAttack(ds[a].payload) /\ ds[a].payload.obj = t
        /\ \A s \in Slot : ds[s].x = cs[s].x /\ ds[s].active = cs[s].active
        /\ \A s \in Slot \ {t} : ds[s].hp = cs[s].hp
    BY StrikeHeld
  <2> HIDE DEF ds
  <2>2. Within(ds, a, t, Range) \/ me.payload.line = "swing"
    BY <1>2, <1>4, <2>1 DEF Within
  <2>3. Late(cs, ds, a)
    BY <1>1, <2>1, <2>2 DEF Late
  <2> QED BY <1>4, <2>1, <2>3 DEF ds
<1>5. CASE AttackingUpdate(cs, a) = GiveUp(cs, a)
  <2> DEFINE e == [me EXCEPT !.act = "idle", !.waiting = FALSE]
  <2>1. /\ e \in CharOf(a) /\ e.conn = me.conn /\ e.act = "idle" /\ e.hp = me.hp
        /\ e.active = me.active /\ e.prevAct = me.prevAct /\ e.payload = me.payload
        /\ e.prevPayload = me.prevPayload /\ e.target = me.target
    BY <1>1 DEF CharOf, Action
  <2> HIDE DEF e
  <2>2. Good(a, e)
    BY <2>1, <1>1 DEF Good, Agrees, NpcRules
  <2>3. Fine(e) /\ Aims(cs, e)
    BY <2>1, <1>1 DEF Fine, Aims
  <2>4. Held(cs, [cs EXCEPT ![a] = e]) /\ Late(cs, [cs EXCEPT ![a] = e], a)
    BY <2>1, <2>2, <2>3, <1>3
  <2> QED BY <1>5, <2>4 DEF GiveUp, e
<1>6. CASE AttackingUpdate(cs, a) = [cs EXCEPT ![a].payload.line = "swing"] /\ me.waiting
  <2> DEFINE e == [me EXCEPT !.payload.line = "swing"]
  <2>1. /\ [me.payload EXCEPT !.line = "swing"] \in AttackOf(a)
        /\ [me.payload EXCEPT !.line = "swing"].obj = t
    BY <1>2 DEF AttackOf
  <2>2. /\ e \in CharOf(a) /\ e.conn = me.conn /\ e.act = me.act /\ e.hp = me.hp
        /\ e.payload \in AttackOf(a) /\ e.payload.obj = t /\ e.waiting = me.waiting
        /\ e.active = me.active /\ e.prevAct = me.prevAct
        /\ e.prevPayload = me.prevPayload /\ e.target = me.target
    BY <1>1, <2>1 DEF CharOf, PayloadOf
  <2> HIDE DEF e
  <2>3. Good(a, e)
    BY <2>2, <1>1 DEF Good, Agrees, NpcRules
  <2>4. Fine(e) /\ Aims(cs, e)
    BY <2>2, <1>1, <1>2, <1>6 DEF Fine, Aims
  <2>5. Held(cs, [cs EXCEPT ![a] = e]) /\ Late(cs, [cs EXCEPT ![a] = e], a)
    BY <1>1, <2>2, <2>3, <2>4, <1>3
  <2> QED BY <1>6, <2>5 DEF e
<1>7. CASE AttackingUpdate(cs, a) = Chase(cs, a, t) /\ me.payload.line # "swing"
           /\ ~Within(cs, a, t, Range)
  <2> DEFINE e == MoveTo(me, cs[t].x, Offset, t, TRUE)
  <2>1. Good(a, e) /\ e.conn = me.conn
    BY <1>1, <1>2, <1>7, ChaseGood
  <2>2. /\ e.act = "moving" /\ e.hp = me.hp /\ e.active = me.active /\ e.target = me.target
        /\ e.payload = Walk(me.x, cs[t].x, Offset, t) /\ e.prevPayload = me.payload
    BY <1>1 DEF MoveTo, CharOf
  <2>3. ~IsAttack(Walk(me.x, cs[t].x, Offset, t))
    BY DEF Walk, IsAttack
  <2>4. me.payload.line = "start"
    BY <1>2, <1>7 DEF AttackOf
  <2> HIDE DEF e
  <2>5. Fine(e) /\ Aims(cs, e)
    <3>1. Fine(e)
      BY <1>1, <2>1, <2>2, <2>4 DEF Fine
    <3>2. Aims(cs, e)
      BY <1>1, <1>2, <2>2, <2>3 DEF Aims
    <3> QED BY <3>1, <3>2
  <2>6. Held(cs, [cs EXCEPT ![a] = e]) /\ Late(cs, [cs EXCEPT ![a] = e], a)
    BY <1>3, <2>1, <2>2, <2>5
  <2> QED BY <1>7, <2>6 DEF Chase, e
<1> QED BY <1>4, <1>5, <1>6, <1>7 DEF AttackingUpdate

\* The end of a walk, after which an attack that was saved goes on at its start.
LEMMA ArriveHeld ==
    ASSUME NEW cs, Sound(cs), NEW s \in Slot, cs[s].act = "moving", Used(cs, s), NEW x \in Int
    PROVE  Held(cs, Arrive(cs, s, x)) /\ Late(cs, Arrive(cs, s, x), s)
<1> DEFINE me == cs[s]
           c == [me EXCEPT !.x = x, !.act = me.prevAct, !.payload = me.prevPayload,
                           !.prevAct = "idle", !.prevPayload = NoPayload]
           at == [cs EXCEPT ![s] = c]
<1>1. /\ Table(cs) /\ Good(s, me) /\ me \in CharOf(s) /\ Fine(me) /\ Aims(cs, me)
      /\ me.act = "moving" /\ \A t \in Slot : cs[t].hp \in Nat
  BY HpIsNat DEF Table, Good, Sound
<1>2. NoPayload \in SavedOf(s) /\ me.prevPayload \in PayloadOf(s) /\ ~IsAttack(NoPayload)
  BY <1>1 DEF SavedOf, PayloadOf, CharOf, NoPayload, IsAttack
<1>3. /\ c \in CharOf(s) /\ c.conn = me.conn /\ c.active = me.active /\ c.hp = me.hp
      /\ c.act = me.prevAct /\ c.payload = me.prevPayload /\ c.prevAct = "idle"
      /\ c.prevPayload = NoPayload /\ c.target = me.target
  BY <1>1, <1>2 DEF CharOf, Action
<1>4. Arrive(cs, s, x) = IF c.act = "attacking" THEN AttackingUpdate(at, s) ELSE at
  BY DEF Arrive
<1> HIDE DEF c
<1>5. c.act \in {"idle", "attacking"} /\ (c.act = "attacking" => IsAttack(c.payload))
  BY <1>1, <1>3 DEF CharOf, Good, Agrees, AttackOf, IsAttack
<1>6. Good(s, c)
  BY <1>1, <1>3, <1>5 DEF Good, Agrees, NpcRules
<1>7. Fine(c) /\ Aims(cs, c) /\ Passing(me, c)
  <2>1. c.act = "attacking" => c.payload.line = "start"
    BY <1>1, <1>3, <1>5 DEF Fine
  <2>2. Fine(c)
    BY <1>1, <1>2, <1>3, <1>5, <2>1 DEF Fine
  <2>3. Aims(cs, c)
    BY <1>1, <1>2, <1>3 DEF Aims
  <2> QED BY <1>1, <1>3, <2>2, <2>3 DEF Passing
<1>8. Held(cs, at)
  BY <1>3, <1>6, <1>7, HeldUpdate
<1>9. Table(at) /\ at[s] = c /\ \A t \in Slot \ {s} : at[t] = cs[t]
  BY <1>1, <1>6, TableUpdate
<1> HIDE DEF at
<1>10. CASE c.act = "attacking"
  <2> DEFINE ds == AttackingUpdate(at, s)
  <2>1. Sound(at) /\ Used(at, s) /\ at[s].act = "attacking"
    BY <1>3, <1>8, <1>9, <1>10 DEF Held, Used
  <2>2. Held(at, ds) /\ Late(at, ds, s)
    BY <2>1, AttackHeld
  <2> HIDE DEF ds
  <2>3. Held(cs, ds)
    BY <1>1, <1>8, <2>2, HeldTwice
  <2>4. at[s].payload.line = "start"
    BY <1>1, <1>3, <1>5, <1>9, <1>10 DEF Fine
  <2>5. \A t \in Slot : at[t].hp = cs[t].hp
    BY <1>3, <1>9
  <2>6. Late(cs, ds, s)
    BY <2>2, <2>4, <2>5 DEF Late
  <2> QED BY <1>4, <1>10, <2>3, <2>6 DEF ds
<1>11. CASE c.act # "attacking"
  <2>1. Late(cs, at, s)
    BY <1>1, <1>3, <1>9 DEF Late
  <2> QED BY <1>4, <1>8, <1>11, <2>1
<1> QED BY <1>10, <1>11

\* The update of a character that walks.
LEMMA MovingHeld ==
    ASSUME NEW cs, Sound(cs), NEW s \in Slot, cs[s].act = "moving", Used(cs, s)
    PROVE  Held(cs, MovingUpdate(cs, s)) /\ Late(cs, MovingUpdate(cs, s), s)
<1> DEFINE me == cs[s]
           m == me.payload
           x == Leg(m)
           e == [me EXCEPT !.x = x]
           at == [cs EXCEPT ![s] = e]
           d == MoveTo(e, cs[m.goal].x, m.offset, m.goal, FALSE)
           ds == MovingUpdate(cs, s)
<1>1. /\ Table(cs) /\ Good(s, me) /\ me \in CharOf(s) /\ Fine(me) /\ Aims(cs, me)
      /\ me.act = "moving" /\ m \in WalkOf(s) /\ \A t \in Slot : cs[t].hp \in Nat
  BY HpIsNat DEF Table, Good, Agrees, Sound
<1>2. x \in Int /\ m.dest \in Int
  BY <1>1, LegGood DEF WalkOf, AnyWalk
<1>3. /\ e \in CharOf(s) /\ e.conn = me.conn /\ e.active = me.active /\ e.hp = me.hp
      /\ e.act = "moving" /\ e.payload = m /\ e.target = me.target
      /\ e.prevAct = me.prevAct /\ e.prevPayload = me.prevPayload
  <2> HIDE DEF x
  <2> QED BY <1>1, <1>2 DEF CharOf
<1>4. at = [cs EXCEPT ![s].x = x]
  OBVIOUS
<1> HIDE DEF x, e
<1>5. Table(at) /\ at[s] = e /\ (\A t \in Slot \ {s} : at[t] = cs[t]) /\ Good(s, e)
  <2>1. Good(s, e)
    BY <1>1, <1>3 DEF Good, Agrees, NpcRules
  <2>2. Table(at) /\ at[s] = e /\ \A t \in Slot \ {s} : at[t] = cs[t]
    BY <1>1, <2>1, TableUpdate
  <2> QED BY <2>1, <2>2
<1>6. ~IsAttack(m)
  BY <1>1 DEF WalkOf, AnyWalk, IsAttack
\* One more leg, and an update of the walk, hit nobody.
<1>7. ASSUME NEW f, Good(s, f), f.conn = me.conn, f.active = me.active, f.hp = me.hp,
             f.act = "moving", f.target = me.target, ~IsAttack(f.payload),
             f.prevPayload = me.prevPayload
      PROVE  Held(cs, [cs EXCEPT ![s] = f]) /\ Late(cs, [cs EXCEPT ![s] = f], s)
  <2> DEFINE fs == [cs EXCEPT ![s] = f]
  <2>1. Fine(f) /\ Aims(cs, f) /\ Passing(me, f)
    BY <1>1, <1>7 DEF Fine, Aims, Passing
  <2>2. Held(cs, fs)
    BY <1>7, <2>1, HeldUpdate
  <2>3. Table(fs) /\ fs[s] = f /\ \A t \in Slot \ {s} : fs[t] = cs[t]
    BY <1>1, <1>7, TableUpdate
  <2> HIDE DEF fs
  <2>4. Late(cs, fs, s)
    BY <1>1, <1>7, <2>3 DEF Late
  <2> QED BY <2>2, <2>4 DEF fs
<1>8. CASE ds = Arrive(cs, s, m.dest) \/ ds = Arrive(cs, s, x)
  BY <1>1, <1>2, <1>8, ArriveHeld
<1>9. CASE ds = at
  <2>1. Held(cs, at) /\ Late(cs, at, s)
    BY <1>3, <1>5, <1>6, <1>7
  <2> QED BY <1>9, <2>1
<1>10. CASE ds = [at EXCEPT ![s] = MoveTo(@, cs[m.goal].x, m.offset, m.goal, FALSE)]
  <2>1. ds = [cs EXCEPT ![s] = d]
    BY <1>1, <1>5, <1>10 DEF Table
  <2>2. Table(ds) /\ ds[s] = d
    BY <1>1, <2>1, MovingGood DEF Kept, Table
  <2>3. Good(s, d)
    BY <2>2 DEF Table
  <2>4. /\ d.conn = me.conn /\ d.active = me.active /\ d.hp = me.hp /\ d.act = "moving"
        /\ d.target = me.target /\ d.prevPayload = me.prevPayload
        /\ d.payload = Walk(e.x, cs[m.goal].x, m.offset, m.goal)
    BY <1>3 DEF MoveTo, CharOf
  <2> HIDE DEF d
  <2>5. ~IsAttack(d.payload)
    BY <2>4 DEF Walk, IsAttack
  <2>6. Held(cs, [cs EXCEPT ![s] = d]) /\ Late(cs, [cs EXCEPT ![s] = d], s)
    BY <1>7, <2>3, <2>4, <2>5
  <2> QED BY <2>1, <2>6
<1>11. \/ ds = Arrive(cs, s, m.dest) \/ ds = Arrive(cs, s, x) \/ ds = at
       \/ ds = [at EXCEPT ![s] = MoveTo(@, cs[m.goal].x, m.offset, m.goal, FALSE)]
  <2>1. at = [cs EXCEPT ![s].x = Leg(m)]
    BY <1>4 DEF x
  <2> HIDE DEF at
  <2> QED BY <2>1 DEF MovingUpdate, x
<1> QED BY <1>8, <1>9, <1>10, <1>11

\* The update of one slot by the timer.
LEMMA CharacterHeld ==
    ASSUME NEW cs, Sound(cs), NEW s \in Slot, Used(cs, s)
    PROVE  Held(cs, CharacterUpdate(cs, s)) /\ Late(cs, CharacterUpdate(cs, s), s)
<1>1. CASE cs[s].act = "moving"
  BY <1>1, MovingHeld DEF CharacterUpdate
<1>2. CASE cs[s].act = "attacking"
  BY <1>2, AttackHeld DEF CharacterUpdate
<1>3. CASE cs[s].act \notin {"moving", "attacking"}
  <2>1. \A t \in Slot : cs[t].hp \in Nat
    BY HpIsNat DEF Sound
  <2>2. CharacterUpdate(cs, s) = cs
    BY <1>3 DEF CharacterUpdate
  <2> QED BY <2>1, <2>2, HeldSame DEF Late
<1> QED BY <1>1, <1>2, <1>3

-----------------------------------------------------------------------------
(* The steps of DeathHolds and LateBlowCause *)

DeathStep ==
    \A s \in Slot :
      /\ char[s].hp > 0 /\ char'[s].hp = 0 => char'[s].act = "dead"
      /\ char[s].act = "dead" /\ char'[s].act # "dead" =>
           \/ ~char[s].active
           \/ turn = 0 /\ \E p \in Player : mine[p] = s

LateStep ==
    \A t \in Slot : char'[t].hp < char[t].hp =>
      \E a \in Slot : /\ IsAttack(char'[a].payload) /\ char'[a].payload.obj = t
                      /\ \/ Within(char', a, t, Range)
                         \/ turn = a /\ char[a].waiting /\ char[a].act = "attacking"

Safe == Sound(char') /\ DeathStep /\ LateStep

LEMMA InitSound == Init => Sound(char)
<1> SUFFICES ASSUME Init PROVE Sound(char)
  OBVIOUS
<1>1. Table(char)
  BY InitInv DEF Inv
<1>2. \A s \in Slot : char[s] = Cleared
  BY DEF Init
<1> QED BY <1>1, <1>2 DEF Sound, Fine, Aims, Cleared, NoPayload, IsAttack

\* Nothing happens to anybody.
LEMMA SameSafe ==
    ASSUME Inv, Sound(char), char' = char
    PROVE  Safe
<1>1. \A s \in Slot : char[s].hp \in Nat
  BY HpIsNat DEF Sound
<1>2. Sound(char')
  BY DEF Sound, Table, Fine, Aims, Used
<1> QED BY <1>1, <1>2 DEF Safe, DeathStep, LateStep

\* A step of one slot that costs nobody hit points.
LEMMA SlotSafe ==
    ASSUME Inv, Inv', Sound(char), NEW a \in Slot, NEW e, char' = [char EXCEPT ![a] = e],
           Fine(e), Aims(char, e), Used(char, a) => e.active \/ e.conn # Nobody,
           e.hp >= char[a].hp, e.hp = 0 => char[a].hp = 0,
           char[a].act = "dead" /\ e.act # "dead" =>
              ~char[a].active \/ (turn = 0 /\ \E p \in Player : mine[p] = a)
    PROVE  Safe
<1>1. char'[a] = e /\ \A s \in Slot \ {a} : char'[s] = char[s]
  BY DEF Sound, Table
<1>2. Table(char') /\ \A s \in Slot : char'[s] \in CharOf(s)
  BY DEF Inv, Table, Good
<1>3. \A s \in Slot : char[s].hp \in Nat /\ char'[s].hp \in Nat
  BY <1>2, HpIsNat DEF Sound
<1>4. \A t \in Slot : Used(char, t) => Used(char', t)
  BY <1>1 DEF Used
<1>5. \A s \in Slot : Fine(char'[s]) /\ Aims(char, char'[s])
  BY <1>1 DEF Sound
<1>6. \A s \in Slot : Aims(char', char'[s])
  BY <1>2, <1>4, <1>5, AimsStay
<1>7. Sound(char')
  BY <1>2, <1>5, <1>6 DEF Sound
<1>8. DeathStep
  BY <1>1, <1>3 DEF DeathStep
<1>9. LateStep
  BY <1>1, <1>3 DEF LateStep
<1> QED BY <1>7, <1>8, <1>9 DEF Safe

LEMMA TickStartSafe == Inv /\ Inv' /\ Sound(char) /\ TickStart => Safe
<1> SUFFICES ASSUME Inv, Inv', Sound(char), TickStart PROVE Safe
  OBVIOUS
<1>1. \A s \in Slot : char'[s] = Older(char[s])
  BY DEF TickStart
<1>2. ASSUME NEW s \in Slot
      PROVE  LET c == char[s]
                 d == char'[s]
             IN  /\ d.active = c.active /\ d.conn = c.conn /\ d.hp = c.hp /\ d.act = c.act
                 /\ d.target = c.target /\ d.prevPayload = c.prevPayload /\ d.waiting = c.waiting
                 /\ IsAttack(d.payload) => d.payload = c.payload
                 /\ d.act = "attacking" => d.payload = c.payload
  <2> DEFINE c == char[s]
             w == [c.payload EXCEPT !.since = @ + 1]
  <2>1. Good(s, c) /\ c \in CharOf(s)
    BY DEF Inv, Table, Good
  <2>2. CASE c.payload.kind = "moving" /\ 10 * c.payload.since < c.payload.ticks
    <3>1. c.payload \in WalkOf(s)
      BY <2>1, <2>2 DEF CharOf, PayloadOf, AttackOf, NoPayload
    <3>2. w.kind = "moving"
      BY <3>1 DEF WalkOf, AnyWalk
    <3>3. c.act # "attacking"
      BY <2>1, <2>2 DEF Good, Agrees, AttackOf
    <3>4. Older(c) = [c EXCEPT !.payload = w]
      BY <2>2 DEF Older
    <3> HIDE DEF w
    <3> QED BY <1>1, <2>1, <3>2, <3>3, <3>4 DEF CharOf, IsAttack
  <2>3. CASE ~(c.payload.kind = "moving" /\ 10 * c.payload.since < c.payload.ticks)
    BY <1>1, <2>3 DEF Older
  <2> QED BY <2>2, <2>3
<1>3. Table(char') /\ \A s \in Slot : char[s].hp \in Nat
  BY HpIsNat DEF Inv
<1>4. \A s \in Slot : Fine(char'[s]) /\ Aims(char, char'[s])
  BY <1>2 DEF Sound, Fine, Aims
<1>5. \A s \in Slot : Aims(char', char'[s])
  <2>1. \A t \in Slot : Used(char, t) => Used(char', t)
    BY <1>2 DEF Used
  <2>2. \A s \in Slot : char'[s] \in CharOf(s)
    BY <1>3 DEF Table, Good
  <2> QED BY <1>4, <2>1, <2>2, AimsStay
<1>6. DeathStep /\ LateStep
  BY <1>2, <1>3 DEF DeathStep, LateStep
<1> QED BY <1>3, <1>4, <1>5, <1>6 DEF Safe, Sound

LEMMA TickSafe == Inv /\ Sound(char) /\ (TickCharacter \/ TickInactive) => Safe
<1> SUFFICES ASSUME Inv, Sound(char), TickCharacter \/ TickInactive PROVE Safe
  OBVIOUS
<1>1. CASE TickInactive
  BY <1>1, SameSafe DEF TickInactive
<1>2. CASE TickCharacter
  <2>1. turn \in Slot /\ Used(char, turn) /\ char' = CharacterUpdate(char, turn)
    BY <1>2 DEF TickCharacter, Inv, Used
  <2>2. Held(char, char') /\ Late(char, char', turn)
    BY <2>1, CharacterHeld
  <2>3. DeathStep
    BY <2>2 DEF DeathStep, Held, Passing
  <2>4. Fine(char[turn])
    BY <2>1 DEF Sound
  <2>5. LateStep
    BY <2>1, <2>2, <2>4 DEF LateStep, Late, Fine
  <2> QED BY <2>2, <2>3, <2>5 DEF Safe, Held
<1> QED BY <1>1, <1>2

LEMMA SelectSafe ==
    ASSUME Inv, Inv', Sound(char), NEW p \in Player, NEW x \in Place, HandleSelectCharacter(p, x)
    PROVE  Safe
<1> DEFINE e == [Cleared EXCEPT !.active = TRUE, !.conn = p, !.x = x, !.hp = MaxHp]
<1>1. PICK s \in Slot : IsFreeSlot(s) /\ char' = [char EXCEPT ![s] = e]
  BY DEF HandleSelectCharacter
<1>2. /\ e.active /\ e.conn # Nobody /\ e.hp = MaxHp /\ e.act = "idle" /\ e.target = 0
      /\ ~IsAttack(e.payload) /\ ~IsAttack(e.prevPayload)
  BY SlotFacts DEF Cleared, NoPayload, IsAttack
<1> HIDE DEF e
<1>3. Fine(e) /\ Aims(char, e)
  BY <1>2 DEF Fine, Aims
<1>4. MaxHp >= char[s].hp /\ MaxHp # 0
  BY SlotFacts DEF Inv, Table, Good, CharOf
<1>5. ~char[s].active
  BY <1>1 DEF IsFreeSlot
<1> QED BY <1>1, <1>2, <1>3, <1>4, <1>5, SlotSafe

\* The slot of somebody who leaves had a connection.
LEMMA LeaveSafe ==
    ASSUME Inv, Inv', Sound(char), NEW p \in Player, mine[p] # 0,
           char' = [char EXCEPT ![mine[p]].active = FALSE]
    PROVE  Safe
<1> DEFINE s == mine[p]
           e == [char[s] EXCEPT !.active = FALSE]
<1>1. s \in Slot /\ char[s] \in CharOf(s) /\ char[s].conn # Nobody
  BY SteeredSlot
<1>2. char' = [char EXCEPT ![s] = e]
  OBVIOUS
<1>3. LET c == char[s] IN
      /\ e.conn = c.conn /\ e.hp = c.hp /\ e.act = c.act /\ e.target = c.target
      /\ e.payload = c.payload /\ e.prevPayload = c.prevPayload /\ e.waiting = c.waiting
  BY <1>1 DEF CharOf
<1> HIDE DEF e, s
<1>4. Fine(e) /\ Aims(char, e)
  BY <1>1, <1>3 DEF Sound, Fine, Aims
<1>5. /\ e.conn # Nobody /\ e.hp >= char[s].hp /\ (e.hp = 0 => char[s].hp = 0)
      /\ e.act = char[s].act
  <2>1. char[s].hp \in Nat
    BY <1>1, HpIsNat DEF Sound
  <2> QED BY <1>1, <1>3, <2>1
<1> QED BY <1>1, <1>2, <1>4, <1>5, SlotSafe

LEMMA ShowMapSafe ==
    ASSUME Inv, Inv', Sound(char), NEW p \in Player, HandleShowMap(p)
    PROVE  Safe
<1> DEFINE x == char[mine[p]].x
<1>1. PICK s \in Slot :
         /\ IsFreeSlot(s)
         /\ char' = [char EXCEPT ![s] = [@ EXCEPT !.active = TRUE, !.hp = MaxHp, !.x = x]]
  BY DEF HandleShowMap
<1> DEFINE c == char[s]
           e == [c EXCEPT !.active = TRUE, !.hp = MaxHp, !.x = x]
<1> HIDE DEF x
<1>2. c \in CharOf(s) /\ Fine(c) /\ Aims(char, c) /\ ~c.active
  BY <1>1 DEF Sound, Table, Good, IsFreeSlot
<1>3. /\ e.active = TRUE /\ e.conn = c.conn /\ e.hp = MaxHp
      /\ e.act = c.act /\ e.target = c.target
      /\ e.payload = c.payload /\ e.prevPayload = c.prevPayload /\ e.waiting = c.waiting
  BY <1>2 DEF CharOf
<1>4. char' = [char EXCEPT ![s] = e]
  BY <1>1
<1> HIDE DEF e
<1>5. Fine(e) /\ Aims(char, e)
  BY <1>2, <1>3 DEF Fine, Aims
<1>6. MaxHp >= char[s].hp /\ MaxHp # 0
  BY <1>2, SlotFacts DEF CharOf
<1> QED BY <1>3, <1>4, <1>5, <1>6, SlotSafe

LEMMA MovementSafe ==
    ASSUME Inv, Inv', Sound(char), NEW p \in Player, NEW origin \in Place, NEW x \in Place,
           HandleMovement(p, origin, x)
    PROVE  Safe
<1> DEFINE s == mine[p]
           c == char[s]
           e == MoveTo([c EXCEPT !.x = origin], x, 0, 0, FALSE)
<1>1. /\ s \in Slot /\ c \in CharOf(s) /\ c.conn # Nobody /\ turn = 0
      /\ char' = [char EXCEPT ![s] = e]
  BY SteeredSlot DEF HandleMovement, Inv, Steering
<1>2. Fine(c) /\ Aims(char, c) /\ c.hp \in Nat
  BY <1>1, HpIsNat DEF Sound
<1>3. /\ e.active = c.active /\ e.conn = c.conn /\ e.hp = c.hp /\ e.act = "moving"
      /\ e.target = c.target /\ e.prevPayload = c.prevPayload /\ e.payload.kind = "moving"
  BY <1>1 DEF MoveTo, Walk, CharOf
<1> HIDE DEF e
<1>4. Fine(e) /\ Aims(char, e)
  BY <1>1, <1>2, <1>3 DEF Fine, Aims, IsAttack
<1>5. /\ e.conn # Nobody /\ e.hp >= char[s].hp /\ (e.hp = 0 => char[s].hp = 0)
      /\ turn = 0 /\ \E q \in Player : mine[q] = s
  BY <1>1, <1>2, <1>3
<1> HIDE DEF s, c
<1> QED BY <1>1, <1>4, <1>5, SlotSafe

LEMMA DeselectSafe ==
    ASSUME Inv, Inv', Sound(char), NEW p \in Player, HandleDeselectTarget(p)
    PROVE  Safe
<1> DEFINE s == mine[p]
           c == char[s]
           e == [c EXCEPT !.target = 0, !.act = "idle"]
<1>1. /\ s \in Slot /\ c \in CharOf(s) /\ c.conn # Nobody /\ turn = 0
      /\ char' = [char EXCEPT ![s] = e]
  BY SteeredSlot DEF HandleDeselectTarget, Inv, Steering
<1>2. Fine(c) /\ Aims(char, c) /\ c.hp \in Nat
  BY <1>1, HpIsNat DEF Sound
<1>3. /\ e.active = c.active /\ e.conn = c.conn /\ e.hp = c.hp /\ e.act = "idle"
      /\ e.target = 0 /\ e.prevPayload = c.prevPayload /\ e.payload = c.payload
  BY <1>1 DEF CharOf
<1> HIDE DEF e
<1>4. Fine(e) /\ Aims(char, e)
  BY <1>1, <1>2, <1>3 DEF Fine, Aims
<1>5. /\ e.conn # Nobody /\ e.hp >= char[s].hp /\ (e.hp = 0 => char[s].hp = 0)
      /\ turn = 0 /\ \E q \in Player : mine[q] = s
  BY <1>1, <1>2, <1>3
<1> HIDE DEF s, c
<1> QED BY <1>1, <1>4, <1>5, SlotSafe

LEMMA TargetSafe ==
    ASSUME Inv, Inv', Sound(char), NEW s \in Slot, NEW t \in Slot, SelectTarget(s, t)
    PROVE  Safe
<1> DEFINE c == char[s]
           e == [c EXCEPT !.target = t]
<1>1. CASE char[t].active
  <2>1. c \in CharOf(s) /\ Fine(c) /\ Aims(char, c) /\ c.hp \in Nat
    BY HpIsNat DEF Sound, Table, Good
  <2>2. /\ e.active = c.active /\ e.conn = c.conn /\ e.hp = c.hp /\ e.act = c.act /\ e.target = t
        /\ e.payload = c.payload /\ e.prevPayload = c.prevPayload /\ e.waiting = c.waiting
    BY <2>1 DEF CharOf
  <2>3. char' = [char EXCEPT ![s] = e]
    BY <1>1 DEF SelectTarget
  <2> HIDE DEF e
  <2>4. Fine(e) /\ Aims(char, e)
    BY <1>1, <2>1, <2>2 DEF Fine, Aims, Used
  <2>5. /\ Used(char, s) => e.active \/ e.conn # Nobody
        /\ e.hp >= char[s].hp /\ (e.hp = 0 => char[s].hp = 0) /\ e.act = char[s].act
    BY <2>1, <2>2 DEF Used
  <2> QED BY <2>3, <2>4, <2>5, SlotSafe
<1>2. CASE ~char[t].active
  BY <1>2, SameSafe DEF SelectTarget
<1> QED BY <1>1, <1>2

\* The attack that a player begins starts at once, but not with a second blow.
LEMMA InteractionSafe ==
    ASSUME Inv, Sound(char), NEW p \in Player, mine[p] # 0, turn = 0, StartInteraction(mine[p])
    PROVE  Safe
<1> DEFINE s == mine[p]
           c == char[s]
           t == c.target
           e == [c EXCEPT !.act = "attacking", !.payload = Attacking(t)]
           cs == [char EXCEPT ![s] = e]
<1>1. /\ s \in Slot /\ Good(s, c) /\ c \in CharOf(s) /\ c.conn # Nobody /\ t \in Slot \cup {0}
      /\ Table(char) /\ Fine(c) /\ Aims(char, c) /\ \A u \in Slot : char[u].hp \in Nat
  BY SteeredSlot, HpIsNat DEF Sound, Table, Good, CharOf
<1>2. CASE t \in {0, s}
  BY <1>2, SameSafe DEF StartInteraction
<1>3. CASE t \notin {0, s}
  <2>1. /\ Attacking(t) \in AttackOf(s) /\ Attacking(t) \in PayloadOf(s)
        /\ Attacking(t).obj = t /\ Attacking(t).line = "start"
    BY <1>1, <1>3 DEF Attacking, AttackOf, PayloadOf
  <2>2. /\ e \in CharOf(s) /\ e.conn = c.conn /\ e.act = "attacking" /\ e.active = c.active
        /\ e.payload = Attacking(t) /\ e.hp = c.hp /\ e.target = t
        /\ e.prevAct = c.prevAct /\ e.prevPayload = c.prevPayload
    BY <1>1, <2>1 DEF CharOf, Action
  <2>3. [char EXCEPT ![s].act = "attacking", ![s].payload = Attacking(t)] = cs
    BY <1>1 DEF Table
  <2>4. char' = AttackingUpdate(cs, s)
    BY <1>3, <2>3 DEF StartInteraction
  <2> HIDE DEF e
  <2>5. Good(s, e)
    BY <1>1, <2>1, <2>2 DEF Good, Agrees, NpcRules
  <2>6. Fine(e) /\ Aims(char, e)
    BY <1>1, <1>3, <2>1, <2>2 DEF Fine, Aims
  <2>7. Table(cs) /\ cs[s] = e /\ \A u \in Slot \ {s} : cs[u] = char[u]
    BY <1>1, <2>5, TableUpdate
  <2> HIDE DEF cs
  <2>8. Sound(cs)
    <3>1. \A u \in Slot : Used(char, u) => Used(cs, u)
      BY <2>2, <2>7 DEF Used
    <3>2. \A u \in Slot : Fine(cs[u]) /\ Aims(char, cs[u]) /\ cs[u] \in CharOf(u)
      BY <2>2, <2>6, <2>7 DEF Sound, Table, Good
    <3>3. \A u \in Slot : Aims(cs, cs[u])
      BY <3>1, <3>2, AimsStay
    <3> QED BY <2>7, <3>2, <3>3 DEF Sound
  <2>9. Used(cs, s) /\ cs[s].act = "attacking" /\ cs[s].payload.line = "start"
    BY <1>1, <2>1, <2>2, <2>7 DEF Used
  <2>10. Held(cs, char') /\ Late(cs, char', s)
    BY <2>4, <2>8, <2>9, <1>1, AttackHeld
  <2>11. DeathStep
    BY <1>1, <2>2, <2>7, <2>10 DEF DeathStep, Held, Passing
  <2>12. LateStep
    BY <1>1, <2>2, <2>7, <2>9, <2>10 DEF LateStep, Late
  <2> QED BY <2>10, <2>11, <2>12 DEF Safe, Held
<1> QED BY <1>2, <1>3

LEMMA ActionSafe ==
    ASSUME Inv, Inv', Sound(char), NEW p \in Player, NEW t \in Slot, HandleAction(p, t)
    PROVE  Safe
<1>1. mine[p] \in Slot /\ mine[p] # 0 /\ turn = 0
  BY SteeredSlot DEF HandleAction, Inv, Steering
<1>2. StartInteraction(mine[p]) \/ char' = char \/ SelectTarget(mine[p], t)
  BY DEF HandleAction
<1> QED BY <1>1, <1>2, InteractionSafe, SameSafe, TargetSafe

LEMMA NextSafe == Inv /\ Sound(char) /\ [Next]_vars => Safe
<1> SUFFICES ASSUME Inv, Sound(char), [Next]_vars PROVE Safe
  OBVIOUS
<1>1. Inv'
  BY NextInv
<1>2. CASE UNCHANGED vars
  BY <1>2, SameSafe DEF vars
<1>3. CASE TickStart \/ TickCharacter \/ TickInactive
  BY <1>1, <1>3, TickStartSafe, TickSafe
<1>4. ASSUME NEW p \in Player, Packet(p) PROVE Safe
  <2>1. CASE HandleRestart(p) \/ OnDisconnect(p)
    <3>1. mine[p] # 0 /\ char' = [char EXCEPT ![mine[p]].active = FALSE]
      BY <2>1 DEF HandleRestart, OnDisconnect, Inv, Steering
    <3> QED BY <1>1, <3>1, LeaveSafe
  <2> QED BY <1>1, <1>4, <2>1, SelectSafe, ShowMapSafe, MovementSafe, ActionSafe, DeselectSafe
          DEF Packet
<1> QED BY <1>2, <1>3, <1>4 DEF Next

LEMMA Soundness == Spec => [](Inv /\ Sound(char))
<1>1. Inv /\ Sound(char) /\ [Next]_vars => (Inv /\ Sound(char))'
  BY NextInv, NextSafe DEF Safe
<1> QED BY <1>1, InitInv, InitSound, PTL DEF Spec

\* Whom a blow leaves without hit points is dead at once, and stays dead until the slot is
\* left or its own player clicks (attacking_update, moving_update, the npc that is hit).
THEOREM DeathHeld == Spec => DeathHolds
<1>1. Inv /\ Sound(char) /\ [Next]_vars =>
        [\A s \in Slot :
           /\ char[s].hp > 0 /\ char'[s].hp = 0 => char'[s].act = "dead"
           /\ char[s].act = "dead" /\ char'[s].act # "dead" =>
                \/ ~char[s].active
                \/ turn = 0 /\ \E p \in Player : mine[p] = s]_vars
  BY NextSafe DEF Safe, DeathStep
<1> QED BY <1>1, Soundness, PTL DEF Spec, DeathHolds

\* A blow falls out of range only as the second of an attack, a tick after the look at the
\* distance (attacking_update).
THEOREM LateBlows == Spec => LateBlowCause
<1>1. Inv /\ Sound(char) /\ [Next]_vars =>
        [\A t \in Slot : char'[t].hp < char[t].hp =>
           \E a \in Slot : /\ IsAttack(char'[a].payload) /\ char'[a].payload.obj = t
                           /\ \/ Within(char', a, t, Range)
                              \/ turn = a /\ char[a].waiting /\ char[a].act = "attacking"]_vars
  BY NextSafe DEF Safe, LateStep
<1> QED BY <1>1, Soundness, PTL DEF Spec, LateBlowCause

-----------------------------------------------------------------------------
(***************************************************************************)
(* The hunt.  An npc that is hit attacks, and one that attacks goes on,    *)
(* with the attack saved while it walks, as long as its quarry is there.   *)
(***************************************************************************)
Hunting(c) == c.act = "attacking" \/ (c.act = "moving" /\ c.prevAct = "attacking")

Lost(cs, t) == ~cs[t].active \/ cs[t].hp = 0

\* The npcs of ds that live hunt when they were hit, or hunted and the quarry is there.
HuntKept(cs, ds) ==
    \A s \in Slot : cs[s].conn = Nobody /\ ds[s].conn = Nobody /\ ds[s].hp > 0 =>
        /\ ds[s].hp < cs[s].hp => Hunting(ds[s])
        /\ \A t \in Slot : Hunts(cs[s], t) => Lost(cs, t) \/ Hunting(ds[s])

\* Who hunts hunts somebody.
LEMMA HuntsSome ==
    ASSUME NEW s \in Slot, NEW c, Good(s, c), Hunting(c)
    PROVE  \E t \in Slot : Hunts(c, t)
<1>1. CASE c.act = "attacking"
  <2>1. c.payload.obj \in Slot
    BY <1>1 DEF Good, Agrees, AttackOf
  <2> QED BY <1>1, <2>1 DEF Hunts
<1>2. CASE c.act = "moving" /\ c.prevAct = "attacking"
  <2>1. c.prevPayload.obj \in Slot
    BY <1>2 DEF Good, Agrees, AttackOf
  <2> QED BY <1>2, <2>1 DEF Hunts
<1> QED BY <1>1, <1>2 DEF Hunting

\* One character changes, and is not hit.
LEMMA HuntUpdate ==
    ASSUME NEW cs, Table(cs), NEW a \in Slot, NEW e, Good(a, e), e.hp = cs[a].hp,
           \A t \in Slot : Hunts(cs[a], t) => Lost(cs, t) \/ Hunting(e)
    PROVE  HuntKept(cs, [cs EXCEPT ![a] = e])
<1> DEFINE ds == [cs EXCEPT ![a] = e]
<1>1. Table(ds) /\ ds[a] = e /\ \A s \in Slot \ {a} : ds[s] = cs[s]
  BY TableUpdate
<1>2. \A s \in Slot : cs[s].hp \in Nat
  BY HpIsNat
<1> HIDE DEF ds
<1>3. \A s \in Slot : ds[s].hp = cs[s].hp
  BY <1>1
<1>4. ASSUME NEW s \in Slot, NEW t \in Slot, Hunts(cs[s], t) PROVE Lost(cs, t) \/ Hunting(ds[s])
  BY <1>1, <1>4 DEF Hunts, Hunting
<1>5. HuntKept(cs, ds)
  BY <1>2, <1>3, <1>4 DEF HuntKept
<1> QED BY <1>5 DEF ds

\* One character is made ready first.
LEMMA HuntFrom ==
    ASSUME NEW cs, Table(cs), NEW a \in Slot, NEW e, Good(a, e),
           e.hp = cs[a].hp, e.active = cs[a].active, e.conn = cs[a].conn,
           e.conn = Nobody => \A t \in Slot : Hunts(cs[a], t) => Hunts(e, t),
           NEW ds, HuntKept([cs EXCEPT ![a] = e], ds)
    PROVE  HuntKept(cs, ds)
<1> DEFINE mid == [cs EXCEPT ![a] = e]
<1>1. mid[a] = e /\ \A s \in Slot \ {a} : mid[s] = cs[s]
  BY TableUpdate
<1>2. HuntKept(mid, ds)
  OBVIOUS
<1> HIDE DEF mid
<1>3. \A s \in Slot : /\ mid[s].hp = cs[s].hp /\ mid[s].active = cs[s].active
                      /\ mid[s].conn = cs[s].conn
  BY <1>1
<1>4. \A t \in Slot : Lost(mid, t) <=> Lost(cs, t)
  BY <1>3 DEF Lost
<1> SUFFICES ASSUME NEW s \in Slot, cs[s].conn = Nobody, ds[s].conn = Nobody, ds[s].hp > 0
             PROVE  /\ ds[s].hp < cs[s].hp => Hunting(ds[s])
                    /\ \A t \in Slot : Hunts(cs[s], t) => Lost(cs, t) \/ Hunting(ds[s])
  BY DEF HuntKept
<1>5. /\ ds[s].hp < mid[s].hp => Hunting(ds[s])
      /\ \A t \in Slot : Hunts(mid[s], t) => Lost(mid, t) \/ Hunting(ds[s])
  BY <1>2, <1>3 DEF HuntKept
<1>6. \A t \in Slot : Hunts(cs[s], t) => Hunts(mid[s], t)
  BY <1>1, <1>3
<1> QED BY <1>3, <1>4, <1>5, <1>6

\* Who is hit and lives turns against the attacker, or goes on with what it attacks.
LEMMA HurtHunt ==
    ASSUME NEW t \in Slot, NEW c, Good(t, c), NEW a, c.conn = Nobody, Hurt(c, a).hp > 0
    PROVE  Hunting(Hurt(c, a))
<1> DEFINE f == FightBack(c, a)
           hit == [f EXCEPT !.hp = @ - Damage]
<1>1. c \in CharOf(t)
  BY DEF Good
<1>2. f.act = "attacking"
  BY <1>1 DEF FightBack, CharOf
<1>3. hit.act = f.act
  BY <1>1 DEF FightBack, CharOf
<1>4. Hurt(c, a) = IF hit.hp <= 0 THEN Die(hit) ELSE hit
  BY DEF Hurt, Wound
<1>5. Die(hit).hp = 0
  BY <1>1 DEF Die, FightBack, CharOf
<1> HIDE DEF hit, f
<1>6. Hurt(c, a) = hit
  BY <1>4, <1>5
<1> QED BY <1>2, <1>3, <1>6 DEF Hunting

\* A blow: the attacker stays at it.
LEMMA StrikeHunt ==
    ASSUME NEW cs, Table(cs), NEW a \in Slot, cs[a].act = "attacking"
    PROVE  HuntKept(cs, Strike(cs, a))
<1> DEFINE t == cs[a].payload.obj
           e == [cs[a] EXCEPT !.waiting = TRUE, !.payload = Attacking(t)]
           mid == [cs EXCEPT ![a] = e]
           h == Hurt(mid[t], a)
           ds == [mid EXCEPT ![t] = h]
<1>1. Good(a, cs[a]) /\ cs[a] \in CharOf(a)
  BY DEF Table, Good
<1>2. t \in Slot \ {a}
  BY <1>1 DEF Good, Agrees, AttackOf
<1>3. Attacking(t) \in AttackOf(a) /\ Attacking(t) \in PayloadOf(a)
  BY <1>2 DEF Attacking, AttackOf, PayloadOf
<1>4. /\ e \in CharOf(a) /\ e.conn = cs[a].conn /\ e.act = cs[a].act
      /\ e.payload = Attacking(t) /\ e.active = cs[a].active /\ e.hp = cs[a].hp
      /\ e.prevAct = cs[a].prevAct /\ e.prevPayload = cs[a].prevPayload
  BY <1>1, <1>3 DEF CharOf
<1>5. Good(a, e)
  BY <1>1, <1>3, <1>4 DEF Good, Agrees, NpcRules
<1> HIDE DEF e, t
<1>6. Table(mid) /\ mid[a] = e /\ \A s \in Slot \ {a} : mid[s] = cs[s]
  BY <1>5, TableUpdate
<1> HIDE DEF mid
<1>7. mid[t] = cs[t] /\ Good(t, cs[t])
  BY <1>2, <1>6 DEF Table
<1>8. Good(t, h) /\ h.conn = cs[t].conn
  BY <1>2, <1>7, HurtGood
<1>9. h.conn = Nobody /\ h.hp > 0 => Hunting(h)
  BY <1>2, <1>7, <1>8, HurtHunt
<1>10. Strike(cs, a) = ds
  BY DEF Strike, Table, e, t, mid
<1> HIDE DEF h
<1>11. Table(ds) /\ ds[t] = h /\ \A s \in Slot \ {t} : ds[s] = mid[s]
  BY <1>2, <1>6, <1>8, TableUpdate
<1>12. \A s \in Slot : cs[s].hp \in Nat
  BY HpIsNat
<1> HIDE DEF ds
<1>13. ASSUME NEW s \in Slot, ds[s].conn = Nobody, ds[s].hp > 0
       PROVE  /\ ds[s].hp < cs[s].hp => Hunting(ds[s])
              /\ \A u \in Slot : Hunts(cs[s], u) => Hunting(ds[s])
  <2>1. CASE s = t
    BY <1>9, <1>11, <1>13, <2>1
  <2>2. CASE s = a
    BY <1>2, <1>4, <1>6, <1>11, <1>12, <2>2 DEF Hunting
  <2>3. CASE s # t /\ s # a
    BY <1>6, <1>11, <1>12, <2>3 DEF Hunting, Hunts
  <2> QED BY <2>1, <2>2, <2>3
<1>14. HuntKept(cs, ds)
  BY <1>13 DEF HuntKept
<1> QED BY <1>10, <1>14

\* The update of a character that attacks: it gives up only a quarry that is lost.
LEMMA AttackHunt ==
    ASSUME NEW cs, Table(cs), NEW a \in Slot, cs[a].act = "attacking"
    PROVE  HuntKept(cs, AttackingUpdate(cs, a))
<1> DEFINE me == cs[a]
           t == me.payload.obj
<1>1. Good(a, me) /\ me \in CharOf(a) /\ me.act = "attacking"
  BY DEF Table, Good
<1>2. t \in Slot \ {a} /\ me.payload \in AttackOf(a)
  BY <1>1 DEF Good, Agrees, AttackOf
<1>3. cs[t].hp \in Nat
  BY <1>2, HpIsNat
<1>4. CASE me.payload.line = "swing"
  BY <1>4, StrikeHunt DEF AttackingUpdate
<1>5. CASE /\ ~(me.payload.line = "swing")
           /\ ~cs[t].active \/ cs[t].hp <= 0
  <2> DEFINE e == [me EXCEPT !.act = "idle", !.waiting = FALSE]
  <2>1. /\ e \in CharOf(a) /\ e.conn = me.conn /\ e.act = "idle" /\ e.hp = me.hp
        /\ e.active = me.active /\ e.prevAct = me.prevAct
        /\ e.prevPayload = me.prevPayload
    BY <1>1 DEF CharOf, Action
  <2>2. Good(a, e)
    BY <2>1, <1>1 DEF Good, Agrees, NpcRules
  <2>3. AttackingUpdate(cs, a) = [cs EXCEPT ![a] = e]
    BY <1>5 DEF AttackingUpdate, GiveUp
  <2> HIDE DEF e
  <2>4. Lost(cs, t)
    BY <1>3, <1>5 DEF Lost
  <2>5. \A u \in Slot : Hunts(me, u) => u = t
    BY <1>1 DEF Hunts
  <2>6. HuntKept(cs, [cs EXCEPT ![a] = e])
    BY <2>1, <2>2, <2>4, <2>5, HuntUpdate
  <2> QED BY <2>3, <2>6
<1>6. CASE /\ ~(me.payload.line = "swing")
           /\ ~(~cs[t].active \/ cs[t].hp <= 0)
           /\ ~Within(cs, a, t, Range)
  <2> DEFINE e == MoveTo(me, cs[t].x, Offset, t, TRUE)
  <2>1. Good(a, e) /\ e.conn = me.conn
    BY <1>1, <1>6, ChaseGood
  <2>2. e.hp = me.hp /\ e.act = "moving" /\ e.prevAct = "attacking"
    BY <1>1 DEF MoveTo, CharOf
  <2>3. AttackingUpdate(cs, a) = [cs EXCEPT ![a] = e]
    BY <1>6 DEF AttackingUpdate, Chase
  <2> HIDE DEF e
  <2>4. HuntKept(cs, [cs EXCEPT ![a] = e])
    BY <2>1, <2>2, HuntUpdate DEF Hunting
  <2> QED BY <2>3, <2>4
<1>7. CASE /\ ~(me.payload.line = "swing")
           /\ ~(~cs[t].active \/ cs[t].hp <= 0)
           /\ Within(cs, a, t, Range)
           /\ me.waiting
  <2> DEFINE e == [me EXCEPT !.payload.line = "swing"]
  <2>1. [me.payload EXCEPT !.line = "swing"] \in AttackOf(a)
    BY <1>2 DEF AttackOf
  <2>2. /\ e \in CharOf(a) /\ e.conn = me.conn /\ e.act = me.act /\ e.hp = me.hp
        /\ e.payload \in AttackOf(a)
        /\ e.active = me.active /\ e.prevAct = me.prevAct
        /\ e.prevPayload = me.prevPayload
    BY <1>1, <2>1 DEF CharOf, PayloadOf
  <2>3. Good(a, e)
    BY <2>2, <1>1 DEF Good, Agrees, NpcRules
  <2>4. AttackingUpdate(cs, a) = [cs EXCEPT ![a] = e]
    BY <1>7 DEF AttackingUpdate
  <2> HIDE DEF e
  <2>5. HuntKept(cs, [cs EXCEPT ![a] = e])
    BY <1>1, <2>2, <2>3, HuntUpdate DEF Hunting
  <2> QED BY <2>4, <2>5
<1>8. CASE /\ ~(me.payload.line = "swing")
           /\ ~(~cs[t].active \/ cs[t].hp <= 0)
           /\ Within(cs, a, t, Range)
           /\ ~me.waiting
  BY <1>8, StrikeHunt DEF AttackingUpdate
<1> QED BY <1>4, <1>5, <1>6, <1>7, <1>8

\* The end of a walk: the attack that was saved is taken up, on the same quarry.
LEMMA ArriveHunt ==
    ASSUME NEW cs, Table(cs), NEW s \in Slot, cs[s].act = "moving", NEW x \in Int
    PROVE  HuntKept(cs, Arrive(cs, s, x))
<1> DEFINE me == cs[s]
           c == [me EXCEPT !.x = x, !.act = me.prevAct, !.payload = me.prevPayload,
                           !.prevAct = "idle", !.prevPayload = NoPayload]
           at == [cs EXCEPT ![s] = c]
<1>1. Good(s, me) /\ me \in CharOf(s) /\ me.act = "moving"
  BY DEF Table, Good
<1>2. NoPayload \in SavedOf(s) /\ me.prevPayload \in PayloadOf(s)
  BY <1>1 DEF SavedOf, PayloadOf, CharOf
<1>3. /\ c \in CharOf(s) /\ c.conn = me.conn /\ c.active = me.active /\ c.hp = me.hp
      /\ c.act = me.prevAct /\ c.payload = me.prevPayload /\ c.prevAct = "idle"
  BY <1>1, <1>2 DEF CharOf, Action
<1>4. c.act \in {"idle", "attacking"}
  BY <1>1, <1>3 DEF CharOf
<1>5. Good(s, c)
  BY <1>1, <1>3, <1>4 DEF Good, Agrees, NpcRules
<1>6. Arrive(cs, s, x) = IF c.act = "attacking" THEN AttackingUpdate(at, s) ELSE at
  BY DEF Arrive
<1> HIDE DEF c
<1>7. Table(at) /\ at[s] = c
  BY <1>5, TableUpdate
<1>8. \A t \in Slot : Hunts(me, t) => Hunts(c, t) /\ Hunting(c)
  BY <1>1, <1>3 DEF Hunts, Hunting
<1>9. CASE c.act = "attacking"
  <2>1. HuntKept(at, AttackingUpdate(at, s))
    BY <1>7, <1>9, AttackHunt
  <2>2. HuntKept(cs, AttackingUpdate(at, s))
    BY <1>3, <1>5, <1>8, <2>1, HuntFrom
  <2> QED BY <1>6, <1>9, <2>2
<1>10. CASE c.act # "attacking"
  <2>1. HuntKept(cs, at)
    BY <1>3, <1>5, <1>8, HuntUpdate
  <2> QED BY <1>6, <1>10, <2>1
<1> QED BY <1>9, <1>10

\* The update of a character that walks: what is saved stays saved.
LEMMA MovingHunt ==
    ASSUME NEW cs, Table(cs), NEW s \in Slot, cs[s].act = "moving"
    PROVE  HuntKept(cs, MovingUpdate(cs, s))
<1> DEFINE me == cs[s]
           m == me.payload
           x == Leg(m)
           e == [me EXCEPT !.x = x]
           at == [cs EXCEPT ![s].x = x]
           d == MoveTo(e, cs[m.goal].x, m.offset, m.goal, FALSE)
<1>1. Good(s, me) /\ me \in CharOf(s) /\ me.act = "moving" /\ m \in WalkOf(s)
  BY DEF Table, Good, Agrees
<1>2. x \in Int /\ m.dest \in Int
  BY <1>1, LegGood DEF WalkOf, AnyWalk
<1>3. /\ e \in CharOf(s) /\ e.conn = me.conn /\ e.active = me.active /\ e.hp = me.hp
      /\ e.act = me.act /\ e.payload = m
      /\ e.prevAct = me.prevAct /\ e.prevPayload = me.prevPayload
  <2> HIDE DEF x
  <2> QED BY <1>1, <1>2 DEF CharOf
<1>4. Good(s, e)
  BY <1>1, <1>3 DEF Good, Agrees, NpcRules
<1>5. at = [cs EXCEPT ![s] = e] /\ Table(cs)
  OBVIOUS
<1> HIDE DEF x
<1>6. \A t \in Slot : Hunts(me, t) => me.prevAct = "attacking"
  BY <1>1 DEF Hunts
<1>7. CASE 10 * m.since >= m.ticks
  BY <1>2, <1>7, ArriveHunt DEF MovingUpdate, x
<1>8. CASE ~(10 * m.since >= m.ticks) /\ m.goal = 0
  <2>1. MovingUpdate(cs, s) = at
    BY <1>8 DEF MovingUpdate, x
  <2> HIDE DEF e
  <2>2. HuntKept(cs, [cs EXCEPT ![s] = e])
    BY <1>1, <1>3, <1>4, <1>6, HuntUpdate DEF Hunting
  <2> QED BY <1>5, <2>1, <2>2
<1>9. CASE /\ ~(10 * m.since >= m.ticks) /\ m.goal # 0
           /\ ~cs[m.goal].active \/ Within(at, s, m.goal, m.offset)
  <2>1. MovingUpdate(cs, s) = Arrive(cs, s, x)
    BY <1>9 DEF MovingUpdate, x
  <2> QED BY <2>1, <1>2, ArriveHunt
<1>10. CASE /\ ~(10 * m.since >= m.ticks) /\ m.goal # 0
            /\ ~(~cs[m.goal].active \/ Within(at, s, m.goal, m.offset))
  <2>1. MovingUpdate(cs, s) = [at EXCEPT ![s] = MoveTo(@, cs[m.goal].x, m.offset, m.goal, FALSE)]
    BY <1>10 DEF MovingUpdate, x
  <2>2. at[s] = e
    BY <1>5 DEF Table
  <2>3. MovingUpdate(cs, s) = [cs EXCEPT ![s] = d]
    BY <2>1, <2>2 DEF Table
  <2>4. Kept(cs, MovingUpdate(cs, s))
    BY MovingGood
  <2>5. d = MovingUpdate(cs, s)[s]
    BY <2>3 DEF Table
  <2>6. Good(s, d)
    BY <2>4, <2>5 DEF Kept, Table
  <2>7. d.hp = me.hp /\ d.act = "moving" /\ d.prevAct = me.prevAct
    BY <1>3 DEF MoveTo, CharOf
  <2> HIDE DEF d, m, e
  <2>8. HuntKept(cs, [cs EXCEPT ![s] = d])
    BY <1>6, <2>6, <2>7, HuntUpdate DEF Hunting
  <2> QED BY <2>3, <2>8
<1> QED BY <1>7, <1>8, <1>9, <1>10

LEMMA SameHunt == ASSUME NEW cs, Table(cs) PROVE HuntKept(cs, cs)
<1>1. \A s \in Slot : cs[s].hp \in Nat
  BY HpIsNat
<1> QED BY <1>1 DEF HuntKept, Hunts, Hunting

LEMMA CharacterHunt ==
    ASSUME NEW cs, Table(cs), NEW s \in Slot
    PROVE  HuntKept(cs, CharacterUpdate(cs, s))
<1>1. CASE cs[s].act = "moving"
  BY <1>1, MovingHunt DEF CharacterUpdate
<1>2. CASE cs[s].act = "attacking"
  BY <1>2, AttackHunt DEF CharacterUpdate
<1>3. CASE cs[s].act \notin {"moving", "attacking"}
  BY <1>3, SameHunt DEF CharacterUpdate
<1> QED BY <1>1, <1>2, <1>3

-----------------------------------------------------------------------------
(* The steps of NpcHuntsOn *)

HuntStep ==
    \A s \in Slot : IsNpc(s) /\ IsNpc(s)' /\ char'[s].hp > 0 =>
      /\ char'[s].hp < char[s].hp => \E t \in Slot : Hunts(char'[s], t)
      /\ \A t \in Slot : Hunts(char[s], t) =>
           \/ ~char[t].active \/ char[t].hp = 0
           \/ \E u \in Slot : Hunts(char'[s], u)

LEMMA HuntKeptStep ==
    ASSUME Inv', HuntKept(char, char')
    PROVE  HuntStep
<1>1. \A s \in Slot : Good(s, char'[s])
  BY DEF Inv, Table
<1>2. \A s \in Slot : Hunting(char'[s]) => \E t \in Slot : Hunts(char'[s], t)
  BY <1>1, HuntsSome
<1> QED BY <1>2 DEF HuntStep, HuntKept, IsNpc, Lost

\* A step that changes one slot, which is no npc's before or after it.
LEMMA SlotHunt ==
    ASSUME Inv, NEW s \in Slot, ~IsNpc(s) \/ ~IsNpc(s)',
           \A t \in Slot \ {s} : char'[t] = char[t]
    PROVE  HuntStep
<1>1. \A t \in Slot : char[t].hp \in Nat
  BY HpIsNat DEF Inv
<1> SUFFICES ASSUME NEW t \in Slot, t # s
             PROVE  /\ ~(char'[t].hp < char[t].hp)
                    /\ \A u \in Slot : Hunts(char[t], u) => Hunts(char'[t], u)
  BY DEF HuntStep
<1>2. char'[t] = char[t]
  OBVIOUS
<1> QED BY <1>1, <1>2

\* Packets of players, other than the click that attacks: they change the slot of the
\* player, or one that was not active.
LEMMA PacketHunt ==
    ASSUME Inv, NEW p \in Player,
           \/ \E x \in Place : HandleSelectCharacter(p, x)
           \/ HandleRestart(p) \/ OnDisconnect(p) \/ HandleShowMap(p)
           \/ \E origin, x \in Place : HandleMovement(p, origin, x)
           \/ HandleDeselectTarget(p)
    PROVE  HuntStep
<1>1. CASE (\E x \in Place : HandleSelectCharacter(p, x)) \/ HandleShowMap(p)
  <2>1. PICK s \in Slot : ~char[s].active /\ \E e : char' = [char EXCEPT ![s] = e]
    BY <1>1 DEF HandleSelectCharacter, HandleShowMap, IsFreeSlot
  <2>2. \A t \in Slot \ {s} : char'[t] = char[t]
    BY <2>1 DEF Inv, Table
  <2> QED BY <2>1, <2>2, SlotHunt DEF IsNpc
<1>2. CASE \/ HandleRestart(p) \/ OnDisconnect(p) \/ HandleDeselectTarget(p)
           \/ \E origin, x \in Place : HandleMovement(p, origin, x)
  <2>1. mine[p] # 0 /\ \E e : char' = [char EXCEPT ![mine[p]] = e]
    BY <1>2 DEF HandleRestart, OnDisconnect, HandleDeselectTarget, HandleMovement, Inv, Steering
  <2>2. mine[p] \in Slot /\ char[mine[p]].conn # Nobody
    BY <2>1, SteeredSlot
  <2>3. \A t \in Slot \ {mine[p]} : char'[t] = char[t]
    BY <2>1 DEF Inv, Table
  <2> QED BY <2>2, <2>3, SlotHunt DEF IsNpc
<1> QED BY <1>1, <1>2

\* The click that attacks is an update of the player's character, made ready for it.
LEMMA ActionHunt ==
    ASSUME Inv, Inv', NEW p \in Player, NEW t \in Slot, HandleAction(p, t)
    PROVE  HuntStep
<1> DEFINE s == mine[p]
           c == char[s]
           v == c.target
           e == [c EXCEPT !.act = "attacking", !.payload = Attacking(v)]
<1>1. s \in Slot /\ Good(s, c) /\ c \in CharOf(s) /\ c.conn # Nobody /\ Table(char)
  BY SteeredSlot DEF HandleAction, Inv, Steering
<1>2. StartInteraction(s) \/ char' = char \/ SelectTarget(s, t)
  BY DEF HandleAction
<1>3. CASE char' = char
  BY <1>1, <1>3, SameHunt, HuntKeptStep
<1>4. CASE SelectTarget(s, t)
  <2>1. \A u \in Slot \ {s} : char'[u] = char[u]
    BY <1>1, <1>4 DEF SelectTarget, Table
  <2> QED BY <1>1, <2>1, SlotHunt DEF IsNpc
<1>5. CASE StartInteraction(s) /\ char' # char
  <2>1. v \in Slot \ {s}
    BY <1>1, <1>5 DEF StartInteraction, CharOf
  <2>2. Attacking(v) \in AttackOf(s) /\ Attacking(v) \in PayloadOf(s)
    BY <2>1 DEF Attacking, AttackOf, PayloadOf
  <2>3. /\ e \in CharOf(s) /\ e.conn = c.conn /\ e.act = "attacking" /\ e.active = c.active
        /\ e.payload = Attacking(v) /\ e.hp = c.hp
        /\ e.prevAct = c.prevAct /\ e.prevPayload = c.prevPayload
    BY <1>1, <2>2 DEF CharOf, Action
  <2>4. [char EXCEPT ![s].act = "attacking", ![s].payload = Attacking(v)]
            = [char EXCEPT ![s] = e]
    BY <1>1 DEF Table
  <2>5. char' = AttackingUpdate([char EXCEPT ![s] = e], s)
    BY <1>5, <2>1, <2>4 DEF StartInteraction
  <2> HIDE DEF e, c, v, s
  <2>6. Good(s, e)
    BY <1>1, <2>2, <2>3 DEF Good, Agrees, NpcRules
  <2> DEFINE cs == [char EXCEPT ![s] = e]
  <2>7. Table(cs) /\ cs[s] = e
    BY <1>1, <2>6, TableUpdate
  <2>8. HuntKept(cs, char')
    BY <1>1, <2>3, <2>5, <2>7, AttackHunt
  <2>9. HuntKept(char, char')
    BY <1>1, <2>3, <2>6, <2>8, HuntFrom DEF c
  <2> QED BY <2>9, HuntKeptStep
<1> QED BY <1>2, <1>3, <1>4, <1>5

\* Time passes; nobody does anything.
LEMMA TickStartHunt ==
    ASSUME Inv, TickStart
    PROVE  HuntKept(char, char')
<1>1. ASSUME NEW s \in Slot
      PROVE  /\ char'[s].hp = char[s].hp /\ char[s].hp \in Nat
             /\ char'[s].act = char[s].act /\ char'[s].prevAct = char[s].prevAct
  <2>1. char[s] \in CharOf(s) /\ char'[s] = Older(char[s]) /\ char[s].hp \in Nat
    BY HpIsNat DEF Inv, Table, Good, TickStart
  <2> QED BY <2>1 DEF Older, CharOf
<1> QED BY <1>1 DEF HuntKept, Hunts, Hunting

LEMMA NextHunt == Inv /\ [Next]_vars => HuntStep
<1> SUFFICES ASSUME Inv, [Next]_vars PROVE HuntStep
  OBVIOUS
<1>1. Inv' /\ Table(char)
  BY NextInv DEF Inv
<1>2. CASE char' = char
  BY <1>1, <1>2, SameHunt, HuntKeptStep
<1>3. CASE TickStart
  BY <1>1, <1>3, TickStartHunt, HuntKeptStep
<1>4. CASE TickCharacter
  <2>1. turn \in Slot /\ char' = CharacterUpdate(char, turn)
    BY <1>4 DEF TickCharacter, Inv
  <2> QED BY <1>1, <2>1, CharacterHunt, HuntKeptStep
<1>5. ASSUME NEW p \in Player, Packet(p) PROVE HuntStep
  BY <1>1, <1>5, PacketHunt, ActionHunt DEF Packet
<1> QED BY <1>2, <1>3, <1>4, <1>5 DEF Next, TickInactive, vars

\* An npc that is hit and lives hunts somebody, and one that hunts goes on until it dies or
\* its quarry is lost (attacking_update, moving_update, the npc that is hit).
THEOREM HuntGoesOn == Spec => NpcHuntsOn
<1>1. Inv /\ [Next]_vars =>
        [\A s \in Slot : IsNpc(s) /\ IsNpc(s)' /\ char'[s].hp > 0 =>
           /\ char'[s].hp < char[s].hp => \E t \in Slot : Hunts(char'[s], t)
           /\ \A t \in Slot : Hunts(char[s], t) =>
                \/ ~char[t].active \/ char[t].hp = 0
                \/ \E u \in Slot : Hunts(char'[s], u)]_vars
  BY NextHunt DEF HuntStep
<1> QED BY <1>1, Invariance, PTL DEF Spec, NpcHuntsOn
=============================================================================
