-------------------------- MODULE ArenaBattleProofs --------------------------
(***************************************************************************)
(* Theorems about ArenaBattle, for any rulesets that satisfy its           *)
(* assumption: any number of vehicles, sides, zones and ticks.             *)
(***************************************************************************)
EXTENDS ArenaBattle, SequenceTheorems, FiniteSetTheorems, TLAPS

LEMMA Least ==
    ASSUME NEW S, S \subseteq Nat, S # {}
    PROVE  \E n \in S : \A m \in S : n <= m
<1> DEFINE R == {ss \in Nat \X Nat : ss[1] < ss[2]}
<1>1. IsWellFoundedOn(R, Nat)
  BY NatLessThanWellFounded DEF OpToRel
<1>2. \A m, n \in Nat : m < n => <<m, n>> \in R
  OBVIOUS
<1> HIDE DEF R
<1>3. PICK n \in S : \A m \in S : ~(<<m, n>> \in R)
  BY <1>1, WFMin
<1>4. ASSUME NEW m \in S PROVE n <= m
  <2>1. ~(m < n)
    BY <1>2, <1>3
  <2> QED BY <2>1
<1> QED BY <1>4

(* The parts of a battle. *)
Cars(r) == [alive : BOOLEAN, disqualified : BOOLEAN, timeouts : Nat, respawnAt : Nat,
            used : Nat, flag : SidesOf(r) \cup {NoSide}, marked : BOOLEAN]

FlagTypes(r) == [state : {"at_base", "carried", "dropped", "returning"},
                 place : r.places \cup SidesOf(r),
                 carrier : Vehicles(r) \cup {Nobody}, since : Nat]

Results(r) == SidesOf(r) \cup {"open", "draw", "technical"}

Tallies(r) == [SidesOf(r) -> Nat]

Battles(r) ==
    [tick : Nat, result : Results(r), vehicle : [Vehicles(r) -> Cars(r)],
     score : Tallies(r), kills : Tallies(r), flag : [SidesOf(r) -> FlagTypes(r)],
     control : [r.zones -> SidesOf(r) \cup {NoSide}], overtime : BOOLEAN, baseline : Tallies(r)]

(* Nobody is silent or comes back more often than the ruleset gives. *)
GoodCar(r, c) ==
    /\ c.timeouts <= r.maxTimeouts
    /\ ~c.disqualified => c.timeouts < r.maxTimeouts
    /\ c.used <= r.maxRespawns
    /\ c.disqualified => ~c.alive

CarsGood(r, b) == \A v \in Vehicles(r) : GoodCar(r, b.vehicle[v])

(* Flag and vehicle agree at every step of the tick; a bearer may be dead. *)
FlagLoose(r, b, s) ==
    LET f == b.flag[s] IN
    /\ f.place \in r.places \cup {s}
    /\ f.state = "at_base" => f.place = s
    /\ f.state = "carried" =>
          /\ f.carrier \in Vehicles(r) /\ b.vehicle[f.carrier].flag = s
          /\ r.team[f.carrier] # s /\ r.mode = "capture_the_flag"
    /\ \A v \in Vehicles(r) : InPlay(b, v) /\ b.vehicle[v].flag = s
                                 => f.state = "carried" /\ f.carrier = v

FlagsLoose(r, b) == \A s \in SidesOf(r) : FlagLoose(r, b, s)

(* The mode has dropped the flags of those who went since. *)
FlagTight(b, s) == b.flag[s].state = "carried" => InPlay(b, b.flag[s].carrier)

FlagsTight(r, b) == \A s \in SidesOf(r) : FlagTight(b, s)

(* Nobody shares the mark; its bearer may be out until the mode has seen it. *)
MarksLoose(r, b) ==
    /\ \A v, w \in Vehicles(r) : b.vehicle[v].marked /\ b.vehicle[w].marked => v = w
    /\ r.mode # "juggernaut" => \A v \in Vehicles(r) : ~b.vehicle[v].marked

MarksTight(r, b) == \A v \in Vehicles(r) : b.vehicle[v].marked => InPlay(b, v)

(* The clock stops at the limit, and in overtime at the technical one. *)
Clock(r, b) ==
    /\ b.tick <= r.limit + IF b.overtime THEN TechnicalLimit ELSE 0
    /\ b.overtime => r.overtime

World(r, b) ==
    b \in Battles(r) /\ CarsGood(r, b) /\ FlagsLoose(r, b) /\ MarksLoose(r, b) /\ Clock(r, b)

AInv ==
    /\ rules \in Rulesets
    /\ phase \in Phases
    /\ World(rules, battle)
    /\ phase \in {"respawn", "end", "decide"} =>
          FlagsTight(rules, battle) /\ MarksTight(rules, battle)
    /\ phase # "decide" => battle.result = "open"
    /\ EliminationFair

-----------------------------------------------------------------------------
(* Rulesets *)

LEMMA MinIs ==
    ASSUME NEW S, S \subseteq Nat, S # {}
    PROVE  Min(S) \in S /\ \A x \in S : Min(S) <= x
<1>1. PICK n \in S : \A m \in S : n <= m
  BY Least
<1> QED BY <1>1 DEF Min

LEMMA MaxIs ==
    ASSUME NEW n \in Int
    PROVE  /\ Max({0, n}) \in Nat
           /\ Max({0, n}) > 0 => n > 0
<1>1. \E x \in {0, n} : \A y \in {0, n} : x >= y
  <2>1. CASE n >= 0
    BY <2>1
  <2>2. CASE n < 0
    BY <2>2
  <2> QED BY <2>1, <2>2
<1>2. Max({0, n}) \in {0, n} /\ \A y \in {0, n} : Max({0, n}) >= y
  BY <1>1 DEF Max
<1>3. PICK m \in {0, n} : m = Max({0, n}) /\ \A y \in {0, n} : m >= y
  BY <1>2
<1>4. m \in Nat /\ (m > 0 => n > 0)
  BY <1>3
<1> QED BY <1>3, <1>4

LEMMA RulesetIs ==
    ASSUME NEW r, IsRuleset(r)
    PROVE  /\ Vehicles(r) \subseteq Nat /\ IsFiniteSet(Vehicles(r)) /\ Nobody \notin Vehicles(r)
           /\ \A v \in Vehicles(r) : r.team[v] \in SidesOf(r)
           /\ \A i \in 1..Len(r.sides) : r.sides[i] \in SidesOf(r)
           /\ Len(r.sides) \in Nat /\ DOMAIN r.sides = 1..Len(r.sides)
           /\ NoSide \notin SidesOf(r)
<1>1. Vehicles(r) = 1..Len(r.team) /\ Len(r.team) \in Nat
  BY DEF IsRuleset, Vehicles
<1>2. IsFiniteSet(1..Len(r.team))
  BY <1>1, FS_Interval
<1>3. \A v \in Vehicles(r) : r.team[v] \in SidesOf(r)
  BY DEF IsRuleset, Vehicles
<1>4. /\ \A i \in 1..Len(r.sides) : r.sides[i] \in SidesOf(r)
      /\ Len(r.sides) \in Nat /\ DOMAIN r.sides = 1..Len(r.sides)
  BY SMTT(60), ZenonT(60) DEF IsRuleset
<1>5. NoSide \notin SidesOf(r)
  BY DEF IsRuleset
<1>6. Vehicles(r) \subseteq Nat /\ Nobody \notin Vehicles(r)
  BY <1>1 DEF Nobody
<1> QED BY <1>1, <1>2, <1>3, <1>4, <1>5, <1>6

LEMMA RulesetNumbers ==
    ASSUME NEW r, IsRuleset(r)
    PROVE  /\ r.limit \in Nat /\ r.maxRespawns \in Nat /\ r.delay \in Nat
           /\ r.perZone \in Nat /\ r.perMarked \in Nat /\ r.perKill \in Nat
           /\ r.maxTimeouts \in Nat /\ r.maxTimeouts > 0 /\ r.scoreToWin \in Nat
BY DEF IsRuleset

LEMMA RespawnsLeftIs ==
    ASSUME NEW r, IsRuleset(r), NEW b \in Battles(r), NEW v \in Vehicles(r)
    PROVE  /\ RespawnsLeft(r, b, v) \in Nat
           /\ r.respawn = "limited" /\ RespawnsLeft(r, b, v) # 0
                 => b.vehicle[v].used < r.maxRespawns
<1>1. PICK n \in Nat : n = b.vehicle[v].used
  BY DEF Battles, Cars
<1>2. PICK m \in Nat : m = r.maxRespawns
  BY RulesetNumbers
<1>3. m - n \in Int
  OBVIOUS
<1>4. Max({0, m - n}) \in Nat /\ (Max({0, m - n}) > 0 => m - n > 0)
  BY <1>3, MaxIs
<1>5. r.respawn \in {"none", "limited", "unlimited"}
  BY DEF IsRuleset
<1>6. CASE r.respawn = "limited"
  <2>1. RespawnsLeft(r, b, v) = Max({0, m - n})
    BY <1>1, <1>2, <1>6 DEF RespawnsLeft
  <2> QED BY <1>1, <1>2, <1>4, <2>1
<1>7. CASE r.respawn # "limited"
  BY <1>5, <1>7 DEF RespawnsLeft
<1> QED BY <1>6, <1>7

(* A car of a battle is one. *)
LEMMA CarIs ==
    ASSUME NEW r, NEW b \in Battles(r), NEW v \in Vehicles(r)
    PROVE  b.vehicle[v] \in Cars(r)
BY DEF Battles

LEMMA FlagIs ==
    ASSUME NEW r, NEW b \in Battles(r), NEW s \in SidesOf(r)
    PROVE  b.flag[s] \in FlagTypes(r)
BY DEF Battles

-----------------------------------------------------------------------------
(* Kills *)

(* What a kill leaves alone: it takes vehicles out, and moves marks and points. *)
SameCar(x, y) ==
    /\ y.disqualified = x.disqualified /\ y.timeouts = x.timeouts
    /\ y.used = x.used /\ y.flag = x.flag
    /\ y.alive => x.alive

Hurt(r, b, c) ==
    /\ c \in Battles(r)
    /\ c.tick = b.tick /\ c.result = b.result /\ c.overtime = b.overtime /\ c.flag = b.flag
    /\ \A v \in Vehicles(r) : SameCar(b.vehicle[v], c.vehicle[v])

LEMMA HurtTwice ==
    ASSUME NEW r, NEW b, NEW c, NEW d, Hurt(r, b, c), Hurt(r, c, d)
    PROVE  Hurt(r, b, d)
BY DEF Hurt, SameCar

LEMMA HurtKeeps ==
    ASSUME NEW r, NEW b, World(r, b), NEW c, Hurt(r, b, c), MarksLoose(r, c)
    PROVE  World(r, c)
<1>1. CarsGood(r, c)
  BY DEF World, CarsGood, GoodCar, Hurt, SameCar
<1>2. ASSUME NEW s \in SidesOf(r) PROVE FlagLoose(r, c, s)
  <2>1. FlagLoose(r, b, s)
    BY DEF World, FlagsLoose
  <2>2. \A v \in Vehicles(r) : InPlay(c, v) => InPlay(b, v)
    BY DEF Hurt, SameCar, InPlay
  <2>3. \A v \in Vehicles(r) : c.vehicle[v].flag = b.vehicle[v].flag
    BY DEF Hurt, SameCar
  <2>4. c.flag[s] = b.flag[s]
    BY DEF Hurt
  <2> QED BY <2>1, <2>2, <2>3, <2>4 DEF FlagLoose
<1>3. Clock(r, c)
  BY DEF World, Hurt, Clock
<1> QED BY <1>1, <1>2, <1>3 DEF World, Hurt, FlagsLoose

(* One car of a battle becomes another. *)
PutsCar(b, c, v, car) == c = [b EXCEPT !.vehicle = [@ EXCEPT ![v] = car]]

LEMMA CarPut ==
    ASSUME NEW r, NEW b \in Battles(r), NEW v \in Vehicles(r), NEW car \in Cars(r),
           NEW c, PutsCar(b, c, v, car)
    PROVE  /\ c \in Battles(r)
           /\ c.tick = b.tick /\ c.result = b.result /\ c.overtime = b.overtime
           /\ c.flag = b.flag /\ c.score = b.score
           /\ \A w \in Vehicles(r) : c.vehicle[w] = IF w = v THEN car ELSE b.vehicle[w]
<1>1. PICK cars : cars = [b.vehicle EXCEPT ![v] = car]
  OBVIOUS
<1>2. /\ cars \in [Vehicles(r) -> Cars(r)]
      /\ \A w \in Vehicles(r) : cars[w] = IF w = v THEN car ELSE b.vehicle[w]
  BY <1>1 DEF Battles
<1>3. c = [b EXCEPT !.vehicle = cars]
  BY <1>1 DEF PutsCar
<1>4. /\ c \in Battles(r) /\ c.vehicle = cars
      /\ c.tick = b.tick /\ c.result = b.result /\ c.overtime = b.overtime
      /\ c.flag = b.flag /\ c.score = b.score
  BY <1>2, <1>3 DEF Battles
<1> QED BY <1>2, <1>4

LEMMA ScoresIs ==
    ASSUME NEW r, NEW b \in Battles(r), NEW side \in SidesOf(r), NEW n \in Nat
    PROVE  Hurt(r, b, Scores(b, side, n)) /\ Scores(b, side, n).vehicle = b.vehicle
<1>1. Scores(b, side, n) \in Battles(r)
  BY DEF Scores, Battles, Tallies
<1>2. /\ Scores(b, side, n).tick = b.tick /\ Scores(b, side, n).result = b.result
      /\ Scores(b, side, n).overtime = b.overtime /\ Scores(b, side, n).flag = b.flag
      /\ Scores(b, side, n).vehicle = b.vehicle
  BY DEF Scores, Battles
<1> QED BY <1>1, <1>2 DEF Hurt, SameCar

LEMMA FirstOfIs ==
    ASSUME NEW S, S \subseteq Nat
    PROVE  /\ FirstOf(S) \subseteq S
           /\ S # {} => FirstOf(S) # {}
           /\ \A v, w \in FirstOf(S) : v = w
BY MinIs DEF FirstOf

LEMMA AssignIs ==
    ASSUME NEW r, NEW b \in Battles(r), NEW next
    PROVE  LET c == Assign(r, b, next) IN
           /\ Hurt(r, b, c) /\ c.score = b.score
           /\ \A v \in Vehicles(r) : /\ c.vehicle[v].marked = (v \in next)
                                     /\ InPlay(c, v) = InPlay(b, v)
<1> DEFINE cars == [v \in Vehicles(r) |-> [b.vehicle[v] EXCEPT !.marked = v \in next]]
<1>1. ASSUME NEW v \in Vehicles(r)
      PROVE  /\ cars[v] \in Cars(r) /\ cars[v].marked = (v \in next)
             /\ SameCar(b.vehicle[v], cars[v]) /\ cars[v].alive = b.vehicle[v].alive
  <2>1. b.vehicle[v] \in Cars(r)
    BY CarIs
  <2>2. (v \in next) \in BOOLEAN
    OBVIOUS
  <2> QED BY <2>1, <2>2 DEF Cars, SameCar
<1>2. cars \in [Vehicles(r) -> Cars(r)]
  BY <1>1
<1> HIDE DEF cars
<1>3. Assign(r, b, next) = [b EXCEPT !.vehicle = cars]
  BY DEF Assign, cars
<1>4. [b EXCEPT !.vehicle = cars] \in Battles(r)
  BY <1>2 DEF Battles
<1>5. /\ [b EXCEPT !.vehicle = cars].tick = b.tick /\ [b EXCEPT !.vehicle = cars].result = b.result
      /\ [b EXCEPT !.vehicle = cars].overtime = b.overtime
      /\ [b EXCEPT !.vehicle = cars].flag = b.flag
      /\ [b EXCEPT !.vehicle = cars].score = b.score
      /\ [b EXCEPT !.vehicle = cars].vehicle = cars
  BY DEF Battles
<1> QED BY <1>1, <1>3, <1>4, <1>5 DEF Hurt, InPlay, SameCar

(* One of some vehicles gets the mark, or nobody. *)
LEMMA AssignMarks ==
    ASSUME NEW r, IsRuleset(r), r.mode = "juggernaut", NEW b \in Battles(r),
           NEW S, S \subseteq Vehicles(r)
    PROVE  MarksLoose(r, Assign(r, b, FirstOf(S)))
<1>1. S \subseteq Nat
  BY RulesetIs
<1>2. FirstOf(S) \subseteq S /\ \A v, w \in FirstOf(S) : v = w
  BY <1>1, FirstOfIs
<1>3. \A v \in Vehicles(r) : Assign(r, b, FirstOf(S)).vehicle[v].marked = (v \in FirstOf(S))
  BY AssignIs
<1> QED BY <1>2, <1>3 DEF MarksLoose

LEMMA DownIs ==
    ASSUME IsRuleset(rules), battle \in Battles(rules), NEW victim \in Vehicles(rules),
           NEW killer \in SidesOf(rules) \cup {NoSide}
    PROVE  LET d == Down(victim, killer) IN
           /\ Hurt(rules, battle, d) /\ d.score = battle.score
           /\ \A v \in Vehicles(rules) : d.vehicle[v].marked = battle.vehicle[v].marked
<1>1. PICK old \in Cars(rules) : old = battle.vehicle[victim]
  BY CarIs
<1>2. PICK car : car = [old EXCEPT !.alive = FALSE]
  OBVIOUS
<1>3. car \in Cars(rules) /\ SameCar(old, car) /\ car.marked = old.marked
  BY <1>2 DEF Cars, SameCar
<1>4. PICK dead : dead = [battle EXCEPT !.vehicle[victim].alive = FALSE]
  OBVIOUS
<1>5. PutsCar(battle, dead, victim, car)
  BY <1>1, <1>2, <1>4 DEF PutsCar
<1>6. /\ dead \in Battles(rules)
      /\ dead.tick = battle.tick /\ dead.result = battle.result
      /\ dead.overtime = battle.overtime /\ dead.flag = battle.flag /\ dead.score = battle.score
      /\ \A v \in Vehicles(rules) : dead.vehicle[v] = IF v = victim THEN car ELSE battle.vehicle[v]
  BY <1>3, <1>5, CarPut
<1>7. ASSUME NEW v \in Vehicles(rules)
      PROVE  /\ SameCar(battle.vehicle[v], dead.vehicle[v])
             /\ dead.vehicle[v].marked = battle.vehicle[v].marked
  BY <1>1, <1>3, <1>6 DEF SameCar
<1>8. Down(victim, killer) = dead \/ (/\ killer \in SidesOf(rules)
                                      /\ Down(victim, killer) = [dead EXCEPT !.kills[killer] = @ + 1])
  BY <1>4 DEF Down
<1>9. CASE Down(victim, killer) = dead
  BY <1>6, <1>7, <1>9 DEF Hurt
<1>10. ASSUME killer \in SidesOf(rules), Down(victim, killer) = [dead EXCEPT !.kills[killer] = @ + 1]
      PROVE  LET d == Down(victim, killer) IN
             /\ Hurt(rules, battle, d) /\ d.score = battle.score
             /\ \A v \in Vehicles(rules) : d.vehicle[v].marked = battle.vehicle[v].marked
  <2>1. PICK d : d = [dead EXCEPT !.kills[killer] = @ + 1]
    OBVIOUS
  <2>2. /\ d \in Battles(rules)
        /\ d.tick = dead.tick /\ d.result = dead.result /\ d.vehicle = dead.vehicle
        /\ d.overtime = dead.overtime /\ d.flag = dead.flag /\ d.score = dead.score
    <3>1. PICK kills : kills = [dead.kills EXCEPT ![killer] = @ + 1]
      OBVIOUS
    <3>2. kills \in Tallies(rules)
      BY <1>6, <1>10, <3>1 DEF Battles, Tallies
    <3>3. d = [dead EXCEPT !.kills = kills]
      BY <2>1, <3>1
    <3> QED BY <1>6, <3>2, <3>3 DEF Battles
  <2> QED BY <1>6, <1>7, <1>10, <2>1, <2>2 DEF Hurt
<1> QED BY <1>8, <1>9, <1>10

(* What onKill makes of a battle. *)
Told(r, b, c) ==
    /\ Hurt(r, b, c) /\ MarksLoose(r, c)
    /\ r.mode = "capture_the_flag" => c.score = b.score

LEMMA EnemyKillIs ==
    ASSUME NEW r, IsRuleset(r), NEW b \in Battles(r), NEW victim \in Vehicles(r),
           NEW killer \in SidesOf(r) \cup {NoSide}
    PROVE  /\ Hurt(r, b, EnemyKill(r, b, victim, killer))
           /\ EnemyKill(r, b, victim, killer).vehicle = b.vehicle
<1>1. Hurt(r, b, b)
  BY DEF Hurt, SameCar
<1>2. CASE killer \in {NoSide, r.team[victim]}
  BY <1>1, <1>2 DEF EnemyKill
<1>3. CASE killer \notin {NoSide, r.team[victim]}
  BY <1>3, ScoresIs DEF EnemyKill
<1> QED BY <1>2, <1>3

LEMMA TeamKillIs ==
    ASSUME NEW r, IsRuleset(r), NEW b \in Battles(r), NEW victim \in Vehicles(r),
           NEW killer \in SidesOf(r) \cup {NoSide}
    PROVE  /\ Hurt(r, b, TeamKill(r, b, victim, killer))
           /\ TeamKill(r, b, victim, killer).vehicle = b.vehicle
<1>1. Hurt(r, b, b)
  BY DEF Hurt, SameCar
<1>2. CASE killer = NoSide
  <2>1. r.team[victim] # NoSide
    BY RulesetIs
  <2>2. TeamKill(r, b, victim, killer) = b
    BY <1>2, <2>1, Zenon DEF TeamKill
  <2> QED BY <1>1, <2>2
<1>3. CASE killer # NoSide /\ killer = r.team[victim]
  <2>1. PICK score : score = [s \in SidesOf(r) |-> IF s = killer THEN b.score[s] ELSE b.score[s] + 1]
    OBVIOUS
  <2>2. score \in Tallies(r)
    BY <2>1 DEF Battles, Tallies
  <2>3. TeamKill(r, b, victim, killer) = [b EXCEPT !.score = score]
    BY <1>3, <2>1 DEF TeamKill
  <2>4. PICK c : c = [b EXCEPT !.score = score]
    OBVIOUS
  <2>5. /\ c \in Battles(r) /\ c.tick = b.tick /\ c.result = b.result /\ c.vehicle = b.vehicle
        /\ c.overtime = b.overtime /\ c.flag = b.flag
    BY <2>2, <2>4 DEF Battles
  <2> QED BY <2>3, <2>4, <2>5 DEF Hurt, SameCar
<1>4. CASE killer # NoSide /\ killer # r.team[victim]
  <2>1. TeamKill(r, b, victim, killer) = Scores(b, killer, 1)
    BY <1>4, Zenon DEF TeamKill
  <2>2. killer \in SidesOf(r)
    BY <1>4
  <2> QED BY <2>1, <2>2, ScoresIs
<1> QED BY <1>2, <1>3, <1>4

(* The juggernaut is out: the mark goes to one vehicle in play, or to nobody. *)
LEMMA JuggernautKillIs ==
    ASSUME NEW r, IsRuleset(r), r.mode = "juggernaut", NEW b \in Battles(r), MarksLoose(r, b),
           NEW victim \in Vehicles(r), NEW killer \in SidesOf(r) \cup {NoSide}
    PROVE  Told(r, b, JuggernautKill(r, b, victim, killer))
<1>1. Hurt(r, b, b)
  BY DEF Hurt, SameCar
<1>2. PICK down : down = [b EXCEPT !.vehicle[victim].marked = FALSE]
  OBVIOUS
<1>3. Hurt(r, b, down)
  <2>1. down \in Battles(r)
    <3>1. PICK car : car = [b.vehicle[victim] EXCEPT !.marked = FALSE]
      OBVIOUS
    <3>2. car \in Cars(r)
      <4>1. PICK old \in Cars(r) : old = b.vehicle[victim]
        BY CarIs
      <4>2. car = [old EXCEPT !.marked = FALSE]
        BY <3>1, <4>1
      <4> QED BY <4>2 DEF Cars
    <3>3. PutsCar(b, down, victim, car)
      BY <1>2, <3>1 DEF PutsCar
    <3> QED BY <3>2, <3>3, CarPut
  <2>3. /\ down.tick = b.tick /\ down.result = b.result
        /\ down.overtime = b.overtime /\ down.flag = b.flag
    BY <1>2 DEF Battles
  <2>2. \A v \in Vehicles(r) : SameCar(b.vehicle[v], down.vehicle[v])
    BY <1>2 DEF Battles, Cars, SameCar
  <2> QED BY <2>1, <2>2, <2>3 DEF Hurt
<1>4. PICK S : S = (LET alive == {v \in Vehicles(r) : InPlay(b, v)}
                        mates == {v \in alive : r.team[v] = killer}
                    IN IF mates # {} THEN mates ELSE alive)
  OBVIOUS
<1>5. S \subseteq Vehicles(r)
  BY <1>4
<1>6. PICK enemy \in BOOLEAN : enemy = (killer \notin {NoSide, r.team[victim]})
  <2>1. (killer \notin {NoSide, r.team[victim]}) \in BOOLEAN
    OBVIOUS
  <2> QED BY <2>1
<1>7. enemy => killer \in SidesOf(r)
  BY <1>6
<1>8. CASE b.vehicle[victim].marked
  <2>1. PICK c : c = IF enemy THEN Scores(down, killer, r.perMarked) ELSE down
    OBVIOUS
  <2>2. JuggernautKill(r, b, victim, killer) = Assign(r, c, FirstOf(S))
    BY <1>2, <1>4, <1>6, <1>8, <2>1 DEF JuggernautKill
  <2>3. Hurt(r, b, c) /\ c \in Battles(r)
    <3>1. down \in Battles(r) /\ r.perMarked \in Nat
      BY <1>3, RulesetNumbers DEF Hurt
    <3>2. CASE enemy
      <4>1. Hurt(r, down, Scores(down, killer, r.perMarked))
        BY <1>7, <3>1, <3>2, ScoresIs
      <4>2. Hurt(r, b, c)
        BY <1>3, <2>1, <3>2, <4>1, HurtTwice
      <4> QED BY <4>2 DEF Hurt
    <3> QED BY <1>3, <2>1, <3>1, <3>2
  <2>4. Hurt(r, c, Assign(r, c, FirstOf(S)))
    BY <2>3, AssignIs
  <2>5. MarksLoose(r, Assign(r, c, FirstOf(S)))
    BY <1>5, <2>3, AssignMarks
  <2> QED BY <2>2, <2>3, <2>4, <2>5, HurtTwice DEF Told
<1>9. CASE ~b.vehicle[victim].marked
  <2>1. \/ JuggernautKill(r, b, victim, killer) = b
        \/ enemy /\ JuggernautKill(r, b, victim, killer) = Scores(b, killer, r.perKill)
    BY <1>6, <1>9 DEF JuggernautKill
  <2>2. CASE enemy /\ JuggernautKill(r, b, victim, killer) = Scores(b, killer, r.perKill)
    <3>1. r.perKill \in Nat
      BY RulesetNumbers
    <3>2. /\ Hurt(r, b, Scores(b, killer, r.perKill))
          /\ Scores(b, killer, r.perKill).vehicle = b.vehicle
      BY <1>7, <2>2, <3>1, ScoresIs
    <3> QED BY <2>2, <3>2 DEF Told, MarksLoose
  <2> QED BY <1>1, <2>1, <2>2 DEF Told
<1> QED BY <1>8, <1>9

LEMMA OnKillIs ==
    ASSUME NEW r, IsRuleset(r), NEW b \in Battles(r), MarksLoose(r, b),
           NEW victim \in Vehicles(r), NEW killer \in SidesOf(r) \cup {NoSide}
    PROVE  Told(r, b, OnKill(r, b, victim, killer))
<1>1. CASE r.mode \in {"deathmatch", "last_man_standing"}
  BY <1>1, EnemyKillIs DEF OnKill, Told, MarksLoose
<1>2. CASE r.mode = "team_deathmatch"
  BY <1>2, TeamKillIs DEF OnKill, Told, MarksLoose
<1>3. CASE r.mode = "juggernaut"
  BY <1>3, JuggernautKillIs DEF OnKill
<1>4. CASE r.mode \notin {"deathmatch", "last_man_standing", "team_deathmatch", "juggernaut"}
  BY <1>4 DEF OnKill, Told, Hurt, SameCar
<1> QED BY <1>1, <1>2, <1>3, <1>4

LEMMA KilledIs ==
    ASSUME IsRuleset(rules), World(rules, battle), NEW victim \in Vehicles(rules),
           NEW killer \in SidesOf(rules) \cup {NoSide}, Killed(victim, killer)
    PROVE  /\ World(rules, battle') /\ battle'.result = battle.result
           /\ rules.mode = "capture_the_flag" => battle'.score = battle.score
<1>1. PICK d : d = Down(victim, killer)
  OBVIOUS
<1>2. battle \in Battles(rules) /\ MarksLoose(rules, battle)
  BY DEF World
<1>3. /\ Hurt(rules, battle, d) /\ d.score = battle.score
      /\ \A v \in Vehicles(rules) : d.vehicle[v].marked = battle.vehicle[v].marked
  BY <1>1, <1>2, DownIs
<1>4. d \in Battles(rules) /\ MarksLoose(rules, d)
  BY <1>2, <1>3 DEF Hurt, MarksLoose
<1>5. PICK c : c = OnKill(rules, d, victim, killer)
  OBVIOUS
<1>6. Told(rules, d, c)
  BY <1>4, <1>5, OnKillIs
<1>7. Hurt(rules, battle, c)
  BY <1>3, <1>6, HurtTwice DEF Told
<1>8. World(rules, c)
  BY <1>6, <1>7, HurtKeeps DEF Told
<1>9. battle' = c
  BY <1>1, <1>5 DEF Killed
<1> QED BY <1>3, <1>6, <1>7, <1>8, <1>9 DEF Told, Hurt

-----------------------------------------------------------------------------
(* The tick of the modes without flags *)

(* What the mode makes of a battle: everything is right again. *)
Settled(r, c) == World(r, c) /\ FlagsTight(r, c) /\ MarksTight(r, c)

LEMMA NoFlagsTight ==
    ASSUME NEW r, r.mode # "capture_the_flag", NEW c, FlagsLoose(r, c)
    PROVE  FlagsTight(r, c)
BY DEF FlagsLoose, FlagLoose, FlagsTight, FlagTight

LEMMA NoMarksTight ==
    ASSUME NEW r, r.mode # "juggernaut", NEW c, MarksLoose(r, c)
    PROVE  MarksTight(r, c)
BY DEF MarksLoose, MarksTight

LEMMA JuggernautTickIs ==
    ASSUME NEW r, IsRuleset(r), r.mode = "juggernaut", NEW b, World(r, b)
    PROVE  /\ Settled(r, JuggernautTick(r, b)) /\ JuggernautTick(r, b).result = b.result
<1>1. b \in Battles(r) /\ MarksLoose(r, b) /\ FlagsLoose(r, b)
  BY DEF World
<1>2. CASE Marked(r, b) # {}
  <2>1. JuggernautTick(r, b) = b
    BY <1>2 DEF JuggernautTick
  <2>2. MarksTight(r, b)
    BY <1>1, <1>2 DEF Marked, MarksLoose, MarksTight
  <2>3. FlagsTight(r, b)
    BY <1>1, NoFlagsTight
  <2> QED BY <2>1, <2>2, <2>3 DEF Settled
<1>3. CASE Marked(r, b) = {}
  <2>1. PICK S : S = {v \in Vehicles(r) : InPlay(b, v)}
    OBVIOUS
  <2>2. PICK c : c = Assign(r, b, FirstOf(S))
    OBVIOUS
  <2>3. JuggernautTick(r, b) = c
    BY <1>3, <2>1, <2>2 DEF JuggernautTick
  <2>4. /\ Hurt(r, b, c)
        /\ \A v \in Vehicles(r) : /\ c.vehicle[v].marked = (v \in FirstOf(S))
                                  /\ InPlay(c, v) = InPlay(b, v)
    BY <1>1, <2>2, AssignIs
  <2>5. S \subseteq Vehicles(r) /\ S \subseteq Nat
    BY <2>1, RulesetIs
  <2>6. MarksLoose(r, c)
    BY <1>1, <2>2, <2>5, AssignMarks
  <2>7. FirstOf(S) \subseteq S
    BY <2>5, FirstOfIs
  <2>8. MarksTight(r, c)
    BY <2>1, <2>4, <2>7 DEF MarksTight
  <2>9. World(r, c)
    BY <2>4, <2>6, HurtKeeps
  <2>10. FlagsTight(r, c)
    BY <2>9, NoFlagsTight DEF World
  <2> QED BY <2>3, <2>4, <2>8, <2>9, <2>10 DEF Settled, Hurt
<1> QED BY <1>2, <1>3

LEMMA ControlledIs ==
    ASSUME NEW r, IsRuleset(r), NEW b \in Battles(r), NEW at
    PROVE  LET c == Controlled(r, b, at) IN
           Hurt(r, b, c) /\ c.vehicle = b.vehicle
<1>1. PICK control : control = [z \in r.zones |->
        IF Cardinality(Inside(r, b, at, z)) = 1 THEN CHOOSE s \in Inside(r, b, at, z) : TRUE
                                                ELSE b.control[z]]
  OBVIOUS
<1>2. ASSUME NEW z \in r.zones PROVE control[z] \in SidesOf(r) \cup {NoSide}
  <2>1. Inside(r, b, at, z) \subseteq SidesOf(r)
    BY RulesetIs DEF Inside
  <2>2. CASE Cardinality(Inside(r, b, at, z)) = 1
    <3>1. Inside(r, b, at, z) # {}
      BY <2>2, FS_EmptySet
    <3>2. (CHOOSE s \in Inside(r, b, at, z) : TRUE) \in Inside(r, b, at, z)
      BY <3>1
    <3> QED BY <1>1, <2>1, <2>2, <3>2
  <2>3. CASE Cardinality(Inside(r, b, at, z)) # 1
    BY <1>1, <2>3 DEF Battles
  <2> QED BY <2>2, <2>3
<1>3. control \in [r.zones -> SidesOf(r) \cup {NoSide}]
  BY <1>1, <1>2
<1>4. PICK c : c = [b EXCEPT !.control = control]
  OBVIOUS
<1>5. Controlled(r, b, at) = c
  BY <1>1, <1>4 DEF Controlled
<1>6. /\ c \in Battles(r) /\ c.tick = b.tick /\ c.result = b.result /\ c.vehicle = b.vehicle
      /\ c.overtime = b.overtime /\ c.flag = b.flag
  BY <1>3, <1>4 DEF Battles
<1> QED BY <1>5, <1>6 DEF Hurt, SameCar

LEMMA ZoneTickIs ==
    ASSUME NEW r, IsRuleset(r), NEW b \in Battles(r), NEW at,
           NEW held, \A s \in SidesOf(r) : held[s] \subseteq r.zones
    PROVE  LET c == ZoneTick(r, b, at, held) IN
           Hurt(r, b, c) /\ c.vehicle = b.vehicle
<1>1. PICK d : d = Controlled(r, b, at)
  OBVIOUS
<1>2. Hurt(r, b, d) /\ d.vehicle = b.vehicle
  BY <1>1, ControlledIs
<1>3. PICK score : score = [s \in SidesOf(r) |-> d.score[s] + r.perZone * Cardinality(held[s])]
  OBVIOUS
<1>4. ASSUME NEW s \in SidesOf(r) PROVE score[s] \in Nat
  <2>1. IsFiniteSet(held[s])
    BY FS_Subset DEF IsRuleset
  <2>2. PICK n \in Nat : n = Cardinality(held[s])
    BY <2>1, FS_CardinalityType
  <2>3. PICK p \in Nat : p = r.perZone
    BY RulesetNumbers
  <2>4. PICK m \in Nat : m = d.score[s]
    BY <1>2 DEF Hurt, Battles, Tallies
  <2>5. m + p * n \in Nat
    OBVIOUS
  <2> QED BY <1>3, <2>2, <2>3, <2>4, <2>5
<1>5. score \in Tallies(r)
  BY <1>3, <1>4 DEF Tallies
<1>6. PICK c : c = [d EXCEPT !.score = score]
  OBVIOUS
<1>7. ZoneTick(r, b, at, held) = c
  BY <1>1, <1>3, <1>6 DEF ZoneTick
<1>8. d \in Battles(r)
  BY <1>2 DEF Hurt
<1>9. /\ c \in Battles(r) /\ c.tick = d.tick /\ c.result = d.result /\ c.vehicle = d.vehicle
      /\ c.overtime = d.overtime /\ c.flag = d.flag
  BY <1>5, <1>6, <1>8 DEF Battles
<1>10. Hurt(r, d, c)
  BY <1>9 DEF Hurt, SameCar
<1> QED BY <1>2, <1>7, <1>9, <1>10, HurtTwice

(* In zones nobody carries or is marked: the tick moves points and control. *)
LEMMA ZonesSettled ==
    ASSUME NEW r, r.mode \notin {"capture_the_flag", "juggernaut"}, NEW b, World(r, b),
           NEW c, Hurt(r, b, c), c.vehicle = b.vehicle
    PROVE  Settled(r, c) /\ c.result = b.result
<1>1. MarksLoose(r, c)
  BY DEF World, MarksLoose
<1>2. World(r, c)
  BY <1>1, HurtKeeps
<1>3. FlagsTight(r, c) /\ MarksTight(r, c)
  BY <1>2, NoFlagsTight, NoMarksTight DEF World
<1> QED BY <1>2, <1>3 DEF Settled, Hurt

LEMMA OtherTickIs ==
    ASSUME NEW r, IsRuleset(r), r.mode # "capture_the_flag", NEW b, World(r, b), NEW at
    PROVE  Settled(r, ModeTick(r, b, at)) /\ ModeTick(r, b, at).result = b.result
<1>1. b \in Battles(r)
  BY DEF World
<1>2. CASE r.mode = "zone_control"
  <2>1. \A s \in SidesOf(r) : Present(r, b, at)[s] \subseteq r.zones
    BY DEF Present
  <2>2. PICK c : c = ZoneTick(r, b, at, Present(r, b, at))
    OBVIOUS
  <2>3. Hurt(r, b, c) /\ c.vehicle = b.vehicle
    BY <1>1, <2>1, <2>2, ZoneTickIs
  <2>4. ModeTick(r, b, at) = c
    BY <1>2, <2>2 DEF ModeTick
  <2> QED BY <1>2, <2>3, <2>4, ZonesSettled
<1>3. CASE r.mode = "domination"
  <2>1. \A s \in SidesOf(r) : Possessed(r, b, at)[s] \subseteq r.zones
    BY DEF Possessed
  <2>2. PICK c : c = ZoneTick(r, b, at, Possessed(r, b, at))
    OBVIOUS
  <2>3. Hurt(r, b, c) /\ c.vehicle = b.vehicle
    BY <1>1, <2>1, <2>2, ZoneTickIs
  <2>4. ModeTick(r, b, at) = c
    BY <1>3, <2>2 DEF ModeTick
  <2> QED BY <1>3, <2>3, <2>4, ZonesSettled
<1>4. CASE r.mode = "juggernaut"
  BY <1>4, JuggernautTickIs DEF ModeTick
<1>5. CASE r.mode \notin {"zone_control", "domination", "juggernaut"}
  <2>1. ModeTick(r, b, at) = b
    BY <1>5 DEF ModeTick
  <2>2. Hurt(r, b, b)
    BY <1>1 DEF Hurt, SameCar
  <2> QED BY <1>5, <2>1, <2>2, ZonesSettled
<1> QED BY <1>2, <1>3, <1>4, <1>5

-----------------------------------------------------------------------------
(* The tick of one flag *)

(* A step of flag s edits that flag, and who carries it. *)
FlagEdit(r, b, c, s) ==
    /\ c \in Battles(r)
    /\ c.tick = b.tick /\ c.result = b.result /\ c.overtime = b.overtime
    /\ \A t \in SidesOf(r) : t # s => c.flag[t] = b.flag[t]
    /\ \A v \in Vehicles(r) :
        LET x == b.vehicle[v] y == c.vehicle[v] IN
        /\ y.alive = x.alive /\ y.disqualified = x.disqualified /\ y.timeouts = x.timeouts
        /\ y.used = x.used /\ y.marked = x.marked
        /\ y.flag # x.flag => {x.flag, y.flag} \subseteq {s, NoSide}

(* Afterwards the flag is as it should be, and the others are no worse. *)
FlagDone(r, b, c, s) ==
    /\ World(r, c)
    /\ FlagEdit(r, b, c, s) /\ FlagTight(c, s)
    /\ \A t \in SidesOf(r) : FlagTight(b, t) => FlagTight(c, t)

LEMMA FlagEditKeeps ==
    ASSUME NEW r, IsRuleset(r), NEW b, World(r, b), NEW s \in SidesOf(r), NEW c,
           FlagEdit(r, b, c, s), FlagLoose(r, c, s), FlagTight(c, s)
    PROVE  FlagDone(r, b, c, s)
<1>1. \A v \in Vehicles(r) : InPlay(c, v) = InPlay(b, v)
  BY DEF FlagEdit, InPlay
<1>2. CarsGood(r, c)
  BY DEF World, CarsGood, GoodCar, FlagEdit
<1>3. MarksLoose(r, c) /\ Clock(r, c)
  BY DEF World, MarksLoose, Clock, FlagEdit
<1>4. ASSUME NEW t \in SidesOf(r), t # s PROVE FlagLoose(r, c, t)
  <2>1. FlagLoose(r, b, t) /\ c.flag[t] = b.flag[t] /\ t # NoSide
    BY <1>4, RulesetIs DEF World, FlagsLoose, FlagEdit
  <2>2. \A v \in Vehicles(r) : (c.vehicle[v].flag = t) <=> (b.vehicle[v].flag = t)
    BY <1>4, <2>1 DEF FlagEdit
  <2> QED BY <1>1, <2>1, <2>2 DEF FlagLoose
<1>5. ASSUME NEW t \in SidesOf(r), FlagTight(b, t), t # s PROVE FlagTight(c, t)
  <2>1. FlagLoose(r, b, t) /\ c.flag[t] = b.flag[t]
    BY <1>5 DEF World, FlagsLoose, FlagEdit
  <2> QED BY <1>1, <1>5, <2>1 DEF FlagTight, FlagLoose
<1>6. FlagsLoose(r, c)
  BY <1>4 DEF FlagsLoose
<1>7. c \in Battles(r)
  BY DEF FlagEdit
<1>8. World(r, c)
  BY <1>2, <1>3, <1>6, <1>7 DEF World
<1> QED BY <1>5, <1>8 DEF FlagDone

(* Only the flag changes. *)
PutsFlag(b, c, s, f) == c = [b EXCEPT !.flag[s] = f]

LEMMA FlagPut ==
    ASSUME NEW r, NEW b \in Battles(r), NEW s \in SidesOf(r), NEW f \in FlagTypes(r),
           NEW c, PutsFlag(b, c, s, f)
    PROVE  /\ FlagEdit(r, b, c, s) /\ c.flag[s] = f /\ c.vehicle = b.vehicle /\ c.score = b.score
<1>1. c = [b EXCEPT !.flag[s] = f]
  BY DEF PutsFlag
<1>2. /\ c \in Battles(r) /\ c.tick = b.tick /\ c.result = b.result
      /\ c.overtime = b.overtime /\ c.vehicle = b.vehicle /\ c.score = b.score
      /\ c.flag[s] = f /\ \A t \in SidesOf(r) : t # s => c.flag[t] = b.flag[t]
  BY <1>1 DEF Battles
<1> QED BY <1>2 DEF FlagEdit

(* And who carries it. *)
PutsBearer(b, c, v, x) == c = [b EXCEPT !.vehicle[v].flag = x]

LEMMA BearerPut ==
    ASSUME NEW r, NEW b \in Battles(r), NEW s \in SidesOf(r), NEW v \in Vehicles(r),
           NEW x \in {s, NoSide}, b.vehicle[v].flag \in {s, NoSide},
           NEW c, PutsBearer(b, c, v, x)
    PROVE  /\ FlagEdit(r, b, c, s) /\ c.flag = b.flag /\ c.score = b.score
           /\ c.vehicle[v].flag = x
           /\ \A w \in Vehicles(r) : w # v => c.vehicle[w].flag = b.vehicle[w].flag
<1>1. c = [b EXCEPT !.vehicle[v].flag = x]
  BY DEF PutsBearer
<1>2. PICK old \in Cars(r) : old = b.vehicle[v]
  BY CarIs
<1>3. PICK car : car = [old EXCEPT !.flag = x]
  OBVIOUS
<1>4. /\ car \in Cars(r) /\ car.flag = x /\ car.alive = old.alive
      /\ car.disqualified = old.disqualified /\ car.timeouts = old.timeouts
      /\ car.used = old.used /\ car.marked = old.marked
  BY <1>3 DEF Cars
<1>5. PutsCar(b, c, v, car)
  BY <1>1, <1>2, <1>3 DEF PutsCar
<1>6. /\ c \in Battles(r) /\ c.tick = b.tick /\ c.result = b.result
      /\ c.overtime = b.overtime /\ c.flag = b.flag /\ c.score = b.score
      /\ \A w \in Vehicles(r) : c.vehicle[w] = IF w = v THEN car ELSE b.vehicle[w]
  BY <1>4, <1>5, CarPut
<1>7. ASSUME NEW w \in Vehicles(r)
      PROVE  /\ c.vehicle[w].alive = b.vehicle[w].alive
             /\ c.vehicle[w].disqualified = b.vehicle[w].disqualified
             /\ c.vehicle[w].timeouts = b.vehicle[w].timeouts
             /\ c.vehicle[w].used = b.vehicle[w].used /\ c.vehicle[w].marked = b.vehicle[w].marked
             /\ c.vehicle[w].flag = IF w = v THEN x ELSE b.vehicle[w].flag
  BY <1>6, <1>2, <1>4
<1>8. FlagEdit(r, b, c, s)
  BY <1>6, <1>7 DEF FlagEdit
<1> QED BY <1>1, <1>6, <1>7, <1>8

LEMMA FlagEditTwice ==
    ASSUME NEW r, NEW b, NEW c, NEW d, NEW s, FlagEdit(r, b, c, s), FlagEdit(r, c, d, s)
    PROVE  FlagEdit(r, b, d, s)
BY DEF FlagEdit

LEMMA BaseIs ==
    ASSUME NEW r, NEW s \in SidesOf(r)
    PROVE  /\ Base(s) \in FlagTypes(r)
           /\ Base(s).state = "at_base" /\ Base(s).place = s
BY DEF Base, FlagTypes

(* A flag that nobody carries, and that no vehicle believes it carries. *)
LEMMA FlagFree ==
    ASSUME NEW r, NEW c, NEW s \in SidesOf(r), c.flag[s].state # "carried",
           c.flag[s].place \in r.places \cup {s},
           c.flag[s].state = "at_base" => c.flag[s].place = s,
           \A v \in Vehicles(r) : InPlay(c, v) => c.vehicle[v].flag # s
    PROVE  FlagLoose(r, c, s) /\ FlagTight(c, s)
BY DEF FlagLoose, FlagTight

(* Who scores: only the side of the bearer, whose own flag is at its base. *)
FlagScores(r, b, c, s) ==
    \/ c.score = b.score
    \/ /\ b.flag[s].state = "carried"
       /\ \E side \in SidesOf(r) :
            /\ side # s /\ (r.ownFlagAtBase => b.flag[side].state = "at_base")
            /\ \A t \in SidesOf(r) : t # side => c.score[t] = b.score[t]

LEMMA CapturedIs ==
    ASSUME NEW r, IsRuleset(r), NEW b, World(r, b), NEW s \in SidesOf(r), NEW at,
           b.flag[s].state = "carried", NEW v, v = b.flag[s].carrier, MayCapture(r, b, at, v)
    PROVE  FlagDone(r, b, Captured(r, b, s, v), s) /\ FlagScores(r, b, Captured(r, b, s, v), s)
<1>1. b \in Battles(r) /\ FlagLoose(r, b, s)
  BY DEF World, FlagsLoose
<1>2. v \in Vehicles(r) /\ b.vehicle[v].flag = s /\ r.team[v] # s
  BY <1>1 DEF FlagLoose
<1>3. PICK c : PutsFlag(b, c, s, Base(s))
  BY DEF PutsFlag
<1>4. FlagEdit(r, b, c, s) /\ c.flag[s] = Base(s) /\ c.vehicle = b.vehicle /\ c.score = b.score
  BY <1>1, <1>3, BaseIs, FlagPut
<1>5. PICK d : PutsBearer(c, d, v, NoSide)
  BY DEF PutsBearer
<1>6. c \in Battles(r)
  BY <1>4 DEF FlagEdit
<1>7. /\ FlagEdit(r, c, d, s) /\ d.flag = c.flag /\ d.score = c.score
      /\ d.vehicle[v].flag = NoSide
      /\ \A w \in Vehicles(r) : w # v => d.vehicle[w].flag = c.vehicle[w].flag
  <2>1. c.vehicle[v].flag \in {s, NoSide}
    BY <1>2, <1>4
  <2>2. NoSide \in {s, NoSide}
    BY SMTT(60), ZenonT(60)
  <2> QED BY <1>2, <1>5, <1>6, <2>1, <2>2, BearerPut
<1>8. PICK side \in SidesOf(r) : side = r.team[v]
  BY <1>2, RulesetIs
<1>9. PICK e : e = Scores(d, side, 1)
  OBVIOUS
<1>10. Captured(r, b, s, v) = e
  <2>1. [b EXCEPT !.flag[s] = Base(s), !.vehicle[v].flag = NoSide] = d
    BY <1>3, <1>5 DEF PutsFlag, PutsBearer
  <2> QED BY <1>8, <1>9, <2>1 DEF Captured
<1>11. d \in Battles(r)
  BY <1>7 DEF FlagEdit
<1>12. /\ e \in Battles(r) /\ e.tick = d.tick /\ e.result = d.result /\ e.vehicle = d.vehicle
       /\ e.overtime = d.overtime /\ e.flag = d.flag
       /\ \A t \in SidesOf(r) : t # side => e.score[t] = d.score[t]
  <2>1. Hurt(r, d, e) /\ e.vehicle = d.vehicle
    BY <1>9, <1>11, ScoresIs
  <2>2. \A t \in SidesOf(r) : t # side => e.score[t] = d.score[t]
    BY <1>9, <1>11 DEF Scores, Battles, Tallies
  <2> QED BY <2>1, <2>2 DEF Hurt
<1>13. FlagEdit(r, d, e, s)
  BY <1>12 DEF FlagEdit
<1>14. FlagEdit(r, b, e, s)
  BY <1>4, <1>7, <1>13, FlagEditTwice
<1>15. \A w \in Vehicles(r) : InPlay(e, w) => e.vehicle[w].flag # s
  <2>1. ASSUME NEW w \in Vehicles(r), InPlay(e, w), w # v PROVE e.vehicle[w].flag # s
    <3>1. InPlay(b, w)
      BY <1>14, <2>1 DEF FlagEdit, InPlay
    <3>2. e.vehicle[w].flag = b.vehicle[w].flag
      BY <1>4, <1>7, <1>12, <2>1
    <3> QED BY <1>1, <2>1, <3>1, <3>2 DEF FlagLoose
  <2>2. e.vehicle[v].flag # s
    BY <1>7, <1>12, RulesetIs
  <2> QED BY <2>1, <2>2
<1>16. FlagLoose(r, e, s) /\ FlagTight(e, s)
  <2>1. e.flag[s] = Base(s)
    BY <1>4, <1>7, <1>12
  <2> QED BY <1>15, <2>1, BaseIs, FlagFree
<1>17. FlagDone(r, b, e, s)
  BY <1>14, <1>16, FlagEditKeeps
<1>18. FlagScores(r, b, e, s)
  <2>1. r.ownFlagAtBase => b.flag[side].state = "at_base"
    BY <1>8 DEF MayCapture
  <2>2. \A t \in SidesOf(r) : t # side => e.score[t] = b.score[t]
    BY <1>4, <1>7, <1>12
  <2> QED BY <1>2, <1>8, <2>1, <2>2 DEF FlagScores
<1> QED BY <1>10, <1>17, <1>18

LEMMA CarriedFlagIs ==
    ASSUME NEW r, IsRuleset(r), NEW b, World(r, b), NEW s \in SidesOf(r),
           NEW at \in [Vehicles(r) -> r.places], b.flag[s].state = "carried"
    PROVE  LET c == CarriedFlag(r, b, at, s) IN FlagDone(r, b, c, s) /\ FlagScores(r, b, c, s)
<1>1. b \in Battles(r) /\ FlagLoose(r, b, s)
  BY DEF World, FlagsLoose
<1>2. PICK v \in Vehicles(r) : v = b.flag[s].carrier
  BY <1>1 DEF FlagLoose
<1>3. b.vehicle[v].flag = s /\ r.team[v] # s /\ r.mode = "capture_the_flag"
  BY <1>1, <1>2 DEF FlagLoose
<1>4. PICK f \in FlagTypes(r) : f = b.flag[s]
  BY <1>1, FlagIs
<1>5. f.place \in r.places \cup {s}
  BY <1>1, <1>4 DEF FlagLoose
<1>6. CASE ~InPlay(b, v)
  <2>1. PICK g : g = [f EXCEPT !.state = "dropped", !.carrier = Nobody, !.since = b.tick]
    OBVIOUS
  <2>2. g \in FlagTypes(r) /\ g.state = "dropped" /\ g.place = f.place
    <3>1. b.tick \in Nat
      BY <1>1 DEF Battles
    <3> QED BY <2>1, <3>1 DEF FlagTypes
  <2>3. PICK c : PutsFlag(b, c, s, g)
    BY DEF PutsFlag
  <2>4. CarriedFlag(r, b, at, s) = c
    <3>1. CarriedFlag(r, b, at, s) =
            [b EXCEPT !.flag[s] = [@ EXCEPT !.state = "dropped", !.carrier = Nobody,
                                            !.since = b.tick]]
      BY <1>2, <1>6 DEF CarriedFlag
    <3> QED BY <1>4, <2>1, <2>3, <3>1 DEF PutsFlag
  <2>5. FlagEdit(r, b, c, s) /\ c.flag[s] = g /\ c.vehicle = b.vehicle /\ c.score = b.score
    BY <1>1, <2>2, <2>3, FlagPut
  <2>6. \A w \in Vehicles(r) : InPlay(c, w) => c.vehicle[w].flag # s
    BY <1>1, <1>2, <1>6, <2>5 DEF InPlay, FlagLoose
  <2>7. FlagLoose(r, c, s) /\ FlagTight(c, s)
    BY <1>5, <2>2, <2>5, <2>6, FlagFree
  <2>8. FlagDone(r, b, c, s)
    BY <2>5, <2>7, FlagEditKeeps
  <2> QED BY <2>4, <2>5, <2>8 DEF FlagScores
<1>7. CASE InPlay(b, v) /\ MayCapture(r, b, at, v)
  <2>1. CarriedFlag(r, b, at, s) = Captured(r, b, s, v)
    BY <1>2, <1>7 DEF CarriedFlag
  <2> QED BY <1>2, <1>7, <2>1, CapturedIs
<1>8. CASE InPlay(b, v) /\ ~MayCapture(r, b, at, v)
  <2>1. PICK g : g = [f EXCEPT !.place = at[v]]
    OBVIOUS
  <2>2. at[v] \in r.places
    OBVIOUS
  <2>3. g \in FlagTypes(r) /\ g.state = f.state /\ g.carrier = f.carrier /\ g.place = at[v]
    BY <2>1, <2>2 DEF FlagTypes
  <2>4. PICK c : PutsFlag(b, c, s, g)
    BY DEF PutsFlag
  <2>5. CarriedFlag(r, b, at, s) = c
    BY <1>2, <1>4, <1>8, <2>1, <2>4 DEF CarriedFlag, PutsFlag
  <2>6. FlagEdit(r, b, c, s) /\ c.flag[s] = g /\ c.vehicle = b.vehicle /\ c.score = b.score
    BY <1>1, <2>3, <2>4, FlagPut
  <2>7. FlagLoose(r, c, s)
    BY <1>1, <1>2, <1>3, <1>4, <2>2, <2>3, <2>6 DEF FlagLoose, InPlay
  <2>8. FlagTight(c, s)
    BY <1>2, <1>4, <1>8, <2>3, <2>6 DEF FlagTight, InPlay
  <2>9. FlagDone(r, b, c, s)
    BY <2>6, <2>7, <2>8, FlagEditKeeps
  <2> QED BY <2>5, <2>6, <2>9 DEF FlagScores
<1> QED BY <1>6, <1>7, <1>8

LEMMA FlagDoneTwice ==
    ASSUME NEW r, NEW b, NEW c, NEW d, NEW s, FlagDone(r, b, c, s), FlagDone(r, c, d, s)
    PROVE  FlagDone(r, b, d, s)
<1>1. FlagEdit(r, b, d, s)
  BY FlagEditTwice DEF FlagDone
<1> QED BY <1>1 DEF FlagDone

LEMMA TakenIs ==
    ASSUME NEW r, IsRuleset(r), r.mode = "capture_the_flag", NEW b, World(r, b),
           NEW s \in SidesOf(r), b.flag[s].state # "carried",
           NEW v \in Vehicles(r), InPlay(b, v), b.vehicle[v].flag = NoSide, r.team[v] # s
    PROVE  FlagDone(r, b, Taken(b, s, v), s) /\ Taken(b, s, v).score = b.score
<1>1. b \in Battles(r) /\ FlagLoose(r, b, s)
  BY DEF World, FlagsLoose
<1>2. PICK f \in FlagTypes(r) : f = b.flag[s]
  BY <1>1, FlagIs
<1>3. f.place \in r.places \cup {s}
  BY <1>1, <1>2 DEF FlagLoose
<1>4. PICK g : g = [f EXCEPT !.state = "carried", !.carrier = v, !.since = 0]
  OBVIOUS
<1>5. g \in FlagTypes(r) /\ g.state = "carried" /\ g.carrier = v /\ g.place = f.place
  BY <1>4 DEF FlagTypes
<1>6. PICK c : PutsFlag(b, c, s, g)
  BY DEF PutsFlag
<1>7. FlagEdit(r, b, c, s) /\ c.flag[s] = g /\ c.vehicle = b.vehicle /\ c.score = b.score
  BY <1>1, <1>5, <1>6, FlagPut
<1>8. PICK d : PutsBearer(c, d, v, s)
  BY DEF PutsBearer
<1>9. /\ FlagEdit(r, c, d, s) /\ d.flag = c.flag /\ d.score = c.score
      /\ d.vehicle[v].flag = s
      /\ \A w \in Vehicles(r) : w # v => d.vehicle[w].flag = c.vehicle[w].flag
  <2>1. c \in Battles(r)
    BY <1>7 DEF FlagEdit
  <2>2. c.vehicle[v].flag \in {s, NoSide}
    BY <1>7
  <2>3. s \in {s, NoSide}
    OBVIOUS
  <2> QED BY <1>8, <2>1, <2>2, <2>3, BearerPut
<1>10. Taken(b, s, v) = d
  BY <1>2, <1>4, <1>6, <1>8 DEF Taken, PutsFlag, PutsBearer
<1>11. FlagEdit(r, b, d, s)
  BY <1>7, <1>9, FlagEditTwice
<1>12. \A w \in Vehicles(r) : InPlay(d, w) = InPlay(b, w)
  BY <1>11 DEF FlagEdit, InPlay
<1>13. \A w \in Vehicles(r) : InPlay(b, w) => b.vehicle[w].flag # s
  BY <1>1 DEF FlagLoose
<1>14. d.flag[s] = g
  BY <1>7, <1>9
<1>15. FlagLoose(r, d, s)
  <2>1. \A w \in Vehicles(r) : InPlay(d, w) /\ d.vehicle[w].flag = s => w = v
    BY <1>7, <1>9, <1>12, <1>13
  <2> QED BY <1>3, <1>5, <1>9, <1>14, <2>1 DEF FlagLoose
<1>16. FlagTight(d, s)
  BY <1>5, <1>12, <1>14 DEF FlagTight
<1>17. FlagDone(r, b, d, s)
  BY <1>11, <1>15, <1>16, FlagEditKeeps
<1> QED BY <1>7, <1>9, <1>10, <1>17

(* A flag that nobody carries is free to be taken, and may stay as it is. *)
LEMMA NotCarried ==
    ASSUME NEW r, NEW b, World(r, b), NEW s \in SidesOf(r), b.flag[s].state # "carried"
    PROVE  /\ FlagEdit(r, b, b, s) /\ FlagDone(r, b, b, s)
           /\ \A v \in Vehicles(r) : InPlay(b, v) => b.vehicle[v].flag # s
<1>1. FlagEdit(r, b, b, s)
  BY DEF FlagEdit, World
<1>2. FlagLoose(r, b, s)
  BY DEF World, FlagsLoose
<1>3. FlagTight(b, s)
  BY DEF FlagTight
<1> QED BY <1>1, <1>2, <1>3 DEF FlagDone, FlagLoose

LEMMA BroughtBack ==
    ASSUME NEW r, IsRuleset(r), NEW b, World(r, b), NEW s \in SidesOf(r),
           b.flag[s].state # "carried", NEW c, PutsFlag(b, c, s, Base(s))
    PROVE  /\ FlagDone(r, b, c, s) /\ c.score = b.score /\ c.vehicle = b.vehicle
           /\ c.flag[s] = Base(s)
<1>1. b \in Battles(r)
  BY DEF World
<1>2. FlagEdit(r, b, c, s) /\ c.flag[s] = Base(s) /\ c.vehicle = b.vehicle /\ c.score = b.score
  BY <1>1, BaseIs, FlagPut
<1>3. \A v \in Vehicles(r) : InPlay(c, v) => c.vehicle[v].flag # s
  BY <1>2, NotCarried DEF InPlay
<1>4. FlagLoose(r, c, s) /\ FlagTight(c, s)
  BY <1>2, <1>3, BaseIs, FlagFree
<1>5. FlagDone(r, b, c, s)
  BY <1>2, <1>4, FlagEditKeeps
<1> QED BY <1>2, <1>5

LEMMA TouchedIs ==
    ASSUME NEW r, IsRuleset(r), r.mode = "capture_the_flag", NEW b, World(r, b),
           NEW s \in SidesOf(r), b.flag[s].state # "carried", NEW at
    PROVE  FlagDone(r, b, Touched(r, b, at, s), s) /\ Touched(r, b, at, s).score = b.score
<1> DEFINE Touching(place) ==
             {v \in Vehicles(r) : InPlay(b, v) /\ b.vehicle[v].flag = NoSide /\ at[v] = place}
<1>1. PICK there : there = Touching(b.flag[s].place)
  OBVIOUS
<1>2. PICK first : first = Min(there)
  OBVIOUS
<1>3. PICK later : later = {v \in Touching(s) : v > first /\ r.team[v] # s}
  OBVIOUS
<1>4. PICK back : PutsFlag(b, back, s, Base(s))
  BY DEF PutsFlag
<1>5. Touched(r, b, at, s) = IF there = {} THEN b
                             ELSE IF r.team[first] # s THEN Taken(b, s, first)
                             ELSE IF later = {} THEN back
                             ELSE Taken(back, s, Min(later))
  BY <1>1, <1>2, <1>3, <1>4 DEF Touched, PutsFlag
<1>6. there # {} => first \in Vehicles(r) /\ InPlay(b, first) /\ b.vehicle[first].flag = NoSide
  <2>1. there \subseteq Nat
    BY <1>1, RulesetIs
  <2>2. there # {} => first \in there
    BY <1>2, <2>1, MinIs
  <2> QED BY <1>1, <2>2
<1>7. later # {} =>
        LET v == Min(later) IN
        v \in Vehicles(r) /\ InPlay(b, v) /\ b.vehicle[v].flag = NoSide /\ r.team[v] # s
  <2>1. later \subseteq Nat
    BY <1>3, RulesetIs
  <2>2. later # {} => Min(later) \in later
    BY <2>1, MinIs
  <2> QED BY <1>3, <2>2
<1> HIDE DEF Touching
<1>8. CASE there = {}
  BY <1>5, <1>8, NotCarried
<1>9. CASE there # {} /\ r.team[first] # s
  <2>1. Touched(r, b, at, s) = Taken(b, s, first)
    BY <1>5, <1>9
  <2> QED BY <1>6, <1>9, <2>1, TakenIs
<1>10. /\ FlagDone(r, b, back, s) /\ back.score = b.score /\ back.vehicle = b.vehicle
       /\ back.flag[s].state # "carried"
  BY <1>4, BroughtBack, BaseIs
<1>11. CASE there # {} /\ r.team[first] = s /\ later = {}
  BY <1>5, <1>10, <1>11
<1>12. CASE there # {} /\ r.team[first] = s /\ later # {}
  <2>1. PICK v : v = Min(later)
    OBVIOUS
  <2>2. Touched(r, b, at, s) = Taken(back, s, v)
    BY <1>5, <1>12, <2>1
  <2>3. v \in Vehicles(r) /\ InPlay(b, v) /\ b.vehicle[v].flag = NoSide /\ r.team[v] # s
    BY <1>7, <1>12, <2>1
  <2>4. InPlay(back, v) /\ back.vehicle[v].flag = NoSide
    BY <1>10, <2>3 DEF InPlay
  <2>5. World(r, back)
    BY <1>10 DEF FlagDone
  <2>6. FlagDone(r, back, Taken(back, s, v), s) /\ Taken(back, s, v).score = back.score
    BY <1>10, <2>3, <2>4, <2>5, TakenIs
  <2> QED BY <1>10, <2>2, <2>6, FlagDoneTwice
<1> QED BY <1>8, <1>9, <1>11, <1>12

LEMMA FlagTickIs ==
    ASSUME NEW r, IsRuleset(r), r.mode = "capture_the_flag", NEW b, World(r, b),
           NEW s \in SidesOf(r), NEW at \in [Vehicles(r) -> r.places]
    PROVE  LET c == FlagTick(r, b, at, s) IN FlagDone(r, b, c, s) /\ FlagScores(r, b, c, s)
<1>1. b \in Battles(r) /\ FlagLoose(r, b, s)
  BY DEF World, FlagsLoose
<1>2. PICK f \in FlagTypes(r) : f = b.flag[s]
  BY <1>1, FlagIs
<1>3. CASE f.state = "carried"
  <2>1. FlagTick(r, b, at, s) = CarriedFlag(r, b, at, s)
    BY <1>2, <1>3, Zenon DEF FlagTick
  <2> QED BY <1>2, <1>3, <2>1, CarriedFlagIs
<1>4. CASE f.state = "dropped" /\ b.tick - f.since >= r.returnTicks
  <2>1. PICK g : g = [f EXCEPT !.state = "returning"]
    OBVIOUS
  <2>2. g \in FlagTypes(r) /\ g.state = "returning" /\ g.place = f.place
    BY <2>1 DEF FlagTypes
  <2>3. PICK c : PutsFlag(b, c, s, g)
    BY DEF PutsFlag
  <2>4. FlagTick(r, b, at, s) = c
    BY <1>2, <1>4, <2>1, <2>3 DEF FlagTick, PutsFlag
  <2>5. FlagEdit(r, b, c, s) /\ c.flag[s] = g /\ c.vehicle = b.vehicle /\ c.score = b.score
    BY <1>1, <2>2, <2>3, FlagPut
  <2>6. \A w \in Vehicles(r) : InPlay(c, w) => c.vehicle[w].flag # s
    <3>1. b.flag[s].state # "carried"
      BY <1>2, <1>4
    <3> QED BY <2>5, <3>1, NotCarried DEF InPlay
  <2>7. g.place \in r.places \cup {s}
    BY <1>1, <1>2, <2>2 DEF FlagLoose
  <2>8. FlagLoose(r, c, s) /\ FlagTight(c, s)
    BY <2>2, <2>5, <2>6, <2>7, FlagFree
  <2>9. FlagDone(r, b, c, s)
    BY <2>5, <2>8, FlagEditKeeps
  <2> QED BY <2>4, <2>5, <2>9 DEF FlagScores
<1>5. CASE f.state = "returning"
  <2>1. PICK c : PutsFlag(b, c, s, Base(s))
    BY DEF PutsFlag
  <2>2. FlagTick(r, b, at, s) = c
    BY <1>2, <1>5, <2>1 DEF FlagTick, PutsFlag
  <2>3. FlagDone(r, b, c, s) /\ c.score = b.score
    <3>1. b.flag[s].state # "carried"
      BY <1>2, <1>5
    <3> QED BY <2>1, <3>1, BroughtBack
  <2> QED BY <2>2, <2>3 DEF FlagScores
<1>6. CASE /\ f.state \notin {"carried", "returning"}
           /\ ~(f.state = "dropped" /\ b.tick - f.since >= r.returnTicks)
  <2>1. FlagTick(r, b, at, s) = Touched(r, b, at, s)
    BY <1>2, <1>6 DEF FlagTick
  <2>2. b.flag[s].state # "carried"
    BY <1>2, <1>6
  <2> QED BY <2>1, <2>2, TouchedIs DEF FlagScores
<1> QED BY <1>3, <1>4, <1>5, <1>6

-----------------------------------------------------------------------------
(* One flag after another *)

LEMMA UpTo ==
    ASSUME NEW n \in Nat, NEW S, 0 \in S, \A i \in 0..(n - 1) : i \in S => i + 1 \in S
    PROVE  \A i \in 0..n : i \in S
<1> SUFFICES ASSUME NEW j \in 0..n, j \notin S PROVE FALSE
  OBVIOUS
<1> DEFINE C == {i \in 0..n : i \notin S}
<1>1. C \subseteq Nat /\ C # {}
  OBVIOUS
<1>2. PICK m \in C : \A i \in C : m <= i
  <2> HIDE DEF C
  <2> QED BY <1>1, Least
<1>3. m # 0 /\ m \in 0..n
  BY <1>2
<1>4. m - 1 \in 0..(n - 1) /\ m - 1 \notin C
  BY <1>2, <1>3
<1>5. m - 1 \in S
  BY <1>4
<1>6. (m - 1) + 1 \in S
  BY <1>4, <1>5
<1> QED BY <1>2, <1>3, <1>6

(* What the first n flags have made of b, for n up to m. *)
Chain(r, b, at, m, f) ==
    f = [n \in 0..m |-> IF n = 0 THEN b ELSE FlagTick(r, f[n - 1], at, r.sides[n])]

LEMMA ChainExists ==
    ASSUME NEW r, NEW b, NEW at, NEW len \in Nat
    PROVE  \E f : Chain(r, b, at, len, f)
<1> DEFINE S == {m \in 0..len : \E f : Chain(r, b, at, m, f)}
<1>1. 0 \in S
  <2>1. PICK f : f = [n \in 0..0 |-> b]
    OBVIOUS
  <2>2. f = [n \in 0..0 |-> IF n = 0 THEN b ELSE FlagTick(r, f[n - 1], at, r.sides[n])]
    BY <2>1
  <2> QED BY <2>2 DEF Chain
<1>2. ASSUME NEW m \in 0..(len - 1), m \in S PROVE m + 1 \in S
  <2>1. PICK f : Chain(r, b, at, m, f)
    BY <1>2
  <2>2. PICK g : g = [n \in 0..(m + 1) |-> IF n = m + 1 THEN FlagTick(r, f[m], at, r.sides[n])
                                                          ELSE f[n]]
    OBVIOUS
  <2>3. ASSUME NEW n \in 0..(m + 1)
        PROVE  g[n] = IF n = 0 THEN b ELSE FlagTick(r, g[n - 1], at, r.sides[n])
    <3>1. CASE n = m + 1
      <4>1. g[n - 1] = f[m] /\ n # 0
        BY <2>2, <3>1
      <4>2. g[n] = FlagTick(r, f[m], at, r.sides[n])
        BY <2>2, <3>1
      <4> QED BY <4>1, <4>2
    <3>2. CASE n # m + 1
      <4>1. n \in 0..m /\ g[n] = f[n]
        BY <2>2, <3>2
      <4>2. n # 0 => g[n - 1] = f[n - 1]
        BY <2>2, <4>1
      <4>3. f[n] = IF n = 0 THEN b ELSE FlagTick(r, f[n - 1], at, r.sides[n])
        BY <2>1, <4>1 DEF Chain
      <4> QED BY <4>1, <4>2, <4>3
    <3> QED BY <3>1, <3>2
  <2>4. Chain(r, b, at, m + 1, g)
    BY <2>2, <2>3 DEF Chain
  <2> QED BY <2>4
<1>3. \A m \in 0..len : m \in S
  <2> HIDE DEF S
  <2> QED BY <1>1, <1>2, UpTo
<1>4. len \in S
  BY <1>3
<1> QED BY <1>4

LEMMA FlagsTickIs ==
    ASSUME NEW r, Len(r.sides) \in Nat, NEW b, NEW at
    PROVE  \E f : /\ FlagsTick(r, b, at) = f[Len(r.sides)] /\ f[0] = b
                  /\ \A n \in 1..Len(r.sides) : f[n] = FlagTick(r, f[n - 1], at, r.sides[n])
<1>1. PICK f : f = CHOOSE h : Chain(r, b, at, Len(r.sides), h)
  OBVIOUS
<1>2. Chain(r, b, at, Len(r.sides), f)
  BY <1>1, ChainExists
<1>3. FlagsTick(r, b, at) = f[Len(r.sides)]
  BY <1>1 DEF FlagsTick, Chain
<1>4. f[0] = b
  BY <1>2 DEF Chain
<1>5. ASSUME NEW n \in 1..Len(r.sides) PROVE f[n] = FlagTick(r, f[n - 1], at, r.sides[n])
  <2>1. n \in 0..Len(r.sides) /\ n # 0
    OBVIOUS
  <2> QED BY <1>2, <2>1 DEF Chain
<1> QED BY <1>3, <1>4, <1>5

(* The flags of the first n sides are right; the rest is as before. *)
SoFar(r, b, c, n) ==
    /\ World(r, c) /\ c.result = b.result
    /\ \A i \in 1..n : FlagTight(c, r.sides[i])

LEMMA FlagsTickSettles ==
    ASSUME NEW r, IsRuleset(r), r.mode = "capture_the_flag", NEW b, World(r, b),
           NEW at \in [Vehicles(r) -> r.places]
    PROVE  Settled(r, FlagsTick(r, b, at)) /\ FlagsTick(r, b, at).result = b.result
<1>1. PICK len \in Nat : len = Len(r.sides)
  BY RulesetIs
<1>2. PICK f : /\ FlagsTick(r, b, at) = f[len] /\ f[0] = b
               /\ \A n \in 1..len : f[n] = FlagTick(r, f[n - 1], at, r.sides[n])
  BY <1>1, FlagsTickIs
<1>3. PICK S : S = {n \in 0..len : SoFar(r, b, f[n], n)}
  OBVIOUS
<1>4. 0 \in S
  BY <1>2, <1>3 DEF SoFar
<1>5. ASSUME NEW n \in 0..(len - 1), n \in S PROVE n + 1 \in S
  <2>1. n + 1 \in 1..len /\ (n + 1) - 1 = n
    OBVIOUS
  <2>2. PICK s : s = r.sides[n + 1]
    OBVIOUS
  <2>3. s \in SidesOf(r)
    BY <1>1, <2>1, <2>2, RulesetIs
  <2>4. f[n + 1] = FlagTick(r, f[n], at, s)
    BY <1>2, <2>1, <2>2
  <2>5. SoFar(r, b, f[n], n)
    BY <1>3, <1>5
  <2>6. World(r, f[n])
    BY <2>5 DEF SoFar
  <2>7. FlagDone(r, f[n], f[n + 1], s)
    BY <2>3, <2>4, <2>6, FlagTickIs
  <2>8. ASSUME NEW i \in 1..(n + 1) PROVE FlagTight(f[n + 1], r.sides[i])
    <3>1. CASE i = n + 1
      BY <2>2, <2>7, <3>1 DEF FlagDone
    <3>2. CASE i # n + 1
      <4>1. i \in 1..n /\ i \in 1..len
        BY <3>2
      <4>2. FlagTight(f[n], r.sides[i]) /\ r.sides[i] \in SidesOf(r)
        BY <1>1, <2>5, <4>1, RulesetIs DEF SoFar
      <4> QED BY <2>7, <4>2 DEF FlagDone
    <3> QED BY <3>1, <3>2
  <2>9. World(r, f[n + 1]) /\ f[n + 1].result = b.result
    BY <2>5, <2>7 DEF FlagDone, FlagEdit, SoFar
  <2>10. SoFar(r, b, f[n + 1], n + 1)
    BY <2>8, <2>9 DEF SoFar
  <2> QED BY <1>3, <2>1, <2>10
<1>6. len \in S
  <2>1. \A n \in 0..len : n \in S
    BY <1>4, <1>5, UpTo
  <2> QED BY <2>1
<1>7. SoFar(r, b, f[len], len)
  BY <1>3, <1>6
<1>8. FlagsTight(r, f[len])
  <2>1. ASSUME NEW s \in SidesOf(r) PROVE FlagTight(f[len], s)
    <3>1. PICK i \in 1..len : s = r.sides[i]
      BY <1>1, RulesetIs DEF SidesOf, ToSet
    <3> QED BY <1>7, <3>1 DEF SoFar
  <2> QED BY <2>1 DEF FlagsTight
<1>9. MarksTight(r, f[len])
  BY <1>7, NoMarksTight DEF SoFar, World
<1> QED BY <1>2, <1>7, <1>8, <1>9 DEF SoFar, Settled

LEMMA ModeTickIs ==
    ASSUME NEW r, IsRuleset(r), NEW b, World(r, b), NEW at \in [Vehicles(r) -> r.places]
    PROVE  Settled(r, ModeTick(r, b, at)) /\ ModeTick(r, b, at).result = b.result
<1>1. CASE r.mode = "capture_the_flag"
  <2>1. ModeTick(r, b, at) = FlagsTick(r, b, at)
    BY <1>1 DEF ModeTick
  <2> QED BY <1>1, <2>1, FlagsTickSettles
<1>2. CASE r.mode # "capture_the_flag"
  BY <1>2, OtherTickIs
<1> QED BY <1>1, <1>2

(* With two flags, and the own one at its base, one side at most scores. *)
LEMMA TwoFlags ==
    ASSUME NEW r, IsRuleset(r), r.mode = "capture_the_flag", Len(r.sides) = 2, r.ownFlagAtBase,
           NEW b, World(r, b), NEW at \in [Vehicles(r) -> r.places]
    PROVE  \E side \in SidesOf(r) :
             \A t \in SidesOf(r) : t # side => FlagsTick(r, b, at).score[t] = b.score[t]
<1>1. PICK f : /\ FlagsTick(r, b, at) = f[2] /\ f[0] = b
               /\ \A n \in 1..2 : f[n] = FlagTick(r, f[n - 1], at, r.sides[n])
  <2>1. Len(r.sides) \in Nat
    BY RulesetIs
  <2> QED BY SMTT(60), ZenonT(60), <2>1, FlagsTickIs
<1>2. PICK s \in SidesOf(r), u \in SidesOf(r) : s = r.sides[1] /\ u = r.sides[2]
  BY SMTT(60), ZenonT(60), RulesetIs
<1>3. SidesOf(r) = {s, u}
  <2>1. ASSUME NEW t \in SidesOf(r) PROVE t \in {s, u}
    <3>1. PICK i \in 1..2 : t = r.sides[i]
      BY RulesetIs DEF SidesOf, ToSet
    <3> QED BY <1>2, <3>1
  <2> QED BY <1>2, <2>1
<1>4. f[1] = FlagTick(r, b, at, s) /\ f[2] = FlagTick(r, f[1], at, u)
  BY <1>1, <1>2
<1>5. FlagDone(r, b, f[1], s) /\ FlagScores(r, b, f[1], s)
  BY <1>2, <1>4, FlagTickIs
<1>6. World(r, f[1])
  BY <1>5 DEF FlagDone
<1>7. FlagScores(r, f[1], f[2], u)
  BY <1>2, <1>4, <1>6, FlagTickIs
<1>8. CASE f[1].score = b.score
  <2>1. CASE f[2].score = f[1].score
    BY <1>1, <1>2, <1>8, <2>1
  <2>2. CASE f[2].score # f[1].score
    BY <1>1, <1>7, <1>8, <2>2 DEF FlagScores
  <2> QED BY <2>1, <2>2
<1>9. CASE f[1].score # b.score
  <2>1. PICK side \in SidesOf(r) :
            /\ side # s /\ b.flag[side].state = "at_base"
            /\ \A t \in SidesOf(r) : t # side => f[1].score[t] = b.score[t]
    BY <1>5, <1>9 DEF FlagScores
  <2>2. side = u
    BY <1>3, <2>1
  <2>3. f[1].flag[u] = b.flag[u]
    BY <1>2, <1>5, <2>1, <2>2 DEF FlagDone, FlagEdit
  <2>4. f[2].score = f[1].score
    BY <1>7, <2>1, <2>2, <2>3 DEF FlagScores
  <2> QED BY <1>1, <2>1, <2>4
<1> QED BY <1>8, <1>9

-----------------------------------------------------------------------------
(* Silence and respawn: every car for itself *)

(* What becomes of a car while nobody touches flags and marks. *)
LaterCar(r, x, y) ==
    /\ y \in Cars(r)
    /\ GoodCar(r, x) => GoodCar(r, y)
    /\ y.marked => x.marked
    /\ \/ y.flag = x.flag /\ (y.alive /\ ~y.disqualified => x.alive /\ ~x.disqualified)
       \/ y.flag = NoSide /\ ~x.alive

(* A car that is in play stays as it is. *)
SafeCar(x, y) == x.alive /\ ~x.disqualified => y = x

LEMMA CarsLater ==
    ASSUME NEW r, IsRuleset(r), NEW b, World(r, b), NEW cars, NEW c,
           cars \in [Vehicles(r) -> Cars(r)], c = [b EXCEPT !.vehicle = cars],
           \A v \in Vehicles(r) : LaterCar(r, b.vehicle[v], cars[v]),
           \/ FlagsTight(r, b)
           \/ \A v \in Vehicles(r) : cars[v].flag = b.vehicle[v].flag
    PROVE  World(r, c) /\ c.result = b.result /\ c.score = b.score /\ c.vehicle = cars
           /\ c.flag = b.flag
<1>1. b \in Battles(r)
  BY DEF World
<1>2. /\ c \in Battles(r) /\ c.tick = b.tick /\ c.result = b.result /\ c.vehicle = cars
      /\ c.overtime = b.overtime /\ c.flag = b.flag /\ c.score = b.score
  BY <1>1 DEF Battles
<1>3. CarsGood(r, c)
  BY <1>2 DEF World, CarsGood, LaterCar
<1>4. MarksLoose(r, c) /\ Clock(r, c)
  BY <1>2 DEF World, MarksLoose, Clock, LaterCar
<1>5. ASSUME NEW s \in SidesOf(r) PROVE FlagLoose(r, c, s)
  <2>1. FlagLoose(r, b, s) /\ s # NoSide
    BY RulesetIs DEF World, FlagsLoose
  <2>2. \A v \in Vehicles(r) : InPlay(c, v) /\ c.vehicle[v].flag = s
                                  => InPlay(b, v) /\ b.vehicle[v].flag = s
    BY <1>2, <2>1 DEF InPlay, LaterCar
  <2>3. ASSUME b.flag[s].state = "carried" PROVE c.vehicle[b.flag[s].carrier].flag = s
    <3>1. PICK v \in Vehicles(r) : v = b.flag[s].carrier /\ b.vehicle[v].flag = s
      BY SMTT(60), ZenonT(60), <2>1, <2>3 DEF FlagLoose
    <3>2. CASE FlagsTight(r, b)
      <4>1. b.vehicle[v].alive
        BY <2>3, <3>1, <3>2 DEF FlagsTight, FlagTight, InPlay
      <4> QED BY SMTT(60), ZenonT(60), <1>2, <3>1, <4>1 DEF LaterCar
    <3>3. CASE \A w \in Vehicles(r) : cars[w].flag = b.vehicle[w].flag
      BY <1>2, <3>1, <3>3
    <3> QED BY <3>2, <3>3
  <2> QED BY <1>2, <2>1, <2>2, <2>3 DEF FlagLoose
<1>6. World(r, c)
  BY <1>2, <1>3, <1>4, <1>5 DEF World, FlagsLoose
<1> QED BY <1>2, <1>6

LEMMA TimedOutIs ==
    ASSUME IsRuleset(rules), NEW x \in Cars(rules), ~x.disqualified
    PROVE  LaterCar(rules, x, TimedOut(x)) /\ TimedOut(x).flag = x.flag
<1>1. PICK n \in Nat : n = x.timeouts + 1
  BY DEF Cars
<1>2. PICK m \in Nat : m = rules.maxTimeouts
  BY RulesetNumbers
<1>3. CASE n >= m
  <2>1. PICK y : y = [x EXCEPT !.timeouts = n, !.disqualified = TRUE, !.alive = FALSE]
    OBVIOUS
  <2>2. TimedOut(x) = y
    BY <1>1, <1>2, <1>3, <2>1 DEF TimedOut
  <2>3. /\ y \in Cars(rules) /\ y.timeouts = n /\ y.disqualified /\ ~y.alive
        /\ y.flag = x.flag /\ y.marked = x.marked /\ y.used = x.used
    BY <2>1 DEF Cars
  <2>4. GoodCar(rules, x) => GoodCar(rules, y)
    <3>1. PICK k \in Nat : k = x.timeouts
      BY DEF Cars
    <3>2. ASSUME GoodCar(rules, x) PROVE n <= m
      <4>1. k < m
        BY <1>2, <3>1, <3>2 DEF GoodCar
      <4>2. n = k + 1
        BY <1>1, <3>1
      <4> QED BY <4>1, <4>2
    <3> QED BY <1>2, <2>3, <3>2 DEF GoodCar
  <2> QED BY <2>2, <2>3, <2>4 DEF LaterCar
<1>4. CASE ~(n >= m)
  <2>1. PICK y : y = [x EXCEPT !.timeouts = n]
    OBVIOUS
  <2>2. TimedOut(x) = y
    BY <1>1, <1>2, <1>4, <2>1 DEF TimedOut
  <2>3. /\ y \in Cars(rules) /\ y.timeouts = n /\ y.disqualified = x.disqualified
        /\ y.alive = x.alive /\ y.flag = x.flag /\ y.marked = x.marked /\ y.used = x.used
    BY <2>1 DEF Cars
  <2>4. n < m /\ n <= m
    BY <1>4
  <2>5. GoodCar(rules, x) => GoodCar(rules, y)
    BY <1>2, <2>3, <2>4 DEF GoodCar
  <2> QED BY <2>2, <2>3, <2>5 DEF LaterCar
<1> QED BY <1>3, <1>4

LEMMA AnsweredIs ==
    ASSUME NEW r, IsRuleset(r), NEW x \in Cars(r), NEW y, y = [x EXCEPT !.timeouts = 0]
    PROVE  LaterCar(r, x, y) /\ y.flag = x.flag
<1>1. /\ y \in Cars(r) /\ y.timeouts = 0 /\ y.disqualified = x.disqualified
      /\ y.alive = x.alive /\ y.flag = x.flag /\ y.marked = x.marked /\ y.used = x.used
  BY DEF Cars
<1>2. PICK m \in Nat : m = r.maxTimeouts /\ m > 0
  BY RulesetNumbers
<1>3. GoodCar(r, x) => GoodCar(r, y)
  BY <1>1, <1>2 DEF GoodCar
<1> QED BY <1>1, <1>3 DEF LaterCar

LEMMA SameIsLater ==
    ASSUME NEW r, NEW x \in Cars(r)
    PROVE  LaterCar(r, x, x)
BY DEF LaterCar

LEMMA DecideIs ==
    ASSUME IsRuleset(rules), World(rules, battle), Decide
    PROVE  World(rules, battle') /\ battle'.result = battle.result /\ battle'.score = battle.score
<1>1. PICK silent \in SUBSET Asked :
        battle' = [battle EXCEPT !.vehicle = [v \in Vehicles(rules) |->
                      IF v \notin Asked THEN @[v]
                      ELSE IF v \in silent THEN TimedOut(@[v])
                      ELSE [@[v] EXCEPT !.timeouts = 0]]]
  BY DEF Decide
<1>2. PICK cars : cars = [v \in Vehicles(rules) |->
                      IF v \notin Asked THEN battle.vehicle[v]
                      ELSE IF v \in silent THEN TimedOut(battle.vehicle[v])
                      ELSE [battle.vehicle[v] EXCEPT !.timeouts = 0]]
  OBVIOUS
<1>3. battle' = [battle EXCEPT !.vehicle = cars]
  BY <1>1, <1>2
<1>4. ASSUME NEW v \in Vehicles(rules)
      PROVE  LaterCar(rules, battle.vehicle[v], cars[v]) /\ cars[v].flag = battle.vehicle[v].flag
  <2>1. PICK x \in Cars(rules) : x = battle.vehicle[v]
    BY CarIs DEF World
  <2>2. CASE v \notin Asked
    BY <1>2, <2>1, <2>2, SameIsLater
  <2>3. CASE v \in Asked /\ v \in silent
    <3>1. ~x.disqualified
      BY <2>1, <2>3 DEF Asked
    <3>2. cars[v] = TimedOut(x)
      BY <1>2, <2>1, <2>3
    <3> QED BY <2>1, <3>1, <3>2, TimedOutIs
  <2>4. CASE v \in Asked /\ v \notin silent
    <3>1. cars[v] = [x EXCEPT !.timeouts = 0]
      BY <1>2, <2>1, <2>4
    <3> QED BY <2>1, <3>1, AnsweredIs
  <2> QED BY <2>2, <2>3, <2>4
<1>5. cars \in [Vehicles(rules) -> Cars(rules)]
  BY <1>2, <1>4 DEF LaterCar
<1>6. /\ \A v \in Vehicles(rules) : LaterCar(rules, battle.vehicle[v], cars[v])
      /\ \A v \in Vehicles(rules) : cars[v].flag = battle.vehicle[v].flag
  BY <1>4
<1> QED BY <1>3, <1>5, <1>6, CarsLater

LEMMA BackIs ==
    ASSUME IsRuleset(rules), NEW x \in Cars(rules), ~x.alive,
           GoodCar(rules, x) => ~x.disqualified /\ (rules.respawn = "limited" => x.used < rules.maxRespawns)
    PROVE  LaterCar(rules, x, Back(x))
<1>1. PICK n \in Nat : n = x.used
  BY DEF Cars
<1>2. PICK m \in Nat : m = rules.maxRespawns
  BY RulesetNumbers
<1>3. PICK used \in Nat : used = Used(x) /\ (rules.respawn = "limited" => used = n + 1)
                         /\ (rules.respawn # "limited" => used = n)
  BY <1>1 DEF Used
<1>4. PICK y : y = [x EXCEPT !.alive = TRUE, !.used = used, !.flag = NoSide, !.marked = FALSE,
                            !.respawnAt = 0]
  OBVIOUS
<1>5. Back(x) = y
  BY <1>3, <1>4 DEF Back
<1>6. y \in Cars(rules)
  BY <1>4 DEF Cars
<1>7. /\ y.used = used /\ y.flag = NoSide /\ ~y.marked
      /\ y.timeouts = x.timeouts /\ y.disqualified = x.disqualified
  BY <1>4 DEF Cars
<1>8. ASSUME GoodCar(rules, x) PROVE GoodCar(rules, y)
  <2>1. used <= m
    <3>1. rules.respawn = "limited" => n < m
      BY <1>1, <1>2, <1>8
    <3>2. n <= m
      BY <1>1, <1>2, <1>8 DEF GoodCar
    <3> QED BY <1>3, <3>1, <3>2
  <2> QED BY <1>2, <1>7, <1>8, <2>1 DEF GoodCar
<1> QED BY <1>5, <1>6, <1>7, <1>8 DEF LaterCar

LEMMA RespawnedIs ==
    ASSUME IsRuleset(rules), World(rules, battle), NEW v \in Vehicles(rules)
    PROVE  LaterCar(rules, battle.vehicle[v], Respawned(v)) /\ SafeCar(battle.vehicle[v], Respawned(v))
<1>1. battle \in Battles(rules)
  BY DEF World
<1>2. PICK x \in Cars(rules) : x = battle.vehicle[v]
  BY <1>1, CarIs
<1>3. CASE x.alive \/ x.disqualified \/ RespawnsLeft(rules, battle, v) = 0
  <2>1. Respawned(v) = x
    BY <1>2, <1>3 DEF Respawned
  <2> QED BY <1>2, <2>1, SameIsLater DEF SafeCar
<1>4. CASE ~x.alive /\ ~x.disqualified /\ RespawnsLeft(rules, battle, v) # 0
  <2>1. \/ Respawned(v) = [x EXCEPT !.respawnAt = battle.tick + rules.delay]
        \/ Respawned(v) = Back(x)
        \/ Respawned(v) = x
    BY <1>2, <1>4 DEF Respawned
  <2>2. CASE Respawned(v) = [x EXCEPT !.respawnAt = battle.tick + rules.delay]
    <3>1. PICK n \in Nat : n = battle.tick + rules.delay
      <4>1. PICK t \in Nat : t = battle.tick
        BY <1>1 DEF Battles
      <4>2. PICK d \in Nat : d = rules.delay
        BY RulesetNumbers
      <4>3. t + d \in Nat
        OBVIOUS
      <4> QED BY <4>1, <4>2, <4>3
    <3>2. PICK y : y = [x EXCEPT !.respawnAt = n]
      OBVIOUS
    <3>3. /\ y \in Cars(rules) /\ y.timeouts = x.timeouts /\ y.disqualified = x.disqualified
          /\ y.alive = x.alive /\ y.flag = x.flag /\ y.marked = x.marked /\ y.used = x.used
      BY <3>2 DEF Cars
    <3>4. LaterCar(rules, x, y)
      BY <3>3 DEF LaterCar, GoodCar
    <3> QED BY <1>2, <1>4, <2>2, <3>1, <3>2, <3>4 DEF SafeCar
  <2>3. CASE Respawned(v) = Back(x)
    <3>1. rules.respawn = "limited" => x.used < rules.maxRespawns
      BY <1>1, <1>2, <1>4, RespawnsLeftIs
    <3>2. LaterCar(rules, x, Back(x))
      BY <1>4, <3>1, BackIs
    <3> QED BY <1>2, <1>4, <2>3, <3>2 DEF SafeCar
  <2>4. CASE Respawned(v) = x
    BY <1>2, <2>4, SameIsLater DEF SafeCar
  <2> QED BY <2>1, <2>2, <2>3, <2>4
<1> QED BY <1>3, <1>4

LEMMA RespawnIs ==
    ASSUME IsRuleset(rules), Settled(rules, battle), Respawn
    PROVE  Settled(rules, battle') /\ battle'.result = battle.result /\ battle'.score = battle.score
<1>1. World(rules, battle) /\ FlagsTight(rules, battle) /\ MarksTight(rules, battle)
  BY DEF Settled
<1>2. PICK cars : cars = [v \in Vehicles(rules) |-> Respawned(v)]
  OBVIOUS
<1>3. battle' = [battle EXCEPT !.vehicle = cars]
  BY <1>2 DEF Respawn
<1>4. ASSUME NEW v \in Vehicles(rules)
      PROVE  LaterCar(rules, battle.vehicle[v], cars[v]) /\ SafeCar(battle.vehicle[v], cars[v])
  BY <1>1, <1>2, RespawnedIs
<1>5. cars \in [Vehicles(rules) -> Cars(rules)]
  BY <1>2, <1>4 DEF LaterCar
<1>6. \A v \in Vehicles(rules) : LaterCar(rules, battle.vehicle[v], cars[v])
  BY <1>4
<1>7. PICK c : c = [battle EXCEPT !.vehicle = cars]
  OBVIOUS
<1>8. /\ World(rules, c) /\ c.result = battle.result /\ c.score = battle.score
      /\ c.vehicle = cars /\ c.flag = battle.flag
  BY <1>1, <1>5, <1>6, <1>7, CarsLater
<1>9. ASSUME NEW v \in Vehicles(rules), InPlay(battle, v) PROVE c.vehicle[v] = battle.vehicle[v]
  BY <1>4, <1>8, <1>9 DEF SafeCar, InPlay
<1>10. ASSUME NEW s \in SidesOf(rules) PROVE FlagTight(c, s)
  <2>1. FlagTight(battle, s) /\ FlagLoose(rules, battle, s)
    BY <1>1 DEF FlagsTight, World, FlagsLoose
  <2> QED BY <1>8, <1>9, <2>1 DEF FlagTight, FlagLoose, InPlay
<1>11. MarksTight(rules, c)
  BY <1>1, <1>4, <1>8, <1>9 DEF MarksTight, LaterCar, InPlay
<1> QED BY <1>3, <1>7, <1>8, <1>10, <1>11 DEF Settled, FlagsTight

-----------------------------------------------------------------------------
(* The end *)

LEMMA OnlyIs ==
    ASSUME NEW S
    PROVE  /\ Only(S) \in S \cup {"draw"}
           /\ S = {} => Only(S) = "draw"
           /\ Cardinality(S) = 1 => Only(S) \in S
<1>1. CASE Cardinality(S) = 1
  <2>1. S # {}
    BY <1>1, FS_EmptySet
  <2>2. (CHOOSE s \in S : TRUE) \in S
    BY <2>1
  <2> QED BY <1>1, <2>1, <2>2 DEF Only
<1>2. CASE Cardinality(S) # 1
  BY <1>2 DEF Only
<1> QED BY <1>1, <1>2

LEMMA FirstIs ==
    ASSUME NEW r, NEW b, NEW criteria, NEW among
    PROVE  First(r, b, criteria, among) \in among \cup {"draw"}
<1>1. PICK S : S = {s \in among : \A t \in among \ {s} : ~Leads(r, b, criteria, t, s)}
  OBVIOUS
<1>2. First(r, b, criteria, among) = Only(S)
  BY <1>1 DEF First
<1>3. Only(S) \in S \cup {"draw"}
  BY OnlyIs
<1>4. S \subseteq among
  BY <1>1
<1> QED BY <1>2, <1>3, <1>4

Standing(r, b) == {r.team[v] : v \in {w \in Vehicles(r) : InGame(r, b, w)}}

LEMMA ByEliminationIs ==
    ASSUME NEW r, IsRuleset(r), NEW b
    PROVE  /\ ByElimination(r, b) \in SidesOf(r) \cup {"open", "draw"}
           /\ r.respawn # "unlimited" =>
                /\ Standing(r, b) = {} => ByElimination(r, b) = "draw"
                /\ Cardinality(Standing(r, b)) = 1 => ByElimination(r, b) \in Standing(r, b)
<1>1. PICK S : S = Standing(r, b)
  OBVIOUS
<1>2. S \subseteq SidesOf(r)
  BY <1>1, RulesetIs DEF Standing
<1>3. ByElimination(r, b) =
        IF r.respawn = "unlimited" \/ Cardinality(S) > 1 THEN "open" ELSE Only(S)
  BY <1>1 DEF ByElimination, Standing
<1>4. /\ Only(S) \in S \cup {"draw"}
      /\ S = {} => Only(S) = "draw"
      /\ Cardinality(S) = 1 => Only(S) \in S
  BY OnlyIs
<1>5. S = {} => ~(Cardinality(S) > 1)
  BY FS_EmptySet
<1>6. Cardinality(S) = 1 => ~(Cardinality(S) > 1)
  OBVIOUS
<1> QED BY <1>1, <1>2, <1>3, <1>4, <1>5, <1>6

LEMMA ReachedIs ==
    ASSUME NEW r, IsRuleset(r), NEW b, Reached(r, b) # {}
    PROVE  r.sides[Min(Reached(r, b))] \in SidesOf(r)
<1>1. PICK S : S = Reached(r, b)
  OBVIOUS
<1>2. S \subseteq DOMAIN r.sides /\ S # {}
  BY <1>1 DEF Reached
<1>3. S \subseteq Nat
  BY <1>2, RulesetIs
<1>4. Min(S) \in S
  BY <1>2, <1>3, MinIs
<1>5. Min(S) \in 1..Len(r.sides)
  BY <1>2, <1>4, RulesetIs
<1> QED BY <1>1, <1>5, RulesetIs

(* A battle stays open only while there is time, or when overtime begins. *)
Undecided(r, b) ==
    ~TimeIsUp(r, b) \/ (b.overtime /\ ~(b.tick >= r.limit + TechnicalLimit)) \/ OpensOvertime(r, b)

LEMMA NotOpen ==
    ASSUME NEW r, IsRuleset(r), NEW x \in SidesOf(r) \cup {"draw"}
    PROVE  x # "open" /\ x \in Results(r)
BY DEF IsRuleset, Results

LEMMA ByTimeIs ==
    ASSUME NEW r, NEW b
    PROVE  ByTime(r, b) \in SidesOf(r) \cup {"draw"}
<1>1. PICK criteria : ByTime(r, b) = First(r, b, criteria, SidesOf(r))
  BY DEF ByTime
<1> QED BY <1>1, FirstIs

LEMMA VerdictIs ==
    ASSUME NEW r, IsRuleset(r), NEW b
    PROVE  /\ Verdict(r, b) \in Results(r)
           /\ Verdict(r, b) = "open" => ~TimeIsUp(r, b)
           /\ EliminationFirst(r) /\ ByElimination(r, b) # "open"
                 => Verdict(r, b) = ByElimination(r, b)
<1>1. PICK e : e = ByElimination(r, b)
  OBVIOUS
<1>2. e \in Results(r) /\ "open" \in Results(r)
  BY <1>1, ByEliminationIs DEF Results
<1>3. PICK t : t = ByTime(r, b)
  OBVIOUS
<1>4. t \in Results(r) /\ t # "open"
  <2>1. t \in SidesOf(r) \cup {"draw"}
    BY <1>3, ByTimeIs
  <2> QED BY <2>1, NotOpen
<1>5. CASE EliminationFirst(r)
  <2>1. Verdict(r, b) = IF e # "open" THEN e ELSE IF TimeIsUp(r, b) THEN t ELSE "open"
    BY <1>1, <1>3, <1>5 DEF Verdict
  <2> QED BY <1>1, <1>2, <1>4, <2>1
<1>6. CASE ~EliminationFirst(r)
  <2>1. Verdict(r, b) = IF TimeIsUp(r, b) THEN t ELSE e
    BY <1>1, <1>3, <1>6 DEF Verdict
  <2> QED BY <1>2, <1>4, <1>6, <2>1
<1> QED BY <1>5, <1>6

LEMMA ByOvertimeIs ==
    ASSUME NEW r, IsRuleset(r), NEW b
    PROVE  /\ ByOvertime(r, b) \in Results(r)
           /\ ByOvertime(r, b) = "open" => ~(b.tick >= r.limit + TechnicalLimit)
<1>1. PICK ahead : ahead = {s \in SidesOf(r) : b.score[s] > b.baseline[s]}
  OBVIOUS
<1>2. ByOvertime(r, b) = IF ahead # {} THEN First(r, b, <<"score">>, ahead)
                         ELSE IF b.tick >= r.limit + TechnicalLimit THEN "technical" ELSE "open"
  BY <1>1 DEF ByOvertime
<1>3. First(r, b, <<"score">>, ahead) \in SidesOf(r) \cup {"draw"}
  <2>1. First(r, b, <<"score">>, ahead) \in ahead \cup {"draw"}
    BY FirstIs
  <2> QED BY <1>1, <2>1
<1>4. First(r, b, <<"score">>, ahead) \in Results(r) /\ First(r, b, <<"score">>, ahead) # "open"
  BY <1>3, NotOpen
<1> QED BY <1>2, <1>4 DEF Results

LEMMA LastStandingIs ==
    ASSUME NEW r, IsRuleset(r), NEW b
    PROVE  /\ LastStanding(r, b) \in Results(r)
           /\ LastStanding(r, b) = "open" => ~TimeIsUp(r, b)
           /\ ByElimination(r, b) # "open" => LastStanding(r, b) = ByElimination(r, b)
<1>1. PICK e : e = ByElimination(r, b)
  OBVIOUS
<1>2. e \in Results(r)
  BY <1>1, ByEliminationIs DEF Results
<1>3. PICK t : t = First(r, b, <<"alive", "score">>, SidesOf(r))
  OBVIOUS
<1>4. t \in Results(r) /\ t # "open"
  <2>1. t \in SidesOf(r) \cup {"draw"}
    BY <1>3, FirstIs
  <2> QED BY <2>1, NotOpen
<1>5. LastStanding(r, b) = IF e = "open" /\ TimeIsUp(r, b) THEN t ELSE e
  BY <1>1, <1>3 DEF LastStanding
<1> QED BY <1>1, <1>2, <1>4, <1>5

LEMMA WinnerIs ==
    ASSUME NEW r, IsRuleset(r), NEW b
    PROVE  /\ Winner(r, b) \in Results(r)
           /\ Winner(r, b) = "open" => Undecided(r, b)
           /\ /\ r.tiebreak # <<>> /\ ~b.overtime /\ Reached(r, b) = {}
              /\ ByElimination(r, b) # "open"
              => Winner(r, b) = ByElimination(r, b)
<1>1. CASE r.mode = "last_man_standing"
  BY <1>1, LastStandingIs DEF Winner, Undecided
<1>2. CASE r.mode # "last_man_standing" /\ Reached(r, b) # {}
  <2>1. Winner(r, b) = r.sides[Min(Reached(r, b))]
    BY <1>2 DEF Winner
  <2>2. Winner(r, b) \in SidesOf(r)
    BY <1>2, <2>1, ReachedIs
  <2> QED BY <1>2, <2>2, NotOpen
<1>3. CASE r.mode # "last_man_standing" /\ Reached(r, b) = {} /\ b.overtime
  BY <1>3, ByOvertimeIs DEF Winner, Undecided
<1>4. CASE /\ r.mode # "last_man_standing" /\ Reached(r, b) = {} /\ ~b.overtime
           /\ OpensOvertime(r, b)
  <2>1. Winner(r, b) = "open"
    BY <1>4 DEF Winner
  <2>2. ~(r.tiebreak # <<>>)
    BY <1>4 DEF OpensOvertime, IsRuleset
  <2> QED BY <1>4, <2>1, <2>2 DEF Undecided, Results
<1>5. CASE /\ r.mode # "last_man_standing" /\ Reached(r, b) = {} /\ ~b.overtime
           /\ ~OpensOvertime(r, b)
  <2>1. Winner(r, b) = Verdict(r, b)
    BY <1>5 DEF Winner
  <2>2. r.tiebreak # <<>> => EliminationFirst(r)
    BY DEF EliminationFirst
  <2> QED BY <2>1, <2>2, VerdictIs DEF Undecided
<1> QED BY <1>1, <1>2, <1>3, <1>4, <1>5

(* Whoever stands alone has won; EliminationFair of a battle. *)
Fair(r, b) ==
    b.result # "open" /\ r.tiebreak # <<>> /\ r.respawn # "unlimited" /\ Reached(r, b) = {} =>
        /\ Standing(r, b) = {} => b.result = "draw"
        /\ Cardinality(Standing(r, b)) = 1 => b.result \in Standing(r, b)

LEMMA FairNow == EliminationFair <=> Fair(rules, battle)
BY DEF EliminationFair, Fair, Standing

LEMMA FairThen == EliminationFair' <=> Fair(rules', battle')
BY DEF EliminationFair, Fair, Standing, Reached, InGame, RespawnsLeft, Vehicles

(* The same vehicles and flags, and a clock that has not run out. *)
LEMMA SameVehicles ==
    ASSUME NEW r, NEW b, Settled(r, b), NEW c \in Battles(r), c.vehicle = b.vehicle,
           c.flag = b.flag, Clock(r, c)
    PROVE  Settled(r, c)
<1>1. CarsGood(r, c) /\ MarksLoose(r, c) /\ MarksTight(r, c)
  BY DEF Settled, World, CarsGood, MarksLoose, MarksTight, InPlay
<1>2. FlagsLoose(r, c) /\ FlagsTight(r, c)
  BY DEF Settled, World, FlagsLoose, FlagLoose, FlagsTight, FlagTight, InPlay
<1> QED BY <1>1, <1>2 DEF Settled, World

(* The next tick is within the limits. *)
LEMMA OpenedIs ==
    ASSUME IsRuleset(rules), Settled(rules, battle), battle.result = "open",
           Undecided(rules, battle)
    PROVE  Settled(rules, Opened) /\ Opened.result = "open" /\ Opened.score = battle.score
<1>1. battle \in Battles(rules) /\ Clock(rules, battle)
  BY DEF Settled, World
<1>2. PICK n \in Nat : n = battle.tick
  BY <1>1 DEF Battles
<1>3. PICK l \in Nat : l = rules.limit
  BY RulesetNumbers
<1>4. PICK t \in Nat : t = TechnicalLimit /\ t > 0
  BY GameModesAssumption
<1>5. CASE OpensOvertime(rules, battle)
  <2>1. PICK c : c = [StartOvertime(battle) EXCEPT !.tick = @ + 1]
    OBVIOUS
  <2>2. Opened = c
    BY <1>5, <2>1 DEF Opened
  <2>3. /\ c \in Battles(rules) /\ c.vehicle = battle.vehicle /\ c.flag = battle.flag
        /\ c.tick = n + 1 /\ c.overtime /\ c.result = battle.result /\ c.score = battle.score
    <3>1. PICK d : d = StartOvertime(battle)
      OBVIOUS
    <3>2. /\ d \in Battles(rules) /\ d.vehicle = battle.vehicle /\ d.flag = battle.flag
          /\ d.tick = n /\ d.overtime /\ d.result = battle.result /\ d.score = battle.score
      BY <1>1, <1>2, <3>1 DEF StartOvertime, Battles
    <3>3. c = [d EXCEPT !.tick = n + 1]
      BY <2>1, <3>1, <3>2
    <3> QED BY <3>2, <3>3 DEF Battles
  <2>4. rules.overtime /\ ~battle.overtime
    BY <1>5 DEF OpensOvertime
  <2>5. n <= l + 0
    BY <1>1, <1>2, <1>3, <2>4 DEF Clock
  <2>6. n + 1 <= l + t
    BY <1>4, <2>5
  <2>7. Clock(rules, c)
    BY <1>3, <1>4, <2>3, <2>4, <2>6 DEF Clock
  <2> QED BY <2>2, <2>3, <2>7, SameVehicles
<1>6. CASE ~OpensOvertime(rules, battle)
  <2>1. PICK c : c = [battle EXCEPT !.tick = @ + 1]
    OBVIOUS
  <2>2. Opened = c
    BY <1>6, <2>1 DEF Opened
  <2>3. /\ c \in Battles(rules) /\ c.vehicle = battle.vehicle /\ c.flag = battle.flag
        /\ c.tick = n + 1 /\ c.overtime = battle.overtime /\ c.result = battle.result
        /\ c.score = battle.score
    BY <1>1, <1>2, <2>1 DEF Battles
  <2>4. ~(n >= l) \/ (battle.overtime /\ ~(n >= l + t))
    BY <1>2, <1>3, <1>4, <1>6 DEF Undecided, TimeIsUp
  <2>5. n + 1 <= l + IF battle.overtime THEN t ELSE 0
    <3>1. CASE battle.overtime
      <4>1. n + 1 <= l + t
        BY <2>4
      <4> QED BY <3>1, <4>1
    <3>2. CASE ~battle.overtime
      <4>1. n + 1 <= l + 0
        BY <2>4, <3>2
      <4> QED BY <3>2, <4>1
    <3> QED BY <3>1, <3>2
  <2>6. Clock(rules, c)
    BY <1>1, <1>3, <1>4, <2>3, <2>5 DEF Clock
  <2> QED BY <2>2, <2>3, <2>6, SameVehicles
<1> QED BY <1>5, <1>6

LEMMA EndIs ==
    ASSUME IsRuleset(rules), Settled(rules, battle), battle.result = "open", End
    PROVE  Settled(rules, battle') /\ battle'.score = battle.score /\ Fair(rules, battle')
<1>1. battle \in Battles(rules) /\ Clock(rules, battle)
  BY DEF Settled, World
<1>2. PICK w : w = Winner(rules, battle)
  OBVIOUS
<1>3. CASE w = "open"
  <2>1. battle' = Opened
    BY <1>2, <1>3 DEF End
  <2>2. Undecided(rules, battle)
    BY <1>2, <1>3, WinnerIs
  <2>3. Settled(rules, Opened) /\ Opened.result = "open" /\ Opened.score = battle.score
    BY <2>2, OpenedIs
  <2> QED BY <2>1, <2>3 DEF Fair
<1>4. CASE w # "open"
  <2>1. PICK c : c = [battle EXCEPT !.result = w]
    OBVIOUS
  <2>2. battle' = c
    BY <1>2, <1>4, <2>1 DEF End
  <2>3. w \in Results(rules)
    BY <1>2, WinnerIs
  <2>4. /\ c \in Battles(rules) /\ c.vehicle = battle.vehicle /\ c.flag = battle.flag
        /\ c.tick = battle.tick /\ c.overtime = battle.overtime /\ c.result = w
        /\ c.score = battle.score
    BY <1>1, <2>1, <2>3 DEF Battles
  <2>5. Clock(rules, c)
    BY <1>1, <2>4 DEF Clock
  <2>6. Settled(rules, c)
    BY <2>4, <2>5, SameVehicles
  <2>7. Standing(rules, c) = Standing(rules, battle) /\ Reached(rules, c) = Reached(rules, battle)
    BY <2>4 DEF Standing, Reached, InGame, RespawnsLeft
  <2>8. Fair(rules, c)
    <3>1. SUFFICES ASSUME rules.tiebreak # <<>>, rules.respawn # "unlimited",
                          Reached(rules, battle) = {}
                   PROVE  /\ Standing(rules, battle) = {} => w = "draw"
                          /\ Cardinality(Standing(rules, battle)) = 1
                                => w \in Standing(rules, battle)
      BY <2>4, <2>7 DEF Fair
    <3>2. ~battle.overtime
      BY <1>1, <3>1 DEF Clock, IsRuleset
    <3>3. ByElimination(rules, battle) # "open" => w = ByElimination(rules, battle)
      BY <1>2, <3>1, <3>2, WinnerIs
    <3>4. /\ Standing(rules, battle) = {} => ByElimination(rules, battle) = "draw"
          /\ Cardinality(Standing(rules, battle)) = 1
                => ByElimination(rules, battle) \in Standing(rules, battle)
      BY <3>1, ByEliminationIs
    <3>5. "open" \notin Standing(rules, battle)
      <4>1. Standing(rules, battle) \subseteq SidesOf(rules)
        BY RulesetIs DEF Standing
      <4> QED BY <4>1, NotOpen
    <3> QED BY <3>3, <3>4, <3>5
  <2> QED BY <2>2, <2>4, <2>6, <2>8
<1> QED BY <1>3, <1>4

-----------------------------------------------------------------------------
(* The invariant *)

LEMMA Initially == Init => AInv
<1> SUFFICES ASSUME Init PROVE AInv
  OBVIOUS
<1>1. PICK r \in Rulesets : r = rules
  BY DEF Init
<1>2. IsRuleset(r)
  BY <1>1, RulesetsAssumption
<1>3. PICK b : b = NewBattle(r)
  OBVIOUS
<1>4. battle = b /\ phase = "decide"
  BY <1>1, <1>3 DEF Init
<1>5. NoSide \notin SidesOf(r) /\ NoScore(r) \in Tallies(r)
  BY <1>2, RulesetIs DEF NoScore, Tallies
<1>6. Fresh \in Cars(r)
  BY DEF Fresh, Cars
<1>7. [s \in SidesOf(r) |-> Base(s)] \in [SidesOf(r) -> FlagTypes(r)]
  BY BaseIs
<1>8. b \in Battles(r)
  BY <1>3, <1>5, <1>6, <1>7 DEF NewBattle, Battles, Results
<1>9. /\ \A v \in Vehicles(r) : b.vehicle[v] = Fresh
      /\ \A s \in SidesOf(r) : b.flag[s] = Base(s)
      /\ b.tick = 0 /\ b.overtime = FALSE /\ b.result = "open"
  BY <1>3 DEF NewBattle
<1>10. CarsGood(r, b)
  <2>1. PICK m \in Nat : m = r.maxTimeouts /\ m > 0
    BY <1>2, RulesetNumbers
  <2>2. PICK n \in Nat : n = r.maxRespawns
    BY <1>2, RulesetNumbers
  <2> QED BY <1>9, <2>1, <2>2 DEF CarsGood, GoodCar, Fresh
<1>11. ASSUME NEW s \in SidesOf(r) PROVE FlagLoose(r, b, s) /\ FlagTight(b, s)
  <2>1. \A v \in Vehicles(r) : b.vehicle[v].flag # s
    BY <1>5, <1>9 DEF Fresh
  <2>2. b.flag[s].state = "at_base" /\ b.flag[s].place = s
    BY <1>9, BaseIs
  <2> QED BY <2>1, <2>2, FlagFree
<1>12. MarksLoose(r, b) /\ MarksTight(r, b)
  BY <1>9 DEF MarksLoose, MarksTight, Fresh
<1>13. Clock(r, b)
  <2>1. PICK l \in Nat : l = r.limit
    BY <1>2, RulesetNumbers
  <2> QED BY <1>9, <2>1 DEF Clock
<1>14. World(r, b) /\ FlagsTight(r, b)
  BY <1>8, <1>10, <1>11, <1>12, <1>13 DEF World, FlagsLoose, FlagsTight
<1>15. EliminationFair
  BY <1>4, <1>9 DEF EliminationFair
<1> QED BY <1>1, <1>4, <1>12, <1>14, <1>15 DEF AInv, Phases

(* A step of the tick before the mode. *)
LEMMA EarlyStep ==
    ASSUME AInv, World(rules, battle'), battle'.result = "open",
           rules' = rules, phase' \in {"weapons", "zones", "mode"}
    PROVE  AInv'
<1>1. EliminationFair'
  BY FairThen DEF Fair
<1> QED BY <1>1 DEF AInv, Phases

(* A step after it. *)
LEMMA LateStep ==
    ASSUME AInv, Settled(rules, battle'), Fair(rules, battle'), rules' = rules,
           phase' \in {"respawn", "end", "decide"},
           phase' # "decide" => battle'.result = "open"
    PROVE  AInv'
<1>1. EliminationFair'
  BY FairThen
<1> QED BY <1>1 DEF AInv, Phases, Settled

(* What a step makes of the score of a game with two flags. *)
OneScores ==
    rules.mode = "capture_the_flag" /\ Len(rules.sides) = 2 /\ rules.ownFlagAtBase =>
        \/ battle'.score = battle.score
        \/ \E side \in SidesOf(rules) :
             \A t \in SidesOf(rules) : t # side => battle'.score[t] = battle.score[t]

LEMMA Step == ASSUME AInv, Next PROVE AInv' /\ OneScores
<1>1. World(rules, battle) /\ rules \in Rulesets
  BY DEF AInv
<1>2. IsRuleset(rules)
  BY <1>1, RulesetsAssumption
<1>3. phase # "decide" => battle.result = "open"
  BY DEF AInv
<1>4. phase \in {"respawn", "end", "decide"} => Settled(rules, battle)
  BY DEF AInv, Settled
<1>5. CASE Decide
  <2>1. phase' = "weapons" /\ rules' = rules /\ battle.result = "open"
    BY <1>5 DEF Decide, Goes
  <2>2. World(rules, battle') /\ battle'.result = battle.result /\ battle'.score = battle.score
    BY <1>1, <1>2, <1>5, DecideIs
  <2> QED BY <2>1, <2>2, EarlyStep DEF OneScores
<1>6. CASE Shot
  <2>1. phase = "weapons" /\ phase' = "weapons" /\ rules' = rules
    BY <1>6 DEF Shot, Goes
  <2>2. PICK v \in Vehicles(rules), killer \in SidesOf(rules) : Killed(v, killer)
    BY <1>6 DEF Shot
  <2>3. /\ World(rules, battle') /\ battle'.result = battle.result
        /\ rules.mode = "capture_the_flag" => battle'.score = battle.score
    BY <1>1, <1>2, <2>2, KilledIs
  <2> QED BY <1>3, <2>1, <2>3, EarlyStep DEF OneScores
<1>7. CASE CeaseFire
  <2>1. phase = "weapons" /\ phase' = "zones" /\ rules' = rules /\ battle' = battle
    BY <1>7 DEF CeaseFire, Goes
  <2> QED BY <1>1, <1>3, <2>1, EarlyStep DEF OneScores
<1>8. CASE Burnt
  <2>1. phase = "zones" /\ phase' = "zones" /\ rules' = rules
    BY <1>8 DEF Burnt, Goes
  <2>2. PICK v \in Vehicles(rules) : Killed(v, NoSide)
    BY <1>8 DEF Burnt
  <2>3. /\ World(rules, battle') /\ battle'.result = battle.result
        /\ rules.mode = "capture_the_flag" => battle'.score = battle.score
    BY <1>1, <1>2, <2>2, KilledIs
  <2> QED BY <1>3, <2>1, <2>3, EarlyStep DEF OneScores
<1>9. CASE CombatOver
  <2>1. phase = "zones" /\ phase' = "mode" /\ rules' = rules /\ battle' = battle
    BY <1>9 DEF CombatOver, Goes
  <2> QED BY <1>1, <1>3, <2>1, EarlyStep DEF OneScores
<1>10. CASE Mode
  <2>1. phase = "mode" /\ phase' = "respawn" /\ rules' = rules
    BY <1>10 DEF Mode, Goes
  <2>2. PICK at \in [Vehicles(rules) -> rules.places] : battle' = ModeTick(rules, battle, at)
    BY <1>10 DEF Mode
  <2>3. Settled(rules, battle') /\ battle'.result = battle.result
    BY <1>1, <1>2, <2>2, ModeTickIs
  <2>4. Fair(rules, battle')
    BY <1>3, <2>1, <2>3 DEF Fair
  <2>5. AInv'
    BY <1>3, <2>1, <2>3, <2>4, LateStep
  <2>6. OneScores
    <3>1. SUFFICES ASSUME rules.mode = "capture_the_flag", Len(rules.sides) = 2,
                          rules.ownFlagAtBase
                   PROVE  \E side \in SidesOf(rules) :
                            \A t \in SidesOf(rules) : t # side => battle'.score[t] = battle.score[t]
      BY DEF OneScores
    <3>2. battle' = FlagsTick(rules, battle, at)
      BY <2>2, <3>1 DEF ModeTick
    <3> QED BY <1>1, <1>2, <3>1, <3>2, TwoFlags
  <2> QED BY <2>5, <2>6
<1>11. CASE Respawn
  <2>1. phase = "respawn" /\ phase' = "end" /\ rules' = rules
    BY <1>11 DEF Respawn, Goes
  <2>2. Settled(rules, battle') /\ battle'.result = battle.result /\ battle'.score = battle.score
    BY <1>2, <1>4, <1>11, <2>1, RespawnIs
  <2>3. Fair(rules, battle')
    BY <1>3, <2>1, <2>2 DEF Fair
  <2> QED BY <1>3, <2>1, <2>2, <2>3, LateStep DEF OneScores
<1>12. CASE End
  <2>1. phase = "end" /\ phase' = "decide" /\ rules' = rules
    BY <1>12 DEF End, Goes
  <2>2. Settled(rules, battle') /\ battle'.score = battle.score /\ Fair(rules, battle')
    BY <1>2, <1>3, <1>4, <1>12, <2>1, EndIs
  <2> QED BY <2>1, <2>2, LateStep DEF OneScores
<1> QED BY <1>5, <1>6, <1>7, <1>8, <1>9, <1>10, <1>11, <1>12 DEF Next

LEMMA Stuttering == AInv /\ UNCHANGED vars => AInv'
<1> SUFFICES ASSUME AInv, UNCHANGED vars PROVE AInv'
  OBVIOUS
<1>1. rules' = rules /\ battle' = battle /\ phase' = phase
  BY DEF vars
<1>2. EliminationFair'
  BY <1>1, FairNow, FairThen DEF AInv
<1> QED BY <1>1, <1>2 DEF AInv

LEMMA Inductive == AInv /\ [Next]_vars => AInv'
BY Step, Stuttering

(* At every step of every battle the vehicles, flags, marks, clock and     *)
(* result of the engine's battle satisfy AInv.                             *)
THEOREM Invariant == Spec => []AInv
<1>1. Init => AInv
  BY Initially
<1>2. AInv /\ [Next]_vars => AInv'
  BY Inductive
<1> QED BY <1>1, <1>2, PTL DEF Spec

-----------------------------------------------------------------------------
(* What follows *)

LEMMA TypesHold == AInv => TypeOK
<1> SUFFICES ASSUME AInv PROVE TypeOK
  OBVIOUS
<1>1. /\ phase \in Phases /\ battle \in Battles(rules) /\ CarsGood(rules, battle)
      /\ FlagsLoose(rules, battle) /\ Clock(rules, battle) /\ IsRuleset(rules)
  BY RulesetsAssumption DEF AInv, World
<1>2. battle.tick \in 0..MaxBattleTicks(rules)
  <2>1. PICK n \in Nat : n = battle.tick
    BY <1>1 DEF Battles
  <2>2. PICK l \in Nat : l = rules.limit
    BY <1>1, RulesetNumbers
  <2>3. PICK t \in Nat : t = TechnicalLimit
    BY GameModesAssumption
  <2>4. n <= l + IF rules.overtime THEN t ELSE 0
    <3>1. CASE battle.overtime
      <4>1. n <= l + t /\ rules.overtime
        BY <1>1, <2>1, <2>2, <2>3, <3>1 DEF Clock
      <4> QED BY <4>1
    <3>2. CASE ~battle.overtime
      <4>1. n <= l + 0
        BY <1>1, <2>1, <2>2, <3>2 DEF Clock
      <4>2. n <= l + t
        BY <4>1
      <4> QED BY <4>1, <4>2
    <3> QED BY <3>1, <3>2
  <2>5. MaxBattleTicks(rules) = l + IF rules.overtime THEN t ELSE 0
    BY <2>2, <2>3 DEF MaxBattleTicks
  <2>6. CASE rules.overtime
    BY <2>1, <2>4, <2>5, <2>6
  <2>7. CASE ~rules.overtime
    BY <2>1, <2>4, <2>5, <2>7
  <2> QED BY <2>6, <2>7
<1>3. battle.result \in SidesOf(rules) \cup {"open", "draw", "technical"}
  BY <1>1 DEF Battles, Results
<1>4. ASSUME NEW s \in SidesOf(rules)
      PROVE  /\ {battle.score[s], battle.kills[s], battle.baseline[s]} \subseteq Nat
             /\ battle.flag[s].state \in {"at_base", "carried", "dropped", "returning"}
             /\ battle.flag[s].place \in rules.places \cup {s}
             /\ battle.flag[s].carrier \in Vehicles(rules) \cup {Nobody}
  <2>1. battle.score[s] \in Nat /\ battle.kills[s] \in Nat /\ battle.baseline[s] \in Nat
    BY <1>1 DEF Battles, Tallies
  <2>2. PICK f \in FlagTypes(rules) : f = battle.flag[s]
    BY <1>1, FlagIs
  <2>3. /\ f.state \in {"at_base", "carried", "dropped", "returning"}
        /\ f.carrier \in Vehicles(rules) \cup {Nobody}
    BY <2>2 DEF FlagTypes
  <2>4. battle.flag[s].place \in rules.places \cup {s}
    BY <1>1 DEF FlagsLoose, FlagLoose
  <2> QED BY <2>1, <2>2, <2>3, <2>4
<1>5. \A z \in rules.zones : battle.control[z] \in SidesOf(rules) \cup {NoSide}
  BY <1>1 DEF Battles
<1>6. ASSUME NEW v \in Vehicles(rules)
      PROVE  LET car == battle.vehicle[v] IN
             /\ car.timeouts \in 0..rules.maxTimeouts
             /\ car.used \in 0..rules.maxRespawns
             /\ car.respawnAt \in Nat
             /\ car.flag \in SidesOf(rules) \cup {NoSide}
             /\ car.disqualified => ~car.alive
  <2>1. PICK x \in Cars(rules) : x = battle.vehicle[v]
    BY <1>1, CarIs
  <2>2. GoodCar(rules, x)
    BY <1>1, <2>1 DEF CarsGood
  <2>3. PICK m \in Nat : m = rules.maxTimeouts
    BY <1>1, RulesetNumbers
  <2>4. PICK n \in Nat : n = rules.maxRespawns
    BY <1>1, RulesetNumbers
  <2>5. PICK t \in Nat : t = x.timeouts
    BY <2>1 DEF Cars
  <2>6. PICK u \in Nat : u = x.used
    BY <2>1 DEF Cars
  <2>7. t \in 0..m
    BY <2>2, <2>3, <2>5 DEF GoodCar
  <2>8. u \in 0..n
    BY <2>2, <2>4, <2>6 DEF GoodCar
  <2>9. /\ x.respawnAt \in Nat /\ x.flag \in SidesOf(rules) \cup {NoSide}
        /\ x.disqualified => ~x.alive
    BY <2>1, <2>2 DEF Cars, GoodCar
  <2> QED BY <2>1, <2>3, <2>4, <2>5, <2>6, <2>7, <2>8, <2>9
<1> QED BY <1>1, <1>2, <1>3, <1>4, <1>5, <1>6 DEF TypeOK

(* Every part of a battle keeps its shape: respawns and timeouts stay      *)
(* within the ruleset, who is disqualified is out, and the clock does not  *)
(* pass maxBattleTicks (battle.ts, index.ts).                              *)
THEOREM TypeCorrect == Spec => []TypeOK
BY Invariant, TypesHold, PTL

LEMMA FlagsHold == AInv => FlagsAgree
<1> SUFFICES ASSUME AInv, phase = "decide", NEW s \in SidesOf(rules)
             PROVE  LET f == battle.flag[s]
                        bearers == {v \in Vehicles(rules) :
                                       InPlay(battle, v) /\ battle.vehicle[v].flag = s}
                    IN /\ bearers = IF f.state = "carried" THEN {f.carrier} ELSE {}
                       /\ \A v \in bearers : rules.team[v] # s
                       /\ f.state = "at_base" => f.place = s
  BY DEF FlagsAgree
<1>1. FlagLoose(rules, battle, s) /\ FlagTight(battle, s)
  BY DEF AInv, World, FlagsLoose, FlagsTight
<1> QED BY <1>1 DEF FlagLoose, FlagTight

(* FlagRuntime.carrierId and Vehicle.carryingFlag agree between two ticks, *)
(* whoever died, was disqualified or came back since.                      *)
THEOREM FlagAndBearer == Spec => []FlagsAgree
BY Invariant, FlagsHold, PTL

(* A set without two different elements. *)
LEMMA AtMostOne ==
    ASSUME NEW S, \A v, w \in S : v = w
    PROVE  IsFiniteSet(S) /\ Cardinality(S) <= 1
<1>1. CASE S = {}
  <2>1. Cardinality(S) = 0 /\ IsFiniteSet(S)
    BY <1>1, FS_EmptySet
  <2> QED BY <2>1
<1>2. CASE S # {}
  <2>1. PICK x \in S : S = {x}
    BY <1>2
  <2>2. Cardinality(S) = 1 /\ IsFiniteSet(S)
    BY <2>1, FS_Singleton
  <2> QED BY <2>2
<1> QED BY <1>1, <1>2

LEMMA MarksHold == AInv => MarkIsUnique
<1> SUFFICES ASSUME AInv, phase = "decide"
             PROVE  LET marked == {v \in Vehicles(rules) : battle.vehicle[v].marked}
                    IN Cardinality(marked) <= 1 /\ marked = Marked(rules, battle)
  BY DEF MarkIsUnique
<1>1. MarksLoose(rules, battle) /\ MarksTight(rules, battle)
  BY DEF AInv, World
<1>2. PICK marked : marked = {v \in Vehicles(rules) : battle.vehicle[v].marked}
  OBVIOUS
<1>3. \A v, w \in marked : v = w
  BY <1>1, <1>2 DEF MarksLoose
<1>4. Cardinality(marked) <= 1
  BY <1>3, AtMostOne
<1>5. marked = Marked(rules, battle)
  BY <1>1, <1>2 DEF MarksTight, Marked
<1> QED BY <1>2, <1>4, <1>5

(* The juggernaut's mark is on one vehicle at most, and that one plays.    *)
THEOREM OneMark == Spec => []MarkIsUnique
BY Invariant, MarksHold, PTL

(* An elimination in the tick of the limit is decided as one tick earlier. *)
THEOREM EliminationDecides == Spec => []EliminationFair
<1>1. AInv => EliminationFair
  BY DEF AInv
<1> QED BY <1>1, Invariant, PTL

LEMMA ScoreAlone ==
    ASSUME AInv, [Next]_vars, rules.mode = "capture_the_flag", Len(rules.sides) = 2,
           rules.ownFlagAtBase
    PROVE  Cardinality({s \in SidesOf(rules) : battle'.score[s] > battle.score[s]}) <= 1
<1>1. OneScores
  <2>1. CASE UNCHANGED vars
    BY <2>1 DEF vars, OneScores
  <2> QED BY <2>1, Step
<1>2. PICK S : S = {s \in SidesOf(rules) : battle'.score[s] > battle.score[s]}
  OBVIOUS
<1>3. \A s \in SidesOf(rules) : battle.score[s] \in Nat
  BY DEF AInv, World, Battles, Tallies
<1>4. \A s \in S : battle'.score[s] # battle.score[s]
  <2>1. ASSUME NEW s \in S, battle'.score[s] = battle.score[s] PROVE FALSE
    <3>1. PICK n \in Nat : n = battle.score[s]
      BY <1>2, <1>3
    <3>2. n > n
      BY <1>2, <2>1, <3>1
    <3> QED BY <3>2
  <2> QED BY <2>1
<1>5. \A v, w \in S : v = w
  BY <1>1, <1>2, <1>4 DEF OneScores
<1>6. Cardinality(S) <= 1
  BY <1>5, AtMostOne
<1> QED BY <1>2, <1>6

(* Capture the flag with two flags: in one tick one side at most captures, *)
(* as the comment in the overtime of modes.ts says, as long as the own     *)
(* flag has to be at its base.                                             *)
THEOREM CaptureAlone == Spec => OneCapturePerTick
<1>1. ASSUME AInv, [Next]_vars
      PROVE  [rules.mode = "capture_the_flag" /\ Len(rules.sides) = 2 /\ rules.ownFlagAtBase =>
                Cardinality({s \in SidesOf(rules) : battle'.score[s] > battle.score[s]}) <= 1]_vars
  BY <1>1, ScoreAlone
<1>2. Spec => []AInv /\ [][Next]_vars
  BY Invariant, PTL DEF Spec
<1> QED BY <1>1, <1>2, PTL DEF OneCapturePerTick
=============================================================================
