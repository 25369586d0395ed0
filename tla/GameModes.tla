------------------------------ MODULE GameModes ------------------------------
(***************************************************************************)
(* The rules of a battle as the engine applies them (sim/modes.ts): what a *)
(* kill and a tick mean in each mode, who is still in the game, and who    *)
(* wins.  Operators on the ruleset r, with the sides and the map it is     *)
(* played with, and on the battle b.                                       *)
(*                                                                         *)
(* Vehicles are numbered in the order of their ids, sides are strings in   *)
(* the order of the list r.sides.  Where a vehicle is, is one of the       *)
(* places of the map; the base of a side and the stand of its flag are the *)
(* place of that name.                                                     *)
(***************************************************************************)
EXTENDS Integers, FiniteSets, Sequences, SequencesExt

CONSTANT TechnicalLimit     \* OVERTIME_TECHNICAL_LIMIT_TICKS

ASSUME GameModesAssumption == TechnicalLimit \in Nat \ {0}

Nobody == 0         \* no vehicle carries it
NoSide == "none"    \* no side controls it, no flag is carried, nobody did it

Vehicles(r) == DOMAIN r.team
SidesOf(r) == ToSet(r.sides)

Base(side) == [state |-> "at_base", place |-> side, carrier |-> Nobody, since |-> 0]

Scores(b, side, points) == [b EXCEPT !.score[side] = @ + points]

-----------------------------------------------------------------------------
(* Who is in the game *)

InPlay(b, v) == b.vehicle[v].alive /\ ~b.vehicle[v].disqualified

(* Unlimited respawns count as one more. *)
RespawnsLeft(r, b, v) ==
    CASE r.respawn = "none" -> 0
      [] r.respawn = "unlimited" -> 1
      [] r.respawn = "limited" -> Max({0, r.maxRespawns - b.vehicle[v].used})

InGame(r, b, v) ==
    ~b.vehicle[v].disqualified /\ (b.vehicle[v].alive \/ RespawnsLeft(r, b, v) > 0)

Members(r, b, side) ==
    {v \in Vehicles(r) : r.team[v] = side /\ ~b.vehicle[v].disqualified}

Alive(b, vehicles) == {v \in vehicles : b.vehicle[v].alive}

-----------------------------------------------------------------------------
(* Juggernaut: the mark *)

Marked(r, b) == {v \in Vehicles(r) : b.vehicle[v].marked /\ InPlay(b, v)}

(* Mutant: the old mark is not taken off. *)
AssignKeeping(r, b, next) ==
    [b EXCEPT !.vehicle = [v \in Vehicles(r) |->
                              [b.vehicle[v] EXCEPT !.marked = @ \/ v \in next]]]

(* assign: next is the one vehicle to mark, or nobody. *)
Assign(r, b, next) ==
    [b EXCEPT !.vehicle = [v \in Vehicles(r) |->
                              [b.vehicle[v] EXCEPT !.marked = v \in next]]]

FirstOf(vehicles) == IF vehicles = {} THEN {} ELSE {Min(vehicles)}

JuggernautKill(r, b, victim, killer) ==
    LET enemy == killer \notin {NoSide, r.team[victim]}
        alive == {v \in Vehicles(r) : InPlay(b, v)}
        mates == {v \in alive : r.team[v] = killer}
        down  == [b EXCEPT !.vehicle[victim].marked = FALSE]
    IN IF b.vehicle[victim].marked
       THEN Assign(r, IF enemy THEN Scores(down, killer, r.perMarked) ELSE down,
                   FirstOf(IF mates # {} THEN mates ELSE alive))
       ELSE IF enemy /\ \E v \in Marked(r, b) : r.team[v] = killer
            THEN Scores(b, killer, r.perKill)
            ELSE b

JuggernautTick(r, b) ==
    IF Marked(r, b) # {} THEN b
    ELSE Assign(r, b, FirstOf({v \in Vehicles(r) : InPlay(b, v)}))

-----------------------------------------------------------------------------
(* Kills: onKill.  A killer is a side, or NoSide when it was the map *)

TeamKill(r, b, victim, killer) ==
    CASE killer = NoSide -> b
      [] killer = r.team[victim] ->
            [b EXCEPT !.score = [s \in SidesOf(r) |->
                                    IF s = killer THEN b.score[s] ELSE b.score[s] + 1]]
      [] OTHER -> Scores(b, killer, 1)

EnemyKill(r, b, victim, killer) ==
    IF killer \in {NoSide, r.team[victim]} THEN b ELSE Scores(b, killer, 1)

OnKill(r, b, victim, killer) ==
    CASE r.mode \in {"deathmatch", "last_man_standing"} -> EnemyKill(r, b, victim, killer)
      [] r.mode = "team_deathmatch" -> TeamKill(r, b, victim, killer)
      [] r.mode = "juggernaut" -> JuggernautKill(r, b, victim, killer)
      [] OTHER -> b

-----------------------------------------------------------------------------
(* Capture the flag *)

Captured(r, b, flag, v) ==
    Scores([b EXCEPT !.flag[flag] = Base(flag), !.vehicle[v].flag = NoSide], r.team[v], 1)

(* Mutant: the own flag is not asked for. *)
MayCaptureAnyway(r, b, at, v) == at[v] = r.team[v]

(* The carrier is at its base, and its own flag is there if it has to be.   *)
MayCapture(r, b, at, v) ==
    /\ at[v] = r.team[v]
    /\ r.ownFlagAtBase => b.flag[r.team[v]].state = "at_base"

CarriedFlag(r, b, at, flag) ==
    LET v == b.flag[flag].carrier IN
    IF ~InPlay(b, v)
    THEN [b EXCEPT !.flag[flag] = [@ EXCEPT !.state = "dropped", !.carrier = Nobody,
                                            !.since = b.tick]]
    ELSE IF MayCapture(r, b, at, v) THEN Captured(r, b, flag, v)
    ELSE [b EXCEPT !.flag[flag].place = at[v]]

Taken(b, flag, v) ==
    [b EXCEPT !.flag[flag] = [@ EXCEPT !.state = "carried", !.carrier = v, !.since = 0],
              !.vehicle[v].flag = flag]

(* Whoever carries nothing and is where the flag is touches it, in order:  *)
(* a rival takes it, a vehicle of its own side brings it back, where a     *)
(* rival that comes later in the order may take it at once.                *)
Touched(r, b, at, flag) ==
    LET Touching(place) ==
            {v \in Vehicles(r) : InPlay(b, v) /\ b.vehicle[v].flag = NoSide /\ at[v] = place}
        there == Touching(b.flag[flag].place)
        first == Min(there)
        later == {v \in Touching(flag) : v > first /\ r.team[v] # flag}
        back  == [b EXCEPT !.flag[flag] = Base(flag)]
    IN IF there = {} THEN b
       ELSE IF r.team[first] # flag THEN Taken(b, flag, first)
       ELSE IF later = {} THEN back
       ELSE Taken(back, flag, Min(later))

FlagTick(r, b, at, flag) ==
    LET f == b.flag[flag] IN
    CASE f.state = "carried" -> CarriedFlag(r, b, at, flag)
      [] f.state = "dropped" /\ b.tick - f.since >= r.returnTicks ->
            [b EXCEPT !.flag[flag].state = "returning"]
      [] f.state = "returning" -> [b EXCEPT !.flag[flag] = Base(flag)]
      [] OTHER -> Touched(r, b, at, flag)

-----------------------------------------------------------------------------
(* Zones: only a side that is alone in a zone takes it *)

Inside(r, b, at, zone) == {r.team[v] : v \in {w \in Vehicles(r) : InPlay(b, w) /\ at[w] = zone}}

Controlled(r, b, at) ==
    [b EXCEPT !.control = [z \in r.zones |->
        IF Cardinality(Inside(r, b, at, z)) = 1 THEN CHOOSE s \in Inside(r, b, at, z) : TRUE
                                                ELSE b.control[z]]]

(* held: the zones that score for each side. *)
ZoneTick(r, b, at, held) ==
    LET c == Controlled(r, b, at)
    IN [c EXCEPT !.score = [s \in SidesOf(r) |-> c.score[s] + r.perZone * Cardinality(held[s])]]

(* zone_control: a zone scores while one side alone is present. *)
Present(r, b, at) == [s \in SidesOf(r) |-> {z \in r.zones : Inside(r, b, at, z) = {s}}]

(* domination: a zone scores for whoever took it last. *)
Possessed(r, b, at) ==
    [s \in SidesOf(r) |-> {z \in r.zones : Controlled(r, b, at).control[z] = s}]

(* One flag after another: what the first n of them have made of the battle. *)
FlagsTick(r, b, at) ==
    LET after[n \in 0..Len(r.sides)] ==
            IF n = 0 THEN b ELSE FlagTick(r, after[n - 1], at, r.sides[n])
    IN after[Len(r.sides)]

ModeTick(r, b, at) ==
    CASE r.mode = "capture_the_flag" -> FlagsTick(r, b, at)
      [] r.mode = "zone_control" -> ZoneTick(r, b, at, Present(r, b, at))
      [] r.mode = "domination" -> ZoneTick(r, b, at, Possessed(r, b, at))
      [] r.mode = "juggernaut" -> JuggernautTick(r, b)
      [] OTHER -> b

-----------------------------------------------------------------------------
(* The end: winner *)

(* The criteria of a tie break, each a number per side. *)
Value(r, b, criterion, side) ==
    LET own == Members(r, b, side)
        left == MapThenSumSet(LAMBDA v : RespawnsLeft(r, b, v), own)
    IN CASE criterion = "score" -> b.score[side]
         [] criterion = "alive" -> Cardinality(Alive(b, own))
         [] criterion = "respawns_left" -> left
         [] criterion = "lives" -> IF r.respawn = "unlimited" THEN Cardinality(own)
                                   ELSE Cardinality(Alive(b, own)) + left
         [] criterion = "kills" -> b.kills[side]

(* One side comes before another in the lexicographic order of criteria.    *)
Leads(r, b, criteria, s, t) ==
    \E i \in DOMAIN criteria :
        /\ Value(r, b, criteria[i], s) > Value(r, b, criteria[i], t)
        /\ \A j \in 1..(i - 1) : Value(r, b, criteria[j], s) = Value(r, b, criteria[j], t)

Only(sides) == IF Cardinality(sides) = 1 THEN CHOOSE s \in sides : TRUE ELSE "draw"

First(r, b, criteria, among) ==
    Only({s \in among : \A t \in among \ {s} : ~Leads(r, b, criteria, t, s)})

ByElimination(r, b) ==
    LET standing == {r.team[v] : v \in {w \in Vehicles(r) : InGame(r, b, w)}}
    IN IF r.respawn = "unlimited" \/ Cardinality(standing) > 1 THEN "open" ELSE Only(standing)

ByTime(r, b) ==
    First(r, b, IF r.tiebreak = <<>> THEN <<"score">> ELSE r.tiebreak, SidesOf(r))

TopTied(r, b) ==
    Cardinality(SidesOf(r)) > 1 /\ First(r, b, <<"score">>, SidesOf(r)) = "draw"

(* Mutant: one tick more than the technical limit. *)
ByOvertimeLater(r, b) ==
    LET ahead == {s \in SidesOf(r) : b.score[s] > b.baseline[s]}
    IN IF ahead # {} THEN First(r, b, <<"score">>, ahead)
       ELSE IF b.tick > r.limit + TechnicalLimit THEN "technical" ELSE "open"

(* In overtime the first to pass its score of the end of the time wins.     *)
ByOvertime(r, b) ==
    LET ahead == {s \in SidesOf(r) : b.score[s] > b.baseline[s]}
    IN IF ahead # {} THEN First(r, b, <<"score">>, ahead)
       ELSE IF b.tick >= r.limit + TechnicalLimit THEN "technical" ELSE "open"

TimeIsUp(r, b) == b.tick >= r.limit

StartOvertime(b) == [b EXCEPT !.overtime = TRUE, !.baseline = b.score]

(* Mutant: the time goes before the elimination also with a tie break. *)
EliminationFirstNever(r) == FALSE

EliminationFirst(r) == r.tiebreak # <<>>

Verdict(r, b) ==
    LET eliminated == ByElimination(r, b)
        early == IF EliminationFirst(r) THEN eliminated ELSE "open"
        late  == IF EliminationFirst(r) THEN "open" ELSE eliminated
    IN IF early # "open" THEN early ELSE IF TimeIsUp(r, b) THEN ByTime(r, b) ELSE late

(* LastManStanding has no score to reach and its own tie break. *)
LastStanding(r, b) ==
    IF ByElimination(r, b) = "open" /\ TimeIsUp(r, b)
    THEN First(r, b, <<"alive", "score">>, SidesOf(r)) ELSE ByElimination(r, b)

Reached(r, b) == {i \in DOMAIN r.sides : b.score[r.sides[i]] >= r.scoreToWin}

OpensOvertime(r, b) ==
    /\ r.mode # "last_man_standing" /\ Reached(r, b) = {}
    /\ r.overtime /\ ~b.overtime
    /\ TimeIsUp(r, b)
    /\ EliminationFirst(r) => ByElimination(r, b) = "open"
    /\ TopTied(r, b)

Winner(r, b) ==
    IF r.mode = "last_man_standing" THEN LastStanding(r, b)
    ELSE IF Reached(r, b) # {} THEN r.sides[Min(Reached(r, b))]
    ELSE IF b.overtime THEN ByOvertime(r, b)
    ELSE IF OpensOvertime(r, b) THEN "open"
    ELSE Verdict(r, b)
=============================================================================
