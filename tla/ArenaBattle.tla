----------------------------- MODULE ArenaBattle -----------------------------
(***************************************************************************)
(* A battle of the engine (sim/battle.ts): the loop that Battle.step runs  *)
(* in every tick, one action per step of it that changes what this module  *)
(* keeps; phase says which step comes next.  Nothing else runs in between. *)
(* What the physics and the weapons make of the bots' orders is any        *)
(* movement and any sequence of kills; what follows from that, who is      *)
(* disqualified, carries a flag, comes back, scores and wins, is the       *)
(* code's.                                                                 *)
(***************************************************************************)
EXTENDS GameModes

CONSTANTS
    Rulesets,       \* the rulesets, each with the sides and the map it is played with
    DecisionEvery   \* DECISION_EVERY_N_TICKS

ASSUME ArenaBattleAssumption == DecisionEvery \in Nat \ {0}

(* What the platform hands to the engine (engineRulesetFor): only capture   *)
(* the flag has overtime, and it declares no tie break; the others have no  *)
(* overtime, and declare one or, as the modes of the catalogue, none.       *)
(* Every vehicle has a side, and no side is called as one of the verdicts.  *)
IsRuleset(r) ==
    /\ r.mode \in {"deathmatch", "team_deathmatch", "last_man_standing", "capture_the_flag",
                    "zone_control", "domination", "juggernaut"}
    /\ r.sides \in Seq(SidesOf(r)) /\ r.team \in Seq(SidesOf(r)) /\ IsFiniteSet(r.zones)
    /\ SidesOf(r) \cap {NoSide, "open", "draw", "technical"} = {}
    /\ {r.scoreToWin, r.limit, r.maxRespawns, r.delay, r.returnTicks,
        r.perZone, r.perMarked, r.perKill} \subseteq Nat
    /\ r.maxTimeouts \in Nat \ {0}
    /\ r.respawn \in {"none", "limited", "unlimited"}
    /\ r.overtime \in BOOLEAN /\ (r.overtime => r.tiebreak = <<>>)

ASSUME RulesetsAssumption == \A r \in Rulesets : IsRuleset(r)

VARIABLES
    rules,      \* config.ruleset, the sides and the map
    battle,     \* the Battle and its GameMode
    phase       \* the step of the loop that comes next

vars == <<rules, battle, phase>>

Phases == {"decide", "weapons", "zones", "mode", "respawn", "end"}

Fresh == [alive |-> TRUE, disqualified |-> FALSE, timeouts |-> 0, respawnAt |-> 0,
          used |-> 0, flag |-> NoSide, marked |-> FALSE]

NoScore(r) == [s \in SidesOf(r) |-> 0]

NewBattle(r) ==
    [tick |-> 0, result |-> "open", vehicle |-> [v \in Vehicles(r) |-> Fresh],
     score |-> NoScore(r), kills |-> NoScore(r),
     flag |-> [s \in SidesOf(r) |-> Base(s)], control |-> [z \in r.zones |-> NoSide],
     overtime |-> FALSE, baseline |-> NoScore(r)]

Init ==
    /\ rules \in Rulesets
    /\ battle = NewBattle(rules)
    /\ phase = "decide"

Goes(from, to) == phase = from /\ phase' = to /\ UNCHANGED rules

-----------------------------------------------------------------------------
(* Steps 1 and 2: every bot that still plays is asked, also a dead one *)

Asked == IF battle.tick % DecisionEvery = 0
         THEN {v \in Vehicles(rules) : ~battle.vehicle[v].disqualified} ELSE {}

TimedOut(car) ==
    LET n == car.timeouts + 1
    IN IF n >= rules.maxTimeouts
       THEN [car EXCEPT !.timeouts = n, !.disqualified = TRUE, !.alive = FALSE]
       ELSE [car EXCEPT !.timeouts = n]

Decide ==
    /\ Goes("decide", "weapons")
    /\ battle.result = "open"
    /\ \E silent \in SUBSET Asked :
        battle' = [battle EXCEPT !.vehicle = [v \in Vehicles(rules) |->
                      IF v \notin Asked THEN @[v]
                      ELSE IF v \in silent THEN TimedOut(@[v])
                      ELSE [@[v] EXCEPT !.timeouts = 0]]]

-----------------------------------------------------------------------------
(* Steps 3 to 5: orders, physics and combat *)

Down(victim, killer) ==
    LET dead == [battle EXCEPT !.vehicle[victim].alive = FALSE]
    IN IF killer \in {NoSide, rules.team[victim]} THEN dead
       ELSE [dead EXCEPT !.kills[killer] = @ + 1]

(* damageVehicle, when the hull is gone.                                    *)
Killed(victim, killer) ==
    /\ InPlay(battle, victim)
    /\ battle' = OnKill(rules, Down(victim, killer), victim, killer)

(* Weapons spare the own side unless there is friendly fire.                *)
Shot ==
    /\ Goes("weapons", "weapons")
    /\ \E v \in Vehicles(rules), killer \in SidesOf(rules) :
        /\ killer = rules.team[v] => rules.friendlyFire
        /\ Killed(v, killer)

CeaseFire == Goes("weapons", "zones") /\ UNCHANGED battle

(* resolveZoneDamage, on a map with zones that damage.                      *)
Burnt ==
    /\ Goes("zones", "zones")
    /\ rules.hazards
    /\ \E v \in Vehicles(rules) : Killed(v, NoSide)

CombatOver == Goes("zones", "mode") /\ UNCHANGED battle

-----------------------------------------------------------------------------
(* Step 6: the mode, with the vehicles wherever they have got to *)

Mode ==
    /\ Goes("mode", "respawn")
    /\ \E at \in [Vehicles(rules) -> rules.places] : battle' = ModeTick(rules, battle, at)

-----------------------------------------------------------------------------
(* Step 7: respawn.  0 is no tick to come back at *)

(* respawnsUsed is only read where respawns are limited.                    *)
Used(car) == IF rules.respawn = "limited" THEN car.used + 1 ELSE car.used

(* Mutant: the flag comes back with the vehicle. *)
BackWithFlag(car) ==
    [car EXCEPT !.alive = TRUE, !.used = Used(car), !.marked = FALSE, !.respawnAt = 0]

Back(car) ==
    [car EXCEPT !.alive = TRUE, !.used = Used(car), !.flag = NoSide, !.marked = FALSE,
                !.respawnAt = 0]

Respawned(v) ==
    LET car == battle.vehicle[v] IN
    IF car.alive \/ car.disqualified \/ RespawnsLeft(rules, battle, v) = 0 THEN car
    ELSE IF car.respawnAt = 0 THEN [car EXCEPT !.respawnAt = battle.tick + rules.delay]
    ELSE IF battle.tick >= car.respawnAt THEN Back(car)
    ELSE car

Respawn ==
    /\ Goes("respawn", "end")
    /\ battle' = [battle EXCEPT !.vehicle = [v \in Vehicles(rules) |-> Respawned(v)]]

-----------------------------------------------------------------------------
(* Step 9: the end, or the next tick *)

(* Mutant: overtime starts again while the score is tied. *)
OpenedAgain ==
    IF TimeIsUp(rules, battle) /\ rules.overtime /\ TopTied(rules, battle)
    THEN [battle EXCEPT !.overtime = TRUE, !.baseline = battle.score]
    ELSE [battle EXCEPT !.tick = @ + 1]

(* The next tick; winner may have started the overtime. *)
Opened ==
    LET next == IF OpensOvertime(rules, battle) THEN StartOvertime(battle) ELSE battle
    IN [next EXCEPT !.tick = @ + 1]

End ==
    /\ Goes("end", "decide")
    /\ battle' = IF Winner(rules, battle) = "open" THEN Opened
                 ELSE [battle EXCEPT !.result = Winner(rules, battle)]

Next == Decide \/ Shot \/ CeaseFire \/ Burnt \/ CombatOver \/ Mode \/ Respawn \/ End

Spec == Init /\ [][Next]_vars /\ WF_vars(Next)

-----------------------------------------------------------------------------
(* Properties *)

(* maxBattleTicks: what the timers of the containers and the runner allow.  *)
MaxBattleTicks(r) == r.limit + IF r.overtime THEN TechnicalLimit ELSE 0

(* Every part of the battle keeps its shape: nobody has more respawns than *)
(* the ruleset gives, who is disqualified is dead, and the clock does not  *)
(* pass maxBattleTicks.                                                    *)
TypeOK ==
    /\ phase \in Phases
    /\ battle.tick \in 0..MaxBattleTicks(rules)
    /\ battle.result \in SidesOf(rules) \cup {"open", "draw", "technical"}
    /\ \A s \in SidesOf(rules) :
        /\ {battle.score[s], battle.kills[s], battle.baseline[s]} \subseteq Nat
        /\ battle.flag[s].state \in {"at_base", "carried", "dropped", "returning"}
        /\ battle.flag[s].place \in rules.places \cup {s}
        /\ battle.flag[s].carrier \in Vehicles(rules) \cup {Nobody}
    /\ \A z \in rules.zones : battle.control[z] \in SidesOf(rules) \cup {NoSide}
    /\ \A v \in Vehicles(rules) :
        LET car == battle.vehicle[v] IN
        /\ car.timeouts \in 0..rules.maxTimeouts
        /\ car.used \in 0..rules.maxRespawns
        /\ car.respawnAt \in Nat
        /\ car.flag \in SidesOf(rules) \cup {NoSide}
        /\ car.disqualified => ~car.alive

(* Between two ticks the flag and the vehicle agree (FlagRuntime.carrierId *)
(* and Vehicle.carryingFlag are two fields): a flag that is carried has    *)
(* one bearer, in play and of the other side, and no vehicle in play       *)
(* believes it carries a flag that lies elsewhere, also after dying and    *)
(* coming back.                                                            *)
FlagsAgree ==
    phase = "decide" => \A s \in SidesOf(rules) :
        LET f == battle.flag[s]
            bearers == {v \in Vehicles(rules) : InPlay(battle, v) /\ battle.vehicle[v].flag = s}
        IN /\ bearers = IF f.state = "carried" THEN {f.carrier} ELSE {}
           /\ \A v \in bearers : rules.team[v] # s
           /\ f.state = "at_base" => f.place = s

(* Between two ticks there is at most one marked vehicle and it is in      *)
(* play, however the bearer went: killed by a rival, a mate or the map, or *)
(* disqualified.                                                           *)
MarkIsUnique ==
    phase = "decide" => LET marked == {v \in Vehicles(rules) : battle.vehicle[v].marked}
    IN Cardinality(marked) <= 1 /\ marked = Marked(rules, battle)

(* modes.ts, overtime: two sides that score in the same tick do not happen *)
(* in CTF with two flags.  They do not while the own flag has to be at its *)
(* base.                                                                   *)
OneCapturePerTick ==
    [][rules.mode = "capture_the_flag" /\ Len(rules.sides) = 2 /\ rules.ownFlagAtBase =>
           Cardinality({s \in SidesOf(rules) : battle'.score[s] > battle.score[s]}) <= 1]_vars

(* With a declared tie break, an elimination in the tick of the limit is   *)
(* decided as it would be one tick earlier: the side that stands wins,     *)
(* nobody standing is a draw, whatever the score (rules-timeout-edge.test).*)
EliminationFair ==
    battle.result # "open" /\ rules.tiebreak # <<>> /\ rules.respawn # "unlimited"
        /\ Reached(rules, battle) = {} =>
        LET standing == {rules.team[v] : v \in {w \in Vehicles(rules) : InGame(rules, battle, w)}}
        IN /\ standing = {} => battle.result = "draw"
           /\ Cardinality(standing) = 1 => battle.result \in standing

(* Every battle ends, with a result or by the technical limit.              *)
BattleEnds == <>(battle.result # "open")
=============================================================================
