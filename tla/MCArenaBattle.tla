---------------------------- MODULE MCArenaBattle ----------------------------
(***************************************************************************)
(* Small instances of ArenaBattle for TLC.                                 *)
(***************************************************************************)
EXTENDS ArenaBattle

(* What the rulesets have in common, and the ctf ruleset of the platform.   *)
Common ==
    [mode |-> "team_deathmatch", sides |-> <<"blue", "red">>, team |-> <<"red", "blue">>,
     places |-> {"field"}, zones |-> {}, hazards |-> FALSE, friendlyFire |-> FALSE,
     scoreToWin |-> 2, limit |-> 2, respawn |-> "unlimited", maxRespawns |-> 0, delay |-> 1,
     maxTimeouts |-> 2, ownFlagAtBase |-> TRUE, returnTicks |-> 2, overtime |-> FALSE,
     tiebreak |-> <<>>, perZone |-> 1, perMarked |-> 2, perKill |-> 1]

Flags == [Common EXCEPT !.mode = "capture_the_flag", !.overtime = TRUE,
                        !.places = {"blue", "red", "field"}, !.limit = 3]

AllModes ==
    {Flags, [Flags EXCEPT !.ownFlagAtBase = FALSE, !.hazards = TRUE],
     [Common EXCEPT !.team = <<"blue", "red", "red">>, !.friendlyFire = TRUE,
                    !.tiebreak = <<"score", "kills">>, !.limit = 3],
     [Common EXCEPT !.team = <<"blue", "red", "red">>, !.respawn = "limited", !.maxRespawns = 1,
                    !.delay = 0, !.scoreToWin = 3, !.limit = 5, !.hazards = TRUE,
                    !.tiebreak = <<"score", "alive", "respawns_left", "kills">>],
     [Common EXCEPT !.mode = "deathmatch", !.sides = <<"a", "b", "c">>, !.team = <<"a", "b", "c">>,
                    !.respawn = "none", !.tiebreak = <<"alive", "lives", "kills">>],
     [Common EXCEPT !.mode = "last_man_standing", !.team = <<"blue", "blue", "red">>,
                    !.respawn = "none", !.friendlyFire = TRUE],
     [Common EXCEPT !.mode = "zone_control", !.places = {"z1", "field"}, !.zones = {"z1"},
                    !.limit = 4],
     [Common EXCEPT !.mode = "domination", !.places = {"z1", "z2", "field"},
                    !.zones = {"z1", "z2"}, !.scoreToWin = 4, !.limit = 4],
     [Common EXCEPT !.mode = "juggernaut", !.team = <<"blue", "red", "red">>, !.limit = 4,
                    !.scoreToWin = 4, !.friendlyFire = TRUE, !.hazards = TRUE]}
=============================================================================
