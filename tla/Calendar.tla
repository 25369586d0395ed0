------------------------------- MODULE Calendar -------------------------------
(***************************************************************************)
(* What a tournament promises, whatever its workers do to keep it: the     *)
(* calendar that formats.ts draws is played match by match.  A match is    *)
(* decided once, after the matches its sides come from, by one of its two  *)
(* sides, or without playing if it lacks a side or is the formality of a   *)
(* bracket reset (results.ts, resolveDependents).                          *)
(***************************************************************************)
EXTENDS Formats

CONSTANTS
    Drawn           \* what is drawn: [format, ids, owner, played, rested]

ASSUME CalendarAssumption ==
    \A e \in Drawn : /\ e.ids \in Seq(Range(e.ids)) /\ Len(e.ids) >= 2
                      /\ IsInjective(e.ids) /\ NoOne \notin Range(e.ids)

VARIABLES
    entered,        \* the member of Drawn that is played
    calendar,       \* its pairings
    result          \* the decided ones, by slot: [home, away, winner]

calendarVars == <<entered, calendar, result>>

(* A swiss is drawn round by round: a round after the pairs in played and  *)
(* the rests in rested.  (Points only sort the field: all are level here.) *)
Draw(e) ==
    IF e.format # "swiss" THEN InitialSchedule(e.format, e.ids, e.owner)
    ELSE SwissRound([i \in DOMAIN e.ids |-> [id |-> e.ids[i], points |-> 0, seed |-> i,
                                             hadBye |-> e.ids[i] \in e.rested]], e.played, 1)

CalendarInit ==
    /\ entered \in Drawn
    /\ calendar = Draw(entered)
    /\ result = << >>

-----------------------------------------------------------------------------
Loser(r) == IF r.home = r.winner THEN r.away ELSE r.home

(* Who sits on a side: known from the draw, or from the match it comes from. *)
Seated(known, source) ==
    CASE source = NoSource        -> known
      [] source.take = "winner"   -> result[source.slot].winner
      [] source.take = "loser"    -> Loser(result[source.slot])

Ready(p) ==
    /\ p.slot \notin DOMAIN result
    /\ \A source \in {p.homeSource, p.awaySource} \ {NoSource} : source.slot \in DOMAIN result

(* GF2 when the unbeaten side has won GF too. *)
Formality(p, home) == p.conditionalOn # <<>> /\ result[p.conditionalOn].winner = home

(* A series that is level is a draw in the main bracket only. *)
Verdicts(p, home, away) ==
    CASE home = NoOne \/ away = NoOne -> {IF home = NoOne THEN away ELSE home}
      [] home # NoOne /\ away # NoOne /\ Formality(p, home) -> {home}
      [] OTHER -> {home, away} \cup (IF IsMain(p) THEN {NoOne} ELSE {})

Decide(p) ==
    /\ Ready(p)
    /\ LET home == Seated(p.home, p.homeSource)
           away == Seated(p.away, p.awaySource)
       IN \E w \in Verdicts(p, home, away) :
             result' = [m \in DOMAIN result \cup {p.slot} |->
                           IF m = p.slot THEN [home |-> home, away |-> away, winner |-> w]
                                         ELSE result[m]]
    /\ UNCHANGED <<entered, calendar>>

CalendarNext == \E p \in calendar : Decide(p)

CalendarSpec == CalendarInit /\ [][CalendarNext]_calendarVars

-----------------------------------------------------------------------------
(* Properties *)

Entrants == Range(entered.ids)
SeedOf(id) == CHOOSE i \in DOMAIN entered.ids : entered.ids[i] = id
Present(p) == {p.home, p.away} \ {NoOne}
Meetings(x, y) == {p \in calendar : Present(p) = {x, y}}
Over == \A p \in calendar : p.slot \in DOMAIN result

(* Round robin and league: every two entrants meet once per leg, everybody *)
(* is in every round once, and in a league each of two rivals plays at     *)
(* home as often as the other (generateRoundRobin, generateLeague).        *)
EverybodyMeets ==
    entered.format \in {"round_robin", "league"} =>
        LET legs == IF entered.format = "league" THEN 2 ELSE 1 IN
        /\ \A x \in Entrants : \A y \in Entrants \ {x} :
              /\ Cardinality(Meetings(x, y)) = legs
              /\ legs = 2 => Cardinality({p \in Meetings(x, y) : p.home = x}) = 1
        /\ \A p \in calendar, x \in Entrants :
              Cardinality({q \in calendar : q.slot[2] = p.slot[2] /\ x \in Present(q)}) = 1

(* The best 2^j seeds do not meet before j rounds are left, whoever wins   *)
(* (seedPositions; the first round may have been changed for the owners).  *)
SeedsApart ==
    entered.format \in {"single_elimination", "double_elimination"}
        /\ (\A x, y \in Entrants : SameOwner(entered.owner, x, y) => x = y) =>
            \A m \in DOMAIN result :
                LET r == result[m]
                    left == Log2Up(Len(entered.ids)) - m[2]
                IN m[1] = "W" /\ NoOne \notin {r.home, r.away} =>
                     \E x \in {r.home, r.away} : SeedOf(x) > 2^left

(* A table of the first round where an owner meets himself is left only if *)
(* no exchange of its visitor separates them (avoidSameOwnerRound1).       *)
OwnersApart ==
    entered.format = "single_elimination" =>
        LET tables == {p \in calendar : p.slot[2] = 1 /\ ~p.bye} IN
        \A p \in tables : SameOwner(entered.owner, p.home, p.away) =>
            \A q \in tables \ {p} : \/ SameOwner(entered.owner, q.home, p.away)
                                    \/ SameOwner(entered.owner, p.home, q.away)

(* When a single elimination is over everybody but its champion has lost   *)
(* one match, when a double elimination is over two, and the champion less *)
(* (generateDoubleElimination: nobody is out with one defeat).             *)
EverybodyOut ==
    (Over /\ entered.format \in {"single_elimination", "double_elimination"}) =>
        LET lives == IF entered.format = "single_elimination" THEN 1 ELSE 2
            Played(m) == /\ NoOne \notin {result[m].home, result[m].away}
                         /\ ~\E p \in calendar : p.slot = m /\ Formality(p, result[m].home)
            Losses(x) == Cardinality({m \in DOMAIN result : Played(m) /\ Loser(result[m]) = x})
            champion == result[(CHOOSE p \in calendar : p.final).slot].winner
        IN /\ champion \in Entrants /\ Losses(champion) < lives
           /\ \A x \in Entrants \ {champion} : Losses(x) = lives

(* A swiss round seats everybody once; two rivals meet again only if there *)
(* is no way to seat everybody otherwise, and who rests has rested before  *)
(* only if everybody has (generateSwissRound).                             *)
SwissRoundFair ==
    entered.format = "swiss" =>
        LET tables == {p \in calendar : ~p.bye}
            seated == UNION {Present(p) : p \in tables}
            rivals == {Present(p) : p \in tables}
            pairs == {s \in SUBSET seated : Cardinality(s) = 2}
            Whole(ps) == Cardinality(ps) * 2 = Cardinality(seated) /\ UNION ps = seated
        IN /\ \A x \in Entrants : Cardinality({p \in calendar : x \in Present(p)}) = 1
           /\ (\E ps \in kSubset(Cardinality(tables), pairs \ entered.played) : Whole(ps))
                  => rivals \cap entered.played = {}
           /\ \A p \in calendar : p.bye /\ p.home \in entered.rested => Entrants \subseteq entered.rested
=============================================================================
