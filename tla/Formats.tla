------------------------------- MODULE Formats -------------------------------
(***************************************************************************)
(* The pure generators of formats.ts and the series and tables of          *)
(* results.ts.  Entrants come as a sequence in seed order (the position is *)
(* the seed).  A slot is <<bracket, round, table>> instead of "W2M1"; the  *)
(* loops that build brackets round by round are given by what they build.  *)
(***************************************************************************)
EXTENDS Integers, SequencesExt

CONSTANTS NoOne         \* null as a participant

NoSource == [slot |-> <<>>, take |-> "none"]
WinnerOf(slot) == [slot |-> slot, take |-> "winner"]
LoserOf(slot) == [slot |-> slot, take |-> "loser"]

(* A pairing with both sides known, the common case, and one that waits. *)
Known(slot, home, away) ==
    [slot |-> slot, home |-> home, away |-> away,
     homeSource |-> NoSource, awaySource |-> NoSource,
     bye |-> FALSE, final |-> FALSE, conditionalOn |-> <<>>]

Resting(slot, id) == [Known(slot, id, NoOne) EXCEPT !.bye = TRUE]

Awaiting(slot, homeSource, awaySource) ==
    [Known(slot, NoOne, NoOne) EXCEPT !.homeSource = homeSource, !.awaySource = awaySource]

IsMain(p) == p.slot[1] \in {"RR", "S"}

Log2Up(n) == CHOOSE k \in 0..n : 2^k >= n /\ \A i \in 0..(k - 1) : 2^i < n

-----------------------------------------------------------------------------
(* Round robin by the circle method, and the league of several legs *)

(* Mutant: the circle turns the first seat as well. *)
SeatTurningAll(n, r, i) == (i - r) % n

(* Who sits at place i (from 0) of the circle after r turns: place 0 stays. *)
Seat(n, r, i) == IF i = 0 THEN 0 ELSE 1 + ((i - 1 - r) % (n - 1))

RoundRobin(ids, startRound, swapSides) ==
    LET all == IF Len(ids) % 2 = 1 THEN Append(ids, NoOne) ELSE ids
        n == Len(all)
        At(r, i) == all[Seat(n, r, i) + 1]
        Pair(r, i) ==
            LET a == At(r, i)
                b == At(r, n - 1 - i)
                slot == <<"RR", startRound + r, i + 1>>
            IN CASE a = NoOne -> Resting(slot, b)
                 [] b = NoOne -> Resting(slot, a)
                 [] OTHER -> IF ((r + i) % 2 = 0) # swapSides
                             THEN Known(slot, a, b) ELSE Known(slot, b, a)
    IN {Pair(r, i) : r \in 0..(n - 2), i \in 0..((n \div 2) - 1)}

League(ids, legs) ==
    LET perLeg == IF Len(ids) % 2 = 0 THEN Len(ids) - 1 ELSE Len(ids)
    IN UNION {RoundRobin(ids, leg * perLeg + 1, leg % 2 = 1) : leg \in 0..(legs - 1)}

-----------------------------------------------------------------------------
(* Elimination brackets *)

(* Mutant: seeds in order, best against second best. *)
SeedPositionsInOrder(k) == [j \in 1..2^k |-> j]

(* seedPositions doubles [1, 2] until it is long enough: x is followed by   *)
(* the seed that adds up to the double size plus one.                      *)
SeedPositions(k) ==
    LET f[i \in 1..k] ==
            IF i = 1 THEN <<1, 2>>
            ELSE [j \in 1..2^i |-> LET x == f[i - 1][(j + 1) \div 2]
                                   IN IF j % 2 = 1 THEN x ELSE 2^i + 1 - x]
    IN f[k]

SameOwner(owner, a, b) == a # NoOne /\ b # NoOne /\ owner[a] = owner[b]

(* Mutant: only the table that is being treated is looked at. *)
AvoidAtHere(owner, tables, i) ==
    LET home == tables[i][1]
        away == tables[i][2]
        j == Min({k \in DOMAIN tables \ {i} : /\ tables[k][2] # NoOne
                                              /\ ~SameOwner(owner, home, tables[k][2])} \cup {i})
    IN IF SameOwner(owner, home, away)
       THEN [tables EXCEPT ![i] = <<home, tables[j][2]>>, ![j] = <<tables[j][1], away>>]
       ELSE tables

(* Table i of the first round swaps its visitor with the first table where  *)
(* neither side then meets a bot of its own owner.                         *)
AvoidAt(owner, tables, i) ==
    LET home == tables[i][1]
        away == tables[i][2]
        fits == {j \in DOMAIN tables \ {i} :
                    /\ tables[j][2] # NoOne
                    /\ ~SameOwner(owner, tables[j][1], away)
                    /\ ~SameOwner(owner, home, tables[j][2])}
        j == Min(fits)
    IN IF SameOwner(owner, home, away) /\ fits # {}
       THEN [tables EXCEPT ![i] = <<home, tables[j][2]>>, ![j] = <<tables[j][1], away>>]
       ELSE tables

FirstRound(ids, owner, k) ==
    LET seat(x) == IF x <= Len(ids) THEN ids[x] ELSE NoOne
        tables == [m \in 1..2^(k - 1) |-> <<seat(SeedPositions(k)[2 * m - 1]),
                                            seat(SeedPositions(k)[2 * m])>>]
    IN FoldLeftDomain(LAMBDA t, m : AvoidAt(owner, t, m), tables, tables)

(* Mutant: the winners of one half of the bracket meet again. *)
FedByWrongTables(b, r, m, sub) ==
    Awaiting(<<b, r, m>>, WinnerOf(<<sub, r - 1, m>>), WinnerOf(<<sub, r - 1, m + 1>>))

(* Table m of a round plays the winners of the tables 2m-1 and 2m before.  *)
FedByWinners(b, r, m, sub) ==
    Awaiting(<<b, r, m>>, WinnerOf(<<sub, r - 1, 2 * m - 1>>), WinnerOf(<<sub, r - 1, 2 * m>>))

SingleElimination(ids, owner) ==
    LET k == Log2Up(Len(ids))
        r1 == FirstRound(ids, owner, k)
        First(m) ==
            LET slot == <<"W", 1, m>>
                home == r1[m][1]
                away == r1[m][2]
            IN CASE away = NoOne -> Resting(slot, home)
                 [] home = NoOne -> Resting(slot, away)
                 [] OTHER -> Known(slot, home, away)
        Final(p) == [p EXCEPT !.final = p.slot[2] = k]
    IN {Final(First(m)) : m \in 1..2^(k - 1)}
         \cup UNION {{Final(FedByWinners("W", r, m, "W")) : m \in 1..2^(k - r)} : r \in 2..k}

(* Losers of the first round meet each other; then, in turn, the losers of  *)
(* round wr of W drop in (round 2(wr-1) of L) and the survivors meet        *)
(* (round 2wr-1).                                                          *)
LosersBracket(k) ==
    {Awaiting(<<"L", 1, m>>, LoserOf(<<"W", 1, 2 * m - 1>>), LoserOf(<<"W", 1, 2 * m>>)) :
        m \in 1..2^(k - 2)}
      \cup (UNION {{Awaiting(<<"L", 2 * (wr - 1), m>>, WinnerOf(<<"L", 2 * wr - 3, m>>),
                             LoserOf(<<"W", wr, m>>)) : m \in 1..2^(k - wr)} : wr \in 2..k})
      \cup (UNION {{FedByWinners("L", 2 * wr - 1, m, "L") : m \in 1..2^(k - wr - 1)} :
                         wr \in 2..(k - 1)})

(* The grand final and the bracket reset: GF2 is played only if the winner *)
(* of W lost GF.                                                           *)
DoubleElimination(ids, owner) ==
    LET k == Log2Up(Len(ids))
        lastW == <<"W", k, 1>>
        GF == <<"GF", 1, 1>>
        GF2 == <<"GF", 2, 1>>
        rival == IF k < 2 THEN LoserOf(lastW) ELSE WinnerOf(<<"L", 2 * (k - 1), 1>>)
    IN {[p EXCEPT !.final = FALSE] : p \in SingleElimination(ids, owner)}
         \cup (IF k < 2 THEN {} ELSE LosersBracket(k))
         \cup {Awaiting(GF, WinnerOf(lastW), rival),
               [Awaiting(GF2, WinnerOf(GF), LoserOf(GF)) EXCEPT
                    !.conditionalOn = lastW, !.final = TRUE]}

-----------------------------------------------------------------------------
(* Swiss *)

SwissRounds(n) == IF n <= 2 THEN 1 ELSE Log2Up(n)

(* standings: a sequence of [id, points, seed, hadBye] with different      *)
(* seeds; played: a set of pairs.  Who is at place r has r - 1 ahead.      *)
Ranked(standings) ==
    LET Ahead(i) == {j \in DOMAIN standings :
                        \/ standings[j].points > standings[i].points
                        \/ /\ standings[j].points = standings[i].points
                           /\ standings[j].seed < standings[i].seed}
    IN [r \in DOMAIN standings |->
           standings[CHOOSE i \in DOMAIN standings : Cardinality(Ahead(i)) = r - 1]]

(* The place of the lowest ranked that has not rested yet, or the lowest. *)
SwissBye(ranked) ==
    LET fresh == {i \in DOMAIN ranked : ~ranked[i].hadBye}
    IN IF fresh = {} THEN Len(ranked) ELSE Max(fresh)

(* backtrack: the first of those left takes the nearest rival that suits    *)
(* and leaves the rest a way to be paired.  The set holds the pairs that   *)
(* were found, in the order of the tables, or nothing.                     *)
Backtrack(n, suited) ==
    LET pairs[left \in SUBSET (1..n)] ==
            IF left = {} THEN {<<>>}
            ELSE LET first == Min(left)
                     rivals == {i \in left \ {first} :
                                  {first, i} \in suited /\ pairs[left \ {first, i}] # {}}
                     rival == Min(rivals)
                 IN IF rivals = {} THEN {}
                    ELSE {<< <<first, rival>> >> \o rest : rest \in pairs[left \ {first, rival}]}
    IN pairs[1..n]

Anybody(field) == kSubset(2, DOMAIN field)
Unmet(field, played) == {p \in Anybody(field) : {field[i] : i \in p} \notin played}

(* Mutant: the nearest fresh rival, without looking at who is left. *)
PairsGreedy(field, played) ==
    LET pairs[left \in SUBSET DOMAIN field] ==
            IF left = {} THEN {<<>>}
            ELSE LET first == Min(left)
                     rivals == {i \in left \ {first} : {field[first], field[i]} \notin played}
                 IN IF rivals = {} THEN {}
                    ELSE {<< <<first, Min(rivals)>> >> \o rest :
                              rest \in pairs[left \ {first, Min(rivals)}]}
        fresh == pairs[DOMAIN field]
    IN IF fresh # {} THEN fresh ELSE Backtrack(Len(field), Anybody(field))

(* Repeated rivals are allowed only when they cannot be avoided. *)
SwissPairs(field, played) ==
    LET fresh == Backtrack(Len(field), Unmet(field, played))
    IN IF fresh # {} THEN fresh ELSE Backtrack(Len(field), Anybody(field))

SwissRound(standings, played, round) ==
    LET ranked == Ranked(standings)
        odd == Len(ranked) % 2 = 1
        ids == [i \in DOMAIN ranked |-> ranked[i].id]
        bye == SwissBye(ranked)
        field == IF odd THEN RemoveAt(ids, bye) ELSE ids
        Pair(pairs, i) ==
            LET slot == <<"S", round, i>>
                a == field[pairs[i][1]]
                b == field[pairs[i][2]]
            IN IF (round + i) % 2 = 1 THEN Known(slot, b, a) ELSE Known(slot, a, b)
    IN (UNION {{Pair(pairs, i) : i \in DOMAIN pairs} : pairs \in SwissPairs(field, played)})
         \cup (IF odd THEN {Resting(<<"S", round, Len(ranked)>>, ids[bye])} ELSE {})

FirstSwissRound(ids) ==
    SwissRound([i \in DOMAIN ids |->
                   [id |-> ids[i], points |-> 0, seed |-> i, hadBye |-> FALSE]], {}, 1)

InitialSchedule(format, ids, owner) ==
    CASE format = "league"             -> League(ids, 2)
      [] format = "round_robin"        -> RoundRobin(ids, 1, FALSE)
      [] format = "single_elimination" -> SingleElimination(ids, owner)
      [] format = "double_elimination" -> DoubleElimination(ids, owner)
      [] format = "swiss"              -> FirstSwissRound(ids)

-----------------------------------------------------------------------------
(* Series and tables (results.ts) *)

(* A game is [game, winner, lead]: its number in the series, the team of   *)
(* the engine that won ("none" when the technical limit stopped it) and    *)
(* the score of A minus the score of B.  Home plays as A in odd games.     *)
HomeTeam(g) == IF g.game % 2 = 1 THEN "A" ELSE "B"
AwayTeam(g) == IF g.game % 2 = 1 THEN "B" ELSE "A"
HomeLead(g) == IF g.game % 2 = 1 THEN g.lead ELSE -g.lead
Technical(g) == g.winner = "none"

(* seriesOutcome, closed: wins, then score, then, in brackets, home. *)
SeriesWinner(games, p) ==
    LET sporting == {g \in games : ~Technical(g)}
        wins == Cardinality({g \in sporting : g.winner = HomeTeam(g)})
                  - Cardinality({g \in sporting : g.winner = AwayTeam(g)})
        lead == MapThenSumSet(HomeLead, sporting)
    IN CASE wins > 0 -> p.home
         [] wins < 0 -> p.away
         [] wins = 0 /\ lead > 0 -> p.home
         [] wins = 0 /\ lead < 0 -> p.away
         [] OTHER -> IF IsMain(p) THEN NoOne ELSE p.home
=============================================================================
