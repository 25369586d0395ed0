------------------------------ MODULE MCCalendar ------------------------------
(***************************************************************************)
(* Small instances of Calendar for TLC: all the formats, with the owners   *)
(* and the histories that change what is drawn.                            *)
(***************************************************************************)
EXTENDS Calendar

CONSTANTS p1, p2, p3, p4, p5, p6, p7, p8

First(n) == SubSeq(<<p1, p2, p3, p4, p5, p6, p7, p8>>, 1, n)
Names(n) == Range(First(n))
Own(n) == [x \in Names(n) |-> x]
Pairs(n) == kSubset(2, Names(n))

Drawing(format, n, owner, played, rested) ==
    [format |-> format, ids |-> First(n), owner |-> owner, played |-> played, rested |-> rested]

Leagues == {Drawing(format, n, Own(n), {}, {}) : format \in {"round_robin", "league"}, n \in 2..7}

Brackets ==
    {Drawing("single_elimination", n, Own(n), {}, {}) : n \in 2..8}
      \cup {Drawing("double_elimination", n, Own(n), {}, {}) : n \in 2..8}

(* Owners with several bots, named after one of them. *)
Families ==
    UNION {{Drawing("single_elimination", n, owner, {}, {}) : owner \in [Names(n) -> {p1, p2, p3}]} :
              n \in 4..8}

Swisses ==
    {Drawing("swiss", 4, Own(4), played, {}) : played \in SUBSET Pairs(4)}
      \cup {Drawing("swiss", 5, Own(5), played, rested) :
               played \in SUBSET Pairs(5), rested \in {{}, {p4, p5}, Names(5)}}

AllFormats == Leagues \cup Brackets \cup Families \cup Swisses

(* Only brackets are played: elsewhere no match depends on another. *)
Played == result = << >> \/ entered \in Brackets
===============================================================================
