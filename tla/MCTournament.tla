----------------------------- MODULE MCTournament -----------------------------
(***************************************************************************)
(* Small instances of Tournament for TLC.                                  *)
(***************************************************************************)
EXTENDS Tournament, TLC

CONSTANTS p1, p2, p3, p4, p5

First(n) == SubSeq(<<p1, p2, p3, p4, p5>>, 1, n)

Setup(format, n, games) ==
    [format |-> format, entries |-> First(n), owner |-> [i \in Range(First(n)) |-> i],
     games |-> games]

WinOrLose == {[winner |-> "A", lead |-> 1], [winner |-> "B", lead |-> -1]}
WithDraws == WinOrLose \cup {[winner |-> "draw", lead |-> 0]}

Serial == {Setup("double_elimination", 2, 2), Setup("double_elimination", 3, 1),
           Setup("double_elimination", 4, 1), Setup("single_elimination", 3, 2),
           Setup("round_robin", 3, 1), Setup("league", 2, 2),
           Setup("swiss", 3, 1), Setup("swiss", 4, 1)}

Concurrent == {Setup("single_elimination", 4, 1), Setup("double_elimination", 3, 1)}
Bracket == {Setup("single_elimination", 4, 1)}
Final == {Setup("single_elimination", 2, 2)}
==============================================================================
