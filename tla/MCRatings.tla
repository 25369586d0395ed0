------------------------------ MODULE MCRatings ------------------------------
(***************************************************************************)
(* Small instances of Ratings for TLC.                                     *)
(***************************************************************************)
EXTENDS Ratings, TLC

CONSTANTS x1, x2, g1, g2

(* Loops are alike. *)
Loops == Permutations(Loop)

(* Both battles have the same bots, at different sides. *)
HomeAndAway == [b \in {x1, x2} |-> IF b = x1 THEN <<1, 2>> ELSE <<2, 1>>]

(* A series of two games, or two matches. *)
SeriesOrSingle == {[b \in {x1, x2} |-> g1], [b \in {x1, x2} |-> IF b = x1 THEN g1 ELSE g2]}

(* Elo in whole points: the favourite wins less, and loses more. *)
WholePoints(home, away, result) ==
    CASE result = "home" -> IF home > away THEN 1 ELSE 2
      [] result = "away" -> IF home < away THEN -1 ELSE -2
      [] OTHER           -> IF home > away THEN -1 ELSE IF home < away THEN 1 ELSE 0
=============================================================================
