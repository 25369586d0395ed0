----------------------------- MODULE MCBattleRun -----------------------------
(***************************************************************************)
(* Small instances of BattleRun for TLC.                                   *)
(***************************************************************************)
EXTENDS BattleRun, TLC

CONSTANTS w1, w2, s1, s2, s3

(* One process with two loops, and another one. *)
TwoSlotsAndOne == s1 :> w1 @@ s2 :> w1 @@ s3 :> w2
=============================================================================
