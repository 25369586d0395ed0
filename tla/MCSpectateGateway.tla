-------------------------- MODULE MCSpectateGateway --------------------------
(***************************************************************************)
(* Small instances of SpectateGateway for TLC.                             *)
(***************************************************************************)
EXTENDS SpectateGateway, TLC

CONSTANTS early, late

(* Connections are alike. *)
Viewers == Permutations(Spectator)

(* One ticket expires while the battle goes on. *)
Expiries == [t \in Ticket |-> IF t = early THEN 3 ELSE MaxTime + 1]
=============================================================================
