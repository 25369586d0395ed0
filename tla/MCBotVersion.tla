---------------------------- MODULE MCBotVersion ----------------------------
(***************************************************************************)
(* Small instances of BotVersion for TLC.                                  *)
(***************************************************************************)
EXTENDS BotVersion

CONSTANTS anyone, another

(* One request asks for anything; next to it, a second submission or a     *)
(* suspension, which are legal in most states.                             *)
TwoRequests ==
    [r \in {anyone, another} |->
        IF r = anyone THEN DOMAIN Transitions ELSE {"submit", "suspend"}]
=============================================================================
