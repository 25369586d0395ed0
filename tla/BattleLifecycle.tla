--------------------------- MODULE BattleLifecycle ---------------------------
(***************************************************************************)
(* What the queue, the leases and the workers promise about one battle,    *)
(* whatever they do to keep the promise (docs/technical/battles.md,        *)
(* "Persistencia y estados"): which changes of battles.status exist, that  *)
(* the battle changes hands only when nobody holds it or the lease of who  *)
(* does has expired, and that the result and the process_result job appear *)
(* together and stay.                                                      *)
(***************************************************************************)
CONSTANTS
    Battle,
    Holder, NoHolder,   \* who may hold a battle
    Outcome, NoOutcome

VARIABLES
    status,     \* battles.status
    holder,     \* battles.claimed_by, NoHolder while it is NULL
    live,       \* the lease of the running battle has not expired
    outcome,    \* battles.result, NoOutcome while it is NULL
    announced   \* the process_result job of the battle exists

lifecycleVars == <<status, holder, live, outcome, announced>>

Init ==
    /\ status = [b \in Battle |-> "scheduled"]
    /\ holder = [b \in Battle |-> NoHolder]
    /\ live = [b \in Battle |-> FALSE]
    /\ outcome = [b \in Battle |-> NoOutcome]
    /\ announced = [b \in Battle |-> FALSE]

(* Nobody runs the battle, or whoever did has let the lease expire. *)
Free(b) == status[b] = "scheduled" \/ (status[b] = "running" /\ ~live[b])

Start(b) ==
    /\ Free(b)
    /\ status' = [status EXCEPT ![b] = "running"]
    /\ holder'[b] \in Holder
    /\ holder' = [holder EXCEPT ![b] = holder'[b]]
    /\ live' = [live EXCEPT ![b] = TRUE]
    /\ UNCHANGED <<outcome, announced>>

KeepAlive(b) ==
    /\ status[b] = "running"
    /\ live' = [live EXCEPT ![b] = TRUE]
    /\ UNCHANGED <<status, holder, outcome, announced>>

Requeue(b) ==
    /\ status[b] = "running"
    /\ status' = [status EXCEPT ![b] = "scheduled"]
    /\ holder' = [holder EXCEPT ![b] = NoHolder]
    /\ live' = [live EXCEPT ![b] = FALSE]
    /\ UNCHANGED <<outcome, announced>>

Finish(b, o) ==
    /\ status[b] = "running"
    /\ status' = [status EXCEPT ![b] = "finished"]
    /\ live' = [live EXCEPT ![b] = FALSE]
    /\ outcome' = [outcome EXCEPT ![b] = o]
    /\ announced' = [announced EXCEPT ![b] = TRUE]
    /\ UNCHANGED holder

GiveUp(b) ==
    /\ Free(b)
    /\ status' = [status EXCEPT ![b] = "failed"]
    /\ holder' = [holder EXCEPT ![b] = NoHolder]
    /\ live' = [live EXCEPT ![b] = FALSE]
    /\ UNCHANGED <<outcome, announced>>

(* Time passes: any set of leases expires. *)
Expire ==
    /\ live' \in [Battle -> BOOLEAN]
    /\ \A b \in Battle : live'[b] => live[b]
    /\ UNCHANGED <<status, holder, outcome, announced>>

Next ==
    \/ \E b \in Battle :
          Start(b) \/ KeepAlive(b) \/ Requeue(b) \/ GiveUp(b) \/ \E o \in Outcome : Finish(b, o)
    \/ Expire

Spec == Init /\ [][Next]_lifecycleVars
=============================================================================
