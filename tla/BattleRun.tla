------------------------------ MODULE BattleRun ------------------------------
(***************************************************************************)
(* One battle from the queue to its result: the loop slots of the          *)
(* tournament workers (worker.ts), the job row of each battle (queue.ts),  *)
(* the lease that reserves the battle and the transaction that closes it   *)
(* (battle-runner.ts), the replay file and the rich statistics.            *)
(*                                                                         *)
(* A worker is a process; its slots are the concurrent loops of start().   *)
(* Every await between two statements is a place where another slot, a     *)
(* crash, a stalled process or the clock may come in between, so every     *)
(* statement is an action.  There is one run_battle job per battle: its    *)
(* dedupe_key is run_battle:<id>, so job and battle share the index.       *)
(***************************************************************************)
EXTENDS JobQueue, FiniteSets

CONSTANTS
    Battle,
    Slot,           \* the concurrent loops, of all workers
    WorkerOf,       \* the process each loop belongs to
    NoBattle,       \* an idle slot has no battle
    LeaseTicks,     \* leaseMs, shorter than the lock of the queue
    MaxAtOnce,      \* loops busy with one battle at a time (bounds the model)
    MaxFaults       \* how many faults strike, of any kind (bounds the model)

FaultKind == {"crash", "stall", "db", "session"}

ASSUME BattleRunAssumption ==
    /\ WorkerOf \in [Slot -> Worker]
    /\ NoBattle \notin Battle
    /\ LeaseTicks \in Nat \ {0}
    /\ LeaseTicks < LockTicks
    /\ {MaxAtOnce, MaxFaults} \subseteq Nat

VARIABLES
    job,        \* the run_battle row of each battle
    battle,     \* the row of each battle
    announced,  \* the process_result row of the battle exists
    file,       \* who wrote <battleId>.replay last, NoOwner if nobody has
    richStats,  \* battle_stats holds the statistics of the battle
    slot,       \* where each loop is in runOnce and the handler
    stalled,    \* processes that stopped scheduling (pause, blocked loop)
    faults      \* faults so far, by kind

vars == <<job, battle, announced, file, richStats, slot, stalled, faults>>

(* endReason of the result.  Only the first two come with a replay. *)
Played == {"completed", "technical_limit"}
EndReason == Played \cup {"walkover", "sporting_failure"}
NoResult == "none"

NoOwner == <<NoWorker, 0>>
IdleSlot == [pc |-> "idle", battle |-> NoBattle, attempt |-> 0, why |-> "none",
             renew |-> "no", aborted |-> FALSE, trxLost |-> FALSE]

PC == {"idle", "claimed", "missed", "reserved", "running", "closing", "written",
       "release", "fail", "review", "stats", "complete"}
Why == EndReason \cup {"none", "busy", "infrastructure", "unclassified"}

BattleRow == [status    : {"scheduled", "running", "finished", "failed"},
              claimedBy : (Worker \cup {NoWorker}) \X Nat,
              lease     : 0..LeaseTicks,
              result    : EndReason \cup {NoResult}]

SlotRow == [pc      : PC,
            battle  : Battle \cup {NoBattle},
            attempt : Nat,
            why     : Why,
            renew   : {"no", "kept", "lost"},
            aborted : BOOLEAN,
            trxLost : BOOLEAN]

TypeOK ==
    /\ job \in [Battle -> JobRow]
    /\ battle \in [Battle -> BattleRow]
    /\ announced \in [Battle -> BOOLEAN]
    /\ file \in [Battle -> (Worker \cup {NoWorker}) \X Nat]
    /\ richStats \in [Battle -> BOOLEAN]
    /\ slot \in [Slot -> SlotRow]
    /\ stalled \subseteq Worker
    /\ faults \in [FaultKind -> Nat]

Init ==
    /\ job = [b \in Battle |-> NewJob]
    /\ battle = [b \in Battle |-> [status |-> "scheduled", claimedBy |-> NoOwner,
                                   lease |-> 0, result |-> NoResult]]
    /\ announced = [b \in Battle |-> FALSE]
    /\ file = [b \in Battle |-> NoOwner]
    /\ richStats = [b \in Battle |-> FALSE]
    /\ slot = [s \in Slot |-> IdleSlot]
    /\ stalled = {}
    /\ faults = [k \in FaultKind |-> 0]

-----------------------------------------------------------------------------
(* Helpers *)

(* Mutant: the owner without the attempt. *)
OwnerByWorker(s) == <<WorkerOf[s], 0>>

(* owner = workerId:jobId:attempts. *)
Owner(s) == <<WorkerOf[s], slot[s].attempt>>

(* Slot s runs and its next statement is the one at pc, for its battle b. *)
At(s, b, pc) ==
    /\ WorkerOf[s] \notin stalled
    /\ slot[s].pc = pc
    /\ slot[s].battle = b

Goto(s, pc, why) ==
    slot' = [slot EXCEPT ![s] = [@ EXCEPT !.pc = pc, !.why = why, !.renew = "no",
                                          !.aborted = FALSE, !.trxLost = FALSE]]

GoIdle(s) == slot' = [slot EXCEPT ![s] = IdleSlot]

(* An uncommitted UPDATE of the closing transaction keeps the row locked:  *)
(* an UPDATE whose WHERE the committed row satisfies waits for its COMMIT  *)
(* or ROLLBACK.  One whose WHERE the committed row fails matches nothing   *)
(* at once.                                                                *)
InTransaction(s) == slot[s].pc \in {"closing", "written"} /\ ~slot[s].trxLost
RowLocked(b) == \E s \in Slot : InTransaction(s) /\ slot[s].battle = b
NoWait(b, match) == match => ~RowLocked(b)

(* WHERE status = 'running' AND claimed_by = owner: the lease is not asked. *)
Holds(s, b) == battle[b].status = "running" /\ battle[b].claimedBy = Owner(s)

(* The WHERE of claimBattle and of markBattleForReview. *)
FreeToTake(b) ==
    battle[b].status = "scheduled" \/ (battle[b].status = "running" /\ battle[b].lease = 0)

(* What each UPDATE of battles does to its row; result is only ever set.   *)
Reserved(r, owner) == [r EXCEPT !.status = "running", !.claimedBy = owner,
                                !.lease = LeaseTicks]

Kept(r) == [r EXCEPT !.lease = LeaseTicks]

Closed(r, end) == [r EXCEPT !.status = "finished", !.lease = 0, !.result = end]

Freed(r, status) == [r EXCEPT !.status = status, !.claimedBy = NoOwner, !.lease = 0]

LeaseAged(r) == [r EXCEPT !.lease = IF @ = 0 THEN 0 ELSE @ - 1]

Strikes(kind) ==
    /\ faults["crash"] + faults["stall"] + faults["db"] + faults["session"] < MaxFaults
    /\ faults' = [faults EXCEPT ![kind] = @ + 1]

-----------------------------------------------------------------------------
(* worker.ts, runOnce: take a job *)

ClaimJob(s, b) ==
    /\ WorkerOf[s] \notin stalled
    /\ slot[s].pc = "idle"
    /\ Claimable(job[b])
    /\ Cardinality({t \in Slot : slot[t].battle = b}) < MaxAtOnce
    /\ job' = [job EXCEPT ![b] = Claimed(@, WorkerOf[s])]
    /\ slot' = [slot EXCEPT ![s] = [IdleSlot EXCEPT !.pc = "claimed", !.battle = b,
                                                    !.attempt = job[b].attempts + 1]]
    /\ UNCHANGED <<battle, announced, file, richStats, stalled, faults>>

(* Mutant: a running battle is taken without looking at its lease. *)
ClaimBattleStealing(s, b) ==
    /\ At(s, b, "claimed")
    /\ ~RowLocked(b)
    /\ battle[b].status \in {"scheduled", "running"}
    /\ battle' = [battle EXCEPT ![b] = Reserved(@, Owner(s))]
    /\ Goto(s, "reserved", "none")
    /\ UNCHANGED <<job, announced, file, richStats, stalled, faults>>

(* claimBattle: the conditional UPDATE takes the battle ... *)
ClaimBattle(s, b) ==
    /\ At(s, b, "claimed")
    /\ ~RowLocked(b)
    /\ FreeToTake(b)
    /\ battle' = [battle EXCEPT ![b] = Reserved(@, Owner(s))]
    /\ Goto(s, "reserved", "none")
    /\ UNCHANGED <<job, announced, file, richStats, stalled, faults>>

(* ... or matches no row, and the handler looks again to see why. *)
MissBattle(s, b) ==
    /\ At(s, b, "claimed")
    /\ ~FreeToTake(b)
    /\ Goto(s, "missed", "none")
    /\ UNCHANGED <<job, battle, announced, file, richStats, stalled, faults>>

(* Mutant: a busy battle counts as done, somebody else is at it. *)
AfterMissQuiet(b) ==
    IF battle[b].status = "finished" THEN <<"stats", "none">> ELSE <<"complete", "none">>

(* The row read after the miss: finished, only the statistics may be       *)
(* missing; failed, nothing to do; anything else, battle_busy.             *)
AfterMiss(b) ==
    CASE battle[b].status = "finished" -> <<"stats", "none">>
      [] battle[b].status = "failed"   -> <<"complete", "none">>
      [] OTHER                         -> <<"fail", "busy">>

ReadAfterMiss(s, b) ==
    /\ At(s, b, "missed")
    /\ Goto(s, AfterMiss(b)[1], AfterMiss(b)[2])
    /\ UNCHANGED <<job, battle, announced, file, richStats, stalled, faults>>

(* The participants are read before the try of the handler. *)
LoadParticipants(s, b) ==
    /\ At(s, b, "reserved")
    /\ Goto(s, "running", "none")
    /\ UNCHANGED <<job, battle, announced, file, richStats, stalled, faults>>

(* A query outside that try fails: not classified, and nobody releases.    *)
QueryFails(s, b) ==
    /\ \E pc \in {"claimed", "missed", "reserved", "stats"} : At(s, b, pc)
    /\ Strikes("db")
    /\ Goto(s, "fail", "unclassified")
    /\ UNCHANGED <<job, battle, announced, file, richStats, stalled>>

-----------------------------------------------------------------------------
(* renewBattleLease, every leaseMs/3 while the battle runs: two UPDATEs    *)

RenewLease(s, b) ==
    /\ At(s, b, "running")
    /\ slot[s].renew = "no"
    /\ NoWait(b, Holds(s, b))
    /\ IF Holds(s, b)
       THEN /\ battle' = [battle EXCEPT ![b] = Kept(@)]
            /\ slot' = [slot EXCEPT ![s] = [@ EXCEPT !.renew = "kept"]]
       ELSE /\ slot' = [slot EXCEPT ![s] = [@ EXCEPT !.renew = "lost"]]
            /\ UNCHANGED battle
    /\ UNCHANGED <<job, announced, file, richStats, stalled, faults>>

(* The job row is renewed even when the battle was lost; then the executor *)
(* is aborted.                                                             *)
RenewLock(s, b) ==
    /\ At(s, b, "running")
    /\ slot[s].renew # "no"
    /\ job' = [job EXCEPT ![b] = Renewed(@, WorkerOf[s])]
    /\ slot' = [slot EXCEPT ![s] = [@ EXCEPT !.renew = "no",
                        !.aborted = slot[s].aborted \/ slot[s].renew = "lost"]]
    /\ UNCHANGED <<battle, announced, file, richStats, stalled, faults>>

-----------------------------------------------------------------------------
(* The executor ends *)

(* Lost the reservation: battle_busy; the catch tries to release anyway. *)
Abort(s, b) ==
    /\ At(s, b, "running")
    /\ slot[s].aborted
    /\ Goto(s, "release", "busy")
    /\ UNCHANGED <<job, battle, announced, file, richStats, stalled, faults>>

(* Mutant: the replay is ingested before the reservation is verified. *)
BeginCloseIngesting(s, b, end) ==
    /\ At(s, b, "running")
    /\ NoWait(b, Holds(s, b))
    /\ end = "walkover" \/ ~slot[s].aborted
    /\ file' = [file EXCEPT ![b] = IF end \in Played THEN Owner(s) ELSE @]
    /\ IF Holds(s, b) THEN Goto(s, "closing", end) ELSE Goto(s, "fail", "busy")
    /\ UNCHANGED <<job, battle, announced, richStats, stalled, faults>>

(* The first statement of finishBattle's transaction.  A walkover is       *)
(* decided before the executor starts and does not look at the signal.     *)
BeginClose(s, b, end) ==
    /\ At(s, b, "running")
    /\ NoWait(b, Holds(s, b))
    /\ end = "walkover" \/ ~slot[s].aborted
    /\ IF Holds(s, b) THEN Goto(s, "closing", end) ELSE Goto(s, "fail", "busy")
    /\ UNCHANGED <<job, battle, announced, file, richStats, stalled, faults>>

(* A technical failure: of the executor (infrastructure; busy if it was    *)
(* aborted), or of a query of the handler (not classified).                *)
ExecutionFails(s, b, class) ==
    /\ At(s, b, "running")
    /\ class = "infrastructure" => ~slot[s].aborted
    /\ Goto(s, "release", class)
    /\ UNCHANGED <<job, battle, announced, file, richStats, stalled, faults>>

-----------------------------------------------------------------------------
(* finishBattle: the rest of the transaction *)

(* ingestReplay overwrites the file whatever becomes of the transaction. *)
IngestReplay(s, b) ==
    /\ At(s, b, "closing")
    /\ slot[s].why \in Played
    /\ file' = [file EXCEPT ![b] = Owner(s)]
    /\ slot' = [slot EXCEPT ![s] = [@ EXCEPT !.pc = "written"]]
    /\ UNCHANGED <<job, battle, announced, richStats, stalled, faults>>

(* COMMIT makes everything visible at once: result, outcomes, and the      *)
(* process_result job.  claimed_by stays.  A sporting failure and a        *)
(* walkover skip the statistics.                                           *)
Commit(s, b) ==
    /\ IF slot[s].why \in Played THEN At(s, b, "written") ELSE At(s, b, "closing")
    /\ ~slot[s].trxLost
    /\ battle' = [battle EXCEPT ![b] = Closed(@, slot[s].why)]
    /\ announced' = [announced EXCEPT ![b] = TRUE]
    /\ Goto(s, IF slot[s].why \in Played THEN "stats" ELSE "complete", slot[s].why)
    /\ UNCHANGED <<job, file, richStats, stalled, faults>>

(* A statement of the transaction fails (the replay is refused, the        *)
(* connection breaks): ROLLBACK, the error is not classified.              *)
Rollback(s, b) ==
    /\ At(s, b, "closing") \/ At(s, b, "written")
    /\ IF slot[s].trxLost THEN UNCHANGED faults ELSE Strikes("db")
    /\ Goto(s, "release", "unclassified")
    /\ UNCHANGED <<job, battle, announced, file, richStats, stalled>>

-----------------------------------------------------------------------------
(* releaseBattleClaim, and the failures of the job *)

(* Mutant: a failed execution keeps its reservation. *)
ReleaseForgotten(s, b) ==
    /\ At(s, b, "release")
    /\ Goto(s, "fail", slot[s].why)
    /\ UNCHANGED <<job, battle, announced, file, richStats, stalled, faults>>

ReleaseClaim(s, b) ==
    /\ At(s, b, "release")
    /\ NoWait(b, Holds(s, b))
    /\ battle' = [battle EXCEPT ![b] = IF Holds(s, b) THEN Freed(@, "scheduled") ELSE @]
    /\ Goto(s, "fail", slot[s].why)
    /\ UNCHANGED <<job, announced, file, richStats, stalled, faults>>

(* The release of the inner catch (a failed execution) throws, and the     *)
(* outer catch tries again; there the error is swallowed.                  *)
ReleaseLost(s, b) ==
    /\ At(s, b, "release")
    /\ Strikes("db")
    /\ IF slot[s].why = "infrastructure" THEN Goto(s, "release", "unclassified")
                                         ELSE Goto(s, "fail", slot[s].why)
    /\ UNCHANGED <<job, battle, announced, file, richStats, stalled>>

FailJob(s, b) ==
    /\ At(s, b, "fail")
    /\ LET unclassified == slot[s].why = "unclassified" IN
       /\ job' = [job EXCEPT ![b] = IF unclassified THEN FailedUnclassified(@)
                                    ELSE FailedInfrastructure(@, slot[s].attempt)]
       /\ IF unclassified \/ Exhausted(slot[s].attempt) THEN Goto(s, "review", "none")
                                                        ELSE GoIdle(s)
    /\ UNCHANGED <<battle, announced, file, richStats, stalled, faults>>

(* onExhausted = markBattleForReview. *)
MarkForReview(s, b) ==
    /\ At(s, b, "review")
    /\ NoWait(b, FreeToTake(b))
    /\ battle' = [battle EXCEPT ![b] = IF FreeToTake(b) THEN Freed(@, "failed") ELSE @]
    /\ GoIdle(s)
    /\ UNCHANGED <<job, announced, file, richStats, stalled, faults>>

-----------------------------------------------------------------------------
(* ensureRichStats and completeJob *)

EnsureStats(s, b) ==
    /\ At(s, b, "stats")
    /\ richStats' = [richStats EXCEPT ![b] = @ \/ battle[b].result \in Played]
    /\ Goto(s, "complete", slot[s].why)
    /\ UNCHANGED <<job, battle, announced, file, stalled, faults>>

StatsFail(s, b) ==
    /\ At(s, b, "stats")
    /\ battle[b].result \in Played
    /\ Goto(s, "fail", "infrastructure")
    /\ UNCHANGED <<job, battle, announced, file, richStats, stalled, faults>>

CompleteJob(s, b) ==
    /\ At(s, b, "complete")
    /\ job' = [job EXCEPT ![b] = Completed(@)]
    /\ GoIdle(s)
    /\ UNCHANGED <<battle, announced, file, richStats, stalled, faults>>

(* The database refuses the last statement of runOnce.  completeJob is     *)
(* inside the try: its error counts as not classified.  In the catch the   *)
(* error leaves runOnce, loop() swallows it and the row stays as it was.   *)
JobWriteLost(s, b) ==
    /\ \E pc \in {"complete", "fail", "review"} : At(s, b, pc)
    /\ Strikes("db")
    /\ IF slot[s].pc = "complete" /\ slot[s].why # "sporting_failure"
       THEN Goto(s, "fail", "unclassified") ELSE GoIdle(s)
    /\ UNCHANGED <<job, battle, announced, file, richStats, stalled>>

-----------------------------------------------------------------------------
(* Faults and time *)

(* The process dies: its loops are gone, the server rolls back their       *)
(* transactions, its rows stay as they were.  It starts again idle.        *)
Crash(w) ==
    /\ Strikes("crash")
    /\ \E s \in Slot : WorkerOf[s] = w /\ slot[s].pc # "idle"
    /\ slot' = [s \in Slot |-> IF WorkerOf[s] = w THEN IdleSlot ELSE slot[s]]
    /\ stalled' = stalled \ {w}
    /\ UNCHANGED <<job, battle, announced, file, richStats>>

(* The process stops running for a while: a paused machine, or the event   *)
(* loop busy with the synchronous re-simulation of another battle.         *)
Stall(w) ==
    /\ w \notin stalled
    /\ \E s \in Slot : WorkerOf[s] = w /\ slot[s].pc # "idle"
    /\ Strikes("stall")
    /\ stalled' = stalled \cup {w}
    /\ UNCHANGED <<job, battle, announced, file, richStats, slot>>

Wake(w) ==
    /\ w \in stalled
    /\ stalled' = stalled \ {w}
    /\ UNCHANGED <<job, battle, announced, file, richStats, slot, faults>>

(* The server ends the session of an open transaction; the process learns  *)
(* it with its next statement.                                             *)
SessionLost(s) ==
    /\ InTransaction(s)
    /\ Strikes("session")
    /\ slot' = [slot EXCEPT ![s] = [@ EXCEPT !.trxLost = TRUE]]
    /\ UNCHANGED <<job, battle, announced, file, richStats, stalled>>

(* A process that runs gets the answer of a statement within a tick (a     *)
(* slow database is a stall), and renews every third of the lease, before  *)
(* the reservation or the lock runs out.  The re-simulation of the         *)
(* statistics renews nothing and may take any time.                        *)
MustActFirst(s) ==
    /\ WorkerOf[s] \notin stalled
    /\ \/ slot[s].pc \notin {"idle", "stats", "running"}
       \/ /\ slot[s].pc = "running"
          /\ LET b == slot[s].battle IN
             \/ Holds(s, b) /\ battle[b].lease = 1
             \/ /\ job[b].status = "running"
                /\ job[b].lockedBy = WorkerOf[s]
                /\ job[b].lock = 1

Tick ==
    /\ \A s \in Slot : ~MustActFirst(s)
    /\ \E b \in Battle : job[b].lock > 0 \/ battle[b].lease > 0
    /\ job' = [b \in Battle |-> Aged(job[b])]
    /\ battle' = [b \in Battle |-> LeaseAged(battle[b])]
    /\ UNCHANGED <<announced, file, richStats, slot, stalled, faults>>

-----------------------------------------------------------------------------
(* The executor always ends: the battle has a time limit. *)
ExecutionEnds(s, b) ==
    \/ Abort(s, b)
    \/ \E end \in EndReason : BeginClose(s, b, end)
    \/ \E class \in {"infrastructure", "unclassified"} : ExecutionFails(s, b, class)

(* The one statement a slot that is not executing has next. *)
NextStatement(s, b) ==
    \/ ClaimBattle(s, b) \/ MissBattle(s, b) \/ ReadAfterMiss(s, b) \/ LoadParticipants(s, b)
    \/ IngestReplay(s, b) \/ Commit(s, b)
    \/ ReleaseClaim(s, b) \/ FailJob(s, b) \/ MarkForReview(s, b)
    \/ EnsureStats(s, b) \/ StatsFail(s, b) \/ CompleteJob(s, b)

Renewal(s, b) == RenewLease(s, b) \/ RenewLock(s, b)

DatabaseError(s, b) ==
    QueryFails(s, b) \/ Rollback(s, b) \/ ReleaseLost(s, b) \/ JobWriteLost(s, b)

Next ==
    \/ \E s \in Slot, b \in Battle :
          \/ ClaimJob(s, b)
          \/ NextStatement(s, b)
          \/ Renewal(s, b)
          \/ ExecutionEnds(s, b)
          \/ DatabaseError(s, b)
    \/ \E w \in Worker : Crash(w) \/ Stall(w) \/ Wake(w)
    \/ \E s \in Slot : SessionLost(s)
    \/ Tick

Spec == Init /\ [][Next]_vars

(* Loops poll, statements return, executors end, paused processes come     *)
(* back and clocks advance.  Faults are never owed.                        *)
Fairness ==
    /\ \A s \in Slot, b \in Battle :
          /\ WF_vars(ClaimJob(s, b))
          /\ WF_vars(NextStatement(s, b) \/ (slot[s].trxLost /\ Rollback(s, b)))
          /\ WF_vars(Renewal(s, b))
          /\ WF_vars(ExecutionEnds(s, b))
    /\ \A w \in Worker : WF_vars(Wake(w))
    /\ WF_vars(Tick)

FairSpec == Spec /\ Fairness

-----------------------------------------------------------------------------
(* Properties *)

Settled(b) == battle[b].status \in {"finished", "failed"}

(* A battle is closed exactly once: whatever late worker, retry or review  *)
(* comes afterwards, its row never changes again (finishBattle).           *)
FinishedStays ==
    [][\A b \in Battle : battle[b].status = "finished" => battle'[b] = battle[b]]_vars

(* The result and its process_result job come in one COMMIT: no finished   *)
(* battle the rankings never hear of, no announcement without a result.    *)
AnnouncedWithResult ==
    \A b \in Battle : /\ announced[b] <=> battle[b].status = "finished"
                      /\ announced[b] <=> battle[b].result # NoResult

(* A job that says done leaves nothing to do: its battle is settled, and   *)
(* a battle that was played has its statistics, also when the worker died  *)
(* between the COMMIT and the statistics (the idempotent path).            *)
DoneMeansSettled ==
    \A b \in Battle : job[b].status = "done" =>
        /\ Settled(b)
        /\ battle[b].result \in Played => richStats[b]

(* Of all the loops that ever took the job, at most one can still renew,   *)
(* release or close the battle (owner = workerId:jobId:attempts).          *)
HolderUnique ==
    \A b \in Battle : \A s, t \in Slot :
        /\ slot[s].battle = b /\ Holds(s, b)
        /\ slot[t].battle = b /\ Holds(t, b)
        => s = t

(* A losing finalizer never overwrites the replay file of the winner       *)
(* (finishBattle ingests with the row locked).  A process that comes back  *)
(* after the server ended its session holds no lock any more and may: this *)
(* is about battles for which no session is lost.                          *)
ReplayOfWinner ==
    faults["session"] = 0 =>
        \A b \in Battle : battle[b].result \in Played => file[b] = battle[b].claimedBy

(* The inductive invariant behind them.  A loop in the middle of a job:     *)
(* its attempt is one the row has counted and no other loop has.           *)
Attempts ==
    \A s \in Slot, b \in Battle : slot[s].battle = b =>
        /\ slot[s].attempt \in 1..job[b].attempts
        /\ \A t \in Slot : slot[t].battle = b /\ slot[t].attempt = slot[s].attempt => s = t

(* What the place of a loop in the handler says of the rows. *)
Place(s) ==
    /\ slot[s].pc = "idle" <=> slot[s].battle = NoBattle
    /\ slot[s].pc = "closing" => slot[s].why \in EndReason
    /\ slot[s].pc = "written" => slot[s].why \in Played
    /\ slot[s].trxLost => faults["session"] > 0
    /\ \A b \in Battle : slot[s].battle = b =>
          /\ InTransaction(s) => Holds(s, b)
          /\ slot[s].pc = "written" /\ faults["session"] = 0 => file[b] = Owner(s)
          /\ slot[s].pc = "stats" => battle[b].status = "finished"
          /\ slot[s].pc = "complete" =>
                Settled(b) /\ (battle[b].result \in Played => richStats[b])

Places == \A s \in Slot : Place(s)

Rows ==
    \A b \in Battle :
        /\ battle[b].status # "running" => battle[b].lease = 0
        /\ battle[b].result \in Played /\ faults["session"] = 0 => file[b] = battle[b].claimedBy

IInv == TypeOK /\ Attempts /\ Places /\ Rows /\ AnnouncedWithResult /\ DoneMeansSettled

(* The workers implement the life cycle the documentation promises: while  *)
(* a lease lives nobody else claims the battle and no review closes it, so *)
(* that it changes hands only over an expired lease or a release.          *)
Lifecycle ==
    INSTANCE BattleLifecycle WITH
        status  <- [b \in Battle |-> battle[b].status],
        holder  <- [b \in Battle |-> battle[b].claimedBy],
        Holder  <- Worker \X (Nat \ {0}),
        NoHolder <- NoOwner,
        live    <- [b \in Battle |-> battle[b].lease > 0],
        outcome <- [b \in Battle |-> battle[b].result],
        Outcome <- EndReason,
        NoOutcome <- NoResult

KeepsLifecycle == Lifecycle!Spec

(* Every battle is settled or ends in front of a person: it never depends  *)
(* for ever on a job that nobody will take.                                *)
SettledOrReviewed ==
    \A b \in Battle : <>[](Settled(b) \/ job[b].status = "needs_review")

(* While no process dies or stops and no statement is refused, every       *)
(* battle ends by itself, also when every execution fails.                 *)
SettledWithoutFaults ==
    [](\A k \in FaultKind : faults[k] = 0) => \A b \in Battle : <>Settled(b)
=============================================================================
