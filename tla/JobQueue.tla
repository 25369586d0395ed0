------------------------------ MODULE JobQueue ------------------------------
(***************************************************************************)
(* Rows of the PostgreSQL table jobs, and what each statement of queue.ts  *)
(* does to one row.  The table is the queue: every handler claims, renews, *)
(* completes or fails its row through these operators.                     *)
(*                                                                         *)
(* locked_at is kept as "lock", the ticks left until the row counts as     *)
(* orphaned (locked_at older than lockTimeoutMs); run_after, last_error    *)
(* and error_class are left out: a backoff only delays a claim, and a      *)
(* claim may be late anyway.                                               *)
(***************************************************************************)
EXTENDS Naturals

CONSTANTS
    Worker,         \* the worker processes (workerId)
    NoWorker,       \* SQL NULL in locked_by and claimed_by
    MaxAttempts,    \* jobs.max_attempts
    LockTicks       \* lockTimeoutMs

ASSUME QueueAssumption ==
    /\ NoWorker \notin Worker
    /\ MaxAttempts \in Nat \ {0}
    /\ LockTicks \in Nat \ {0}

JobStatus == {"queued", "running", "done", "needs_review"}

JobRow == [status   : JobStatus,
           lockedBy : Worker \cup {NoWorker},
           lock     : 0..LockTicks,
           attempts : Nat]

(* A row just inserted by enqueueJob. *)
NewJob == [status |-> "queued", lockedBy |-> NoWorker, lock |-> 0, attempts |-> 0]

(* Mutant: the rows of dead workers are left alone. *)
ClaimableQueued(j) == j.status = "queued"

(* The WHERE of claimJob: queued, or running with a lock gone stale. *)
Claimable(j) == j.status = "queued" \/ (j.status = "running" /\ j.lock = 0)

(* claimJob: attempts grows on EVERY claim, also when an orphan is taken. *)
Claimed(j, w) == [status   |-> "running", lockedBy |-> w,
                  lock     |-> LockTicks, attempts |-> j.attempts + 1]

(* The second UPDATE of renewBattleLease: it asks for the worker, not for   *)
(* the attempt that holds the row.                                         *)
Renewed(j, w) == IF j.status = "running" /\ j.lockedBy = w
                 THEN [j EXCEPT !.lock = LockTicks] ELSE j

(* completeJob and the failures update by id alone: nobody checks locked_by. *)
Unlocked(j, status) == [status   |-> status, lockedBy |-> NoWorker,
                        lock     |-> 0,      attempts |-> j.attempts]

Completed(j) == Unlocked(j, "done")

(* failJobInfrastructure decides with the attempts of the row it CLAIMED.   *)
Exhausted(attempt) == attempt >= MaxAttempts

FailedInfrastructure(j, attempt) ==
    Unlocked(j, IF Exhausted(attempt) THEN "needs_review" ELSE "queued")

FailedUnclassified(j) == Unlocked(j, "needs_review")

(* One unit of time passes over a row. *)
Aged(j) == [j EXCEPT !.lock = IF @ = 0 THEN 0 ELSE @ - 1]
=============================================================================
