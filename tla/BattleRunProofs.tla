---------------------------- MODULE BattleRunProofs ----------------------------
(***************************************************************************)
(* Proofs about BattleRun, for any number of battles, loops, processes,    *)
(* retries and faults.                                                     *)
(***************************************************************************)
EXTENDS BattleRun, TLAPS

USE QueueAssumption, BattleRunAssumption

(* The statements of the queue keep a row a row. *)
LEMMA QueueTypes ==
    ASSUME NEW j \in JobRow, NEW w \in Worker, NEW n \in Nat
    PROVE  /\ Claimed(j, w) \in JobRow
           /\ Renewed(j, w) \in JobRow
           /\ Completed(j) \in JobRow
           /\ FailedInfrastructure(j, n) \in JobRow
           /\ FailedUnclassified(j) \in JobRow
  BY DEF JobRow, JobStatus, Claimed, Renewed, Completed, FailedInfrastructure,
         FailedUnclassified, Unlocked

LEMMA AgedType ==
    ASSUME NEW j \in JobRow
    PROVE  Aged(j) \in JobRow /\ Aged(j).attempts = j.attempts /\ Aged(j).status = j.status
  BY DEF JobRow, JobStatus, Aged

(* They also never lower the attempts, and only CompleteJob says done. *)
LEMMA QueueAttempts ==
    ASSUME NEW j \in JobRow, NEW w \in Worker, NEW n \in Nat
    PROVE  /\ Claimed(j, w).attempts = j.attempts + 1
           /\ Claimed(j, w).status # "done"
           /\ Renewed(j, w).attempts = j.attempts
           /\ Renewed(j, w).status = j.status
           /\ Completed(j).attempts = j.attempts
           /\ FailedInfrastructure(j, n).attempts = j.attempts
           /\ FailedInfrastructure(j, n).status # "done"
           /\ FailedUnclassified(j).attempts = j.attempts
           /\ FailedUnclassified(j).status # "done"
  BY DEF JobRow, JobStatus, Claimed, Renewed, Completed, FailedInfrastructure,
         FailedUnclassified, Unlocked

(* Only Closed sets the result; the lease and the owner go with the status. *)
LEMMA BattleFields ==
    ASSUME NEW r \in BattleRow
    PROVE  /\ \A owner : LET q == Reserved(r, owner) IN
                 /\ q.result = r.result /\ q.status = "running"
                 /\ q.claimedBy = owner /\ q.lease = LeaseTicks
           /\ LET q == Kept(r) IN
                 /\ q.result = r.result /\ q.status = r.status
                 /\ q.claimedBy = r.claimedBy /\ q.lease = LeaseTicks
           /\ \A end : LET q == Closed(r, end) IN
                 q.result = end /\ q.status = "finished" /\ q.claimedBy = r.claimedBy /\ q.lease = 0
           /\ \A status : LET q == Freed(r, status) IN
                 q.result = r.result /\ q.status = status /\ q.lease = 0
                 /\ q.claimedBy = NoOwner
           /\ LET q == LeaseAged(r) IN
                 /\ q.result = r.result /\ q.status = r.status /\ q.claimedBy = r.claimedBy
                 /\ r.lease = 0 => q.lease = 0
                 /\ q.lease <= r.lease
  BY DEF BattleRow, Reserved, Kept, Closed, Freed, LeaseAged

LEMMA AfterMissType ==
    ASSUME NEW b \in Battle
    PROVE  \/ AfterMiss(b) = <<"stats", "none">> /\ battle[b].status = "finished"
           \/ AfterMiss(b) = <<"complete", "none">> /\ battle[b].status = "failed"
           \/ AfterMiss(b) = <<"fail", "busy">>
  BY DEF AfterMiss

LEMMA GotoType ==
    ASSUME slot \in [Slot -> SlotRow], NEW s \in Slot, NEW pc \in PC, NEW why \in Why,
           Goto(s, pc, why)
    PROVE  slot' \in [Slot -> SlotRow]
  BY ZenonT(60), SMTT(60) DEF Goto, SlotRow

LEMMA IdleType == IdleSlot \in SlotRow
  BY DEF IdleSlot, SlotRow, PC, Why

LEMMA OwnerType ==
    ASSUME TypeOK, NEW s \in Slot
    PROVE  Owner(s) \in (Worker \cup {NoWorker}) \X Nat
  BY DEF TypeOK, Owner, SlotRow

LEMMA NoOwnerType == NoOwner \in (Worker \cup {NoWorker}) \X Nat
  BY DEF NoOwner

(* The same for the UPDATEs of battles. *)
LEMMA BattleTypes ==
    ASSUME NEW r \in BattleRow
    PROVE  /\ \A owner \in (Worker \cup {NoWorker}) \X Nat : Reserved(r, owner) \in BattleRow
           /\ Kept(r) \in BattleRow
           /\ \A end \in EndReason : Closed(r, end) \in BattleRow
           /\ Freed(r, "scheduled") \in BattleRow /\ Freed(r, "failed") \in BattleRow
           /\ LeaseAged(r) \in BattleRow
  <1>1. LeaseTicks \in 0..LeaseTicks /\ 0 \in 0..LeaseTicks
    OBVIOUS
  <1>2. r.lease \in 0..LeaseTicks
    BY DEF BattleRow
  <1>3. (IF r.lease = 0 THEN 0 ELSE r.lease - 1) \in 0..LeaseTicks
    BY <1>2
  <1> QED
    BY <1>1, <1>3, NoOwnerType DEF BattleRow, Reserved, Kept, Closed, Freed, LeaseAged

-----------------------------------------------------------------------------
(* Type correctness *)

LEMMA InitType == Init => TypeOK
  <1> SUFFICES ASSUME Init PROVE TypeOK
    OBVIOUS
  <1>1. NewJob \in JobRow
    BY DEF NewJob, JobRow, JobStatus
  <1>2. [status |-> "scheduled", claimedBy |-> NoOwner, lease |-> 0, result |-> NoResult]
            \in BattleRow
    BY NoOwnerType DEF BattleRow
  <1> QED
    BY <1>1, <1>2, NoOwnerType, IdleType DEF Init, TypeOK, FaultKind

(* The steps that only move the loop. *)
LEMMA MoveType ==
    ASSUME TypeOK, slot' \in [Slot -> SlotRow],
           faults' \in [FaultKind -> Nat],
           UNCHANGED <<job, battle, announced, file, richStats, stalled>>
    PROVE  TypeOK'
  BY DEF TypeOK

LEMMA StrikesType ==
    ASSUME TypeOK, NEW k \in FaultKind, Strikes(k)
    PROVE  faults' \in [FaultKind -> Nat]
  BY DEF TypeOK, Strikes

LEMMA StatementType ==
    ASSUME TypeOK, Places, NEW s \in Slot, NEW b \in Battle, NextStatement(s, b)
    PROVE  TypeOK'
  <1>0. /\ slot \in [Slot -> SlotRow] /\ slot[s] \in SlotRow
        /\ slot[s].why \in Why /\ slot[s].attempt \in Nat
        /\ battle[b] \in BattleRow
    BY DEF TypeOK, SlotRow
  <1>1. CASE ClaimBattle(s, b)
    <2>1. slot' \in [Slot -> SlotRow]
      BY <1>0, <1>1, GotoType DEF ClaimBattle, PC, Why
    <2>2. battle' \in [Battle -> BattleRow]
      BY <1>0, <1>1, BattleTypes, OwnerType DEF ClaimBattle, TypeOK
    <2> QED
      BY <1>1, <2>1, <2>2 DEF ClaimBattle, TypeOK
  <1>2. CASE MissBattle(s, b)
    <2>1. slot' \in [Slot -> SlotRow]
      BY <1>0, <1>2, GotoType DEF MissBattle, PC, Why
    <2> QED
      BY <1>2, <2>1 DEF MissBattle, TypeOK
  <1>3. CASE ReadAfterMiss(s, b)
    <2>1. AfterMiss(b)[1] \in PC /\ AfterMiss(b)[2] \in Why
      BY AfterMissType DEF PC, Why
    <2>2. slot' \in [Slot -> SlotRow]
      BY <1>0, <1>3, <2>1, GotoType DEF ReadAfterMiss
    <2> QED
      BY <1>3, <2>2 DEF ReadAfterMiss, TypeOK
  <1>4. CASE IngestReplay(s, b)
    <2>1. slot' \in [Slot -> SlotRow]
      BY <1>0, <1>4 DEF IngestReplay, SlotRow, PC
    <2>2. file' \in [Battle -> (Worker \cup {NoWorker}) \X Nat]
      BY <1>4, OwnerType DEF IngestReplay, TypeOK
    <2> QED
      BY <1>4, <2>1, <2>2 DEF IngestReplay, TypeOK
  <1>5. CASE Commit(s, b)
    <2>1. slot' \in [Slot -> SlotRow]
      <3>1. CASE slot[s].why \in Played
        <4>1. Goto(s, "stats", slot[s].why)
          BY <1>5, <3>1 DEF Commit
        <4> QED
          BY <1>0, <4>1, GotoType DEF PC
      <3>2. CASE slot[s].why \notin Played
        <4>1. Goto(s, "complete", slot[s].why)
          BY <1>5, <3>2 DEF Commit
        <4> QED
          BY <1>0, <4>1, GotoType DEF PC
      <3> QED
        BY <3>1, <3>2
    <2>2. battle' \in [Battle -> BattleRow]
      <3>1. slot[s].why \in EndReason
        BY <1>5 DEF Commit, At, Places, Place, EndReason
      <3>2. Closed(battle[b], slot[s].why) \in BattleRow
        BY <1>0, <3>1, BattleTypes
      <3> QED
        BY <1>5, <3>2 DEF Commit, TypeOK
    <2> QED
      BY <1>5, <2>1, <2>2 DEF Commit, TypeOK
  <1>6. CASE ReleaseClaim(s, b)
    <2>1. slot' \in [Slot -> SlotRow]
      BY <1>0, <1>6, GotoType DEF ReleaseClaim, PC
    <2>2. battle' \in [Battle -> BattleRow]
      <3>1. Freed(battle[b], "scheduled") \in BattleRow
        BY <1>0, BattleTypes
      <3> QED
        BY <1>0, <1>6, <3>1 DEF ReleaseClaim, TypeOK
    <2> QED
      BY <1>6, <2>1, <2>2 DEF ReleaseClaim, TypeOK
  <1>7. CASE FailJob(s, b)
    <2>1. slot' \in [Slot -> SlotRow]
      <3>1. Goto(s, "review", "none") \/ GoIdle(s)
        BY <1>7 DEF FailJob
      <3> QED
        BY <1>0, <3>1, GotoType, IdleType DEF PC, Why, GoIdle
    <2>2. job' \in [Battle -> JobRow]
      <3>1. job[b] \in JobRow /\ WorkerOf[s] \in Worker
        BY DEF TypeOK
      <3> QED
        BY <1>0, <1>7, <3>1, QueueTypes DEF FailJob, TypeOK
    <2> QED
      BY <1>7, <2>1, <2>2 DEF FailJob, TypeOK
  <1>8. CASE MarkForReview(s, b)
    <2>1. slot' \in [Slot -> SlotRow]
      BY <1>0, <1>8, IdleType DEF MarkForReview, GoIdle
    <2>2. battle' \in [Battle -> BattleRow]
      <3>1. Freed(battle[b], "failed") \in BattleRow
        BY <1>0, BattleTypes
      <3> QED
        BY <1>0, <1>8, <3>1 DEF MarkForReview, TypeOK
    <2> QED
      BY <1>8, <2>1, <2>2 DEF MarkForReview, TypeOK
  <1>9. CASE EnsureStats(s, b)
    <2>1. slot' \in [Slot -> SlotRow]
      BY <1>0, <1>9, GotoType DEF EnsureStats, PC
    <2> QED
      BY <1>9, <2>1 DEF EnsureStats, TypeOK
  <1>10. CASE StatsFail(s, b)
    <2>1. slot' \in [Slot -> SlotRow]
      BY <1>0, <1>10, GotoType DEF StatsFail, PC, Why
    <2> QED
      BY <1>10, <2>1 DEF StatsFail, TypeOK
  <1>11. CASE CompleteJob(s, b)
    <2>1. slot' \in [Slot -> SlotRow]
      BY <1>0, <1>11, IdleType DEF CompleteJob, GoIdle
    <2>2. job[b] \in JobRow /\ WorkerOf[s] \in Worker
      BY DEF TypeOK
    <2>3. job' \in [Battle -> JobRow]
      BY <1>0, <1>11, <2>2, QueueTypes DEF CompleteJob, TypeOK
    <2> QED
      BY <1>11, <2>1, <2>3 DEF CompleteJob, TypeOK
  <1>12. CASE LoadParticipants(s, b)
    <2>1. slot' \in [Slot -> SlotRow]
      BY <1>0, <1>12, GotoType DEF LoadParticipants, PC, Why
    <2> QED
      BY <1>12, <2>1 DEF LoadParticipants, TypeOK
  <1> QED
    BY <1>1, <1>2, <1>3, <1>4, <1>5, <1>6, <1>7, <1>8, <1>9, <1>10, <1>11, <1>12
       DEF NextStatement

(* After an error of the database a loop fails, releases or goes home. *)
LEMMA ErrorMoves ==
    ASSUME TypeOK, NEW s \in Slot, NEW b \in Battle, DatabaseError(s, b)
    PROVE  GoIdle(s) \/ \E pc \in {"fail", "release"}, why \in Why : Goto(s, pc, why)
  <1>1. PICK now \in Why : now = slot[s].why
    BY DEF TypeOK, SlotRow
  <1>2. CASE ReleaseLost(s, b)
    <2>1. Goto(s, "release", "unclassified") \/ Goto(s, "fail", now)
      BY <1>1, <1>2 DEF ReleaseLost, Goto
    <2> QED
      BY <2>1 DEF Why
  <1>3. CASE QueryFails(s, b) \/ Rollback(s, b) \/ JobWriteLost(s, b)
    BY <1>3 DEF QueryFails, Rollback, JobWriteLost, Why
  <1> QED
    BY <1>2, <1>3 DEF DatabaseError

LEMMA LoopType ==
    ASSUME TypeOK, NEW s \in Slot, NEW b \in Battle,
           ClaimJob(s, b) \/ Renewal(s, b) \/ ExecutionEnds(s, b) \/ DatabaseError(s, b)
    PROVE  TypeOK'
  <1>0. /\ slot \in [Slot -> SlotRow] /\ slot[s] \in SlotRow
        /\ slot[s].why \in Why /\ slot[s].attempt \in Nat
        /\ job[b] \in JobRow /\ job[b].attempts \in Nat /\ WorkerOf[s] \in Worker
        /\ battle[b] \in BattleRow
    BY DEF TypeOK, SlotRow, JobRow
  <1>1. CASE ClaimJob(s, b)
    <2>1. slot' \in [Slot -> SlotRow]
      <3>1. job[b].attempts + 1 \in Nat /\ "claimed" \in PC
        BY <1>0 DEF PC
      <3>2. [IdleSlot EXCEPT !.pc = "claimed", !.battle = b,
                             !.attempt = job[b].attempts + 1] \in SlotRow
        BY <3>1, IdleType DEF SlotRow
      <3> QED
        BY <1>0, <1>1, <3>2 DEF ClaimJob
    <2>2. job' \in [Battle -> JobRow]
      BY <1>0, <1>1, QueueTypes DEF ClaimJob, TypeOK
    <2> QED
      BY <1>1, <2>1, <2>2 DEF ClaimJob, TypeOK
  <1>2. CASE RenewLease(s, b)
    <2>1. slot' \in [Slot -> SlotRow]
      <3>1. /\ [slot[s] EXCEPT !.renew = "kept"] \in SlotRow
            /\ [slot[s] EXCEPT !.renew = "lost"] \in SlotRow
        BY <1>0 DEF SlotRow
      <3> QED
        BY <1>0, <1>2, <3>1 DEF RenewLease
    <2>2. battle' \in [Battle -> BattleRow]
      <3>1. Kept(battle[b]) \in BattleRow
        BY <1>0, BattleTypes
      <3> QED
        BY <1>2, <3>1 DEF RenewLease, TypeOK
    <2> QED
      BY <1>2, <2>1, <2>2 DEF RenewLease, TypeOK
  <1>3. CASE RenewLock(s, b)
    <2>1. slot' \in [Slot -> SlotRow]
      <3> DEFINE lost == slot[s].aborted \/ slot[s].renew = "lost"
      <3>1. slot' = [slot EXCEPT ![s] = [slot[s] EXCEPT !.renew = "no", !.aborted = lost]]
        BY <1>3, Zenon DEF RenewLock
      <3>2. lost \in BOOLEAN
        OBVIOUS
      <3> HIDE DEF lost
      <3>3. [slot[s] EXCEPT !.renew = "no", !.aborted = lost] \in SlotRow
        BY <1>0, <3>2 DEF SlotRow
      <3> QED
        BY <1>0, <3>1, <3>3
    <2>2. job' \in [Battle -> JobRow]
      BY <1>0, <1>3, QueueTypes DEF RenewLock, TypeOK
    <2> QED
      BY <1>3, <2>1, <2>2 DEF RenewLock, TypeOK
  <1>4. CASE ExecutionEnds(s, b)
    <2>1. \E pc \in PC, why \in Why : Goto(s, pc, why)
      BY <1>4 DEF ExecutionEnds, Abort, BeginClose, ExecutionFails, PC, Why
    <2>2. slot' \in [Slot -> SlotRow]
      BY <1>0, <2>1, GotoType
    <2>3. UNCHANGED <<job, battle, announced, file, richStats, stalled, faults>>
      BY <1>4 DEF ExecutionEnds, Abort, BeginClose, ExecutionFails
    <2> QED
      BY <2>2, <2>3 DEF TypeOK
  <1>5. CASE DatabaseError(s, b)
    <2>1. (\E pc \in PC, why \in Why : Goto(s, pc, why)) \/ GoIdle(s)
      BY <1>5, ErrorMoves DEF PC
    <2>2. slot' \in [Slot -> SlotRow]
      BY <1>0, <2>1, GotoType, IdleType DEF GoIdle
    <2>3. UNCHANGED faults \/ Strikes("db")
      BY <1>5 DEF DatabaseError, QueryFails, Rollback, ReleaseLost, JobWriteLost
    <2>4. faults' \in [FaultKind -> Nat]
      BY <2>3, StrikesType DEF FaultKind, TypeOK
    <2>5. UNCHANGED <<job, battle, announced, file, richStats, stalled>>
      BY <1>5 DEF DatabaseError, QueryFails, Rollback, ReleaseLost, JobWriteLost
    <2> QED
      BY <2>2, <2>4, <2>5, MoveType
  <1> QED
    BY <1>1, <1>2, <1>3, <1>4, <1>5 DEF Renewal

LEMMA WorldType ==
    ASSUME TypeOK,
           \/ \E w \in Worker : Crash(w) \/ Stall(w) \/ Wake(w)
           \/ \E s \in Slot : SessionLost(s)
           \/ Tick
    PROVE  TypeOK'
  <1>1. ASSUME NEW w \in Worker, Crash(w) PROVE TypeOK'
    <2>1. faults' \in [FaultKind -> Nat]
      BY <1>1, StrikesType DEF Crash, FaultKind
    <2> QED
      BY <1>1, <2>1, IdleType DEF Crash, TypeOK
  <1>2. ASSUME NEW w \in Worker, Stall(w) PROVE TypeOK'
    <2>1. faults' \in [FaultKind -> Nat]
      BY <1>2, StrikesType DEF Stall, FaultKind
    <2> QED
      BY <1>2, <2>1 DEF Stall, TypeOK
  <1>3. ASSUME NEW w \in Worker, Wake(w) PROVE TypeOK'
    BY <1>3 DEF Wake, TypeOK
  <1>4. ASSUME NEW s \in Slot, SessionLost(s) PROVE TypeOK'
    <2>1. faults' \in [FaultKind -> Nat]
      BY <1>4, StrikesType DEF SessionLost, FaultKind
    <2>2. slot' \in [Slot -> SlotRow]
      <3>0. ASSUME NEW lost \in BOOLEAN
            PROVE  [slot[s] EXCEPT !.trxLost = lost] \in SlotRow
        <4>1. slot[s] \in SlotRow
          BY DEF TypeOK
        <4> QED
          BY <4>1 DEF SlotRow
      <3>1. [slot[s] EXCEPT !.trxLost = TRUE] \in SlotRow
        BY <3>0
      <3> QED
        BY <1>4, <3>1 DEF SessionLost, TypeOK
    <2> QED
      BY <1>4, <2>1, <2>2 DEF SessionLost, TypeOK
  <1>5. CASE Tick
    <2>1. ASSUME NEW b \in Battle PROVE Aged(job[b]) \in JobRow
      BY AgedType DEF TypeOK
    <2>2. battle' \in [Battle -> BattleRow]
      <3>1. ASSUME NEW b \in Battle PROVE LeaseAged(battle[b]) \in BattleRow
        BY BattleTypes DEF TypeOK
      <3> QED
        BY <1>5, <3>1 DEF Tick
    <2> QED
      BY <1>5, <2>1, <2>2 DEF Tick, TypeOK
  <1> QED
    BY <1>1, <1>2, <1>3, <1>4, <1>5

LEMMA TypeStep == TypeOK /\ Places /\ [Next]_vars => TypeOK'
  <1>1. TypeOK /\ UNCHANGED vars => TypeOK'
    BY DEF TypeOK, vars
  <1> QED
    BY <1>1, StatementType, LoopType, WorldType DEF Next

-----------------------------------------------------------------------------
(* The reservation *)

(* Two loops that hold the same battle are the same loop: the owner names  *)
(* the attempt, and no two loops have the same one.                        *)
LEMMA OneHolder == IInv => HolderUnique
  <1> SUFFICES ASSUME IInv, NEW b \in Battle, NEW s \in Slot, NEW t \in Slot,
                      slot[s].battle = b, Holds(s, b), slot[t].battle = b, Holds(t, b)
               PROVE  s = t
    BY DEF HolderUnique
  <1>1. slot[s].attempt = slot[t].attempt
    BY DEF Holds, Owner
  <1> QED
    BY <1>1 DEF IInv, Attempts

(* A settled battle belongs to nobody and nobody may take it. *)
LEMMA SettledIsFree ==
    ASSUME NEW b \in Battle, Settled(b)
    PROVE  ~FreeToTake(b) /\ \A s \in Slot : ~Holds(s, b)
  BY DEF Settled, FreeToTake, Holds

(* The steps that touch the rows of the battles. *)
LEMMA BattleSteps ==
    ASSUME Next
    PROVE  \/ battle' = battle
           \/ \E s \in Slot, b \in Battle :
                 \/ ClaimBattle(s, b) \/ RenewLease(s, b) \/ Commit(s, b)
                 \/ ReleaseClaim(s, b) \/ MarkForReview(s, b)
           \/ Tick
  <1>1. ASSUME NEW s \in Slot, NEW b \in Battle, NextStatement(s, b)
        PROVE  \/ battle' = battle
               \/ ClaimBattle(s, b) \/ Commit(s, b) \/ ReleaseClaim(s, b) \/ MarkForReview(s, b)
    BY <1>1 DEF NextStatement, MissBattle, ReadAfterMiss, LoadParticipants, IngestReplay,
        FailJob, EnsureStats,
                StatsFail, CompleteJob
  <1>2. ASSUME NEW s \in Slot, NEW b \in Battle, ClaimJob(s, b) \/ Renewal(s, b)
        PROVE  battle' = battle \/ RenewLease(s, b)
    BY <1>2 DEF ClaimJob, Renewal, RenewLock
  <1>3. ASSUME NEW s \in Slot, NEW b \in Battle, ExecutionEnds(s, b) \/ DatabaseError(s, b)
        PROVE  battle' = battle
    BY <1>3 DEF ExecutionEnds, Abort, BeginClose, ExecutionFails,
                DatabaseError, QueryFails, Rollback, ReleaseLost, JobWriteLost
  <1>4. ASSUME NEW w \in Worker, Crash(w) \/ Stall(w) \/ Wake(w) PROVE battle' = battle
    BY <1>4 DEF Crash, Stall, Wake
  <1>5. ASSUME NEW s \in Slot, SessionLost(s) PROVE battle' = battle
    BY <1>5 DEF SessionLost
  <1> QED
    BY <1>1, <1>2, <1>3, <1>4, <1>5 DEF Next

(* An open transaction holds its battle, so the row is not settled. *)
LEMMA CommitsHeld ==
    ASSUME IInv, NEW s \in Slot, NEW b \in Battle, Commit(s, b)
    PROVE  InTransaction(s) /\ Holds(s, b) /\ slot[s].battle = b /\ slot[s].why \in EndReason
  <1>1. InTransaction(s) /\ slot[s].battle = b
    BY DEF Commit, At, InTransaction
  <1>2. slot[s].why \in EndReason
    BY DEF Commit, At, IInv, Places, Place, EndReason
  <1> QED
    BY <1>1, <1>2 DEF IInv, Places, Place

(* Whatever a step does, a settled battle stays as it is. *)
LEMMA SettledStays ==
    ASSUME IInv, Next, NEW b \in Battle, Settled(b)
    PROVE  battle'[b] = battle[b]
  <1>0. battle \in [Battle -> BattleRow] /\ ~FreeToTake(b) /\ \A s \in Slot : ~Holds(s, b)
    BY SettledIsFree DEF IInv, TypeOK
  <1>1. ASSUME NEW s \in Slot, NEW c \in Battle, ClaimBattle(s, c) PROVE battle'[b] = battle[b]
    BY <1>0, <1>1 DEF ClaimBattle
  <1>2. ASSUME NEW s \in Slot, NEW c \in Battle, RenewLease(s, c) PROVE battle'[b] = battle[b]
    BY <1>0, <1>2 DEF RenewLease
  <1>3. ASSUME NEW s \in Slot, NEW c \in Battle, Commit(s, c) PROVE battle'[b] = battle[b]
    BY <1>0, <1>3, CommitsHeld DEF Commit
  <1>4. ASSUME NEW s \in Slot, NEW c \in Battle, ReleaseClaim(s, c) PROVE battle'[b] = battle[b]
    BY <1>0, <1>4 DEF ReleaseClaim
  <1>5. ASSUME NEW s \in Slot, NEW c \in Battle, MarkForReview(s, c) PROVE battle'[b] = battle[b]
    BY <1>0, <1>5 DEF MarkForReview
  <1>6. ASSUME Tick PROVE battle'[b] = battle[b]
    <2>1. battle[b].lease = 0
      BY DEF IInv, Rows, Settled
    <2>2. battle[b] \in BattleRow
      BY <1>0
    <2>3. LeaseAged(battle[b]) = battle[b]
      BY <2>1, <2>2 DEF LeaseAged, BattleRow
    <2> QED
      BY <1>6, <2>3 DEF Tick
  <1> QED
    BY <1>1, <1>2, <1>3, <1>4, <1>5, <1>6, BattleSteps

-----------------------------------------------------------------------------
(* The attempts *)

(* Every step but the claim leaves a loop at its job or sends it home. *)
LEMMA LoopKeepsJob ==
    ASSUME IInv, Next, NEW s \in Slot
    PROVE  \/ slot'[s].battle = slot[s].battle /\ slot'[s].attempt = slot[s].attempt
           \/ slot'[s].battle = NoBattle
           \/ \E b \in Battle : ClaimJob(s, b)
  <1> DEFINE Stays == slot'[s].battle = slot[s].battle /\ slot'[s].attempt = slot[s].attempt
             Leaves == slot'[s].battle = NoBattle
  <1>0. slot \in [Slot -> SlotRow] /\ slot[s] \in SlotRow
    BY DEF IInv, TypeOK
  <1>1. ASSUME NEW t \in Slot, NEW pc, NEW why, Goto(t, pc, why) PROVE Stays
    BY <1>0, <1>1 DEF Goto, SlotRow
  <1>2. ASSUME NEW t \in Slot, GoIdle(t) PROVE Stays \/ Leaves
    BY <1>0, <1>2 DEF GoIdle, IdleSlot
  <1>3. ASSUME NEW t \in Slot, NEW b \in Battle, NextStatement(t, b) PROVE Stays \/ Leaves
    <2>1. CASE IngestReplay(t, b)
      BY <1>0, <2>1 DEF IngestReplay, SlotRow
    <2>2. CASE GoIdle(t) \/ \E pc, why : Goto(t, pc, why)
      BY <1>1, <1>2, <2>2
    <2> QED
      BY <1>3, <2>1, <2>2 DEF NextStatement, ClaimBattle, MissBattle, ReadAfterMiss,
          LoadParticipants, Commit,
           ReleaseClaim, FailJob, MarkForReview, EnsureStats, StatsFail, CompleteJob
  <1>4. ASSUME NEW t \in Slot, NEW b \in Battle, Renewal(t, b) PROVE Stays
    <2>1. CASE RenewLease(t, b)
      BY <1>0, <2>1 DEF RenewLease, SlotRow
    <2>2. CASE RenewLock(t, b)
      <3> DEFINE lost == slot[t].aborted \/ slot[t].renew = "lost"
      <3>1. slot' = [slot EXCEPT ![t] = [slot[t] EXCEPT !.renew = "no", !.aborted = lost]]
        BY <2>2, Zenon DEF RenewLock
      <3> HIDE DEF lost
      <3> QED
        BY <1>0, <3>1 DEF SlotRow
    <2> QED
      BY <1>4, <2>1, <2>2 DEF Renewal
  <1>5. ASSUME NEW t \in Slot, NEW b \in Battle, ExecutionEnds(t, b) \/ DatabaseError(t, b)
        PROVE  Stays \/ Leaves
    <2>1. GoIdle(t) \/ \E pc, why : Goto(t, pc, why)
      BY <1>5 DEF ExecutionEnds, Abort, BeginClose, ExecutionFails,
                  DatabaseError, QueryFails, Rollback, ReleaseLost, JobWriteLost
    <2> QED
      BY <1>1, <1>2, <2>1
  <1>6. ASSUME NEW w \in Worker, Crash(w) \/ Stall(w) \/ Wake(w) PROVE Stays \/ Leaves
    BY <1>6 DEF Crash, Stall, Wake, IdleSlot
  <1>7. ASSUME NEW t \in Slot, SessionLost(t) PROVE Stays
    BY <1>0, <1>7 DEF SessionLost, SlotRow
  <1>8. ASSUME Tick PROVE Stays
    BY <1>8 DEF Tick
  <1>9. ASSUME NEW t \in Slot, NEW b \in Battle, ClaimJob(t, b), t # s PROVE Stays
    BY <1>0, <1>9 DEF ClaimJob
  <1> QED
    BY <1>3, <1>4, <1>5, <1>6, <1>7, <1>8, <1>9 DEF Next

(* Only a claim counts an attempt, and only CompleteJob says done. *)
LEMMA JobSteps ==
    ASSUME IInv, Next, NEW b \in Battle
    PROVE  /\ \/ job'[b].attempts = job[b].attempts
              \/ \E s \in Slot : ClaimJob(s, b)
           /\ \/ job'[b].status = "done" => job[b].status = "done"
              \/ \E s \in Slot : CompleteJob(s, b)
  <1> DEFINE Counted == job'[b].attempts = job[b].attempts
             NotDone == job'[b].status = "done" => job[b].status = "done"
  <1>0. job \in [Battle -> JobRow] /\ job[b] \in JobRow
    BY DEF IInv, TypeOK
  <1>1. ASSUME NEW s \in Slot, NEW c \in Battle, ClaimJob(s, c)
        PROVE  (Counted \/ c = b) /\ NotDone
    BY <1>0, <1>1, QueueAttempts DEF ClaimJob
  <1>2. ASSUME NEW s \in Slot, NEW c \in Battle, FailJob(s, c) PROVE Counted /\ NotDone
    <2>1. CASE c = b
      <3>1. slot[s].attempt \in Nat /\ WorkerOf[s] \in Worker
        BY DEF IInv, TypeOK, SlotRow
      <3>2. \/ job'[b] = FailedUnclassified(job[b])
            \/ job'[b] = FailedInfrastructure(job[b], slot[s].attempt)
        BY <1>0, <1>2, <2>1 DEF FailJob
      <3> QED
        BY <1>0, <3>1, <3>2, QueueAttempts
    <2>2. CASE c # b
      BY <1>0, <1>2, <2>2 DEF FailJob
    <2> QED
      BY <2>1, <2>2
  <1>3. ASSUME NEW s \in Slot, NEW c \in Battle, CompleteJob(s, c)
        PROVE  Counted /\ (NotDone \/ c = b)
    BY <1>0, <1>3, QueueAttempts DEF CompleteJob
  <1>4. ASSUME NEW s \in Slot, NEW c \in Battle, RenewLock(s, c) PROVE Counted /\ NotDone
    <2>1. job' = [job EXCEPT ![c] = Renewed(job[c], WorkerOf[s])]
      BY <1>4 DEF RenewLock
    <2> QED
      BY <1>0, <2>1, QueueAttempts
  <1>5. ASSUME Tick PROVE Counted /\ NotDone
    BY <1>0, <1>5, AgedType DEF Tick
  <1>6. ASSUME job' = job PROVE Counted /\ NotDone
    BY <1>6
  <1>7. ASSUME NEW s \in Slot, NEW c \in Battle, NextStatement(s, c)
        PROVE  FailJob(s, c) \/ CompleteJob(s, c) \/ job' = job
    BY <1>7 DEF NextStatement, ClaimBattle, MissBattle, ReadAfterMiss, LoadParticipants,
        IngestReplay, Commit,
                ReleaseClaim, MarkForReview, EnsureStats, StatsFail
  <1>8. ASSUME NEW s \in Slot, NEW c \in Battle, Renewal(s, c)
        PROVE  RenewLock(s, c) \/ job' = job
    BY <1>8 DEF Renewal, RenewLease
  <1>9. ASSUME NEW s \in Slot, NEW c \in Battle, ExecutionEnds(s, c) \/ DatabaseError(s, c)
        PROVE  job' = job
    BY <1>9 DEF ExecutionEnds, Abort, BeginClose, ExecutionFails,
                DatabaseError, QueryFails, Rollback, ReleaseLost, JobWriteLost
  <1>10. ASSUME NEW w \in Worker, Crash(w) \/ Stall(w) \/ Wake(w) PROVE job' = job
    BY <1>10 DEF Crash, Stall, Wake
  <1>11. ASSUME NEW s \in Slot, SessionLost(s) PROVE job' = job
    BY <1>11 DEF SessionLost
  <1> QED
    BY <1>1, <1>2, <1>3, <1>4, <1>5, <1>6, <1>7, <1>8, <1>9, <1>10, <1>11 DEF Next

LEMMA AttemptsStep == IInv /\ Next => Attempts'
  <1> SUFFICES ASSUME IInv, Next, NEW s \in Slot, NEW b \in Battle, slot'[s].battle = b
               PROVE  /\ slot'[s].attempt \in 1..job'[b].attempts
                      /\ \A t \in Slot : slot'[t].battle = b /\ slot'[t].attempt = slot'[s].attempt
                                          => s = t
    BY DEF Attempts
  <1>0. /\ slot \in [Slot -> SlotRow] /\ job[b] \in JobRow /\ job[b].attempts \in Nat
        /\ job \in [Battle -> JobRow]
        /\ \A r \in Slot : slot[r].attempt \in Nat
    BY DEF IInv, TypeOK, JobRow, SlotRow
  <1>1. ASSUME NEW r \in Slot, ClaimJob(r, b)
        PROVE  /\ slot'[r].attempt = job[b].attempts + 1 /\ slot'[r].battle = b
               /\ \A t \in Slot : t # r => slot'[t] = slot[t]
               /\ job'[b].attempts = job[b].attempts + 1
    BY <1>0, <1>1, QueueAttempts DEF ClaimJob, IdleSlot
  <1>2. CASE \E r \in Slot : ClaimJob(r, b)
    <2> PICK r \in Slot : ClaimJob(r, b)
      BY <1>2
    <2>1. ASSUME NEW t \in Slot, t # r, slot'[t].battle = b
          PROVE  slot'[t].attempt \in 1..job[b].attempts
      BY <1>1, <2>1 DEF IInv, Attempts
    <2>2. slot'[s].attempt \in 1..job'[b].attempts
      BY <1>0, <1>1, <2>1
    <2>3. ASSUME NEW t \in Slot, slot'[t].battle = b, slot'[t].attempt = slot'[s].attempt
          PROVE  s = t
      <3>1. CASE s = r \/ t = r
        BY <1>0, <1>1, <2>1, <2>3, <3>1
      <3>2. CASE s # r /\ t # r
        BY <1>1, <2>3, <3>2 DEF IInv, Attempts
      <3> QED
        BY <3>1, <3>2
    <2> QED
      BY <2>2, <2>3
  <1>3. CASE ~\E r \in Slot : ClaimJob(r, b)
    <2>1. ASSUME NEW t \in Slot, slot'[t].battle = b
          PROVE  slot[t].battle = b /\ slot'[t].attempt = slot[t].attempt
      <3>1. CASE \E c \in Battle : ClaimJob(t, c)
        <4> PICK c \in Battle : ClaimJob(t, c)
          BY <3>1
        <4>1. slot'[t].battle = c
          BY <1>0 DEF ClaimJob, IdleSlot
        <4> QED
          BY <1>3, <2>1, <4>1
      <3> QED
        BY <2>1, <3>1, LoopKeepsJob
    <2>2. job'[b].attempts = job[b].attempts
      BY <1>3, JobSteps
    <2> QED
      BY <2>1, <2>2 DEF IInv, Attempts
  <1> QED
    BY <1>2, <1>3

-----------------------------------------------------------------------------
(* The rows *)

(* Faults are counted one at a time. *)
LEMMA FaultSteps ==
    ASSUME Next
    PROVE  faults' = faults \/ \E k \in FaultKind : Strikes(k)
  <1>1. ASSUME NEW s \in Slot, NEW b \in Battle, NextStatement(s, b) PROVE faults' = faults
    BY <1>1 DEF NextStatement, ClaimBattle, MissBattle, ReadAfterMiss, LoadParticipants,
        IngestReplay, Commit,
            ReleaseClaim, FailJob, MarkForReview, EnsureStats, StatsFail, CompleteJob
  <1>2. ASSUME NEW s \in Slot, NEW b \in Battle,
               ClaimJob(s, b) \/ Renewal(s, b) \/ ExecutionEnds(s, b)
        PROVE  faults' = faults
    BY <1>2 DEF ClaimJob, Renewal, RenewLease, RenewLock, ExecutionEnds, Abort, BeginClose,
                ExecutionFails
  <1>3. ASSUME NEW s \in Slot, NEW b \in Battle, DatabaseError(s, b)
        PROVE  faults' = faults \/ Strikes("db")
    BY <1>3 DEF DatabaseError, QueryFails, Rollback, ReleaseLost, JobWriteLost
  <1>4. ASSUME NEW w \in Worker, Crash(w) \/ Stall(w) \/ Wake(w)
        PROVE  faults' = faults \/ Strikes("crash") \/ Strikes("stall")
    BY <1>4 DEF Crash, Stall, Wake
  <1>5. ASSUME NEW s \in Slot, SessionLost(s) PROVE Strikes("session")
    BY <1>5 DEF SessionLost
  <1>6. ASSUME Tick PROVE faults' = faults
    BY <1>6 DEF Tick
  <1> QED
    BY <1>1, <1>2, <1>3, <1>4, <1>5, <1>6 DEF Next, FaultKind

(* Who writes the rest: COMMIT announces, the ingest writes the replay and *)
(* EnsureStats the statistics; faults are only counted up.                 *)
LEMMA OtherSteps ==
    ASSUME IInv, Next
    PROVE  /\ announced' = announced \/ \E s \in Slot, b \in Battle : Commit(s, b)
           /\ file' = file \/ \E s \in Slot, b \in Battle : IngestReplay(s, b)
           /\ richStats' = richStats \/ \E s \in Slot, b \in Battle : EnsureStats(s, b)
           /\ faults["session"] \in Nat /\ faults'["session"] \in Nat
           /\ faults'["session"] >= faults["session"]
  <1> DEFINE Same == announced' = announced /\ file' = file /\ richStats' = richStats
             Writes(s, b) == Commit(s, b) \/ IngestReplay(s, b) \/ EnsureStats(s, b)
             Grows == faults["session"] \in Nat /\ faults'["session"] \in Nat
                          /\ faults'["session"] >= faults["session"]
  <1>0. faults \in [FaultKind -> Nat] /\ faults["session"] \in Nat
    BY DEF IInv, TypeOK, FaultKind
  <1>1. ASSUME faults' = faults PROVE Grows
    BY <1>0, <1>1
  <1>2. ASSUME NEW k \in FaultKind, Strikes(k) PROVE Grows
    BY <1>0, <1>2 DEF Strikes, FaultKind
  <1>3. Grows
    BY <1>1, <1>2, FaultSteps
  <1>4. \/ Same
        \/ \E s \in Slot, b \in Battle :
              \/ Commit(s, b) /\ file' = file /\ richStats' = richStats
              \/ IngestReplay(s, b) /\ announced' = announced /\ richStats' = richStats
              \/ EnsureStats(s, b) /\ announced' = announced /\ file' = file
    <2>1. ASSUME NEW s \in Slot, NEW b \in Battle, NextStatement(s, b)
          PROVE  \/ Same
                 \/ Commit(s, b) /\ file' = file /\ richStats' = richStats
                 \/ IngestReplay(s, b) /\ announced' = announced /\ richStats' = richStats
                 \/ EnsureStats(s, b) /\ announced' = announced /\ file' = file
      BY <2>1 DEF NextStatement, ClaimBattle, MissBattle, ReadAfterMiss, LoadParticipants,
          IngestReplay, Commit,
                ReleaseClaim, FailJob, MarkForReview, EnsureStats, StatsFail, CompleteJob
    <2>2. ASSUME NEW s \in Slot, NEW b \in Battle,
                 ClaimJob(s, b) \/ Renewal(s, b) \/ ExecutionEnds(s, b) \/ DatabaseError(s, b)
          PROVE  Same
      BY <2>2 DEF ClaimJob, Renewal, RenewLease, RenewLock, ExecutionEnds, Abort, BeginClose,
                  ExecutionFails, DatabaseError, QueryFails, Rollback, ReleaseLost, JobWriteLost
    <2>3. ASSUME NEW w \in Worker, Crash(w) \/ Stall(w) \/ Wake(w) PROVE Same
      BY <2>3 DEF Crash, Stall, Wake
    <2>4. ASSUME NEW s \in Slot, SessionLost(s) PROVE Same
      BY <2>4 DEF SessionLost
    <2>5. ASSUME Tick PROVE Same
      BY <2>5 DEF Tick
    <2> QED
      BY <2>1, <2>2, <2>3, <2>4, <2>5 DEF Next
  <1> QED
    BY <1>0, <1>3, <1>4

(* A battle that is not settled has no result, and gets one only by COMMIT. *)
LEMMA ResultSteps ==
    ASSUME IInv, Next, NEW b \in Battle, ~Settled(b)
    PROVE  /\ battle[b].result = NoResult /\ announced[b] = FALSE
           /\ \/ battle'[b].result = NoResult /\ battle'[b].status # "finished"
              \/ \E s \in Slot : Commit(s, b)
  <1>0. /\ battle \in [Battle -> BattleRow] /\ battle[b] \in BattleRow
        /\ battle[b].status \in {"scheduled", "running"}
        /\ announced \in [Battle -> BOOLEAN]
    BY DEF IInv, TypeOK, BattleRow, Settled
  <1>1. battle[b].result = NoResult /\ announced[b] = FALSE
    BY <1>0 DEF IInv, AnnouncedWithResult
  <1>2. ASSUME NEW s \in Slot, NEW c \in Battle,
               ClaimBattle(s, c) \/ RenewLease(s, c) \/ ReleaseClaim(s, c) \/ MarkForReview(s, c)
        PROVE  battle'[b].result = NoResult /\ battle'[b].status # "finished"
    <2>1. \/ battle'[b] = battle[b]
          \/ battle'[b] = Reserved(battle[b], Owner(s))
          \/ battle'[b] = Kept(battle[b])
          \/ battle'[b] = Freed(battle[b], "scheduled")
          \/ battle'[b] = Freed(battle[b], "failed")
      BY <1>0, <1>2 DEF ClaimBattle, RenewLease, ReleaseClaim, MarkForReview
    <2>2. battle[b].result = NoResult /\ battle[b].status # "finished"
      BY <1>0, <1>1
    <2> QED
      BY <1>0, <2>1, <2>2, BattleFields
  <1>3. ASSUME NEW s \in Slot, NEW c \in Battle, Commit(s, c), c # b
        PROVE  battle'[b] = battle[b]
    BY <1>0, <1>3 DEF Commit
  <1>4. ASSUME Tick
        PROVE  battle'[b].result = NoResult /\ battle'[b].status # "finished"
    BY <1>0, <1>1, <1>4, BattleFields DEF Tick
  <1>5. battle[b].status # "finished"
    BY <1>0
  <1> QED
    BY <1>1, <1>2, <1>3, <1>4, <1>5, BattleSteps

LEMMA AnnouncedStep == IInv /\ Next => AnnouncedWithResult'
  <1> SUFFICES ASSUME IInv, Next, NEW b \in Battle
               PROVE  /\ announced'[b] <=> battle'[b].status = "finished"
                      /\ announced'[b] <=> battle'[b].result # NoResult
    BY DEF AnnouncedWithResult
  <1>0. /\ battle \in [Battle -> BattleRow] /\ battle[b] \in BattleRow
        /\ announced \in [Battle -> BOOLEAN]
    BY DEF IInv, TypeOK
  <1>1. ASSUME NEW s \in Slot, Commit(s, b)
        PROVE  /\ announced'[b] = TRUE /\ battle'[b].status = "finished"
               /\ battle'[b].result # NoResult
    <2>1. slot[s].why \in EndReason
      BY <1>1, CommitsHeld
    <2> QED
      BY <1>0, <1>1, <2>1 DEF Commit, Closed, BattleRow, EndReason, Played, NoResult
  <1>2. ASSUME ~\E s \in Slot : Commit(s, b) PROVE announced'[b] = announced[b]
    BY <1>0, <1>2, OtherSteps DEF Commit
  <1>3. CASE Settled(b) /\ ~\E s \in Slot : Commit(s, b)
    BY <1>2, <1>3, SettledStays DEF IInv, AnnouncedWithResult
  <1>4. CASE ~Settled(b) /\ ~\E s \in Slot : Commit(s, b)
    BY <1>2, <1>4, ResultSteps
  <1> QED
    BY <1>1, <1>3, <1>4

(* Statistics are never taken back, and those of a settled battle only     *)
(* come, so a loop that saw nothing left to do stays right.                *)
LEMMA NothingLeftStays ==
    ASSUME IInv, Next, NEW b \in Battle, Settled(b), battle[b].result \in Played => richStats[b]
    PROVE  Settled(b)' /\ (battle'[b].result \in Played => richStats'[b])
  <1>1. battle'[b] = battle[b]
    BY SettledStays
  <1>2. ASSUME richStats[b] PROVE richStats'[b]
    <2>1. richStats \in [Battle -> BOOLEAN]
      BY DEF IInv, TypeOK
    <2>2. ASSUME NEW s \in Slot, NEW c \in Battle, EnsureStats(s, c) PROVE richStats'[b]
      <3>1. CASE c = b
        <4> DEFINE val == richStats[b] \/ battle[b].result \in Played
        <4>1. richStats' = [richStats EXCEPT ![b] = val]
          BY <2>2, <3>1, Zenon DEF EnsureStats
        <4>2. val = TRUE
          BY <1>2
        <4> HIDE DEF val
        <4> QED
          BY <2>1, <4>1, <4>2
      <3>2. CASE c # b
        <4> DEFINE val == richStats[c] \/ battle[c].result \in Played
        <4>1. richStats' = [richStats EXCEPT ![c] = val]
          BY <2>2, Zenon DEF EnsureStats
        <4> HIDE DEF val
        <4> QED
          BY <1>2, <2>1, <3>2, <4>1
      <3> QED
        BY <3>1, <3>2
    <2> QED
      BY <1>2, <2>2, OtherSteps
  <1> QED
    BY <1>1, <1>2 DEF Settled

LEMMA DoneStep == IInv /\ Next => DoneMeansSettled'
  <1> SUFFICES ASSUME IInv, Next, NEW b \in Battle, job'[b].status = "done"
               PROVE  Settled(b)' /\ (battle'[b].result \in Played => richStats'[b])
    BY DEF DoneMeansSettled
  <1>1. CASE job[b].status = "done"
    BY <1>1, NothingLeftStays DEF IInv, DoneMeansSettled
  <1>2. CASE \E s \in Slot : CompleteJob(s, b)
    <2> PICK s \in Slot : CompleteJob(s, b)
      BY <1>2
    <2>1. slot[s].battle = b /\ slot[s].pc = "complete"
      BY DEF CompleteJob, At
    <2>2. Settled(b) /\ (battle[b].result \in Played => richStats[b])
      BY <2>1 DEF IInv, Places, Place
    <2> QED
      BY <2>2, NothingLeftStays
  <1> QED
    BY <1>1, <1>2, JobSteps

(* While no session was lost, a file is only written by a loop that holds  *)
(* the battle in its transaction.                                          *)
LEMMA FileSteps ==
    ASSUME IInv, Next, faults'["session"] = 0, NEW b \in Battle
    PROVE  \/ file'[b] = file[b]
           \/ \E s \in Slot : IngestReplay(s, b) /\ InTransaction(s) /\ Holds(s, b)
  <1>1. faults["session"] = 0
    BY OtherSteps
  <1>2. ASSUME NEW s \in Slot, NEW c \in Battle, IngestReplay(s, c), c # b
        PROVE  file'[b] = file[b]
    BY <1>2 DEF IngestReplay, IInv, TypeOK
  <1>3. ASSUME NEW s \in Slot, IngestReplay(s, b) PROVE InTransaction(s) /\ Holds(s, b)
    <2>1. slot[s].pc = "closing" /\ slot[s].battle = b
      BY <1>3 DEF IngestReplay, At
    <2>2. Place(s) /\ slot[s] \in SlotRow
      BY DEF IInv, Places, TypeOK
    <2>3. ~slot[s].trxLost
      BY <1>1, <2>2 DEF Place
    <2> QED
      BY <2>1, <2>2, <2>3 DEF Place, InTransaction
  <1> QED
    BY <1>2, <1>3, OtherSteps

LEMMA RowsStep == IInv /\ Next => Rows'
  <1> SUFFICES ASSUME IInv, Next, NEW b \in Battle
               PROVE  /\ battle'[b].status # "running" => battle'[b].lease = 0
                      /\ battle'[b].result \in Played /\ faults'["session"] = 0
                             => file'[b] = battle'[b].claimedBy
    BY DEF Rows
  <1>0. battle \in [Battle -> BattleRow] /\ battle[b] \in BattleRow
    BY DEF IInv, TypeOK
  <1>1. battle'[b].status # "running" => battle'[b].lease = 0
    <2>0. battle[b].status # "running" => battle[b].lease = 0
      BY DEF IInv, Rows
    <2>1. ASSUME NEW s \in Slot, NEW c \in Battle, ClaimBattle(s, c)
          PROVE  battle'[b] = battle[b] \/ battle'[b] = Reserved(battle[b], Owner(s))
      BY <1>0, <2>1 DEF ClaimBattle
    <2>2. ASSUME NEW s \in Slot, NEW c \in Battle, RenewLease(s, c)
          PROVE  \/ battle'[b] = battle[b]
                 \/ battle[b].status = "running" /\ battle'[b] = Kept(battle[b])
      BY <1>0, <2>2 DEF RenewLease, Holds
    <2>3. ASSUME NEW s \in Slot, NEW c \in Battle, Commit(s, c)
          PROVE  battle'[b] = battle[b] \/ \E end : battle'[b] = Closed(battle[b], end)
      BY <1>0, <2>3 DEF Commit
    <2>4. ASSUME NEW s \in Slot, NEW c \in Battle, ReleaseClaim(s, c) \/ MarkForReview(s, c)
          PROVE  battle'[b] = battle[b] \/ \E status : battle'[b] = Freed(battle[b], status)
      BY <1>0, <2>4 DEF ReleaseClaim, MarkForReview
    <2>5. ASSUME Tick PROVE battle'[b] = LeaseAged(battle[b])
      BY <2>5 DEF Tick
    <2>6. \/ battle'[b] = battle[b]
          \/ \E owner : battle'[b] = Reserved(battle[b], owner)
          \/ battle[b].status = "running" /\ battle'[b] = Kept(battle[b])
          \/ \E end : battle'[b] = Closed(battle[b], end)
          \/ \E status : battle'[b] = Freed(battle[b], status)
          \/ battle'[b] = LeaseAged(battle[b])
      BY <2>1, <2>2, <2>3, <2>4, <2>5, BattleSteps
    <2> QED
      BY <1>0, <2>0, <2>6, BattleFields
  <1>2. ASSUME battle'[b].result \in Played, faults'["session"] = 0
        PROVE  file'[b] = battle'[b].claimedBy
    <2>0. faults["session"] = 0
      BY <1>2, OtherSteps
    <2>1. CASE Settled(b)
      <3>1. battle'[b] = battle[b]
        BY <2>1, SettledStays
      <3>2. file'[b] = file[b]
        BY <1>2, <2>1, FileSteps, SettledIsFree
      <3> QED
        BY <1>2, <2>0, <3>1, <3>2 DEF IInv, Rows
    <2>2. CASE ~Settled(b)
      <3>1. PICK s \in Slot : Commit(s, b)
        BY <1>2, <2>2, ResultSteps DEF Played, NoResult
      <3>2. slot[s].why \in Played
        BY <1>0, <1>2, <3>1, BattleFields DEF Commit
      <3>3. slot[s].pc = "written" /\ slot[s].battle = b /\ file' = file
        BY <3>1, <3>2 DEF Commit, At
      <3>4. file[b] = Owner(s)
        BY <2>0, <3>3 DEF IInv, Places, Place
      <3>5. battle[b].claimedBy = Owner(s)
        BY <3>1, CommitsHeld DEF Holds
      <3>6. battle'[b].claimedBy = battle[b].claimedBy
        BY <1>0, <3>1, BattleFields DEF Commit
      <3> QED
        BY <3>3, <3>4, <3>5, <3>6
    <2> QED
      BY <2>1, <2>2
  <1> QED
    BY <1>1, <1>2

-----------------------------------------------------------------------------
(* The places *)

(* Nobody touches the row of a battle another loop is closing. *)
LEMMA TransactionProtects ==
    ASSUME IInv, Next, NEW t \in Slot, NEW b \in Battle,
           slot[t].battle = b, InTransaction(t), ~Commit(t, b)
    PROVE  battle'[b].status = battle[b].status /\ battle'[b].claimedBy = battle[b].claimedBy
  <1>0. /\ battle \in [Battle -> BattleRow] /\ battle[b] \in BattleRow
        /\ RowLocked(b) /\ Holds(t, b)
    BY DEF IInv, TypeOK, RowLocked, Places, Place
  <1>1. ASSUME NEW s \in Slot, NEW c \in Battle,
               ClaimBattle(s, c) \/ RenewLease(s, c) \/ ReleaseClaim(s, c) \/ MarkForReview(s, c)
        PROVE  battle'[b] = battle[b]
    BY <1>0, <1>1 DEF ClaimBattle, RenewLease, ReleaseClaim, MarkForReview, NoWait
  <1>2. ASSUME NEW s \in Slot, NEW c \in Battle, Commit(s, c) PROVE battle'[b] = battle[b]
    <2>1. CASE c = b
      BY <1>0, <1>2, <2>1, CommitsHeld, OneHolder DEF HolderUnique
    <2>2. CASE c # b
      BY <1>0, <1>2, <2>2 DEF Commit
    <2> QED
      BY <2>1, <2>2
  <1>3. ASSUME Tick PROVE battle'[b] = LeaseAged(battle[b])
    BY <1>3 DEF Tick
  <1> QED
    BY <1>0, <1>1, <1>2, <1>3, BattleFields, BattleSteps

(* A loop that does not move keeps its place, whatever the others do. *)
LEMMA PlaceOfOthers ==
    ASSUME IInv, Next, NEW t \in Slot, slot'[t] = slot[t]
    PROVE  Place(t)'
  <1>0. Place(t) /\ slot \in [Slot -> SlotRow] /\ slot[t] \in SlotRow
    BY DEF IInv, Places, TypeOK
  <1>a. ASSUME NEW b \in Battle, Commit(t, b) PROVE FALSE
    <2>1. slot[t].pc \in {"closing", "written"}
      BY <1>a DEF Commit, At
    <2>2. slot'[t].pc \in {"stats", "complete"}
      BY <1>0, <1>a DEF Commit, Goto, SlotRow
    <2> QED
      BY <2>1, <2>2
  <1>1. slot[t].trxLost => faults'["session"] > 0
    BY <1>0, OtherSteps DEF Place
  <1>2. ASSUME NEW b \in Battle, slot[t].battle = b, InTransaction(t) PROVE Holds(t, b)'
    <2>1. Holds(t, b) /\ Owner(t)' = Owner(t)
      BY <1>0, <1>2 DEF Place, Owner
    <2> QED
      BY <1>2, <1>a, <2>1, TransactionProtects DEF Holds
  <1>3. ASSUME NEW b \in Battle, slot[t].battle = b, slot[t].pc = "written",
               faults'["session"] = 0
        PROVE  file'[b] = Owner(t)
    <2>1. faults["session"] = 0 /\ ~slot[t].trxLost
      BY <1>0, <1>3, OtherSteps DEF Place
    <2>2. file[b] = Owner(t) /\ Holds(t, b)
      BY <1>0, <1>3, <2>1 DEF Place, InTransaction
    <2>3. ASSUME NEW s \in Slot, IngestReplay(s, b), Holds(s, b) PROVE FALSE
      BY <1>3, <2>2, <2>3, OneHolder DEF IngestReplay, At, HolderUnique
    <2> QED
      BY <1>3, <2>2, <2>3, FileSteps
  <1>4. ASSUME NEW b \in Battle, slot[t].battle = b, slot[t].pc = "stats"
        PROVE  battle'[b].status = "finished"
    BY <1>0, <1>4, SettledStays DEF Place, Settled
  <1>5. ASSUME NEW b \in Battle, slot[t].battle = b, slot[t].pc = "complete"
        PROVE  Settled(b)' /\ (battle'[b].result \in Played => richStats'[b])
    BY <1>0, <1>5, NothingLeftStays DEF Place
  <1>6. InTransaction(t)' <=> InTransaction(t)
    BY DEF InTransaction
  <1>7. Owner(t)' = Owner(t)
    BY DEF Owner
  <1> QED
    BY <1>0, <1>1, <1>2, <1>3, <1>4, <1>5, <1>6, <1>7 DEF Place

(* Most places say nothing of the rows. *)
LEMMA PlainPlace ==
    ASSUME IInv, Next, NEW s \in Slot, NEW b \in Battle, slot[s].battle = b,
           NEW pc \in {"missed", "reserved", "running", "release", "fail", "review"}, NEW why,
           Goto(s, pc, why)
    PROVE  Place(s)'
  <1>1. slot'[s].pc = pc /\ slot'[s].battle = b /\ slot'[s].trxLost = FALSE
    BY DEF Goto, IInv, TypeOK, SlotRow
  <1>2. ~InTransaction(s)'
    BY <1>1 DEF InTransaction
  <1> QED
    BY <1>1, <1>2 DEF Place

LEMMA IdlePlace ==
    ASSUME NEW s \in Slot, slot'[s] = IdleSlot
    PROVE  Place(s)'
  <1>1. slot'[s].pc = "idle" /\ slot'[s].battle = NoBattle /\ slot'[s].trxLost = FALSE
    BY DEF IdleSlot
  <1> QED
    BY <1>1 DEF Place

(* A loop that goes on to "stats" or "complete" has nothing else to show. *)
LEMMA LatePlace ==
    ASSUME IInv, Next, NEW s \in Slot, NEW b \in Battle, slot[s].battle = b,
           NEW pc \in {"stats", "complete"}, NEW why, Goto(s, pc, why),
           pc = "stats" => battle'[b].status = "finished",
           pc = "complete" => Settled(b)' /\ (battle'[b].result \in Played => richStats'[b])
    PROVE  Place(s)'
  <1>1. slot'[s].pc = pc /\ slot'[s].battle = b /\ slot'[s].trxLost = FALSE
    BY DEF Goto, IInv, TypeOK, SlotRow
  <1>2. ~InTransaction(s)'
    BY <1>1 DEF InTransaction
  <1> QED
    BY <1>1, <1>2 DEF Place

LEMMA PlaceAfterStatement ==
    ASSUME IInv, Next, NEW s \in Slot, NEW b \in Battle, NextStatement(s, b)
    PROVE  Place(s)'
  <1>0. /\ Place(s) /\ slot \in [Slot -> SlotRow] /\ slot[s] \in SlotRow /\ slot[s].battle = b
        /\ battle \in [Battle -> BattleRow] /\ battle[b] \in BattleRow
    BY DEF IInv, Places, TypeOK, NextStatement, ClaimBattle, MissBattle, ReadAfterMiss,
        LoadParticipants,
           IngestReplay, Commit, ReleaseClaim, FailJob, MarkForReview, EnsureStats, StatsFail,
           CompleteJob, At
  <1>1. CASE ClaimBattle(s, b)
    BY <1>0, <1>1, PlainPlace DEF ClaimBattle
  <1>2. CASE MissBattle(s, b)
    BY <1>0, <1>2, PlainPlace DEF MissBattle
  <1>3. CASE ReadAfterMiss(s, b)
    <2>1. CASE AfterMiss(b) = <<"stats", "none">> /\ battle[b].status = "finished"
      <3>1. Goto(s, "stats", "none") /\ battle' = battle
        BY <1>3, <2>1 DEF ReadAfterMiss
      <3> QED
        BY <1>0, <2>1, <3>1, LatePlace
    <2>2. CASE AfterMiss(b) = <<"complete", "none">> /\ battle[b].status = "failed"
      <3>1. Goto(s, "complete", "none") /\ battle' = battle
        BY <1>3, <2>2 DEF ReadAfterMiss
      <3>2. battle[b].result = NoResult
        BY <2>2 DEF IInv, AnnouncedWithResult
      <3> QED
        BY <1>0, <2>2, <3>1, <3>2, LatePlace DEF Settled, Played, NoResult
    <2>3. CASE AfterMiss(b) = <<"fail", "busy">>
      <3>1. Goto(s, "fail", "busy")
        BY <1>3, <2>3 DEF ReadAfterMiss
      <3> QED
        BY <1>0, <3>1, PlainPlace
    <2> QED
      BY <2>1, <2>2, <2>3, AfterMissType
  <1>4. CASE IngestReplay(s, b)
    <2>1. /\ slot[s].pc = "closing" /\ slot'[s] = [slot[s] EXCEPT !.pc = "written"]
          /\ slot[s].why \in Played /\ battle' = battle /\ faults' = faults
          /\ file'[b] = Owner(s)
      BY <1>0, <1>4 DEF IngestReplay, At, IInv, TypeOK
    <2>2. /\ slot'[s].pc = "written" /\ slot'[s].battle = b
          /\ slot'[s].why \in Played /\ slot'[s].trxLost = slot[s].trxLost
          /\ slot'[s].attempt = slot[s].attempt
      BY <1>0, <2>1 DEF SlotRow
    <2>3. Owner(s)' = Owner(s)
      BY <2>2 DEF Owner
    <2>4. InTransaction(s)' => Holds(s, b)'
      BY <1>0, <2>1, <2>2, <2>3 DEF InTransaction, Place, Holds
    <2> QED
      BY <1>0, <2>1, <2>2, <2>3, <2>4 DEF Place
  <1>5. CASE Commit(s, b)
    <2>1. /\ slot[s].why \in EndReason
          /\ battle'[b].status = "finished" /\ battle'[b].result = slot[s].why
      <3>1. battle'[b] = Closed(battle[b], slot[s].why)
        BY <1>0, <1>5 DEF Commit
      <3> QED
        BY <1>0, <1>5, <3>1, CommitsHeld, BattleFields
    <2>2. CASE slot[s].why \in Played
      <3>1. Goto(s, "stats", slot[s].why)
        BY <1>5, <2>2 DEF Commit
      <3> QED
        BY <1>0, <2>1, <3>1, LatePlace
    <2>3. CASE slot[s].why \notin Played
      <3>1. Goto(s, "complete", slot[s].why)
        BY <1>5, <2>3 DEF Commit
      <3> QED
        BY <1>0, <2>1, <2>3, <3>1, LatePlace DEF Settled
    <2> QED
      BY <2>2, <2>3
  <1>6. CASE ReleaseClaim(s, b)
    BY <1>0, <1>6, PlainPlace DEF ReleaseClaim
  <1>7. CASE FailJob(s, b)
    <2>1. Goto(s, "review", "none") \/ GoIdle(s)
      BY <1>7 DEF FailJob
    <2> QED
      BY <1>0, <2>1, PlainPlace, IdlePlace DEF GoIdle
  <1>8. CASE MarkForReview(s, b)
    BY <1>0, <1>8, IdlePlace DEF MarkForReview, GoIdle
  <1>9. CASE EnsureStats(s, b)
    <2>1. battle' = battle /\ battle[b].status = "finished" /\ Goto(s, "complete", slot[s].why)
      BY <1>0, <1>9 DEF EnsureStats, At, Place
    <2>2. battle[b].result \in Played => richStats'[b]
      <3> DEFINE val == richStats[b] \/ battle[b].result \in Played
      <3>1. richStats' = [richStats EXCEPT ![b] = val]
        BY <1>9, Zenon DEF EnsureStats
      <3>2. battle[b].result \in Played => val = TRUE
        OBVIOUS
      <3> HIDE DEF val
      <3> QED
        BY <3>1, <3>2 DEF IInv, TypeOK
    <2> QED
      BY <1>0, <2>1, <2>2, LatePlace DEF Settled
  <1>10. CASE StatsFail(s, b)
    BY <1>0, <1>10, PlainPlace DEF StatsFail
  <1>11. CASE CompleteJob(s, b)
    BY <1>0, <1>11, IdlePlace DEF CompleteJob, GoIdle
  <1>12. CASE LoadParticipants(s, b)
    BY <1>0, <1>12, PlainPlace DEF LoadParticipants
  <1> QED
    BY <1>1, <1>2, <1>3, <1>4, <1>5, <1>6, <1>7, <1>8, <1>9, <1>10, <1>11, <1>12
       DEF NextStatement

LEMMA PlaceAfterLoop ==
    ASSUME IInv, Next, NEW s \in Slot, NEW b \in Battle,
           ClaimJob(s, b) \/ Renewal(s, b) \/ ExecutionEnds(s, b) \/ DatabaseError(s, b)
    PROVE  Place(s)'
  <1>0. Place(s) /\ slot \in [Slot -> SlotRow] /\ slot[s] \in SlotRow
    BY DEF IInv, Places, TypeOK
  <1>1. CASE ClaimJob(s, b)
    <2>1. slot'[s].pc = "claimed" /\ slot'[s].battle = b /\ slot'[s].trxLost = FALSE
      BY <1>0, <1>1 DEF ClaimJob, IdleSlot
    <2>2. ~InTransaction(s)'
      BY <2>1 DEF InTransaction
    <2> QED
      BY <2>1, <2>2 DEF Place
  <1>2. CASE RenewLease(s, b)
    <2>1. /\ slot[s].pc = "running" /\ slot[s].battle = b /\ faults' = faults
          /\ slot'[s].pc = "running" /\ slot'[s].battle = b
          /\ slot'[s].trxLost = slot[s].trxLost
      BY <1>0, <1>2 DEF RenewLease, At, SlotRow
    <2>2. ~InTransaction(s)'
      BY <2>1 DEF InTransaction
    <2> QED
      BY <1>0, <2>1, <2>2 DEF Place
  <1>3. CASE RenewLock(s, b)
    <2> DEFINE lost == slot[s].aborted \/ slot[s].renew = "lost"
    <2>1. /\ slot' = [slot EXCEPT ![s] = [slot[s] EXCEPT !.renew = "no", !.aborted = lost]]
          /\ slot[s].pc = "running" /\ slot[s].battle = b /\ faults' = faults
      BY <1>3, Zenon DEF RenewLock, At
    <2> HIDE DEF lost
    <2>2. /\ slot'[s].pc = "running" /\ slot'[s].battle = b
          /\ slot'[s].trxLost = slot[s].trxLost
      BY <1>0, <2>1 DEF SlotRow
    <2>3. ~InTransaction(s)'
      BY <2>2 DEF InTransaction
    <2> QED
      BY <1>0, <2>1, <2>2, <2>3 DEF Place
  <1>4. CASE ExecutionEnds(s, b)
    <2>1. slot[s].battle = b /\ battle' = battle
      BY <1>4 DEF ExecutionEnds, Abort, BeginClose, ExecutionFails, At
    <2>2. CASE \E end \in EndReason : Holds(s, b) /\ Goto(s, "closing", end)
      <3> PICK end \in EndReason : Holds(s, b) /\ Goto(s, "closing", end)
        BY <2>2
      <3>1. /\ slot'[s].pc = "closing" /\ slot'[s].battle = b /\ slot'[s].trxLost = FALSE
            /\ slot'[s].why = end /\ slot'[s].attempt = slot[s].attempt
        BY <1>0, <2>1 DEF Goto, SlotRow
      <3>2. Holds(s, b)'
        BY <2>1, <3>1 DEF Holds, Owner
      <3> QED
        BY <3>1, <3>2 DEF Place
    <2>3. CASE \E pc \in {"fail", "release"}, why \in Why : Goto(s, pc, why)
      BY <1>0, <2>1, <2>3, PlainPlace
    <2> QED
      BY <1>4, <2>2, <2>3 DEF ExecutionEnds, Abort, BeginClose, ExecutionFails, Why
  <1>5. CASE DatabaseError(s, b)
    <2>1. slot[s].battle = b
      BY <1>5 DEF DatabaseError, QueryFails, Rollback, ReleaseLost, JobWriteLost, At
    <2>2. GoIdle(s) \/ \E pc \in {"fail", "release"}, why \in Why : Goto(s, pc, why)
      BY <1>5, ErrorMoves DEF IInv
    <2> QED
      BY <1>0, <2>1, <2>2, PlainPlace, IdlePlace DEF GoIdle
  <1> QED
    BY <1>1, <1>2, <1>3, <1>4, <1>5 DEF Renewal

LEMMA PlacesStep == IInv /\ Next => Places'
  <1> SUFFICES ASSUME IInv, Next, NEW t \in Slot PROVE Place(t)'
    BY DEF Places
  <1>0. Place(t) /\ slot \in [Slot -> SlotRow] /\ slot[t] \in SlotRow
    BY DEF IInv, Places, TypeOK
  <1>1. ASSUME NEW s \in Slot, NEW b \in Battle, s # t,
               \/ ClaimJob(s, b) \/ NextStatement(s, b) \/ Renewal(s, b)
               \/ ExecutionEnds(s, b) \/ DatabaseError(s, b)
        PROVE  slot'[t] = slot[t]
    <2>1. CASE NextStatement(s, b)
      BY <1>0, <1>1, <2>1 DEF NextStatement, ClaimBattle, MissBattle, ReadAfterMiss,
          LoadParticipants,
           IngestReplay, Commit, ReleaseClaim, FailJob, MarkForReview, EnsureStats, StatsFail,
           CompleteJob, Goto, GoIdle
    <2>2. CASE ClaimJob(s, b) \/ Renewal(s, b)
      BY <1>0, <1>1, <2>2 DEF ClaimJob, Renewal, RenewLease, RenewLock
    <2>3. CASE ExecutionEnds(s, b) \/ DatabaseError(s, b)
      BY <1>0, <1>1, <2>3 DEF ExecutionEnds, Abort, BeginClose, ExecutionFails,
           DatabaseError, QueryFails, Rollback, ReleaseLost, JobWriteLost, Goto, GoIdle
    <2> QED
      BY <1>1, <2>1, <2>2, <2>3
  <1>2. ASSUME NEW s \in Slot, NEW b \in Battle,
               \/ ClaimJob(s, b) \/ NextStatement(s, b) \/ Renewal(s, b)
               \/ ExecutionEnds(s, b) \/ DatabaseError(s, b)
        PROVE  Place(t)'
    BY <1>1, <1>2, PlaceOfOthers, PlaceAfterStatement, PlaceAfterLoop
  <1>3. ASSUME NEW w \in Worker, Crash(w) \/ Stall(w) \/ Wake(w) PROVE Place(t)'
    <2>1. slot'[t] = slot[t] \/ slot'[t] = IdleSlot
      BY <1>3 DEF Crash, Stall, Wake
    <2> QED
      BY <2>1, PlaceOfOthers, IdlePlace
  <1>4. ASSUME NEW s \in Slot, SessionLost(s) PROVE Place(t)'
    <2>1. CASE s = t
      <3>1. /\ slot'[t] = [slot[t] EXCEPT !.trxLost = TRUE]
            /\ slot[t].pc \in {"closing", "written"} /\ faults'["session"] = faults["session"] + 1
        BY <1>0, <1>4, <2>1 DEF SessionLost, InTransaction, Strikes, IInv, TypeOK, FaultKind
      <3>2. /\ slot'[t].pc = slot[t].pc /\ slot'[t].battle = slot[t].battle
            /\ slot'[t].why = slot[t].why /\ slot'[t].trxLost = TRUE
        BY <1>0, <3>1 DEF SlotRow
      <3>3. faults'["session"] > 0
        BY <3>1, OtherSteps
      <3>4. ~InTransaction(t)'
        BY <3>2 DEF InTransaction
      <3> QED
        BY <1>0, <3>1, <3>2, <3>3, <3>4 DEF Place
    <2>2. CASE s # t
      <3>1. slot'[t] = slot[t]
        BY <1>0, <1>4, <2>2 DEF SessionLost
      <3> QED
        BY <3>1, PlaceOfOthers
    <2> QED
      BY <2>1, <2>2
  <1>5. ASSUME Tick PROVE Place(t)'
    BY <1>5, PlaceOfOthers DEF Tick
  <1> QED
    BY <1>2, <1>3, <1>4, <1>5 DEF Next

-----------------------------------------------------------------------------
(* The invariant and what follows from it *)

LEMMA InvInit == Init => IInv
  <1> SUFFICES ASSUME Init PROVE IInv
    OBVIOUS
  <1>1. \A s \in Slot : slot[s].pc = "idle" /\ slot[s].battle = NoBattle /\ ~slot[s].trxLost
    BY DEF Init, IdleSlot
  <1>2. Attempts
    BY <1>1 DEF Attempts
  <1>3. Places
    BY <1>1 DEF Places, Place, InTransaction
  <1>4. \A b \in Battle : /\ battle[b].status = "scheduled" /\ battle[b].lease = 0
                          /\ battle[b].result = NoResult /\ ~announced[b]
                          /\ job[b].status = "queued"
    BY DEF Init, NewJob
  <1>5. Rows /\ AnnouncedWithResult /\ DoneMeansSettled
    BY <1>4 DEF Rows, AnnouncedWithResult, DoneMeansSettled, Played, NoResult
  <1> QED
    BY <1>2, <1>3, <1>5, InitType DEF IInv

LEMMA InvStep == IInv /\ [Next]_vars => IInv'
  <1>1. ASSUME IInv, UNCHANGED vars PROVE IInv'
    <2>1. TypeOK' /\ Attempts'
      BY <1>1 DEF vars, IInv, TypeOK, Attempts
    <2>2. Rows' /\ AnnouncedWithResult'
      BY <1>1 DEF vars, IInv, Rows, AnnouncedWithResult
    <2>3. DoneMeansSettled'
      BY <1>1 DEF vars, IInv, DoneMeansSettled, Settled
    <2>4. ASSUME NEW s \in Slot PROVE Place(s)'
      <3>1. Place(s)
        BY <1>1 DEF IInv, Places
      <3> QED
        BY <1>1, <3>1 DEF vars, Place, InTransaction, Holds, Owner, Settled
    <2> QED
      BY <2>1, <2>2, <2>3, <2>4 DEF IInv, Places
  <1>2. IInv /\ Next => TypeOK'
    BY TypeStep DEF IInv
  <1> QED
    BY <1>1, <1>2, AttemptsStep, PlacesStep, RowsStep, AnnouncedStep, DoneStep DEF IInv

(* The workers keep the inductive invariant, whatever dies, stalls or is   *)
(* refused by the database.                                                *)
THEOREM Invariant == Spec => []IInv
  BY InvInit, InvStep, PTL DEF Spec

(* Every row, loop and counter keeps its shape (the CHECK constraints of    *)
(* the tables, the states of the handler).                                 *)
THEOREM TypeCorrect == Spec => []TypeOK
  <1>1. IInv => TypeOK
    BY DEF IInv
  <1> QED
    BY <1>1, Invariant, PTL

(* claimed_by = workerId:jobId:attempts names one loop: no two of them can *)
(* renew, release or close the same battle (claimBattle, finishBattle).    *)
THEOREM Exclusion == Spec => []HolderUnique
  BY Invariant, OneHolder, PTL

(* Result and process_result job appear in one step and never apart        *)
(* (the transaction of finishBattle).                                      *)
THEOREM Announcement == Spec => []AnnouncedWithResult
  <1>1. IInv => AnnouncedWithResult
    BY DEF IInv
  <1> QED
    BY <1>1, Invariant, PTL

(* A job that says done has left nothing undone (completeJob after the     *)
(* idempotent path of the handler).                                        *)
THEOREM NothingLeft == Spec => []DoneMeansSettled
  <1>1. IInv => DoneMeansSettled
    BY DEF IInv
  <1> QED
    BY <1>1, Invariant, PTL

(* No late worker, retry or review touches a battle that has finished      *)
(* (the WHERE of every UPDATE of battle-runner.ts).                        *)
THEOREM ResultIsFinal == Spec => FinishedStays
  <1>1. ASSUME IInv, [Next]_vars, NEW b \in Battle, battle[b].status = "finished"
        PROVE  battle'[b] = battle[b]
    BY <1>1, SettledStays DEF Settled, vars
  <1>2. IInv /\ [Next]_vars => [\A b \in Battle : battle[b].status = "finished"
                                                   => battle'[b] = battle[b]]_vars
    BY <1>1
  <1> QED
    BY <1>2, Invariant, PTL DEF Spec, FinishedStays

(* While the database ends no session behind the back of a process, the    *)
(* replay file is the winner's (the ingest of finishBattle).               *)
THEOREM ReplayIsWinners == Spec => []ReplayOfWinner
  <1>1. IInv => ReplayOfWinner
    BY DEF IInv, Rows, ReplayOfWinner
  <1> QED
    BY <1>1, Invariant, PTL

-----------------------------------------------------------------------------
(* The workers implement BattleLifecycle *)

LEMMA LifecycleInit == Init => Lifecycle!Init
  <1> SUFFICES ASSUME Init PROVE Lifecycle!Init
    OBVIOUS
  <1>1. ASSUME NEW b \in Battle
        PROVE  /\ battle[b].status = "scheduled" /\ battle[b].lease = 0
               /\ battle[b].result = NoResult /\ battle[b].claimedBy = NoOwner
    BY DEF Init
  <1>2. ASSUME NEW b \in Battle PROVE (battle[b].lease > 0) = FALSE
    BY <1>1
  <1> QED
    BY <1>1, <1>2, Zenon DEF Init, Lifecycle!Init

(* What an UPDATE of one row means for the abstract variables. *)
LEMMA LifecycleEdit ==
    ASSUME NEW b \in Battle, NEW r \in BattleRow, battle' = [battle EXCEPT ![b] = r],
           battle \in [Battle -> BattleRow], NEW up \in BOOLEAN, up <=> r.lease > 0
    PROVE  /\ [c \in Battle |-> battle[c].status]'
                  = [[c \in Battle |-> battle[c].status] EXCEPT ![b] = r.status]
           /\ [c \in Battle |-> battle[c].claimedBy]'
                  = [[c \in Battle |-> battle[c].claimedBy] EXCEPT ![b] = r.claimedBy]
           /\ [c \in Battle |-> battle[c].lease > 0]'
                  = [[c \in Battle |-> battle[c].lease > 0] EXCEPT ![b] = up]
           /\ [c \in Battle |-> battle[c].result]'
                  = [[c \in Battle |-> battle[c].result] EXCEPT ![b] = r.result]
  <1>1. battle'[b] = r /\ \A c \in Battle : c # b => battle'[c] = battle[c]
    OBVIOUS
  <1>2. (battle'[b].lease > 0) = up
    BY <1>1
  <1>3. [c \in Battle |-> battle[c].status]'
            = [[c \in Battle |-> battle[c].status] EXCEPT ![b] = r.status]
    BY <1>1
  <1>4. [c \in Battle |-> battle[c].result]'
            = [[c \in Battle |-> battle[c].result] EXCEPT ![b] = r.result]
    BY <1>1
  <1>5. [c \in Battle |-> battle[c].lease > 0]'
            = [[c \in Battle |-> battle[c].lease > 0] EXCEPT ![b] = up]
    BY <1>1, <1>2, Zenon
  <1>6. [c \in Battle |-> battle[c].claimedBy]'
            = [[c \in Battle |-> battle[c].claimedBy] EXCEPT ![b] = r.claimedBy]
    BY <1>1
  <1> QED
    BY <1>3, <1>4, <1>5, <1>6

LEMMA LifecycleStep == IInv /\ [Next]_vars => [Lifecycle!Next]_(Lifecycle!lifecycleVars)
  <1> SUFFICES ASSUME IInv, [Next]_vars
               PROVE  [Lifecycle!Next]_(Lifecycle!lifecycleVars)
    OBVIOUS
  <1> DEFINE S == [c \in Battle |-> battle[c].status]
             H == [c \in Battle |-> battle[c].claimedBy]
             L == [c \in Battle |-> battle[c].lease > 0]
             O == [c \in Battle |-> battle[c].result]
  <1>0. /\ battle \in [Battle -> BattleRow] /\ announced \in [Battle -> BOOLEAN]
        /\ \A s \in Slot : Owner(s) \in (Worker \cup {NoWorker}) \X Nat
        /\ \A b \in Battle : battle[b] \in BattleRow
    BY OwnerType DEF IInv, TypeOK
  <1>1. ASSUME battle' = battle, announced' = announced PROVE UNCHANGED Lifecycle!lifecycleVars
    BY <1>1 DEF Lifecycle!lifecycleVars
  <1>2. ASSUME NEW b \in Battle
        PROVE  /\ S[b] = battle[b].status /\ H[b] = battle[b].claimedBy
               /\ L[b] <=> battle[b].lease > 0
               /\ FreeToTake(b) => Lifecycle!Free(b)
    <2>1. S[b] = battle[b].status /\ H[b] = battle[b].claimedBy /\ (L[b] <=> battle[b].lease > 0)
      OBVIOUS
    <2>2. battle[b].lease = 0 => ~(battle[b].lease > 0)
      OBVIOUS
    <2> QED
      BY <2>1, <2>2 DEF FreeToTake, Lifecycle!Free
  <1>3. ASSUME NEW s \in Slot, NEW b \in Battle, ClaimBattle(s, b)
        PROVE  Lifecycle!Start(b)
    <2> DEFINE r == Reserved(battle[b], Owner(s))
    <2>1. battle' = [battle EXCEPT ![b] = r] /\ announced' = announced /\ FreeToTake(b)
      BY <1>3 DEF ClaimBattle
    <2>2. r \in BattleRow
      BY <1>0, BattleTypes
    <2>3. /\ r.status = "running" /\ r.result = battle[b].result /\ r.lease = LeaseTicks
          /\ r.claimedBy = Owner(s)
      BY <1>0, BattleFields
    <2> HIDE DEF r
    <2>4. TRUE <=> r.lease > 0
      BY <2>3
    <2>7. Owner(s) \in Worker \X (Nat \ {0})
      <3>1. slot[s].battle = b
        BY <1>3 DEF ClaimBattle, At
      <3>2. job[b].attempts \in Nat
        BY DEF IInv, TypeOK, JobRow
      <3>3. slot[s].attempt \in Nat \ {0}
        BY <3>1, <3>2 DEF IInv, Attempts
      <3> QED
        BY <3>3 DEF Owner
    <2>5. /\ S' = [S EXCEPT ![b] = "running"] /\ L' = [L EXCEPT ![b] = TRUE]
          /\ O' = [O EXCEPT ![b] = r.result] /\ H' = [H EXCEPT ![b] = Owner(s)]
      BY <1>0, <2>1, <2>2, <2>3, <2>4, LifecycleEdit
    <2>6. O' = O /\ H'[b] = Owner(s)
      BY <2>3, <2>5
    <2> HIDE DEF S, H, L, O
    <2>8. H'[b] \in Worker \X (Nat \ {0}) /\ H' = [H EXCEPT ![b] = H'[b]]
      BY <2>5, <2>6, <2>7
    <2> USE DEF S, H, L, O
    <2> QED
      BY <1>2, <2>1, <2>5, <2>6, <2>8 DEF Lifecycle!Start
  <1>4. ASSUME NEW s \in Slot, NEW b \in Battle, RenewLease(s, b), battle' # battle
        PROVE  Lifecycle!KeepAlive(b)
    <2> DEFINE r == Kept(battle[b])
    <2>1. /\ battle' = [battle EXCEPT ![b] = r] /\ announced' = announced
          /\ battle[b].status = "running"
      BY <1>4 DEF RenewLease, Holds
    <2>2. r \in BattleRow
      BY <1>0, BattleTypes
    <2>3. /\ r.status = "running" /\ r.result = battle[b].result /\ r.lease = LeaseTicks
          /\ r.claimedBy = battle[b].claimedBy
      BY <1>0, <2>1, BattleFields
    <2> HIDE DEF r
    <2>4. TRUE <=> r.lease > 0
      BY <2>3
    <2>5. /\ S' = [S EXCEPT ![b] = r.status] /\ L' = [L EXCEPT ![b] = TRUE]
          /\ O' = [O EXCEPT ![b] = r.result] /\ H' = [H EXCEPT ![b] = r.claimedBy]
      BY <1>0, <2>1, <2>2, <2>4, LifecycleEdit
    <2>6. O' = O /\ S' = S /\ H' = H
      BY <2>1, <2>3, <2>5
    <2> QED
      BY <1>2, <2>1, <2>5, <2>6 DEF Lifecycle!KeepAlive
  <1>5. ASSUME NEW s \in Slot, NEW b \in Battle, Commit(s, b)
        PROVE  \E o \in EndReason : Lifecycle!Finish(b, o)
    <2> DEFINE r == Closed(battle[b], slot[s].why)
    <2>1. /\ battle' = [battle EXCEPT ![b] = r]
          /\ announced' = [announced EXCEPT ![b] = TRUE]
      BY <1>5 DEF Commit
    <2>2. battle[b].status = "running" /\ slot[s].why \in EndReason
      BY <1>5, CommitsHeld DEF Holds
    <2>3. r \in BattleRow
      BY <1>0, <2>2, BattleTypes
    <2>4. /\ r.status = "finished" /\ r.result = slot[s].why /\ r.lease = 0
          /\ r.claimedBy = battle[b].claimedBy
      BY <1>0, BattleFields
    <2> HIDE DEF r
    <2>5. FALSE <=> r.lease > 0
      BY <2>4
    <2>9. /\ S' = [S EXCEPT ![b] = "finished"] /\ L' = [L EXCEPT ![b] = FALSE]
          /\ O' = [O EXCEPT ![b] = slot[s].why] /\ H' = [H EXCEPT ![b] = r.claimedBy]
      BY <1>0, <2>1, <2>3, <2>4, <2>5, LifecycleEdit
    <2>6. /\ S' = [S EXCEPT ![b] = "finished"] /\ L' = [L EXCEPT ![b] = FALSE]
          /\ O' = [O EXCEPT ![b] = slot[s].why] /\ H' = H
      BY <2>4, <2>9
    <2>7. PICK o \in EndReason : o = slot[s].why
      BY <2>2
    <2>8. Lifecycle!Finish(b, o)
      BY <1>2, <2>1, <2>2, <2>6, <2>7 DEF Lifecycle!Finish
    <2> QED
      BY <2>8
  <1>6. ASSUME NEW b \in Battle, NEW status \in {"scheduled", "failed"},
               battle' = [battle EXCEPT ![b] = Freed(@, status)]
        PROVE  /\ S' = [S EXCEPT ![b] = status] /\ L' = [L EXCEPT ![b] = FALSE] /\ O' = O
               /\ H' = [H EXCEPT ![b] = NoOwner]
    <2> DEFINE r == Freed(battle[b], status)
    <2>1. r \in BattleRow
      BY <1>0, BattleTypes
    <2>2. /\ r.status = status /\ r.result = battle[b].result /\ r.lease = 0
          /\ r.claimedBy = NoOwner
      BY <1>0, BattleFields
    <2>3. battle' = [battle EXCEPT ![b] = r]
      BY <1>6
    <2> HIDE DEF r
    <2>4. FALSE <=> r.lease > 0
      BY <2>2
    <2>5. /\ S' = [S EXCEPT ![b] = r.status] /\ L' = [L EXCEPT ![b] = FALSE]
          /\ O' = [O EXCEPT ![b] = r.result] /\ H' = [H EXCEPT ![b] = r.claimedBy]
      BY <1>0, <2>1, <2>3, <2>4, LifecycleEdit
    <2> QED
      BY ZenonT(60), SMTT(60), <2>2, <2>5
  <1>7. ASSUME NEW s \in Slot, NEW b \in Battle, ReleaseClaim(s, b), battle' # battle
        PROVE  Lifecycle!Requeue(b)
    <2>1. /\ Holds(s, b) /\ announced' = announced
          /\ battle' = [battle EXCEPT ![b] = Freed(@, "scheduled")]
      BY <1>0, <1>7 DEF ReleaseClaim
    <2>2. /\ S' = [S EXCEPT ![b] = "scheduled"] /\ L' = [L EXCEPT ![b] = FALSE] /\ O' = O
          /\ H' = [H EXCEPT ![b] = NoOwner]
      BY <2>1, <1>6
    <2> QED
      BY <1>2, <2>1, <2>2 DEF Lifecycle!Requeue, Holds
  <1>8. ASSUME NEW s \in Slot, NEW b \in Battle, MarkForReview(s, b), battle' # battle
        PROVE  Lifecycle!GiveUp(b)
    <2>1. /\ FreeToTake(b) /\ announced' = announced
          /\ battle' = [battle EXCEPT ![b] = Freed(@, "failed")]
      BY <1>0, <1>8 DEF MarkForReview
    <2>2. /\ S' = [S EXCEPT ![b] = "failed"] /\ L' = [L EXCEPT ![b] = FALSE] /\ O' = O
          /\ H' = [H EXCEPT ![b] = NoOwner]
      BY <2>1, <1>6
    <2> QED
      BY <1>2, <2>1, <2>2 DEF Lifecycle!GiveUp
  <1>9. ASSUME Tick PROVE Lifecycle!Expire
    <2>1. /\ battle' = [b \in Battle |-> LeaseAged(battle[b])] /\ announced' = announced
          /\ \A b \in Battle : LeaseAged(battle[b]) \in BattleRow
      BY <1>0, <1>9, BattleTypes DEF Tick
    <2>2. ASSUME NEW b \in Battle
          PROVE  /\ battle'[b].status = battle[b].status /\ battle'[b].result = battle[b].result
                 /\ battle'[b].claimedBy = battle[b].claimedBy
                 /\ battle'[b].lease > 0 => battle[b].lease > 0
      <3>1. battle'[b] = LeaseAged(battle[b])
        BY <2>1
      <3>2. battle[b].lease \in Nat /\ LeaseAged(battle[b]).lease \in Nat
        BY <1>0, <2>1 DEF BattleRow
      <3> QED
        BY <1>0, <3>1, <3>2, BattleFields
    <2>3. L' = [c \in Battle |-> battle'[c].lease > 0]
      OBVIOUS
    <2>a. L' \in [Battle -> BOOLEAN]
      <3>1. \A c \in Battle : (battle'[c].lease > 0) \in BOOLEAN
        OBVIOUS
      <3> QED
        BY <3>1, <2>3, Zenon
    <2>b. ASSUME NEW b \in Battle, L'[b] PROVE L[b]
      <3>1. battle'[b].lease > 0
        BY <2>3, <2>b
      <3> QED
        BY <2>2, <3>1
    <2>4. S' = S /\ O' = O /\ H' = H
      BY <2>2
    <2> QED
      BY <2>1, <2>a, <2>b, <2>4 DEF Lifecycle!Expire
  <1>10. CASE UNCHANGED vars
    BY <1>1, <1>10 DEF vars
  <1>11. CASE Next
    <2>1. \/ battle' = battle /\ announced' = announced
          \/ Lifecycle!Next
      <3>1. CASE battle' # battle
        BY <1>3, <1>4, <1>5, <1>7, <1>8, <1>9, <1>11, <3>1, BattleSteps DEF Lifecycle!Next
      <3>2. CASE battle' = battle
        <4>1. CASE \E s \in Slot, b \in Battle : Commit(s, b)
          BY <1>5, <4>1 DEF Lifecycle!Next
        <4>2. CASE announced' = announced
          BY <3>2, <4>2
        <4> QED
          BY <1>11, <4>1, <4>2, OtherSteps
      <3> QED
        BY <3>1, <3>2
    <2> QED
      BY <1>1, <2>1
  <1> QED
    BY <1>10, <1>11

(* The queue, the leases and the transactions implement the life cycle of   *)
(* battles.md: while a lease lives, nobody but its holder has the battle    *)
(* and no review closes it (claimBattle, markBattleForReview).             *)
THEOREM Refinement == Spec => KeepsLifecycle
  <1>1. IInv /\ [Next]_vars => [Lifecycle!Next]_(Lifecycle!lifecycleVars)
    BY LifecycleStep
  <1> QED
    BY <1>1, LifecycleInit, Invariant, PTL DEF Spec, KeepsLifecycle, Lifecycle!Spec
=============================================================================
