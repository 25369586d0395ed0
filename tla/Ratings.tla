------------------------------- MODULE Ratings -------------------------------
(***************************************************************************)
(* The Elo ledger and the table of one season and mode: the handler        *)
(* update_standings (standings.ts, ratings.ts) run by the loops of the     *)
(* workers, what process_result (results.ts) enqueues for it, and the      *)
(* reversals of battles by the staff.                                      *)
(*                                                                         *)
(* Transactions are READ COMMITTED.  What a transaction writes stays in    *)
(* the record of its process until it commits; a row lock is held until    *)
(* then, and waiting for a lock is not being enabled.  Each SELECT and     *)
(* each lock is an action; the writes that nobody can see come with the    *)
(* COMMIT.                                                                 *)
(*                                                                         *)
(* The table of a season is a function of the battles that count, of the   *)
(* matches that are closed (an open series has no tie break) and of the    *)
(* ratings (Formats has the series): the model keeps these three.          *)
(***************************************************************************)
EXTENDS Integers, Sequences, FiniteSets, FiniteSetsExt, Functions

CONSTANTS
    Battle,
    Match,
    Draws,                  \* the matches that the battles may be games of
    Bot,                    \* identifiers, in the order of the database
    Sides,                  \* who plays each battle, <<home, away>>
    Loop,                   \* the loops of the workers
    Staff,                  \* who may revert battles
    Nobody,
    Outcomes,               \* how battles may end
    Exchange(_, _, _),      \* what home gains: EloSystem.deltas for two sides
    FaultKinds,
    MaxFaults               \* how many strike (bounds the model)

Outcome == {"home", "away", "draw", "technical"}
Proc == Loop \cup Staff
InitialRating == 1000

ASSUME RatingsAssumption ==
    /\ Draws \subseteq [Battle -> Match]
    /\ Bot \subseteq Nat
    /\ Sides \in [Battle -> Bot \X Bot]
    /\ \A b \in Battle : Sides[b][1] # Sides[b][2]
    /\ IsFiniteSet(Proc)
    /\ Loop \cap Staff = {}
    /\ Nobody \notin Proc \cup Battle
    /\ Outcomes \subseteq Outcome
    /\ FaultKinds \subseteq {"crash", "statement", "late"}
    /\ MaxFaults \in Nat

VARIABLES
    battle,     \* battles: [match, result, reverted]
    closed,     \* the matches that are finished
    event,      \* rating_events, the two of a battle together
    rating,     \* ratings: [rating, tally], by the bots that have a row
    standings,  \* the table: [battles, closed, rating]
    jobs,       \* the jobs of each battle, process_result and update_standings
    proc,       \* where each process is
    lock,       \* who holds each lock
    faults      \* how many have struck

vars == <<battle, closed, event, rating, standings, jobs, proc, lock, faults>>

NoEvent == [delta |-> <<>>, before |-> <<>>, reverted |-> FALSE]
NewRow == [rating |-> InitialRating, tally |-> [s \in {"win", "loss", "draw"} |-> 0]]
EmptyTable == [battles |-> {}, closed |-> {}, rating |-> <<>>]

Idle == [pc |-> "idle", b |-> Nobody, kind |-> "none", todo |-> <<>>,
         read |-> <<>>, table |-> EmptyTable]

BattleLock(b) == <<"battle", b>>
RatingLock(i) == <<"rating", i>>
TableLock == <<"standings">>
Locks == {BattleLock(b) : b \in Battle} \cup {RatingLock(i) : i \in Bot} \cup {TableLock}

Init ==
    /\ \E match \in Draws :
          battle = [b \in Battle |-> [match |-> match[b], result |-> "none", reverted |-> FALSE]]
    /\ closed = {}
    /\ event = [b \in Battle |-> NoEvent]
    /\ rating = << >>
    /\ standings = EmptyTable
    /\ jobs = [b \in Battle |-> "none"]
    /\ proc = [p \in Proc |-> Idle]
    /\ lock = [k \in Locks |-> Nobody]
    /\ faults = 0

-----------------------------------------------------------------------------
(* Helpers *)

At(p, pc) == proc[p].pc = pc
Continue(p, r) == proc' = [proc EXCEPT ![p] = r]
Goto(p, pc) == Continue(p, [proc[p] EXCEPT !.pc = pc])

Free(k) == lock[k] = Nobody
Take(p, k) == lock' = [lock EXCEPT ![k] = p]

(* What is left to do after the Elo. *)
ToTable(p) == Continue(p, [Idle EXCEPT !.pc = "table", !.b = proc[p].b, !.kind = proc[p].kind])

(* Mutant: the transaction is left open. *)
ReleaseNone(p) == UNCHANGED lock

(* The end of a transaction, either way. *)
ReleaseAll(p) == lock' = [k \in Locks |-> IF lock[k] = p THEN Nobody ELSE lock[k]]

Strikes(kind) == kind \in FaultKinds /\ faults < MaxFaults /\ faults' = faults + 1

Rated(b) == event[b] # NoEvent
Counted(b) == Rated(b) /\ ~event[b].reverted

BotsOf(b) == {Sides[b][1], Sides[b][2]}

(* Mutant: the order in which they take part. *)
AsEntered(b) == Sides[b]

(* The order of their identifiers. *)
InOrder(b) == IF Sides[b][1] < Sides[b][2] THEN Sides[b] ELSE <<Sides[b][2], Sides[b][1]>>

(* outcomeScore of a bot, as the counter that it moves. *)
Score(b, i) ==
    CASE battle[b].result = "draw"                        -> "draw"
      [] battle[b].result = "home" /\ i = Sides[b][1]     -> "win"
      [] battle[b].result = "away" /\ i = Sides[b][2]     -> "win"
      [] OTHER                                            -> "loss"

(* What one wins the other loses. *)
Deltas(b, read) ==
    LET d == Exchange(read[Sides[b][1]], read[Sides[b][2]], battle[b].result)
    IN [i \in BotsOf(b) |-> IF i = Sides[b][1] THEN d ELSE -d]

Floor(n) == IF n < 0 THEN 0 ELSE n

-----------------------------------------------------------------------------
(* Results and jobs *)

Games(m) == {b \in Battle : battle[b].match = m}

(* A battle ends, and its process_result is enqueued with the result. *)
FinishBattle(b, result) ==
    /\ battle[b].result = "none"
    /\ battle' = [battle EXCEPT ![b].result = result]
    /\ jobs' = [jobs EXCEPT ![b] = "announced"]
    /\ UNCHANGED <<closed, event, rating, standings, proc, lock, faults>>

(* process_result closes the match, unless a game of it is still to be     *)
(* played: then it returns, and nothing is enqueued for this game.         *)
ProcessResult(b) ==
    /\ jobs[b] = "announced"
    /\ IF \E g \in Games(battle[b].match) : battle[g].result = "none"
       THEN jobs' = [jobs EXCEPT ![b] = "left"] /\ UNCHANGED closed
       ELSE /\ jobs' = [jobs EXCEPT ![b] = "treated"]
            /\ closed' = closed \cup {battle[b].match}
    /\ UNCHANGED <<battle, event, rating, standings, proc, lock, faults>>

(* enqueueJob of update_standings. *)
Enqueue(b) ==
    /\ jobs[b] = "treated"
    /\ jobs' = [jobs EXCEPT ![b] = "queued"]
    /\ UNCHANGED <<battle, closed, event, rating, standings, proc, lock, faults>>

(* handleUpdateStandings starts; what ended by the technical limit has no   *)
(* Elo, and only the table is computed.                                    *)
Begin(p, b) ==
    Continue(p, [Idle EXCEPT !.b = b, !.kind = "update",
                     !.pc = IF battle[b].result = "technical" THEN "table" ELSE "battle"])

Claim(p, b) ==
    /\ p \in Loop /\ At(p, "idle")
    /\ \/ jobs[b] = "queued"
       \/ jobs[b] = "running" /\ \A q \in Loop : proc[q].b # b
    /\ jobs' = [jobs EXCEPT ![b] = "running"]
    /\ Begin(p, b)
    /\ UNCHANGED <<battle, closed, event, rating, standings, lock, faults>>

(* The lock of the job expires under a loop that waits: a second delivery. *)
ClaimAgain(p, b) ==
    /\ p \in Loop /\ At(p, "idle")
    /\ jobs[b] = "running"
    /\ Strikes("late")
    /\ Begin(p, b)
    /\ UNCHANGED <<battle, closed, event, rating, standings, jobs, lock>>

EndJob(p, pc, status) ==
    /\ At(p, pc)
    /\ jobs' = [jobs EXCEPT ![proc[p].b] = status]
    /\ Continue(p, Idle)
    /\ UNCHANGED <<battle, closed, event, rating, standings, lock, faults>>

CompleteJob(p) == EndJob(p, "done", "done")
FailJob(p) == EndJob(p, "failed", "needs_review")

-----------------------------------------------------------------------------
(* applyBattleRating *)

(* SELECT battle FOR UPDATE, and whether it is reverted or rated already.   *)
LockBattle(p) ==
    /\ At(p, "battle")
    /\ Free(BattleLock(proc[p].b))
    /\ LET b == proc[p].b IN
         IF battle[b].reverted \/ Rated(b)
         THEN ToTable(p) /\ UNCHANGED lock
         ELSE /\ Continue(p, [proc[p] EXCEPT !.pc = "rating", !.todo = InOrder(b)])
              /\ Take(p, BattleLock(b))
    /\ UNCHANGED <<battle, closed, event, rating, standings, jobs, faults>>

RatingOf(i) == IF i \in DOMAIN rating THEN rating[i].rating ELSE InitialRating

(* Mutant: SELECT without FOR UPDATE. *)
ReadRatingOnly(p) ==
    LET i == Head(proc[p].todo)
        rest == Tail(proc[p].todo)
    IN /\ At(p, "rating")
       /\ Continue(p, [proc[p] EXCEPT
                           !.read = [j \in DOMAIN @ \cup {i} |->
                                        IF j = i THEN RatingOf(i) ELSE @[j]],
                           !.todo = rest,
                           !.pc = IF rest # <<>> THEN "rating"
                                  ELSE IF proc[p].kind = "update" THEN "apply" ELSE "undo"])
       /\ UNCHANGED <<battle, closed, event, rating, standings, jobs, lock, faults>>

(* lockRatings: INSERT ON CONFLICT DO NOTHING and SELECT FOR UPDATE of the  *)
(* next bot; either of them waits for who holds or inserts the row.        *)
LockRating(p) ==
    LET i == Head(proc[p].todo)
        rest == Tail(proc[p].todo)
    IN /\ At(p, "rating")
       /\ Free(RatingLock(i))
       /\ Take(p, RatingLock(i))
       /\ Continue(p, [proc[p] EXCEPT
                           !.read = [j \in DOMAIN @ \cup {i} |->
                                        IF j = i THEN RatingOf(i) ELSE @[j]],
                           !.todo = rest,
                           !.pc = IF rest # <<>> THEN "rating"
                                  ELSE IF proc[p].kind = "update" THEN "apply" ELSE "undo"])
       /\ UNCHANGED <<battle, closed, event, rating, standings, jobs, faults>>

(* The row of a bot after it gained d and its counter s moved by n. *)
Moved(i, d, s, n) ==
    LET row == IF i \in DOMAIN rating THEN rating[i] ELSE NewRow
    IN [row EXCEPT !.rating = @ + d, !.tally[s] = Floor(@ + n)]

MoveAll(b, gain, n) ==
    rating' = [i \in DOMAIN rating \cup BotsOf(b) |->
                  IF i \in BotsOf(b) THEN Moved(i, gain[i], Score(b, i), n) ELSE rating[i]]

(* The events, the increments and the COMMIT; UNIQUE (battle, bot) refuses  *)
(* a second set of events.                                                 *)
ApplyRating(p) ==
    /\ At(p, "apply")
    /\ LET b == proc[p].b
           deltas == Deltas(b, proc[p].read)
       IN IF Rated(b)
          THEN Goto(p, "failed") /\ UNCHANGED <<event, rating>>
          ELSE /\ event' = [event EXCEPT ![b] = [delta |-> deltas, before |-> proc[p].read,
                                                 reverted |-> FALSE]]
               /\ MoveAll(b, deltas, 1)
               /\ ToTable(p)
    /\ ReleaseAll(p)
    /\ UNCHANGED <<battle, closed, standings, jobs, faults>>

-----------------------------------------------------------------------------
(* revertOfficialBattle, and revertBattleRating for the Elo alone *)

Revert(p, b, kind) ==
    /\ p \in Staff /\ At(p, "idle")
    /\ Continue(p, [Idle EXCEPT !.pc = "revert", !.b = b, !.kind = kind])
    /\ UNCHANGED <<battle, closed, event, rating, standings, jobs, lock, faults>>

(* The battle is locked, and then its events: nothing to revert, reverted   *)
(* before, or a mark (not for the Elo alone) and the events to undo.       *)
LockForReversal(p) ==
    /\ At(p, "revert")
    /\ Free(BattleLock(proc[p].b))
    /\ LET b == proc[p].b
           official == proc[p].kind = "revert"
       IN CASE official /\ battle[b].result \in {"none", "technical"} ->
                 Continue(p, Idle) /\ UNCHANGED lock
            [] official /\ battle[b].result \notin {"none", "technical"} /\ battle[b].reverted ->
                 ToTable(p) /\ UNCHANGED lock
            [] ~official /\ ~Counted(b) ->
                 Continue(p, Idle) /\ UNCHANGED lock
            [] OTHER ->
                 /\ Take(p, BattleLock(b))
                 /\ Continue(p, IF Counted(b)
                                THEN [proc[p] EXCEPT !.pc = "rating", !.todo = InOrder(b)]
                                ELSE [proc[p] EXCEPT !.pc = "undo"])
    /\ UNCHANGED <<battle, closed, event, rating, standings, jobs, faults>>

(* Mutant: what was given back once is given back again. *)
UndoAgain(p) ==
    /\ At(p, "undo")
    /\ LET b == proc[p].b
           loss == [i \in DOMAIN event[b].delta |-> -event[b].delta[i]]
       IN /\ IF Rated(b)
             THEN MoveAll(b, loss, -1) /\ event' = [event EXCEPT ![b].reverted = TRUE]
             ELSE UNCHANGED <<event, rating>>
          /\ IF proc[p].kind = "revert"
             THEN battle' = [battle EXCEPT ![b].reverted = TRUE] /\ ToTable(p)
             ELSE UNCHANGED battle /\ Continue(p, Idle)
    /\ ReleaseAll(p)
    /\ UNCHANGED <<closed, standings, jobs, faults>>

(* The writes of the reversal and its COMMIT. *)
Undo(p) ==
    /\ At(p, "undo")
    /\ LET b == proc[p].b
           loss == [i \in DOMAIN event[b].delta |-> -event[b].delta[i]]
       IN /\ IF Counted(b)
             THEN MoveAll(b, loss, -1) /\ event' = [event EXCEPT ![b].reverted = TRUE]
             ELSE UNCHANGED <<event, rating>>
          /\ IF proc[p].kind = "revert"
             THEN battle' = [battle EXCEPT ![b].reverted = TRUE] /\ ToTable(p)
             ELSE UNCHANGED battle /\ Continue(p, Idle)
    /\ ReleaseAll(p)
    /\ UNCHANGED <<closed, standings, jobs, faults>>

-----------------------------------------------------------------------------
(* recomputeSeasonStandings *)

Played == {b \in Battle : battle[b].result \notin {"none", "technical"} /\ ~battle[b].reverted}

(* Mutant: no advisory lock. *)
LockTableUnlocked(p) ==
    /\ At(p, "table")
    /\ Continue(p, [proc[p] EXCEPT !.pc = "events", !.table.battles = Played])
    /\ UNCHANGED <<battle, closed, event, rating, standings, jobs, lock, faults>>

(* pg_advisory_xact_lock, and the query of the battles after it. *)
LockTable(p) ==
    /\ At(p, "table")
    /\ Free(TableLock)
    /\ Take(p, TableLock)
    /\ Continue(p, [proc[p] EXCEPT !.pc = "events", !.table.battles = Played])
    /\ UNCHANGED <<battle, closed, event, rating, standings, jobs, faults>>

(* revertedBattleIds: the Elo alone was reverted. *)
ReadEvents(p) ==
    /\ At(p, "events")
    /\ Continue(p, [proc[p] EXCEPT !.pc = "matches",
                        !.table.battles = {b \in @ : ~event[b].reverted}])
    /\ UNCHANGED <<battle, closed, event, rating, standings, jobs, lock, faults>>

ClosedOf(bs) == {battle[b].match : b \in bs} \cap closed

(* The rows of their matches, with the states. *)
ReadMatches(p) ==
    /\ At(p, "matches")
    /\ Continue(p, [proc[p] EXCEPT !.pc = "ratings",
                        !.table.closed = ClosedOf(proc[p].table.battles)])
    /\ UNCHANGED <<battle, closed, event, rating, standings, jobs, lock, faults>>

RatingsOf(bs) == [i \in UNION {BotsOf(b) : b \in bs} |-> RatingOf(i)]

ReadRatings(p) ==
    /\ At(p, "ratings")
    /\ Continue(p, [proc[p] EXCEPT !.pc = "write",
                        !.table.rating = RatingsOf(proc[p].table.battles)])
    /\ UNCHANGED <<battle, closed, event, rating, standings, jobs, lock, faults>>

(* updateStandings replaces the table, and the COMMIT. *)
WriteTable(p) ==
    /\ At(p, "write")
    /\ standings' = proc[p].table
    /\ Continue(p, IF p \in Loop THEN [proc[p] EXCEPT !.pc = "done"] ELSE Idle)
    /\ ReleaseAll(p)
    /\ UNCHANGED <<battle, closed, event, rating, jobs, faults>>

-----------------------------------------------------------------------------
(* Faults *)

Crash(p) ==
    /\ ~At(p, "idle")
    /\ Strikes("crash")
    /\ Continue(p, Idle)
    /\ ReleaseAll(p)
    /\ UNCHANGED <<battle, closed, event, rating, standings, jobs>>

(* A statement is refused: the transaction is rolled back. *)
StatementFails(p) ==
    /\ proc[p].pc \notin {"idle", "failed"}
    /\ Strikes("statement")
    /\ Continue(p, IF p \in Loop THEN [proc[p] EXCEPT !.pc = "failed"] ELSE Idle)
    /\ ReleaseAll(p)
    /\ UNCHANGED <<battle, closed, event, rating, standings, jobs>>

-----------------------------------------------------------------------------

Step(p) ==
    \/ LockBattle(p) \/ LockRating(p) \/ ApplyRating(p)
    \/ LockForReversal(p) \/ Undo(p)
    \/ LockTable(p) \/ ReadEvents(p) \/ ReadMatches(p) \/ ReadRatings(p) \/ WriteTable(p)
    \/ CompleteJob(p) \/ FailJob(p)

Next ==
    \/ \E b \in Battle, result \in Outcomes : FinishBattle(b, result)
    \/ \E b \in Battle : ProcessResult(b) \/ Enqueue(b)
    \/ \E p \in Loop, b \in Battle : Claim(p, b) \/ ClaimAgain(p, b)
    \/ \E p \in Staff, b \in Battle, kind \in {"revert", "eloOnly"} : Revert(p, b, kind)
    \/ \E p \in Proc : Step(p) \/ Crash(p) \/ StatementFails(p)

Spec == Init /\ [][Next]_vars

-----------------------------------------------------------------------------
(* Properties *)

PC == {"idle", "battle", "rating", "apply", "revert", "undo", "table",
       "events", "matches", "ratings", "write", "done", "failed"}

(* The shape of the rows, and that a lock is held only by a process that   *)
(* is inside of the transaction that took it.                              *)
TypeOK ==
    /\ \A b \in Battle : /\ battle[b].match \in Match
                         /\ battle[b].result \in Outcome \cup {"none"}
                         /\ battle[b].reverted \in BOOLEAN
                         /\ jobs[b] \in {"none", "announced", "left", "treated",
                                        "queued", "running", "done", "needs_review"}
    /\ closed \subseteq Match
    /\ DOMAIN rating \subseteq Bot
    /\ \A p \in Proc : proc[p].pc \in PC /\ proc[p].b \in Battle \cup {Nobody}
    /\ lock \in [Locks -> Proc \cup {Nobody}]
    /\ \A k \in Locks : lock[k] # Nobody =>
          proc[lock[k]].pc \in {"rating", "apply", "undo", "events", "matches", "ratings", "write"}
    /\ faults \in 0..MaxFaults

CountedOf(i) == {b \in Battle : Counted(b) /\ i \in BotsOf(b)}

(* ratings.ts:90: "the rating agrees with the ledger rating_events", after  *)
(* any interleaving of applications, reversals, redeliveries and failures: *)
(* the sum of what was not reverted, and the counters likewise; and a      *)
(* battle that was taken out of the competition has nothing in it.         *)
LedgerAgrees ==
    /\ \A i \in DOMAIN rating :
          /\ rating[i].rating = InitialRating
                + MapThenSumSet(LAMBDA b : event[b].delta[i], CountedOf(i))
          /\ \A s \in {"win", "loss", "draw"} :
                rating[i].tally[s] = Cardinality({b \in CountedOf(i) : Score(b, i) = s})
    /\ \A b \in Battle : battle[b].reverted => ~Counted(b)

(* The Elo of a battle is computed from the ratings it is applied to: no    *)
(* other battle of these bots comes between the read and the COMMIT.       *)
RatedOnTheSpot ==
    [][\A b \in Battle : event[b] = NoEvent /\ event'[b] # NoEvent =>
          \A i \in BotsOf(b) : event'[b].before[i] = RatingOf(i)]_vars

CountingBattles == {b \in Played : ~event[b].reverted}

TableOf(bs) == [battles |-> bs, closed |-> ClosedOf(bs), rating |-> RatingsOf(bs)]

(* standings.ts:16: "the last one in sees all".  When nothing is under way, *)
(* the table is that of the results, the matches and the ratings, whoever   *)
(* computed it last; but games of a series still open may be missing, for   *)
(* a game that is treated before the last one is played enqueues nothing    *)
(* (results.ts:407).  Once its match is closed a game is in the table.      *)
(* Excepted are what a person has to finish (a job for review, a reversal   *)
(* that was cut) and the reversal of the Elo alone, which recomputes        *)
(* nothing.                                                                 *)
TableIsCurrent ==
    \/ \E p \in Proc : ~At(p, "idle")
    \/ \E b \in Battle : jobs[b] \in {"treated", "queued", "running", "needs_review"}
    \/ faults > 0 /\ \E b \in Battle : battle[b].reverted
    \/ \E b \in Battle : event[b].reverted /\ ~battle[b].reverted
    \/ \E left \in SUBSET {b \in CountingBattles : battle[b].match \notin closed} :
          standings = TableOf(CountingBattles \ left)

(* The lock that a process asks for, if any. *)
Wanted(p) ==
    CASE proc[p].pc \in {"battle", "revert"} -> {BattleLock(proc[p].b)}
      [] At(p, "rating")                     -> {RatingLock(Head(proc[p].todo))}
      [] At(p, "table")                      -> {TableLock}
      [] OTHER                               -> {}

(* ratings.ts:205: the order of the locks (battle, ratings by bot, table)   *)
(* lets nobody wait in a circle, whatever is applied and reverted together.*)
NoCircle ==
    ~\E ps \in (SUBSET Proc) \ {{}} : \A p \in ps : \E k \in Wanted(p) : lock[k] \in ps
=============================================================================
