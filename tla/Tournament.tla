------------------------------ MODULE Tournament ------------------------------
(***************************************************************************)
(* One tournament from its closed entries to its champion: the handlers    *)
(* generate_schedule (scheduler.ts) and process_result (results.ts), run   *)
(* by the loops of the tournament workers.  Neither handler opens a        *)
(* transaction: every statement is an action, and between two of them      *)
(* another loop or a crash may come in.                                    *)
(*                                                                         *)
(* How a battle is played is the module BattleRun; here a battle ends in   *)
(* one step, with its result and its process_result job together           *)
(* (BattleRun!AnnouncedWithResult).                                        *)
(***************************************************************************)
EXTENDS Formats

CONSTANTS
    Loop,           \* the loops of all tournament workers
    Entered,        \* what organizers set up: [format, entries, owner, games]
    Outcomes,       \* how the engine may end a game: [winner, lead]
    Faults,         \* the kinds of faults that may strike
    MaxFaults       \* how many do (bounds the model)

FaultKind == {"crash", "db", "battle"}

ASSUME TournamentAssumption ==
    /\ \A t \in Entered : /\ t = [format |-> t.format, entries |-> t.entries,
                                owner |-> t.owner, games |-> t.games]
                          /\ t.entries \in Seq(Range(t.entries)) /\ Len(t.entries) >= 2
                          /\ IsInjective(t.entries)
                          /\ NoOne \notin Range(t.entries)
                          /\ t.games \in Nat \ {0}
    /\ \A o \in Outcomes : o.winner \in {"A", "B", "draw", "none"} /\ o.lead \in Int
    /\ Faults \subseteq FaultKind
    /\ MaxFaults \in Nat

VARIABLES
    tournament,     \* its row: format, entries, owner, games, state, champion
    match,          \* the rows of matches, by slot
    battle,         \* the rows of battles, by <<slot, game, copy>>
    jobs,           \* the status of every job ever enqueued
    loop,           \* where each loop is in its handler
    faults          \* the faults so far

vars == <<tournament, match, battle, jobs, loop, faults>>

Job(kind, key) == [kind |-> kind, key |-> key]
ScheduleJob == Job("generate_schedule", <<>>)
RunJob(b) == Job("run_battle", b)
ResultJob(b) == Job("process_result", b)
StandingsJob(b) == Job("update_standings", b)
NoJob == Job("none", <<>>)

(* A frame of resolveDependents: the slot it was called with, and the      *)
(* candidates it read and has not treated yet.                             *)
Frame(slot) == [slot |-> slot, winner |-> NoOne, loser |-> NoOne, todo |-> {}]

NoPairing == Known(<<>>, NoOne, NoOne)

IdleLoop == [pc |-> "idle", job |-> NoJob, stack |-> <<>>, p |-> NoPairing,
             winner |-> NoOne, game |-> 0, battle |-> <<>>, plan |-> {}, back |-> "none"]

PC == {"idle", "begin", "matches", "bye", "insert", "enqueue", "running",
       "match", "series", "close", "source", "candidates", "feed", "condition",
       "walkover", "existing", "unfinished", "table", "pairing",
       "standings", "openMatch", "openBattle", "champion", "finish", "done", "fail"}

Init ==
    /\ \E t \in Entered :
          tournament = [format |-> t.format, entries |-> t.entries, owner |-> t.owner,
                        games |-> t.games, state |-> "closed", champion |-> NoOne]
    /\ match = << >>
    /\ battle = << >>
    /\ jobs = [j \in {ScheduleJob} |-> "queued"]
    /\ loop = [l \in Loop |-> IdleLoop]
    /\ faults = <<>>

-----------------------------------------------------------------------------
(* Helpers *)

Extend(f, x, y) == [z \in DOMAIN f \cup {x} |-> IF z = x THEN y ELSE f[z]]

At(l, pc) == loop[l].pc = pc

(* The loop goes on with the local variables r. *)
Continue(l, r) == loop' = [loop EXCEPT ![l] = r]

Goto(l, pc) == Continue(l, [loop[l] EXCEPT !.pc = pc])

(* enqueueJob: ON CONFLICT (dedupe_key) DO NOTHING. *)
Enqueue(j) == jobs' = IF j \in DOMAIN jobs THEN jobs ELSE Extend(jobs, j, "queued")

Strikes(kind) ==
    /\ kind \in Faults
    /\ Len(faults) < MaxFaults
    /\ faults' = Append(faults, kind)

NewMatch(p) == [state |-> "scheduled", pairing |-> p, winner |-> NoOne]

Decided(row, winner) == [row EXCEPT !.state = "finished", !.winner = winner]

GamesOf(slot) == {b \in DOMAIN battle : b[1] = slot}

(* whereNotIn("status", ["finished"]): a failed battle stays open. *)
Open(b) == battle[b].status # "finished"

(* The game of battle b as the series counts it. *)
Game(b) == [game |-> b[2], copy |-> b[3], winner |-> battle[b].winner, lead |-> battle[b].lead]

MatchDone(slot) == match[slot].state = "finished"

(* Pairings are treated one by one, in some fixed order: the next of a set. *)
NextOf(ps) == CHOOSE p \in ps : TRUE
Rest(ps) == ps \ {NextOf(ps)}

Calendars == [t \in Entered |-> InitialSchedule(t.format, t.entries, t.owner)]

(* The pairings generate_schedule inserts; the generators are pure. *)
Schedule == Calendars[[format |-> tournament.format, entries |-> tournament.entries,
                       owner |-> tournament.owner, games |-> tournament.games]]

-----------------------------------------------------------------------------
(* How a handler goes on between two statements *)

(* The next bye of the calendar that may unlock a match, or the end. *)
NextBye(r, byes) ==
    IF byes = {} THEN [r EXCEPT !.pc = "done", !.stack = <<>>]
    ELSE [r EXCEPT !.pc = "source", !.stack = <<Frame(NextOf(byes).slot)>>, !.plan = Rest(byes)]

(* What follows resolveDependents. *)
AfterResolving(r) ==
    IF r.job = ScheduleJob THEN NextBye(r, r.plan)
    ELSE [r EXCEPT !.pc = IF tournament.format = "swiss" THEN "unfinished" ELSE "standings",
                   !.stack = <<>>]

(* The next candidate of the innermost call that has one left. *)
Resume(r) ==
    LET left == {i \in DOMAIN r.stack : r.stack[i].todo # {}}
    IN IF left = {} THEN AfterResolving(r)
       ELSE [r EXCEPT !.pc = "feed", !.stack = SubSeq(r.stack, 1, Max(left))]

(* Mutant: games counted from zero. *)
MaterializeFromZero(r, p, back) == [r EXCEPT !.pc = "insert", !.p = p, !.game = 0, !.back = back]

(* materializeBattles starts with the first game. *)
Materialize(r, p, back) == [r EXCEPT !.pc = "insert", !.p = p, !.game = 1, !.back = back]

(* The second loop of generate_schedule, over the byes and the known pairings. *)
NextOfCalendar(r, plan) ==
    IF plan = {} THEN [r EXCEPT !.pc = "running"]
    ELSE LET p == NextOf(plan)
             q == [r EXCEPT !.plan = Rest(plan)]
         IN IF p.bye THEN [q EXCEPT !.pc = "bye", !.p = p, !.back = "calendar"]
                     ELSE Materialize(q, p, "calendar")

NextOfRound(r, plan) ==
    IF plan = {} THEN [r EXCEPT !.pc = "standings"]
    ELSE [r EXCEPT !.pc = "pairing", !.p = NextOf(plan), !.plan = Rest(plan)]

(* Where a bye or the last game of a series returns to. *)
Return(r) ==
    CASE r.back = "calendar" -> NextOfCalendar(r, r.plan)
      [] r.back = "round"    -> NextOfRound(r, r.plan)
      [] r.back = "resolve"  -> Resume(r)

-----------------------------------------------------------------------------
(* The queue (JobQueue), without its clock.  A job whose loop is gone is   *)
(* taken again at some time.  These handlers renew no lock: the model      *)
(* takes it that their few statements end before it expires.               *)

Handled(j) == j.kind \in {"generate_schedule", "process_result"}

Claim(l, j) ==
    /\ At(l, "idle")
    /\ Handled(j)
    /\ \/ jobs[j] = "queued"
       \/ jobs[j] = "running" /\ \A k \in Loop : loop[k].job # j
    /\ jobs' = [jobs EXCEPT ![j] = "running"]
    /\ Continue(l, [IdleLoop EXCEPT !.job = j,
                        !.pc = IF j = ScheduleJob THEN "begin" ELSE "match"])
    /\ UNCHANGED <<tournament, match, battle, faults>>

EndJob(l, pc, status) ==
    /\ At(l, pc)
    /\ jobs' = [jobs EXCEPT ![loop[l].job] = status]
    /\ Continue(l, IdleLoop)
    /\ UNCHANGED <<tournament, match, battle, faults>>

CompleteJob(l) == EndJob(l, "done", "done")

(* The errors of these handlers are not classified. *)
FailJob(l) == EndJob(l, "fail", "needs_review")

(* The engine ends a game. *)
PlayBattle(b, o) ==
    /\ RunJob(b) \in DOMAIN jobs
    /\ jobs[RunJob(b)] = "queued"
    /\ battle' = [battle EXCEPT ![b] = [status |-> "finished", winner |-> o.winner, lead |-> o.lead]]
    /\ jobs' = Extend([jobs EXCEPT ![RunJob(b)] = "done"], ResultJob(b), "queued")
    /\ UNCHANGED <<tournament, match, loop, faults>>

(* The retries of the battle are exhausted: no result, no process_result. *)
BattleFails(b) ==
    /\ RunJob(b) \in DOMAIN jobs
    /\ jobs[RunJob(b)] = "queued"
    /\ Strikes("battle")
    /\ battle' = [battle EXCEPT ![b].status = "failed"]
    /\ jobs' = [jobs EXCEPT ![RunJob(b)] = "needs_review"]
    /\ UNCHANGED <<tournament, match, loop>>

-----------------------------------------------------------------------------
(* generate_schedule *)

BeginSchedule(l) ==
    /\ At(l, "begin")
    /\ IF tournament.state = "closed"
       THEN Continue(l, [loop[l] EXCEPT !.pc = "matches", !.plan = Schedule])
       ELSE Goto(l, "done")
    /\ UNCHANGED <<tournament, match, battle, jobs, faults>>

(* One INSERT per pairing; a second attempt hits UNIQUE (tournament, slot). *)
InsertMatch(l) ==
    /\ At(l, "matches")
    /\ LET p == NextOf(loop[l].plan)
           rest == Rest(loop[l].plan)
           calendar == {q \in Schedule : q.bye \/ (q.home # NoOne /\ q.away # NoOne)}
       IN IF p.slot \in DOMAIN match
          THEN Goto(l, "fail") /\ UNCHANGED match
          ELSE /\ match' = Extend(match, p.slot, NewMatch(p))
               /\ Continue(l, IF rest # {} THEN [loop[l] EXCEPT !.plan = rest]
                              ELSE NextOfCalendar(loop[l], calendar))
    /\ UNCHANGED <<tournament, battle, jobs, faults>>

(* A rest is decided without a battle: who rests wins. *)
DecideBye(l) ==
    /\ At(l, "bye")
    /\ match' = [match EXCEPT ![loop[l].p.slot] = Decided(@, loop[l].p.home)]
    /\ Continue(l, Return(loop[l]))
    /\ UNCHANGED <<tournament, battle, jobs, faults>>

(* materializeBattles: the rows of a game, and then its job. *)
InsertBattle(l) ==
    /\ At(l, "insert")
    /\ LET r == loop[l]
           copies == {b \in GamesOf(r.p.slot) : b[2] = r.game}
           b == <<r.p.slot, r.game, Cardinality(copies) + 1>>
       IN /\ battle' = Extend(battle, b, [status |-> "scheduled", winner |-> "none", lead |-> 0])
          /\ Continue(l, [r EXCEPT !.pc = "enqueue", !.battle = b])
    /\ UNCHANGED <<tournament, match, jobs, faults>>

EnqueueBattle(l) ==
    /\ At(l, "enqueue")
    /\ Enqueue(RunJob(loop[l].battle))
    /\ LET r == [loop[l] EXCEPT !.battle = <<>>]
       IN Continue(l, IF r.game < tournament.games
                      THEN [r EXCEPT !.pc = "insert", !.game = @ + 1] ELSE Return(r))
    /\ UNCHANGED <<tournament, match, battle, faults>>

StartTournament(l) ==
    /\ At(l, "running")
    /\ tournament' = [tournament EXCEPT !.state = "running"]
    /\ Continue(l, NextBye(loop[l], {p \in Schedule : p.bye}))
    /\ UNCHANGED <<match, battle, jobs, faults>>
-----------------------------------------------------------------------------
(* process_result: close the series *)

ReadMatch(l) ==
    /\ At(l, "match")
    /\ LET slot == loop[l].job.key[1]
           m == match[slot]
       IN Continue(l, IF MatchDone(slot) THEN AfterResolving(loop[l])
                      ELSE [loop[l] EXCEPT !.pc = "series", !.p = m.pairing])
    /\ UNCHANGED <<tournament, match, battle, jobs, faults>>

(* While a game that exists is open the handler returns, and the job is    *)
(* done.  The rows of finished battles do not change, so that the two      *)
(* queries are one step.                                                   *)
ReadSeries(l) ==
    /\ At(l, "series")
    /\ LET r == loop[l]
           games == GamesOf(r.p.slot)
       IN Continue(l, IF \E b \in games : Open(b) THEN [r EXCEPT !.pc = "done"]
                      ELSE [r EXCEPT !.pc = "close",
                                     !.winner = SeriesWinner({Game(b) : b \in games}, r.p)])
    /\ UNCHANGED <<tournament, match, battle, jobs, faults>>

CloseMatch(l) ==
    /\ At(l, "close")
    /\ LET slot == loop[l].p.slot IN
       /\ match' = [match EXCEPT ![slot] = Decided(@, loop[l].winner)]
       /\ Continue(l, [loop[l] EXCEPT !.pc = "source", !.stack = <<Frame(slot)>>])
    /\ UNCHANGED <<tournament, battle, jobs, faults>>

-----------------------------------------------------------------------------
(* resolveDependents *)

Top(r) == Len(r.stack)

(* Mutant: the visitor is taken for the loser. *)
VisitorLost(row) == row.pairing.away

(* The loser is the other side, of the row as it is now. *)
LoserIn(row) ==
    IF row.pairing.home = row.winner THEN row.pairing.away ELSE row.pairing.home

ReadSource(l) ==
    /\ At(l, "source")
    /\ LET r == loop[l]
           slot == r.stack[Top(r)].slot
           row == match[slot]
       IN Continue(l, IF ~MatchDone(slot) THEN Resume(r)
                      ELSE [r EXCEPT !.pc = "candidates",
                                !.stack[Top(r)] = [@ EXCEPT !.winner = row.winner,
                                                            !.loser = LoserIn(row)]])
    /\ UNCHANGED <<tournament, match, battle, jobs, faults>>

Waits(source, side, slot) == side = NoOne /\ source.slot = slot

(* One query reads every scheduled match, its pairing included; the others *)
(* than the dependents of the slot are passed over.                        *)
ReadCandidates(l) ==
    /\ At(l, "candidates")
    /\ LET r == loop[l]
           slot == r.stack[Top(r)].slot
           waiting == {p \in {match[m].pairing : m \in {s \in DOMAIN match : ~MatchDone(s)}} :
                          Waits(p.homeSource, p.home, slot) \/ Waits(p.awaySource, p.away, slot)}
       IN Continue(l, Resume([r EXCEPT !.stack[Top(r)].todo = waiting]))
    /\ UNCHANGED <<tournament, match, battle, jobs, faults>>

(* Mutant: the loser that a bye does not have is still waited for. *)
FedWaitingForNobody(p, f) ==
    LET Taken(source) == IF source.take = "winner" THEN f.winner ELSE f.loser
        home == Waits(p.homeSource, p.home, f.slot) /\ Taken(p.homeSource) # NoOne
        away == Waits(p.awaySource, p.away, f.slot) /\ Taken(p.awaySource) # NoOne
    IN [p EXCEPT !.home = IF home THEN Taken(p.homeSource) ELSE @,
                 !.away = IF away THEN Taken(p.awaySource) ELSE @,
                 !.homeSource = IF home THEN NoSource ELSE @,
                 !.awaySource = IF away THEN NoSource ELSE @]

(* The pairing with the sides that waited for the frame's slot filled in;  *)
(* the source is consumed even if it gives nobody.                         *)
Fed(p, f) ==
    LET Taken(source) == IF source.take = "winner" THEN f.winner ELSE f.loser
        home == Waits(p.homeSource, p.home, f.slot)
        away == Waits(p.awaySource, p.away, f.slot)
    IN [p EXCEPT !.home = IF home THEN Taken(p.homeSource) ELSE @,
                 !.away = IF away THEN Taken(p.awaySource) ELSE @,
                 !.homeSource = IF home THEN NoSource ELSE @,
                 !.awaySource = IF away THEN NoSource ELSE @]

Pending(p) ==
    \/ p.home = NoOne /\ p.homeSource # NoSource
    \/ p.away = NoOne /\ p.awaySource # NoSource

(* What the handler does with a pairing it has just written. *)
AfterFeeding(r, p) ==
    LET q == [r EXCEPT !.p = p]
    IN CASE Pending(p) -> Resume(q)
         [] ~Pending(p) /\ p.home # NoOne /\ p.away # NoOne ->
                [q EXCEPT !.pc = IF p.conditionalOn # <<>> THEN "condition" ELSE "existing"]
         [] OTHER -> [q EXCEPT !.pc = "walkover",
                               !.winner = IF p.home # NoOne THEN p.home ELSE p.away]

(* The UPDATE writes the whole pairing as it was when it was read. *)
FeedDependent(l) ==
    /\ At(l, "feed")
    /\ LET r == loop[l] IN
       \E old \in r.stack[Top(r)].todo :
          LET p == Fed(old, r.stack[Top(r)]) IN
          /\ match' = [match EXCEPT ![p.slot].pairing = p]
          /\ Continue(l, AfterFeeding([r EXCEPT !.stack[Top(r)].todo = @ \ {old}], p))
    /\ UNCHANGED <<tournament, battle, jobs, faults>>

(* Mutant: the bracket reset is always played. *)
AlwaysReset(l) ==
    /\ At(l, "condition")
    /\ Goto(l, "existing")
    /\ UNCHANGED <<tournament, match, battle, jobs, faults>>

(* The bracket reset is a formality when the unbeaten side won GF as well. *)
CheckCondition(l) ==
    /\ At(l, "condition")
    /\ LET r == loop[l]
           cond == match[r.p.conditionalOn].winner
       IN Continue(l, IF cond # NoOne /\ cond = r.p.home
                      THEN [r EXCEPT !.pc = "walkover", !.winner = cond]
                      ELSE [r EXCEPT !.pc = "existing"])
    /\ UNCHANGED <<tournament, match, battle, jobs, faults>>

(* finishWithout, which calls resolveDependents in turn. *)
WalkOver(l) ==
    /\ At(l, "walkover")
    /\ LET slot == loop[l].p.slot IN
       /\ match' = [match EXCEPT ![slot] = Decided(@, loop[l].winner)]
       /\ Continue(l, [loop[l] EXCEPT !.pc = "source", !.stack = Append(@, Frame(slot))])
    /\ UNCHANGED <<tournament, battle, jobs, faults>>

CheckExisting(l) ==
    /\ At(l, "existing")
    /\ Continue(l, IF GamesOf(loop[l].p.slot) # {} THEN Resume(loop[l])
                   ELSE Materialize(loop[l], loop[l].p, "resolve"))
    /\ UNCHANGED <<tournament, match, battle, jobs, faults>>

-----------------------------------------------------------------------------
(* maybeScheduleNextSwissRound *)

CheckRound(l) ==
    /\ At(l, "unfinished")
    /\ Goto(l, IF \A m \in DOMAIN match : MatchDone(m) THEN "table" ELSE "standings")
    /\ UNCHANGED <<tournament, match, battle, jobs, faults>>

Sides(m) == {match[m].pairing.home, match[m].pairing.away} \ {NoOne}

(* Points of a match for one of its sides: 3 for a win or a rest, 1 for a draw. *)
PointsFor(id, m) ==
    IF id \notin Sides(m) THEN 0
    ELSE IF match[m].pairing.bye THEN 3
    ELSE IF ~MatchDone(m) THEN 0
    ELSE IF match[m].winner = id THEN 3
    ELSE IF match[m].winner = NoOne THEN 1
    ELSE 0

Points(id, ms) == MapThenSumSet(LAMBDA m : PointsFor(id, m), ms)

SwissStandings ==
    [i \in DOMAIN tournament.entries |->
     [id     |-> tournament.entries[i],
      seed   |-> i,
      points |-> Points(tournament.entries[i], DOMAIN match),
      hadBye |-> \E m \in DOMAIN match : match[m].pairing.bye
                                          /\ match[m].pairing.home = tournament.entries[i]]]

PairsPlayed == {Sides(m) : m \in {k \in DOMAIN match : ~match[k].pairing.bye}}

LastRound == Max({m[2] : m \in DOMAIN match})

(* Standings, and the pairings of the next round if there is one. *)
ReadTable(l) ==
    /\ At(l, "table")
    /\ Continue(l, NextOfRound(loop[l],
            IF LastRound >= SwissRounds(Len(tournament.entries)) THEN {}
            ELSE SwissRound(SwissStandings, PairsPlayed, LastRound + 1)))
    /\ UNCHANGED <<tournament, match, battle, jobs, faults>>

(* Another loop may have inserted the slot already: UNIQUE, the job fails. *)
InsertPairing(l) ==
    /\ At(l, "pairing")
    /\ LET p == loop[l].p IN
       IF p.slot \in DOMAIN match
       THEN Goto(l, "fail") /\ UNCHANGED match
       ELSE /\ match' = Extend(match, p.slot, NewMatch(p))
            /\ Continue(l, IF p.bye THEN [loop[l] EXCEPT !.pc = "bye", !.back = "round"]
                           ELSE Materialize(loop[l], p, "round"))
    /\ UNCHANGED <<tournament, battle, jobs, faults>>

-----------------------------------------------------------------------------
(* The end of process_result *)

EnqueueStandings(l) ==
    /\ At(l, "standings")
    /\ Enqueue(StandingsJob(loop[l].job.key))
    /\ Goto(l, "openMatch")
    /\ UNCHANGED <<tournament, match, battle, faults>>

(* Mutant: only the battles are looked at. *)
SkipMatches(l) ==
    /\ At(l, "openMatch")
    /\ Goto(l, "openBattle")
    /\ UNCHANGED <<tournament, match, battle, jobs, faults>>

CheckMatches(l) ==
    /\ At(l, "openMatch")
    /\ Goto(l, IF \E m \in DOMAIN match : ~MatchDone(m) THEN "done" ELSE "openBattle")
    /\ UNCHANGED <<tournament, match, battle, jobs, faults>>

CheckBattles(l) ==
    /\ At(l, "openBattle")
    /\ Goto(l, IF \E b \in DOMAIN battle : Open(b) THEN "done" ELSE "champion")
    /\ UNCHANGED <<tournament, match, battle, jobs, faults>>

(* leagueTable: a match all of whose games hit the technical limit counts  *)
(* for nothing.                                                            *)
Technicals(m) == GamesOf(m) # {} /\ \A b \in GamesOf(m) : battle[b].winner = "none"

Counted == {m \in DOMAIN match : MatchDone(m) /\ ~Technicals(m)}

LeadFor(id, m) ==
    LET lead == MapThenSumSet(LAMBDA b : HomeLead(Game(b)), GamesOf(m))
    IN IF match[m].pairing.home = id THEN lead ELSE -lead

Lead(id) == MapThenSumSet(LAMBDA m : LeadFor(id, m), {m \in Counted : id \in Sides(m)})

WinsOver(a, b) == Cardinality({m \in Counted : Sides(m) = {a, b} /\ match[m].winner = a})

(* sortTable's comparator, pair by pair: points, direct encounters, lead, seed. *)
Outranks(i, j) ==
    LET a == tournament.entries[i]
        b == tournament.entries[j]
        points == Points(a, Counted) - Points(b, Counted)
        direct == WinsOver(a, b) - WinsOver(b, a)
        lead == Lead(a) - Lead(b)
    IN \/ points > 0
       \/ points = 0 /\ direct > 0
       \/ points = 0 /\ direct = 0 /\ (lead > 0 \/ (lead = 0 /\ i < j))

(* Mutant: the table is sorted upside down. *)
LastOfTable ==
    {tournament.entries[i] : i \in {k \in DOMAIN tournament.entries :
        \A j \in DOMAIN tournament.entries \ {k} : Outranks(j, k)}}

(* It is no order when three or more beat each other in a circle: then     *)
(* what the sort puts first is anybody who is not behind on points.        *)
Leaders ==
    LET seeds == DOMAIN tournament.entries
        best == {i \in seeds : \A j \in seeds \ {i} : Outranks(i, j)}
        onTop == {i \in seeds : \A j \in seeds :
                    Points(tournament.entries[i], Counted) >= Points(tournament.entries[j], Counted)}
    IN {tournament.entries[i] : i \in IF best # {} THEN best ELSE onTop}

(* computeChampion.  Its queries come when every match was seen finished. *)
ReadChampion(l) ==
    /\ At(l, "champion")
    /\ LET finals == {m \in DOMAIN match : match[m].pairing.final /\ MatchDone(m)}
       IN \E id \in IF finals # {} THEN {match[m].winner : m \in finals} ELSE Leaders :
             Continue(l, [loop[l] EXCEPT !.pc = "finish", !.winner = id])
    /\ UNCHANGED <<tournament, match, battle, jobs, faults>>

FinishTournament(l) ==
    /\ At(l, "finish")
    /\ tournament' = [tournament EXCEPT !.state = "finished", !.champion = loop[l].winner]
    /\ Goto(l, "done")
    /\ UNCHANGED <<match, battle, jobs, faults>>

-----------------------------------------------------------------------------
(* Faults *)

(* The process of the loop dies; its job stays running until it is taken. *)
Crash(l) ==
    /\ ~At(l, "idle")
    /\ Strikes("crash")
    /\ Continue(l, IdleLoop)
    /\ UNCHANGED <<tournament, match, battle, jobs>>

(* A statement of the handler is refused: not classified, for review. *)
StatementFails(l) ==
    /\ loop[l].pc \notin {"idle", "done", "fail"}
    /\ Strikes("db")
    /\ Goto(l, "fail")
    /\ UNCHANGED <<tournament, match, battle, jobs>>

-----------------------------------------------------------------------------
GenerateSchedule(l) ==
    BeginSchedule(l) \/ InsertMatch(l) \/ DecideBye(l) \/ StartTournament(l)

MaterializeBattles(l) == InsertBattle(l) \/ EnqueueBattle(l)

CloseSeries(l) == ReadMatch(l) \/ ReadSeries(l) \/ CloseMatch(l)

ResolveDependents(l) ==
    \/ ReadSource(l) \/ ReadCandidates(l) \/ FeedDependent(l)
    \/ CheckCondition(l) \/ WalkOver(l) \/ CheckExisting(l)

NextSwissRound(l) == CheckRound(l) \/ ReadTable(l) \/ InsertPairing(l)

ConcludeResult(l) ==
    \/ EnqueueStandings(l) \/ CheckMatches(l) \/ CheckBattles(l)
    \/ ReadChampion(l) \/ FinishTournament(l)

Statement(l) ==
    \/ GenerateSchedule(l) \/ MaterializeBattles(l) \/ CloseSeries(l)
    \/ ResolveDependents(l) \/ NextSwissRound(l) \/ ConcludeResult(l)
    \/ CompleteJob(l) \/ FailJob(l)

EngineEnds(b) == (\E o \in Outcomes : PlayBattle(b, o)) \/ BattleFails(b)

Next ==
    \/ \E l \in Loop : Statement(l) \/ Crash(l) \/ StatementFails(l)
    \/ \E l \in Loop, j \in DOMAIN jobs : Claim(l, j)
    \/ \E b \in DOMAIN battle : EngineEnds(b)

Spec == Init /\ [][Next]_vars

(* Statements return, idle loops poll, engines end. *)
Fairness ==
    /\ \A l \in Loop : WF_vars(Statement(l))
    /\ WF_vars(\E l \in Loop, j \in DOMAIN jobs : Claim(l, j))
    /\ WF_vars(\E b \in DOMAIN battle, o \in Outcomes : PlayBattle(b, o))

FairSpec == Spec /\ Fairness

-----------------------------------------------------------------------------
(* Properties *)

Ids == Range(tournament.entries)
Finished == tournament.state = "finished"

JobKeys == {ScheduleJob} \cup UNION {{RunJob(b), ResultJob(b), StandingsJob(b)} : b \in DOMAIN battle}

TypeOK ==
    /\ tournament.state \in {"closed", "running", "finished"}
    /\ tournament.champion \in Ids \cup {NoOne}
    /\ \A m \in DOMAIN match :
          /\ match[m].state \in {"scheduled", "finished"}
          /\ match[m].winner \in Sides(m) \cup {NoOne}
          /\ match[m].pairing.slot = m
    /\ \A b \in DOMAIN battle : b[1] \in DOMAIN match /\ b[2] \in 1..tournament.games
    /\ jobs \in [DOMAIN jobs -> {"queued", "running", "done", "needs_review"}]
    /\ DOMAIN jobs \subseteq JobKeys
    /\ \A l \in Loop : loop[l].pc \in PC /\ loop[l].job \in DOMAIN jobs \cup {NoJob}

(* The matches id played and did not win (a formality is not played). *)
Losses(id) == {m \in DOMAIN match : MatchDone(m) /\ GamesOf(m) # {}
                                    /\ id \in Sides(m) /\ match[m].winner # id}

(* What a bracket promises: when a single elimination ends everybody but   *)
(* the champion has lost once, when a double elimination ends everybody    *)
(* but the champion has lost twice, and the champion less than that        *)
(* (formats.ts, the loser's bracket and the bracket reset).                *)
EliminatedFairly ==
    LET lives == IF tournament.format = "single_elimination" THEN 1 ELSE 2
    IN Finished /\ tournament.format \in {"single_elimination", "double_elimination"} =>
        \A id \in Ids : IF id = tournament.champion THEN Cardinality(Losses(id)) < lives
                                                     ELSE Cardinality(Losses(id)) = lives

(* In a league, a round robin or a swiss nobody has more points than the   *)
(* champion, although the comparator is no order (sortTable).              *)
ChampionLeads ==
    (Finished /\ tournament.format \notin {"single_elimination", "double_elimination"}) =>
        LET c == tournament.champion IN
        /\ c \in Ids
        /\ \A id \in Ids : Points(id, Counted) <= Points(c, Counted)

(* results.ts:43: a series is resolved when all of its games have ended.   *)
(* Each of the rounds_per_pairing games of a decided match was played to   *)
(* its end, and there is no other.                                         *)
SeriesWhole ==
    \A m \in DOMAIN match :
        MatchDone(m) /\ GamesOf(m) # {} =>
            /\ GamesOf(m) = {<<m, g, 1>> : g \in 1..tournament.games}
            /\ \A b \in GamesOf(m) : battle[b].status = "finished"

(* A tournament that has finished is complete: nothing is left to play.    *)
FinishedIsComplete ==
    Finished => /\ \A m \in DOMAIN match : MatchDone(m)
                /\ \A b \in DOMAIN battle : battle[b].status = "finished"

(* Tournaments end by themselves. *)
TournamentEnds == <>Finished

(* The tournament plays its calendar: whatever the loops do, matches are   *)
(* decided once, in order, by the sides that earned them (Calendar).       *)
Drawing(t) == [format |-> t.format, ids |-> t.entries, owner |-> t.owner,
               played |-> {}, rested |-> {}]

C == INSTANCE Calendar WITH
        Drawn <- {Drawing(t) : t \in Entered},
        entered <- Drawing(tournament),
        calendar <- Schedule,
        result <- [m \in {p.slot : p \in Schedule}
                         \cap {k \in DOMAIN match : MatchDone(k)} |->
                      [home |-> match[m].pairing.home, away |-> match[m].pairing.away,
                       winner |-> match[m].winner]]

KeepsCalendar == C!CalendarSpec

(* When every job of the tournament is done, no match is left behind: one  *)
(* whose sources are decided is decided too, or has its battles            *)
(* (resolveDependents; formats.ts: the battle is created when both sides   *)
(* are resolved).                                                          *)
NothingLeftBehind ==
    (\A j \in DOMAIN jobs : Handled(j) => jobs[j] = "done") =>
        \A p \in Schedule :
            (\A source \in {p.homeSource, p.awaySource} \ {NoSource} : MatchDone(source.slot))
            => MatchDone(p.slot) \/ GamesOf(p.slot) # {}
=============================================================================
