# S9 AI Arena: verification project

TLA+ modules of the parts of S9 AI Arena whose correctness depends on the order of things: the job
queue in PostgreSQL, the leases that reserve a battle for one worker, the transaction that closes it,
the tournament that grows out of the results, the ratings and tables that follow from them, the life
of a bot's version, the live feed and the video stream, and the rules by which the engine scores and
ends a battle. Everything is translated from the TypeScript under `src/apps` (and one function of
`src/packages/game-rules`); TLC checks small instances, and TLAPS proves the safety properties of the
battle runner, the tournament, the ratings, a bot's version, the stream supervisor, the spectator gateway and the
engine for every value of the constants. `PROJECT.json` maps every definition to its lines.

Run `tlc -config X.cfg M` and `tlapm M.tla` (`M` one of the modules `...Proofs`) in this
directory.

## 1. The system

People upload bots; tournaments match them; an engine plays the battles; ratings, brackets and
replays follow; spectators and a video stream watch. The processes share one PostgreSQL database and
almost nothing else.

| Component | State it keeps | Operations | Interacts with | What is hard | Correct when |
|---|---|---|---|---|---|
| Job queue (`queue.ts`) | table `jobs`: status, attempts, locked_by, locked_at, dedupe_key | enqueue, claim, complete, fail (infrastructure, unclassified) | every process that runs or asks for work | a lock that expires under a live worker; updates by id alone | one row per dedupe_key, a job is done only when its work is, retries end |
| Worker loop (`worker.ts`) | its slots (`computeConcurrency`), the degraded flag | runOnce, loop, pausar, stop | queue, handlers, Redis signal | several loops share `workerId`; crash between two statements | every failure ends in a retry or before a person |
| Battle runner (`battle-runner.ts`) | `battles` (status, claimed_by, lease_expires_at, result), replay files, `battle_stats` | claim, renew, execute, close, release, review, rich statistics | queue, engine, bots in containers, replay service | lease against lock, stalls, lost sessions, duplicates | closed once, with its announcement, by its holder; never orphaned |
| Tournament scheduler (`scheduler.ts`, `results.ts`) | `tournaments`, `matches` (pairing JSON), `battles` | generate_schedule, process_result, resolveDependents, swiss rounds, champion | queue, formats, ratings | many statements without a transaction, several loops, recursion over byes | nobody seated or out undeservedly; the tournament ends, complete |
| Formats (`formats.ts`) | none | the generators of the five individual formats and of teams | scheduler | boundary sizes, owners, repeated rivals | fair calendars |
| Ratings, standings (`ratings.ts`, `standings.ts`) | `ratings`, `rating_events`, `standings` | apply, revert, recompute | process_result, API | lock order, recompute against commit, redelivery | ratings equal the ledger, the last recompute sees everything |
| Bot versions, build worker (`bots.ts`, `bot-manager.ts`, `build-worker.ts`) | `bot_versions.state`, `builds`, `artifacts`, `jobs` | the transitions of a version, build, complete, reject | API, queue, container sandbox | check then update, two transactions, orphans | what is playable was built and validated; nothing stays in validation |
| Battle engine (`sim/battle.ts`, `sim/modes.ts`) | vehicles, flags, zones, scores, the clock | step, onKill, tick and winner of seven modes | bots, runner, feed | state held twice (flag and bearer, mark), many endings in one tick | the fields agree; the end is fair, and comes |
| Spectator gateway (`spectate/gateway.ts`, `engine-executor.ts`) | feeds, used tickets, clients, delayed history and timers | attach, connect, poll, deliver, detach | engine, browsers | late joiners, delay, retries of a battle | nothing early, lost or twice; live while it runs |
| Stream supervisor (`supervisor.ts`) | state, generation, attempts, processes | start, stop, retry and the callbacks | Chromium, FFmpeg, RTMP relay | late exits of killed processes, obsolete retries | one attempt at a time, retries bounded, stopped stays stopped |
| Redis signal (`redis-signal.ts`, `worker.ts`) | socket, pending BLPOP, degraded flag | connect, wait, classify | worker loop | broken connections, guardians | never stops polling |
| Sessions (`auth.ts`) | `sessions`, `session_refresh_tokens` | login, refresh, revoke | browsers | concurrent refresh | one live token per family |
| Start-up clock (`startup-clock.ts`) | two deadlines | awaitAgentReady | container, bootstrap | racing signals | blames the right side |

Replay service, REST routes, docker proxy, maps, web client, packages and infrastructure are listed in
`PROJECT.json` with the reason why they are left out: presentation, pure I/O, or nothing that interleaves.

How work flows: a version is submitted, built and validated; `closeEntries` freezes the versions that take
part and enqueues `generate_schedule`; that inserts the matches, their battles and one `run_battle` job
each; the runner plays a battle with the engine, whose feed spectators follow, and in the transaction that
stores the result enqueues `process_result`; that closes the match, fills in the dependents (new battles,
new jobs), draws the next swiss round, enqueues `update_standings` (which rates the bots and recomputes the
table) and finishes the tournament.

## 2. Plan

1. `JobQueue`, `BattleLifecycle`, `BattleRun`, proofs. **Done.**
2. `Formats`, `Calendar`, `Tournament`, proofs (`Formats` only as far as `Tournament` needs it). **Done.**
3. `Ratings`: the Elo, its reversals and the table under row locks and READ COMMITTED, proofs. **Done.**
4. `BotVersion`: the transitions of a version with their racing requests, the build job, proofs. **Done.**
5. `StreamSupervisor`, `SpectateGateway`, proofs. **Done.**
6. `GameModes`, `ArenaBattle`: the rules of the engine, proofs. **Done.**
7. The fairness of the calendars for any number of entrants, as theorems of `Calendar`. **Done.**
8. Left: `closeEntries` with concurrent enrolments (TD-013); `AuthSessions`; `RedisSignal`; `StartupClock`; the rounds of `match.ts`.

## 3. Modules

| Module | Models | State | Actions |
|---|---|---|---|
| `JobQueue` | `queue.ts` | none: operators on the row of a job | `Claimable`, `Claimed`, `Completed`, `FailedInfrastructure`, `FailedUnclassified`, `Aged` |
| `BattleLifecycle` | what `docs/technical/battles.md` promises of one battle | status, holder, live, outcome, announced | `Start`, `KeepAlive`, `Requeue`, `Finish`, `GiveUp`, `Expire` |
| `BattleRun` | `worker.ts` runOnce, `battle-runner.ts` | the rows of job and battle, the announcement, the replay file, the statistics, where each loop is, stalled processes, faults | one per statement, see below |
| `BattleRunProofs` | theorems about `BattleRun` | | |
| `Formats` | `formats.ts`, series and sides of `results.ts` | none | |
| `Calendar` | what a tournament promises: its calendar, played match by match | what was entered, the calendar, the results | `Decide` |
| `Tournament` | `scheduler.ts`, `results.ts` | the rows of tournament, matches and battles, the jobs, where each loop is, faults | one per statement, see below |
| `CalendarProofs` | theorems about `Calendar`, for any number of entrants, with the lemmas about `Formats` | | |
| `TournamentProofs` | theorems about `Tournament` | | |
| `Ratings` | `update_standings` and the reversals: `ratings.ts`, `standings.ts` | battles, events, ratings, table, jobs, processes, locks | one per SELECT and lock; the writes with their COMMIT |
| `RatingsProofs` | theorems about `Ratings` | | |
| `BotVersion` | `bots.ts`, `completeBuild`, `build-worker.ts`, `e6-bot-manager.ts` | the rows of version, builds, artifacts and jobs, requests, workers | one per statement or transaction |
| `BotVersionProofs` | theorems about `BotVersion` | | |
| `StreamSupervisor` | `supervisor.ts` | the object, its children by kind and generation, sleeping retries | orders and callbacks, each a whole handler |
| `StreamSupervisorProofs` | theorems about `StreamSupervisor` | | |
| `SpectateGateway` | `gateway.ts`, attach and detach in `engine-executor.ts` | feeds, connections, timers, tickets, the clock | one per callback of the event loop |
| `SpectateGatewayProofs` | theorems about `SpectateGateway` | | |
| `GameModes` | `sim/modes.ts` | none: operators on a ruleset and a battle | |
| `ArenaBattle` | `Battle.step` of `sim/battle.ts` | ruleset, battle, step of the loop | one per step of the tick |
| `ArenaBattleProofs` | theorems about `ArenaBattle` | | |
| `MC...` | instances for TLC | | |

### BattleRun

A loop goes `idle` → `claimed` (claimJob) → `reserved` (claimBattle) → `running` (after the participants
were read) → `closing` (finishBattle's first UPDATE, its transaction open) → `written` (replay file) →
`stats` (after COMMIT) → `complete`; failures go over `release` to `fail` and `review`. `missed` is the
branch where claimBattle found the battle taken. Every database statement is an action, so anything
may come between two of them. Time is a pair of counters per battle, the ticks left of the lock
(60 s) and of the lease (45 s); `LeaseTicks < LockTicks` is all that is assumed of them.

Faults are `Crash` (a process with all its loops), `Stall`/`Wake` (a process that stops scheduling and
comes back), `DatabaseError` (a statement is refused) and `SessionLost` (the server ends the session in
an open transaction and rolls it back, the client learns of it with its next statement).

Abstractions. The renewal timer is one pair of actions (`RenewLease`, `RenewLock`: two UPDATEs) while a
loop executes; a renewal that overlaps the closing transaction is left out because its conditions are
those of the holder's row; a refused renewal equals a stall. `run_after` and backoff are left out (a
job may be taken again at any time, which allows more). A replay directory is configured and played
battles come with a replay. `MustActFirst` says that the timer of a live, unstalled process fires before its
lease runs out, which is what 15 s against 45 s is for; a process that does not is a stalled one.
`MaxAtOnce` bounds how many loops are busy with one battle at a time, `MaxFaults` how many faults strike, of any kind.

`BattleLifecycle` is the abstract battle: who holds it (`claimed_by`), whether his lease lives, its result and announcement. A claim
that took it from under a live lease would change the holder in a state that is not `Free`, which no action of it does.

### Formats, Calendar

Slots are tuples (`<<"W", 2, 1>>` for `W2M1`), entrants come in seed order. The loops that build brackets
are written as the sets of pairings they build. `Backtrack` is the swiss pairing with its look-ahead.
`Calendar` draws one calendar and plays it, match by match, in any order that the sources allow and with
any result that the format allows. It is both the reference that the drawings are checked against and
the abstract specification that `Tournament` implements.

### Tournament

Neither handler opens a transaction, so every query and every UPDATE is an action, and what was read is
kept in the loop: the pairings (`plan`), the candidates of resolveDependents (`stack`, one frame per recursive
call), the winner about to be written. `FeedDependent` writes the whole pairing as it was read, as
the code does with the JSON column. `InsertMatch` and `InsertPairing` fail on UNIQUE (tournament_id, slot)
(`migrations.ts:540`).

| Code | Actions |
|---|---|
| handleGenerateSchedule | `BeginSchedule`, `InsertMatch`, `DecideBye`, `StartTournament` |
| materializeBattles | `InsertBattle`, `EnqueueBattle` |
| handleProcessResult, series | `ReadMatch`, `ReadSeries`, `CloseMatch` |
| resolveDependents | `ReadSource`, `ReadCandidates`, `FeedDependent`, `CheckCondition`, `WalkOver`, `CheckExisting` |
| maybeScheduleNextSwissRound | `CheckRound`, `ReadTable`, `InsertPairing` |
| the rest of handleProcessResult | `EnqueueStandings`, `CheckMatches`, `CheckBattles`, `ReadChampion`, `FinishTournament` |
| claimJob, runOnce | `Claim`, `CompleteJob`, `FailJob` |
| battle runner | `PlayBattle`, `BattleFails` |

Abstractions. A battle ends in one step with its announcement, which the theorems `Announcement` and
`ResultIsFinal` justify. Queries are merged into one step only where what they read can no longer
change (the two queries of the series: finished battles stay). The queue keeps no order and no clock. The
pairings of a calendar are inserted in one fixed order. Validation of the entry (rules, catalog, maps, seeds)
comes before the first write and either passes or fails the job; the instances have passed it. Two
entrants with one score are told apart by their seed; scores are a lead of one game.

One assumption is not the code's: **a handler ends within the lock** of its job (60 s). These handlers renew
nothing, so a handler that is stopped for longer is run by a second loop while the first goes on. With
that, games are created twice, stale pairings are written over decided matches and most properties of the module
fail. It is listed as a hazard.

### Ratings

A transaction is READ COMMITTED: what it writes stays with its process until the COMMIT, every SELECT sees
what was committed by then, and a row lock (or the advisory lock of the table) is held to the end. Waiting
for a lock is not being enabled. Each SELECT and each lock is an action; the writes of a transaction, which nobody can see
before, come with its COMMIT (`ApplyRating`, `Undo`, `WriteTable`).

| Code | Actions |
|---|---|
| finishBattle, handleProcessResult | `FinishBattle`, `ProcessResult`, `Enqueue` |
| handleUpdateStandings, claimJob | `Claim`, `ClaimAgain`, `CompleteJob`, `FailJob` |
| applyBattleRating, lockRatings | `LockBattle`, `LockRating` (one per bot), `ApplyRating` |
| revertOfficialBattle, revertBattleRating | `Revert`, `LockForReversal`, `LockRating`, `Undo` |
| recomputeSeasonStandings | `LockTable`, `ReadEvents`, `ReadMatches`, `ReadRatings`, `WriteTable` |

`ProcessResult` is the part of handleProcessResult that decides whether there is an update at all: while another game of the match
is to be played, the handler returns (`results.ts:407`) and the job of this game is `left`; otherwise it closes the match, and
`Enqueue` follows as a statement of its own. The rest of that handler is `Tournament`; that it is repeated until it is done is assumed.

Abstractions. A battle has two sides, one Elo delta that one gains and the other loses (`Exchange` is the
formula, of which only the dependence on the two ratings matters). The table of a season is what it is
computed from: the battles that count, which of their matches are closed (an open series gets no tie break) and the ratings; how they
are summed up is `Formats`. One season and
one mode. Faults: a crash, a refused statement (rolls back), a lock of a job that expires under a waiting loop.

### BotVersion

A request reads the version (`ReadVersion`: getVersionOr404 and assertTransition), then updates it by id
(`Transit`), then, for a submission, inserts the build and enqueues its job: four statements in no
transaction. completeBuild is one transaction of two actions (`BeginComplete` reads the version under the
lock of the build, `CommitComplete` writes and may be refused by the trigger `s9_bot_version_guard` or by
UNIQUE (build_id)). The pipeline is its verdict, or that the platform failed. `CrashRequest`, `CrashWorker`,
`StatementFails` and `ClaimAgain` (the ten minutes of the lock pass) are the faults; `cut` remembers that one
struck where nobody repeats what is left (after the transition of a submission, or between the review of the
job and the rejection of the version).

Abstractions. One version; backoffs are left out (any eligible job may be taken). Uploads, loadouts and the
eligibility query only decide whether a request is made. `freeze` is the loop of closeEntries over one entry.

### StreamSupervisor

The methods that call each other (`StopProcesses`, `Spawn`, `Retry`, `Launch`) are operators on the object with its
children; a handler composes them and `Becomes` the result, since nothing runs in between. Each launch has
its own generation, so a child is its kind and generation: *live*, *flowing* (a relay that publishes),
*told* (SIGTERM was sent), *gone*. Children end when they will, also long after they were told. `media` says
whether FFmpeg's output could be opened. Sleeps of a retry have no length.

Abstractions. What FFmpeg is given and what it prints is `Progress`; the handshake of the relay is its two events.
`MaxGeneration` bounds launches in the guards.

### SpectateGateway

One battle, executed once or more in this process. Time counts polls of the feed. A feed's log has
everything it broadcast, `trimHistory` is how much of it is due. A timer of a backlog may swap with another of
the same poll, since its duration was computed from a moving clock (the viewer orders by tick); across
polls the order is kept. `Attach` over a feed that is still there leaves the old one without a reader, as
the Map of the code does.

`EndDelivered` is about every detach that finds its battle over. The timer of an execution knows the battle and not the execution, so
one that a failed run has left behind may drop the clients of the retry, even after its result and before the delay is over. That case is
the property's named exception (`r < attached`), and what is proved is that it is the only one.

Abstractions. Two executions of one battle do not overlap in one process: the battle's lease and its renewal keep them apart unless the
process stalls longer than the lease. Debug layers, the signature of a ticket, origin checks and the limit of a socket's buffer are left
out.

### GameModes, ArenaBattle

A tick goes through `Decide` (steps 1 and 2: who does not answer counts a time-out, `maxTimeouts` of them
disqualify), `Shot` and `CeaseFire` (steps 3 to 5: any kills that friendly fire allows), `Burnt` and
`CombatOver` (zones that damage), `Mode` (step 6, with the vehicles anywhere), `Respawn` (7) and `End` (9).
`GameModes` has what the seven modes make of a kill and of a tick, and `Winner`: score, overtime, elimination,
time and the tie break in the order of the code. `RulesetsAssumption` is what `engineRulesetFor`
(`battle-rules.ts:794-822`) makes of the setup of a mode: each side has somebody, and overtime comes without tie
break criteria.

Abstractions. Places are a few points instead of a plane, so that two flags are in reach of one vehicle only
if they lie in one place. Damage is left out: a vehicle lives or is killed. Left out as well: the
criterion `hull` (a sum of damage), radio, sounds, energy, simulated latency, the spawn point, `run(maxTicks)`
(which only tools use) and the rounds of `match.ts`.

## 4. Runs

| Run | Question | Instance | Shows |
|---|---|---|---|
| `battle` | is a battle run and closed by one loop only, and does it end? | two loops of one process and one of another, two of them at a time, two faults of any kind | `IInv` (with `AnnouncedWithResult` and `DoneMeansSettled`), `HolderUnique`, `ReplayOfWinner`, that every step is one of `BattleLifecycle` (`KeepsLifecycle`), `SettledOrReviewed`, `SettledWithoutFaults` |
| `formats` | is what is drawn fair? | all formats, 2 to 8 entrants | the five properties of `Calendar` |
| `tournament_serial` | does one loop do it right? | eight tournaments, one loop | `EliminatedFairly`, `ChampionLeads`, `TournamentEnds` |
| `tournament_faults` | what survives concurrency and faults? | brackets of 3 and 4, two loops, one fault | `FinishedIsComplete`, and that each step is one of `Calendar` (`KeepsCalendar`) |
| `tournament_lost` | violation | two loops | half of a pairing overwritten |
| `tournament_series` | violation | one loop, a series of two games, a crash | one game decides the series |
| `ratings_ledger` | do ratings and table follow the results? | two battles of the same bots, as one series or two matches, two loops, a moderator, one fault of three kinds | `LedgerAgrees`, `RatedOnTheSpot`, `TableIsCurrent`, `NoCircle` |
| `bot_builds` | what may be played, and does validation end? | two requests, two builds, two workers, one fault of three kinds | `PlayableHasItsArtifact`, `ValidatedFromValidating`, `LeavesValidating` |
| `stream` | one attempt at a time? | two orders of four kinds, five launches, two retries | `IInv`, `RelaysBounded`, `StoppedUntilStart` |
| `spectate` | does a spectator see all, in time? | two executions, two spectators, two tickets, delays 0 and 2 | `NothingMissing`, `NeverEarly`, `EndDelivered` |
| `spectate_retried` | violation | the same | the feed of a retried battle is detached |
| `arena` | do the modes keep their books, and end? | nine rulesets over seven modes, two or three vehicles | `FlagsAgree`, `MarkIsUnique`, `OneCapturePerTick`, `EliminationFair`, `BattleEnds` |

Each module's `TypeOK` is checked in one of its runs (that of `BattleRun` and `StreamSupervisor` as a part of `IInv`).

### Bounds

* Battles: one battle, since different battles share no row, lock or file; the proofs need no such bound.
  Two attempts, so that both the retry and the exhaustion happen; lock 2 and lease 1 ticks, the smallest values
  with room between expiry of the lease and of the lock. Two processes make every race, a third loop the
  case of two loops with one `workerId`; two loops at a time are the race, whichever two of the three. Two faults
  of any kind are every pair of them: a stall or a crash of the holder, and something that happens to who comes after him.
* Formats: up to 8 entrants gives brackets of three rounds with and without byes, a losers' bracket of
  four rounds and its reset; three owners over 4 to 8 bots gives every shape of collision, 65536 shapes of
  four owners over eight bots were checked once as well. Swiss drawings of 4 and 5 with every set
  of pairs already played include those where greedy pairing fails. `CONSTRAINT Played` stops a league and a
  swiss after the first result: there no match depends on another.
* Tournaments: up to four entrants, the smallest bracket with two matches feeding one and with a losers'
  bracket of two rounds; three gives byes, and the cascade of walkovers in the losers' bracket; two the bracket
  without losers' bracket. Series of two games, which one loop without faults
  (`tournament_serial`) creates before it reads a result, and which a crash cuts in two in `tournament_series`. One fault: the interesting outcomes need one.
* Ratings: two battles are what it takes for two Elos to race over one bot, for a series to be left open
  by the first, for the table to miss a result, and, with the same two bots at exchanged sides, for locks in the order of the entry to close a
  circle. Loops are symmetric. One fault: each kind of fault takes one.
* Bot versions: two builds make a late completion of an older build possible; two attempts give
  retry and exhaustion; with two requests one is stale when the other acts. Five launches of the stream give two
  orders with a retry each, or two retries to exhaustion and a new order.
* Spectators: capacity 1 with two connections, so that the limit bites; one ticket expires
  during the battle; one snapshot, one event and the result; the clock of 5 covers the delay of 2, the
  detach base of 2 and a run after that.
* Arena: limits of 2 to 5 ticks with decisions every second one, scores to win 2 to 4, and a technical limit of 2: long enough for a kill,
  a respawn, a flag brought back by time, and overtime to its end.

### Fairness

`BattleRun!Fairness`: loops poll and statements return; the executor has a time limit; a renewal timer
fires; a stopped process is resumed; clocks advance. Faults are never owed. `SettledOrReviewed` holds with all faults of
its run, `SettledWithoutFaults` only assumes that none happens.
`Tournament!Fairness`: each loop goes on with its statements, some loop claims while a job waits, and the engine
ends what it was given. `TournamentEnds` is checked without faults: a battle that is given up keeps its
tournament open until a person acts (TD-015), which is the documented behaviour.
`BotVersion!Fairness`: the API ends its requests, the workers poll (`build-worker.ts`) and the pipeline
has limits. `LeavesValidating` is checked with all faults of its run.
`ArenaBattle!Spec`: the loop goes on, which the timer of `protocol-server.ts:650-668` does: it sets the
next step after each one until the battle is finished.

### What the runs show about the code

Three runs end in a violation, each a disagreement between the code and its own comments
(`PROJECT.json`, findings, with both places):

1. `tournament_lost`: resolveDependents loses an update when both sources of a match end at the same time, and
   the tournament is stuck.
2. `tournament_series`: the games of a series are inserted one by one, and `results.ts:406` asks whether one that exists is
   open, not whether all of `rounds_per_pairing` exist. After a crash between two games (or a refused statement, or when a battle ends
   before the next one is inserted) the first game decides the match alone. With two loops and three entrants TLC also showed what comes
   of it: two results of one series may both find it complete and both close it (`KeepsCalendar`), and the later one writes its
   pairing over a match that has been played meanwhile (`TypeOK`).
3. `spectate_retried`: the timer that detaches a failed execution detaches the feed of its retry. Checked without
   its exception, `EndDelivered` fails for the same reason: the retry's viewers are cut off before its delayed result.

Further disagreements were met while modelling; the models have the behaviour, and no run is spent on them:

* A query refused between the reservation and the `try` (`battle-runner.ts:333`) leaves the battle running, unowned, for ever.
* An orphaned job is taken without looking at max_attempts (`queue.ts:113` against its header).
* A process resumed after its session was lost overwrites the replay file of the winner (`battle-runner.ts:547`); this is why
  `ReplayOfWinner` is about battles without that fault.
* A retry of process_result after a crash skips resolveDependents (`results.ts:416`), and the next round stays empty.
* The games of a series that are treated before the last one is played get no update_standings (`results.ts:407`), although
  the comment at `results.ts:421` says "after each verified result": the table takes them in with the last one, but they are never
  rated. `TableIsCurrent` says so of the table.
* A loop may finish a swiss tournament while another inserts its next round (`results.ts:438`).
* A stale transition overwrites a suspension (`bots.ts:107` updates by id); what holds nevertheless is
  that nothing without an artifact is playable.
* A recording's FFmpeg that is told to end reports once more and resets the attempts
  (`supervisor.ts:313-320`), so that the limit of retries holds for streams only: see `RelaysBounded`.
* With an unusable RTMPS_URL the state is failed, and the exit of Chromium starts a retry nevertheless.
* The engine tells every bot "loss" at the technical limit (`protocol-server.ts:670-682`), although the
  battle has no loser (ADR-022).
* Two sides that reach the score in one tick: the first in the order of the list wins (`modes.ts:124-126`). The
  comment at `modes.ts:139` that this does not happen with two flags holds while the own flag has to be at its base
  (`OneCapturePerTick`), not without that rule, and not with the flags of three sides.
* Two concurrent closeEntries (`tournaments.ts:333`, TD-013) may set a running tournament back to closed.

`tournament_faults` shows what holds nevertheless: matches are decided in order and by who earned the seat.

## 5. Proofs

### BattleRunProofs

For any number of processes, loops, battles, attempts, ticks and faults and from `JobQueue`'s and `BattleRun`'s
assumptions alone:

| Theorem | States |
|---|---|
| `Invariant` | `Spec => []IInv` |
| `TypeCorrect` | `Spec => []TypeOK` |
| `Exclusion` | `Spec => []HolderUnique` |
| `Announcement` | `Spec => []AnnouncedWithResult` |
| `NothingLeft` | `Spec => []DoneMeansSettled` |
| `ResultIsFinal` | `Spec => FinishedStays` |
| `ReplayIsWinners` | `Spec => []ReplayOfWinner` |
| `Refinement` | `Spec => KeepsLifecycle` |

The argument. None of the safety properties is inductive by itself. `IInv` adds

* `Attempts`: a loop in the middle of a job carries an attempt that the row has counted, and no other loop
  carries the same. This is what makes `owner = workerId:jobId:attempts` unique, and so `HolderUnique` follows from it:
  two holders would have the owner of the row in common, so the same attempt, so be the same loop.
* `Places`: what the place of a loop says of the rows: who is in the closing transaction holds the battle, who
  writes statistics has a finished battle, who completes a job has a settled one. It carries
  `DoneMeansSettled` over the crash between COMMIT and statistics.
* `Rows`: only a running battle has a lease, and the file of a played battle is its claimant's.

Each step of `Next` has a lemma that says which rows it may edit (`BattleSteps`, `JobSteps`, `FileSteps`, `OtherSteps`); the
conjuncts of `IInv` are then preserved case by case (`TypeStep`, `AttemptsStep`, `AnnouncedStep`, `DoneStep`, `RowsStep`,
`PlacesStep`). `Refinement` maps each step to one of `BattleLifecycle` or to a stutter: `LifecycleStep` splits it the same way and
needs `IInv` where a guard of the abstract step (the lease, the transaction) is not one of the concrete step.

`KeepsLifecycle` includes the holder: a claim, a close or a release finds the row as `BattleLifecycle` wants it because their
WHERE asks for it, and `HolderUnique` makes that owner one loop. `ReplayOfWinner` is about battles for which no session was lost in a
transaction; for others it is false (section 4).

### StreamSupervisorProofs

For any number of retries, launches, orders and kinds of orders, from `StreamSupervisorAssumption` alone:

| Theorem | States |
|---|---|
| `Invariant` | `Spec => []IInv` |
| `StopStays` | `Spec => StoppedUntilStart` |
| `RetriesBounded` | `Spec => []RelaysBounded` |

`IInv` (`TypeOK`, `OneAttempt`, `StreamingIsAlive`) is inductive as it stands, and its parts need each other: a break may call
`stopProcesses` safely only because all that runs is what the object points to, which is `OneAttempt`. The methods of the code
are operators on the whole object, so the invariant is stated of an object (`Good`, equivalent to `IInv` by `GoodNow`), and each
method has a lemma on what it makes of one: `StopProcessesQuiets`, `NextGenerationIs`, `InStateIs`, `SpawnCovers`, `RetryIsGood`,
`LaunchIsGood`. The steps compose them (`StartKeeps` and so on; `EndedIsGood` for the exits and failures of children, present
and obsolete).

`StopStays`: in the state stopped no retry sleeps under the present generation (`OneAttempt`), so every wake is obsolete, and
every exit is of a launch that is no longer `Valid`.

`RetriesBounded` needs more than `IInv`: `AttemptsCover` (the relaunches in a row are attempts used up, with one to spare while a
retry sleeps) and `Fresh` (a launch to come has no mode yet, so that a relaunch does not forget that something was recorded).
`ProgressCounts` is the reason for the hypothesis of the property: an encoder that was told to end gives the attempts back only if
its output counts without the relay.

### Induction over finite sets

The induction theorems of the library take an operator, which no prover here can instantiate. Where a fold or a recursive
function is reasoned about, the induction is by a least counterexample: a set of numbers that has a least element (`Least`), or
a set of sets that has a minimal one (`Smallest`, from `FiniteSets`' well-foundedness, stated without operators). `CalendarProofs` and
`RatingsProofs` show in this way that a sum over a finite set is an integer, and the latter what one more element adds and that equal
summands give equal sums.

### CalendarProofs

For any number of entrants and, but for `SeparatesOwners`, whoever owns them; from `CalendarAssumption` alone: what is entered is a
sequence of two entrants or more, all different. A tournament, which implements `Calendar` (`PlaysCalendar`), inherits them.

| Theorem | States |
|---|---|
| `MeetsEverybody` | `CalendarSpec => []EverybodyMeets` |
| `SeparatesOwners` | `CalendarSpec => []OwnersApart` |
| `LeavesOneChampion` | `CalendarSpec => []EverybodyOut` |
| `KeepsSeedsApart` | `CalendarSpec => []SeedsApart` |
| `SeatsFairly` | `CalendarSpec => []SwissRoundFair` |

What a draw alone decides is proved of the draw, which stays (`DrawKept`):

* `MeetsFairly`: in the circle of a round robin everybody but the first turns, and two places meet at one table of one round, because
  twice its number and their sum are a multiple of the odd number of those that turn (`InRound`); the second leg of a league swaps the
  sides (`RoundRobinFair`, `LeagueFair`, for `MeetsEverybody`).
* `Separates`: an exchange of visitors cures two tables or none fits (`ExchangeIs`); a table that is left stays left through the
  exchanges after it, although those move other visitors about (`SingleSeparates`, for `SeparatesOwners`).
* `SeatsAll`: the backtracking of a swiss round pairs everybody with one that suits (`FoundPairsUp`), and finds a way if there is any
  (`FoundIfAny`: take away the first and his mate in it, and the rest can still be paired, so the first has a rival; the one that is
  taken leaves a rest that can be paired, by definition). `SwissRoundFair` speaks of sets of pairs that cover the field with half as
  many pairs as players: such pairs do not overlap (`PairsApart`), and so they are a way. With repeats allowed neighbours are one
  (`NeighboursPair`), which is why the code's "imposible emparejar" is never thrown (`SwissSeatsAll`, for `SeatsFairly`).

What a bracket does to those who play in it needs the matches, so it is an invariant:

* `InPlay`: an entrant is at one place, a side of a table that is drawn or comes from another one (`OnePlace`), and has lost as often as
  that place says (`Stands`): nothing in the bracket of the winners, once in the other. `LevelOf` is the difficult part in the finals,
  where the same place means another number of defeats according to who won the first of them. That no place is fed twice (`Joined`),
  and that only the last match leads nowhere, comes from the bracket's arithmetic: round `a` of the losers takes those of
  round `(a + 3) div 2` of the winners. At the end everybody is at the one end left or was beaten often enough (`LeavesOneChampion`).
* `SeedsPlay`: the tables that feed a match of the winners hold one of the best seeds each (`IsLadder`: doubling the positions puts
  the new seeds opposite the old), whoever wins; with different owners nothing is exchanged (`KeepsSeedsApart`).

`LeaguesDrawn`, `SinglesDrawn` and `DoublesDrawn` are there for `TournamentProofs`: a calendar has one pairing per slot, whose two sides
are known at once or wait for other matches, and the reset's condition is the source of its source.

### TournamentProofs

For any number of loops, entrants, crashes, refused statements and battles given up, under `SingleGames`: the entered tournaments
are leagues, round robins, single or double eliminations, and a match is one game.

| Theorem | States |
|---|---|
| `Invariance` | `Spec => []TInv` |
| `TypeCorrect` | `Spec => []TypeOK` |
| `Complete` | `Spec => []FinishedIsComplete` |
| `PlaysCalendar` | `Spec => KeepsCalendar` |
| `ChampionIsAhead` | `Spec => []ChampionLeads` |
| `EliminatesFairly` | `Spec => []EliminatedFairly` |

`SingleGames` is not there to ease the proof: with two loops and series of two games `KeepsCalendar` and
`TypeOK` are false, and with a swiss tournament `FinishedIsComplete` is (section 4, further disagreements). One game and these four
formats are what `tournament_faults` checks.

The argument. No statement of a handler is protected by a transaction, so the invariant (`Held(t)`, for the entered
tournament `t`) says of each place of a loop what it may still rely on:

* `Queued`, `InCharge` and `ReadOnce`: a result is one job, a job has one loop, and with one game per match so has the match
  that this result decides. A match in creation is in the hands of one loop, and one loop reads it as a source. This is
  what fails for series of two games.
* `CopiesGood`, `CopiesAgree`: the pairing that a loop has read, and will write back whole, is an earlier version of the row: each
  side is as drawn or the one its source has earned (`IsVersion`). Two loops may undo each other's half (`tournament_lost`), but
  what they write is never a side that nobody earned; and whoever has a copy of a match waits for a source that the row still
  waits for, so that no copy is written over a match that is complete.
* `MatchesGood`, `BattlesGood`, `Begun`: the rows are rows of the calendar `ScheduleOf(t)`, a decided match has decided
  sources, a battle belongs to a match with both sides or is not there yet.
* `StackGood`, `ChargeGood`, `ScheduleGood`, `ResultGood`: the frames of resolveDependents stand on decided matches, the loops at a statement
  of generate_schedule still have the rest of the calendar in hand, and a loop about to finish the tournament has seen
  everything decided, which in these formats stays so.

`PlaysCalendar` is the refinement. `DrawnWell` takes from `CalendarProofs` that the calendar of each format is well-formed. `DrawSame` and
`DrawnIsAllowed` show that the calendar is what `Calendar` draws, and that `Calendar`'s own assumption holds for it. Then each step is mapped:
`CloseMatch`, `DecideBye`, `WalkOver` and the formality in `CheckCondition` are `Decide`, with the guard (`Ready`, the verdicts) taken from
`TInv` although the loop read it several statements ago, and every other step, with each fault, leaves the results alone
(`StepKeepsCalendar`).

`ChampionIsAhead` adds `Crowned` to the invariant: whoever a loop has read as champion, or the row names, has no fewer points than
anybody, counted over all battles. It is read after the last match was decided, and the games do not change afterwards
(`CrownedInvariant`). `LeadersLead` is the step: the comparator may be circular among equal points, and then the first of the
table depends on the sorting, but it is never one with fewer points than another.

`EliminatesFairly` joins the calendar to the rows (`Beaten`). `EliminatedFairly` counts the defeats where they are kept, in the rows
of matches and their battles: nobody meets himself (`SidesPlay`), and a match has a battle exactly if its defeat counts in the
calendar, so no walkover, no formality of the reset and no second handler of a result costs anybody a life.

### RatingsProofs

For any number of processes, battles and faults, from `RatingsAssumption` alone:

| Theorem | States |
|---|---|
| `Invariant` | `Spec => []RInv` |
| `TypeCorrect` | `Spec => []TypeOK` |
| `OnTheSpot` | `Spec => RatedOnTheSpot` |
| `WaitsEnd` | `Spec => []NoCircle` |
| `LedgerCorrect` | `LedgerAgrees`, if an exchange of points is a whole number |
| `TableCorrect` | `Spec => []TableIsCurrent` |

`RInv` is `Typed`, `LocksHeld` (a lock is held exactly by the process whose place says so), `Places` and `Rows`.
`Places` is the part that makes a transaction under READ COMMITTED safe: what a process read under a lock is still
what the row holds (`Current`), because whoever writes that row needs the lock.

* `OnTheSpot`: the ratings that an event is computed from are `Current` at the COMMIT.
* `WaitsEnd`: in a circle everybody waits for the lock of a rating, since the battle and the table are taken first and
  last; ratings are locked in the order of the bots, so somebody in the circle would wait for a later bot than the one
  he is waited for.
* `LedgerCorrect`: `Ledger` says that each rating is the start plus the sum of the events that count; a rating or a
  reversal changes one summand of two sums (`SumSame`, `SumAdd`). The hypothesis `ExchangeIsWhole` says that
  `Exchange` returns an integer; it ranges over all integers, so it is a hypothesis and not an ASSUME that TLC would evaluate.
* `TableCorrect`: `Covered` says that a table that lacks a battle or a closed match has an update still to come, or a process on
  its way from reading to writing the table that will see it; the lock of the table orders the others. A table may lack
  the games of open matches and nothing else (`Enough`), and the match that closes comes with a job, whose
  update sees all its games.

### BotVersionProofs

For any number of requests, workers, builds, attempts and faults, from `BotVersionAssumption` alone:

| Theorem | States |
|---|---|
| `Invariant` | `Spec => []VInv` |
| `Playable` | `Spec => []PlayableHasItsArtifact` |
| `Validation` | `Spec => ValidatedFromValidating` |
| `TypeCorrect` | `Spec => []TypeOK` |

`PlayableHasItsArtifact` is not inductive, because a request writes a state that it justified by one it read before. `VInv` adds
`StaleIsHarmless` (what a request is about to publish, freeze or retire was playable when it was read, and the artifact of the
version is never taken away, only replaced by a later one) and `BuildIsArtifact` (the build of the version is one that validated
it). `Validation` follows from the latter: a passed build that the trigger lets through on a version that is no longer validating
would be the version's own build, whose artifact exists, and UNIQUE (build_id) rolls it back.

`TypeCorrect` bounds the attempts of a build job by `MaxAttempts + MaxFaults`, and that takes an invariant of its own, `BInv`: the
code never compares the attempts when it takes an orphan. `Claimed` counts, per build, the attempts over the limit, the workers
still within it and a job that waits: a claim turns one into another, and only a fault adds to the sum. The other parts
(`Submitted`, `Known`, `AtWork`, `Asked`, `Unclaimed`) say which builds and jobs exist for whom.

### SpectateGatewayProofs

For any number of executions, spectators, tickets and delays, from the assumptions of `SpectateGateway` alone:

| Theorem | States |
|---|---|
| `Invariant` | `Spec => []SInv` |
| `TypeCorrect` | `Spec => []TypeOK` |
| `NothingLost` | `Spec => []NothingMissing` |
| `NothingEarly` | `Spec => NeverEarly` |
| `EndArrives` | `Spec => EndDelivered` |

`SInv` says of each feed what it has logged and when (`GoodLog`, `GoodFeed`: everything up to what was polled, in order of
time), and of each connection that the items of the log it may see are told, received or awaited by a timer, each
once (`Whole`), with timers due when the delay is over (`GoodTimers`). `EndArrives` needs `GoodDetach` (a detach waits for the
result, one poll and the delay) and `Ended`: a feed that has seen the result has logged all of its battle, nothing of it later than
one poll after the result. So all its timers have fired, whatever joins when.

### ArenaBattleProofs

For any rulesets with `RulesetsAssumption`, any number of vehicles, flags and sides, any limits:

| Theorem | States |
|---|---|
| `Invariant` | `Spec => []AInv` |
| `TypeCorrect` | `Spec => []TypeOK` |
| `FlagAndBearer` | `Spec => []FlagsAgree` |
| `OneMark` | `Spec => []MarkIsUnique` |
| `EliminationDecides` | `Spec => []EliminationFair` |
| `CaptureAlone` | `Spec => OneCapturePerTick` |

A flag knows its bearer and the bearer its flag, but a bearer may be disqualified or burnt before the mode looks, so neither
`FlagsAgree` nor `MarkIsUnique` holds in the middle of a tick. `AInv` states at every step what does hold (`World`: types, a
carried flag is the one its bearer names, one mark at most, the clock), and the tight form (`FlagsTight`, `MarksTight`: the
bearer and the marked are in play) from the mode's tick to the next decision. The tick over the flags is a recursive function;
`FlagDone` is shown for the flags up to any index by the choice of a least counterexample. `CaptureAlone`: a
capture needs the own flag at its base, and a flag that is at its base when the tick gets to it is not captured in the rest of it.

### Only model-checked

* Liveness (`SettledOrReviewed`, `SettledWithoutFaults`, `TournamentEnds`, `LeavesValidating`, `BattleEnds`): it needs ENABLED.
* What `Tournament` does with swiss tournaments and with series of several games, where `tournament_serial` checks one loop without
  faults; with two loops or faults some of the properties are false there (section 4).

## 6. Not modelled

* Tournaments: the format by teams and generateTeams (a round robin of teams), the dry run, the choice of maps and the
  commit-reveal of seeds; `run_after`; enrolments and the rest of closeEntries.
* The wake-up signal and pausar: they choose how long an idle loop waits; a loop polls whatever they do.
* The start-up clock: a verdict on clock readings inside one container's start; what it decides is a walkover or an infrastructure
  failure for `BattleRun`.
* Sessions and refresh tokens: apart from the flow of bots, battles and tournaments. Their race is listed as a hazard.
* The physics, weapons and sensors of the engine: floating point; `ArenaBattle` takes any outcome of theirs.
* Replay service, docker proxy, maps, web client, generated types, catalogues and infrastructure: pure I/O, presentation,
  constant tables, or nothing that interleaves. They are most of the repository's lines.

Readings of the rules that the model follows and the comments contradict, without a run: a level series in a
bracket goes to `home`, which after the first round need not be the better seed (`results.ts:93`, `formats.ts:17`); the swiss
table breaks ties by direct encounters and not by Buchholz (`formats.ts:14`).
