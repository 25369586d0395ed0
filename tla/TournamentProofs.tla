-------------------------- MODULE TournamentProofs --------------------------
(***************************************************************************)
(* Theorems about Tournament, for any number of loops, entrants and        *)
(* faults.  As long as what is entered has a calendar that is drawn at     *)
(* once and a match is one game (SingleGames), what is in a loop's hands   *)
(* and what it has read stays true of the rows (TInv): a match is decided  *)
(* once, in the order of the calendar and by those who earned the seat     *)
(* (PlaysCalendar: Tournament implements Calendar, so that what            *)
(* CalendarProofs proves of a calendar holds of a tournament), a finished  *)
(* tournament is complete (Complete), the champion of a table is ahead of  *)
(* it (ChampionIsAhead), and the rows of a bracket have nobody but its     *)
(* champion left in (EliminatesFairly).  CalendarProofs is extended for    *)
(* its lemmas about Formats: Calendar's own variables have no part here.   *)
(***************************************************************************)
EXTENDS Tournament, CalendarProofs

-----------------------------------------------------------------------------
(* The inductive invariant *)

Rows(t) == [state : {"scheduled", "finished"}, pairing : Pairings(t), winner : Seats(t)]

Frames(t) == [slot : Slots(t), winner : Seats(t), loser : Seats(t), todo : SUBSET Pairings(t)]

Only(s) == <<s, 1, 1>>
Keys(t) == {Only(s) : s \in Slots(t)}

Places == PC \ {"unfinished", "table", "pairing"}

Loops(t) ==
    [pc : Places, job : {NoJob, ScheduleJob} \cup {ResultJob(b) : b \in Keys(t)},
     stack : Seq(Frames(t)), p : Pairings(t), winner : Seats(t), game : {0, 1},
     battle : Keys(t) \cup {<<>>}, plan : SUBSET ScheduleOf(t),
     back : {"none", "calendar", "resolve"}]

Tournaments(t) ==
    [format : {t.format}, entries : {t.entries}, owner : {t.owner}, games : {t.games},
     state : {"closed", "running", "finished"}, champion : Seats(t)]

Battles == [status : {"scheduled", "finished", "failed"}, winner : {"A", "B", "draw", "none"}, lead : Int]

-----------------------------------------------------------------------------
Ended(s) == s \in DOMAIN match /\ MatchDone(s)

Taken(source) ==
    IF source.take = "winner" THEN match[source.slot].winner ELSE LoserIn(match[source.slot])

Planning(r) == r.pc \in {"bye", "insert", "enqueue"} /\ r.back = "calendar"

Resolving(r) ==
    \/ r.pc \in {"source", "candidates", "feed", "condition", "walkover", "existing"}
    \/ r.pc \in {"insert", "enqueue"} /\ r.back = "resolve"

Reading(r) == r.pc \in {"source", "candidates"}

(* The matches whose dependents a loop has still to read. *)
ToCome(t, r) ==
    IF r.job # ScheduleJob THEN {}
    ELSE IF Planning(r) \/ r.pc = "running" THEN SlotsOf(Byes(t))
    ELSE IF Resolving(r) THEN SlotsOf(r.plan) ELSE {}

ToRead(t, r) == ToCome(t, r) \cup (IF Reading(r) THEN {r.stack[Len(r.stack)].slot} ELSE {})

Resolved(t, s) == Ended(s) /\ \A l \in Loop : s \notin ToRead(t, loop[l])

(* The matches a loop is about to give a battle or a winner. *)
InHand(r) ==
    IF r.pc \in {"bye", "insert", "enqueue", "condition", "walkover", "existing"}
    THEN {r.p.slot} ELSE {}

Ahead(r) == IF Planning(r) THEN SlotsOf(r.plan) ELSE {}

Charge(r) == InHand(r) \cup Ahead(r)

(* A side as it was drawn, or filled in after its source was resolved. *)
Side(t, x, source, x0, source0) ==
    \/ x = x0 /\ source = source0
    \/ /\ source0 # NoSource /\ source = NoSource
       /\ Resolved(t, source0.slot) /\ x = Taken(source0)

IsVersion(t, v) ==
    LET p == Origin(t, v.slot) IN
    /\ v \in Pairings(t) /\ v.slot \in Slots(t)
    /\ v.bye = p.bye /\ v.final = p.final /\ v.conditionalOn = p.conditionalOn
    /\ Side(t, v.home, v.homeSource, p.home, p.homeSource)
    /\ Side(t, v.away, v.awaySource, p.away, p.awaySource)

(* The source f has not yet been filled in. *)
Unfed(t, v, f) ==
    LET p == Origin(t, v.slot) IN
    /\ p.homeSource.slot = f => v.homeSource = p.homeSource
    /\ p.awaySource.slot = f => v.awaySource = p.awaySource

Knows(f) == f.winner = match[f.slot].winner /\ f.loser = LoserIn(match[f.slot])

NotFormal(p) ==
    p.conditionalOn # <<>> =>
        Ended(p.conditionalOn) /\ match[p.conditionalOn].winner # p.home

Playable(p) == p.home # NoOne /\ p.away # NoOne /\ NotFormal(p)

(* Nothing but generate_schedule has been at work. *)
Fresh ==
    /\ DOMAIN battle = {} /\ DOMAIN jobs = {ScheduleJob} /\ tournament.state # "finished"
    /\ \A s \in DOMAIN match : ~MatchDone(s)

Inserted(t) == Slots(t) \subseteq DOMAIN match
AllDecided == \A s \in DOMAIN match : MatchDone(s)
AllPlayed == \A b \in DOMAIN battle : battle[b].status = "finished"

-----------------------------------------------------------------------------
Typed(t) ==
    /\ tournament \in Tournaments(t)
    /\ match \in [DOMAIN match -> Rows(t)] /\ DOMAIN match \subseteq Slots(t)
    /\ IsFiniteSet(DOMAIN match)
    /\ battle \in [DOMAIN battle -> Battles] /\ DOMAIN battle \subseteq Keys(t)
    /\ jobs \in [DOMAIN jobs -> {"queued", "running", "done", "needs_review"}]
    /\ loop \in [Loop -> Loops(t)]

(* The queue *)
Queued ==
    /\ DOMAIN jobs \subseteq JobKeys
    /\ ScheduleJob \in DOMAIN jobs
    /\ \A l \in Loop : /\ At(l, "idle") <=> loop[l].job = NoJob
                       /\ ~At(l, "idle") => loop[l].job \in DOMAIN jobs
                                              /\ jobs[loop[l].job] = "running"
    /\ \A l, k \in Loop : loop[l].job = loop[k].job /\ loop[l].job # NoJob => l = k
    /\ \A b \in DOMAIN battle :
        /\ RunJob(b) \in DOMAIN jobs => (jobs[RunJob(b)] = "queued" <=> battle[b].status = "scheduled")
        /\ RunJob(b) \notin DOMAIN jobs => battle[b].status = "scheduled"
        /\ ResultJob(b) \in DOMAIN jobs => battle[b].status = "finished"

(* The rows *)
Begun(t) ==
    IF DOMAIN match = {} THEN Fresh ELSE NextOf(ScheduleOf(t)).slot \in DOMAIN match

MatchGood(t, s) ==
    /\ match[s].pairing.slot = s /\ IsVersion(t, match[s].pairing)
    /\ MatchDone(s) => /\ ~Pending(match[s].pairing)
                       /\ match[s].winner \in {match[s].pairing.home, match[s].pairing.away, NoOne}
                       /\ Only(s) \in DOMAIN battle => battle[Only(s)].status = "finished"
    /\ ~MatchDone(s) => match[s].winner = NoOne

MatchesGood(t) == \A s \in DOMAIN match : MatchGood(t, s)

BattlesGood(t) ==
    /\ DOMAIN battle # {} => Inserted(t)
    /\ \A s \in DOMAIN match : Only(s) \in DOMAIN battle =>
            ~Pending(match[s].pairing) /\ Playable(match[s].pairing)

(* The resolution of dependents *)
Read(r) == r.stack[Len(r.stack)]

(* What a call of resolveDependents has read and not yet filled in stays true. *)
FramesTrue(t, r) ==
    \A i \in 1..Len(r.stack) :
        r.stack[i].todo # {} => Resolved(t, r.stack[i].slot) /\ Knows(r.stack[i])

StackGood(t, r) ==
    /\ Reading(r) => /\ r.stack # <<>> /\ Read(r).todo = {} /\ Read(r).slot \in DOMAIN match
                     /\ Ended(Read(r).slot) \/ match[Read(r).slot].pairing.bye
                     /\ r.job = ScheduleJob => Read(r).slot \notin SlotsOf(r.plan)
    /\ r.pc = "candidates" => Ended(Read(r).slot) /\ Knows(Read(r))
    /\ r.pc = "feed" => r.stack # <<>>
    /\ r.job = ScheduleJob /\ Resolving(r) => r.plan \subseteq Byes(t)
    /\ FramesTrue(t, r)

(* A pairing as a loop read it may be out of date, but where it waits for  *)
(* the match whose dependents are treated it is not.                       *)
CopyGood(t, f, v) ==
    /\ v.slot \in DOMAIN match /\ IsVersion(t, v)
    /\ Waits(v.homeSource, v.home, f) \/ Waits(v.awaySource, v.away, f)
    /\ Unfed(t, match[v.slot].pairing, f)

CopiesGood(t) ==
    \A l \in Loop : \A i \in 1..Len(loop[l].stack) : \A v \in loop[l].stack[i].todo :
        CopyGood(t, loop[l].stack[i].slot, v)

(* Two copies of a match wait for different matches. *)
Agree(t, f, v, g, w) == /\ v.slot = w.slot => Unfed(t, w, f) /\ Unfed(t, v, g)
                        /\ f # g

CopiesAgree(t) ==
    \A l, k \in Loop : \A i \in 1..Len(loop[l].stack), j \in 1..Len(loop[k].stack) :
        \A v \in loop[l].stack[i].todo, w \in loop[k].stack[j].todo :
            IF l = k /\ i = j THEN v.slot = w.slot => v = w
            ELSE Agree(t, loop[l].stack[i].slot, v, loop[k].stack[j].slot, w)

ReadOnce(t) == \A l, k \in Loop : l # k => ToRead(t, loop[l]) \cap ToRead(t, loop[k]) = {}

(* Matches in charge *)
ChargeGood(t, r) ==
    /\ \A s \in Charge(r) :
        /\ s \in DOMAIN match /\ ~MatchDone(s) /\ ~Pending(match[s].pairing)
        /\ RunJob(Only(s)) \notin DOMAIN jobs
        /\ Only(s) \in DOMAIN battle => r.pc = "enqueue" /\ s = r.p.slot
    /\ InHand(r) # {} => r.p = match[r.p.slot].pairing
    /\ Planning(r) => /\ r.p.slot \notin SlotsOf(r.plan)
                      /\ \A p \in r.plan : p.bye \/ (p.home # NoOne /\ p.away # NoOne)
    /\ r.pc = "bye" => r.p.bye /\ r.back = "calendar"
    /\ r.pc \in {"insert", "enqueue"} => r.back \in {"calendar", "resolve"} /\ r.game = 1
    /\ r.pc \in {"insert", "enqueue", "existing"} => Playable(r.p)
    /\ r.pc = "enqueue" => r.battle = Only(r.p.slot) /\ r.battle \in DOMAIN battle
    /\ r.pc \in {"condition", "walkover", "existing"} => ~r.p.bye
    /\ r.pc = "condition" => r.p.home # NoOne /\ r.p.away # NoOne /\ r.p.conditionalOn # <<>>
    /\ r.pc = "walkover" =>
          \/ (r.p.home = NoOne \/ r.p.away = NoOne)
                /\ r.winner = IF r.p.home # NoOne THEN r.p.home ELSE r.p.away
          \/ r.p.home # NoOne /\ r.p.away # NoOne /\ r.p.conditionalOn # <<>> /\ Ended(r.p.conditionalOn)
                /\ match[r.p.conditionalOn].winner = r.p.home /\ r.winner = r.p.home

InCharge == \A l, k \in Loop : l # k => Charge(loop[l]) \cap Charge(loop[k]) = {}

(* Where the handlers are *)
ScheduleGood(t, r) ==
    r.job = ScheduleJob =>
        /\ \/ r.pc \in {"begin", "matches", "running", "done", "fail"}
           \/ Planning(r) \/ Resolving(r)
        /\ r.pc = "matches" =>
              /\ r.plan # {}
              /\ \/ NextOf(r.plan).slot \in DOMAIN match
                 \/ Fresh /\ Slots(t) \ DOMAIN match \subseteq SlotsOf(r.plan)
        /\ r.pc = "running" \/ Planning(r) \/ Resolving(r) => Inserted(t)

ResultGood(r) ==
    \A b \in DOMAIN battle : r.job = ResultJob(b) =>
        /\ \/ r.pc \in {"match", "series", "close", "standings", "openMatch", "openBattle",
                        "champion", "finish", "done", "fail"}
           \/ Resolving(r)
        /\ r.pc = "match" => r.stack = <<>>
        /\ r.pc \in {"series", "close"} =>
              /\ r.p = match[b[1]].pairing /\ ~MatchDone(b[1])
        /\ r.pc = "close" =>
              /\ r.winner \in {r.p.home, r.p.away} \cup (IF IsMain(r.p) THEN {NoOne} ELSE {})
        /\ r.pc \in {"openBattle", "champion", "finish"} => AllDecided
        /\ r.pc \in {"champion", "finish"} => AllPlayed

FinishedGood == tournament.state = "finished" => AllDecided /\ AllPlayed

LoopGood(t, r) == StackGood(t, r) /\ ChargeGood(t, r) /\ ScheduleGood(t, r) /\ ResultGood(r)

Held(t) ==
    /\ Typed(t) /\ Queued /\ Begun(t) /\ MatchesGood(t) /\ BattlesGood(t)
    /\ \A l \in Loop : LoopGood(t, loop[l])
    /\ CopiesGood(t) /\ CopiesAgree(t) /\ ReadOnce(t) /\ InCharge
    /\ FinishedGood

TInv == \E t \in Entered : Held(t)

LEMMA NotPendingIsFed ==
    ASSUME NEW t, WellDrawn(t), NEW v, IsVersion(t, v), ~Pending(v)
    PROVE  v.homeSource = NoSource /\ v.awaySource = NoSource
<1>1. PICK p : p = Origin(t, v.slot)
  OBVIOUS
<1>2. p \in ScheduleOf(t)
  BY <1>1, OriginOf DEF IsVersion
<1>3. IsKnown(p) \/ IsWaiting(t, p)
  BY <1>2, DrawnIs
<1> QED BY <1>1, <1>3 DEF IsVersion, Side, Pending, IsKnown, IsWaiting

LEMMA SamePairing ==
    ASSUME NEW t, NEW v \in Pairings(t), NEW p \in Pairings(t),
           v.slot = p.slot, v.home = p.home, v.away = p.away,
           v.homeSource = p.homeSource, v.awaySource = p.awaySource,
           v.bye = p.bye, v.final = p.final, v.conditionalOn = p.conditionalOn
    PROVE  v = p
<1> DEFINE Whole(x) == x = [slot |-> x.slot, home |-> x.home, away |-> x.away,
                            homeSource |-> x.homeSource, awaySource |-> x.awaySource,
                            bye |-> x.bye, final |-> x.final, conditionalOn |-> x.conditionalOn]
<1>1. ASSUME NEW A, NEW B, NEW D, NEW E, NEW F, NEW G, NEW H, NEW I,
             NEW x \in [slot : A, home : B, away : D, homeSource : E, awaySource : F,
                        bye : G, final : H, conditionalOn : I]
      PROVE  Whole(x)
  OBVIOUS
<1>2. Whole(v) /\ Whole(p)
  BY <1>1 DEF Pairings
<1> QED BY <1>2

(* A pairing drawn with its sides has one version. *)
LEMMA KnownStays ==
    ASSUME NEW t, WellDrawn(t), NEW v, IsVersion(t, v), IsKnown(Origin(t, v.slot))
    PROVE  v = Origin(t, v.slot)
<1>1. PICK p : p = Origin(t, v.slot)
  OBVIOUS
<1>2. p \in ScheduleOf(t) /\ p.slot = v.slot
  BY <1>1, OriginOf DEF IsVersion
<1>3. p \in Pairings(t) /\ v \in Pairings(t)
  BY <1>2, DrawnIs DEF IsVersion
<1>4. /\ v.slot = p.slot /\ v.home = p.home /\ v.away = p.away
      /\ v.homeSource = p.homeSource /\ v.awaySource = p.awaySource
      /\ v.bye = p.bye /\ v.final = p.final /\ v.conditionalOn = p.conditionalOn
  BY <1>1, <1>2 DEF IsVersion, Side, IsKnown
<1> QED BY <1>1, <1>3, <1>4, SamePairing

(* A bye is drawn as such and has no visitor. *)
LEMMA ByeIs ==
    ASSUME NEW t, WellDrawn(t), NEW v, IsVersion(t, v), v.bye
    PROVE  v = Origin(t, v.slot) /\ v \in Byes(t) /\ IsKnown(v) /\ v.away = NoOne
<1>1. PICK p : p = Origin(t, v.slot)
  OBVIOUS
<1>2. p \in ScheduleOf(t) /\ p.bye
  BY <1>1, OriginOf DEF IsVersion
<1>3. IsKnown(p)
  BY <1>2, DrawnIs DEF IsWaiting
<1>4. v = p
  BY <1>1, <1>3, KnownStays
<1> QED BY <1>1, <1>2, <1>3, <1>4 DEF Byes, IsKnown

-----------------------------------------------------------------------------
(* What a statement of loop l may do to the rows, whatever it is *)

(* The matches that are l's to decide or to fill in. *)
Mine(l, s) ==
    /\ s \in DOMAIN match /\ ~MatchDone(s)
    /\ \/ s \in Charge(loop[l])
       \/ loop[l].job = ResultJob(Only(s))
       \/ Pending(match[s].pairing)

Touches(l, s) ==
    /\ Mine(l, s) /\ match'[s].pairing.bye = match[s].pairing.bye
    /\ match'[s].pairing = match[s].pairing \/ Pending(match[s].pairing)

MildOnMatches(l) ==
    /\ DOMAIN match \subseteq DOMAIN match'
    /\ DOMAIN match' # DOMAIN match => Fresh
    /\ \A s \in DOMAIN match : match'[s] = match[s] \/ Touches(l, s)

NewBattle(t, l, b) ==
    \E s \in Charge(loop[l]) : /\ b = Only(s) /\ Inserted(t) /\ s \in DOMAIN match /\ ~MatchDone(s)
                               /\ ~Pending(match[s].pairing) /\ Playable(match[s].pairing)

MildOnBattles(t, l) ==
    /\ DOMAIN battle \subseteq DOMAIN battle'
    /\ \A b \in DOMAIN battle : battle'[b].status = battle[b].status \/ battle[b].status = "scheduled"
    /\ \A b \in DOMAIN battle' \ DOMAIN battle : NewBattle(t, l, b)

NewJob(l, j) ==
    \/ \E s \in Charge(loop[l]) : s \in DOMAIN match /\ j = RunJob(Only(s))
    \/ \E b \in DOMAIN battle : j = ResultJob(b) \/ j = StandingsJob(b)

MildOnJobs(l) ==
    /\ DOMAIN jobs \subseteq DOMAIN jobs'
    /\ \A j \in DOMAIN jobs' \ DOMAIN jobs : NewJob(l, j)

MildOnTournament ==
    tournament'.state = "finished" =>
        tournament.state = "finished" \/ (AllDecided /\ AllPlayed /\ DOMAIN battle # {})

Mild(t, l) == MildOnMatches(l) /\ MildOnBattles(t, l) /\ MildOnJobs(l) /\ MildOnTournament

(* What was decided and resolved stays so. *)
Kept(t) ==
    /\ \A s : Ended(s) => s \in DOMAIN match' /\ match'[s] = match[s]
    /\ \A s : Resolved(t, s) => Resolved(t, s)'

-----------------------------------------------------------------------------
(* The queue, and who holds what *)

LEMMA JobsApart ==
    ASSUME NEW b, NEW c
    PROVE  /\ ResultJob(b) = ResultJob(c) => b = c
           /\ RunJob(b) = RunJob(c) => b = c
           /\ StandingsJob(b) = StandingsJob(c) => b = c
           /\ ResultJob(b) # RunJob(c) /\ ResultJob(b) # StandingsJob(c) /\ RunJob(b) # StandingsJob(c)
           /\ ResultJob(b) # ScheduleJob /\ RunJob(b) # ScheduleJob /\ StandingsJob(b) # ScheduleJob
           /\ ResultJob(b) # NoJob /\ ScheduleJob # NoJob
  BY DEF ResultJob, RunJob, StandingsJob, ScheduleJob, NoJob, Job

LEMMA ResultJobHeld ==
    ASSUME Queued, NEW k \in Loop, NEW b, loop[k].job = ResultJob(b)
    PROVE  /\ b \in DOMAIN battle /\ battle[b].status = "finished"
           /\ RunJob(b) \in DOMAIN jobs /\ ResultJob(b) \in DOMAIN jobs
<1>1. ResultJob(b) \in DOMAIN jobs
  BY JobsApart DEF Queued, At
<1>2. b \in DOMAIN battle
  BY <1>1, JobsApart DEF Queued, JobKeys
<1> QED BY <1>1, <1>2, JobsApart DEF Queued

LEMMA ResultJobMeans ==
    ASSUME Queued, NEW b, ResultJob(b) \in DOMAIN jobs
    PROVE  b \in DOMAIN battle /\ battle[b].status = "finished" /\ RunJob(b) \in DOMAIN jobs
<1>2. b \in DOMAIN battle
  BY JobsApart DEF Queued, JobKeys
<1> QED BY <1>2, JobsApart DEF Queued

LEMMA OnlyApart ==
    ASSUME NEW s, NEW u
    PROVE  Only(s) = Only(u) => s = u
  BY DEF Only

(* While nothing but generate_schedule has been at work, one loop has it.  *)
LEMMA Alone ==
    ASSUME NEW t, Typed(t), Queued, Fresh, NEW k \in Loop, loop[k].job = ScheduleJob,
           NEW l \in Loop, l # k
    PROVE  loop[l].pc = "idle" /\ loop[l].job = NoJob /\ jobs[ScheduleJob] = "running"
<1>1. loop[l].job # NoJob => loop[l].job \in DOMAIN jobs
  BY DEF Queued, At
<1>2. loop[l].job # ScheduleJob
  BY JobsApart DEF Queued
<1>3. loop[l].job = NoJob
  BY <1>1, <1>2 DEF Fresh
<1>4. jobs[ScheduleJob] = "running"
  BY JobsApart DEF Queued, At
<1> QED BY <1>3, <1>4 DEF Queued, At

-----------------------------------------------------------------------------
LEMMA ByeRows ==
    ASSUME NEW t, WellDrawn(t), MatchesGood(t), Inserted(t), NEW p \in Byes(t)
    PROVE  p.slot \in DOMAIN match /\ match[p.slot].pairing.bye
<1>1. p \in ScheduleOf(t) /\ p.bye
  BY DEF Byes
<1>2. Origin(t, p.slot) = p /\ p.slot \in Slots(t)
  BY <1>1, OriginIs
<1>3. p.slot \in DOMAIN match
  BY <1>2 DEF Inserted
<1>4. MatchGood(t, p.slot)
  BY <1>3 DEF MatchesGood
<1> QED BY <1>1, <1>2, <1>3, <1>4 DEF MatchGood, IsVersion

LEMMA ToReadIs ==
    ASSUME NEW t, WellDrawn(t), MatchesGood(t), NEW r, StackGood(t, r), ScheduleGood(t, r),
           NEW s \in ToRead(t, r)
    PROVE  s \in DOMAIN match /\ (MatchDone(s) \/ match[s].pairing.bye)
<1>1. CASE s \in ToCome(t, r)
  <2>1. r.job = ScheduleJob /\ (Planning(r) \/ r.pc = "running" \/ Resolving(r))
    BY <1>1 DEF ToCome
  <2>2. Inserted(t)
    BY <2>1 DEF ScheduleGood
  <2>3. s \in SlotsOf(Byes(t))
    <3>1. CASE Planning(r) \/ r.pc = "running"
      BY <1>1, <2>1, <3>1 DEF ToCome
    <3>2. CASE ~(Planning(r) \/ r.pc = "running")
      <4>1. s \in SlotsOf(r.plan) /\ r.plan \subseteq Byes(t)
        BY <1>1, <2>1, <3>2 DEF ToCome, StackGood
      <4> QED BY <4>1 DEF SlotsOf
    <3> QED BY <3>1, <3>2
  <2>4. PICK p \in Byes(t) : p.slot = s
    BY <2>3 DEF SlotsOf
  <2> QED BY <2>2, <2>4, ByeRows
<1>2. CASE Reading(r) /\ s = Read(r).slot
  BY <1>2 DEF StackGood, Ended
<1> QED BY <1>1, <1>2 DEF ToRead, Read

LEMMA NotTheirs ==
    ASSUME NEW t, Queued, BattlesGood(t), InCharge, NEW l \in Loop, NEW k \in Loop, l # k,
           NEW s, Mine(l, s), ChargeGood(t, loop[l]), ChargeGood(t, loop[k])
    PROVE  s \notin Charge(loop[k]) /\ loop[k].job # ResultJob(Only(s))
<1>1. CASE s \in Charge(loop[l])
  <2>1. s \notin Charge(loop[k])
    BY <1>1 DEF InCharge
  <2>2. RunJob(Only(s)) \notin DOMAIN jobs
    BY <1>1 DEF ChargeGood
  <2> QED BY <2>1, <2>2, ResultJobHeld
<1>2. CASE loop[l].job = ResultJob(Only(s))
  <2>1. RunJob(Only(s)) \in DOMAIN jobs
    BY <1>2, ResultJobHeld
  <2>2. s \notin Charge(loop[k])
    BY <2>1 DEF ChargeGood
  <2>3. loop[k].job # ResultJob(Only(s))
    BY <1>2, JobsApart DEF Queued
  <2> QED BY <2>2, <2>3
<1>3. CASE Pending(match[s].pairing)
  <2>1. s \notin Charge(loop[k])
    BY <1>3 DEF ChargeGood
  <2>2. loop[k].job # ResultJob(Only(s))
    BY <1>3, ResultJobHeld DEF BattlesGood, Mine
  <2> QED BY <2>1, <2>2
<1> QED BY <1>1, <1>2, <1>3 DEF Mine

-----------------------------------------------------------------------------
(* What stays *)

LEMMA EndedKept ==
    ASSUME NEW l, MildOnMatches(l), NEW s, Ended(s)
    PROVE  s \in DOMAIN match' /\ match'[s] = match[s] /\ Ended(s)'
  BY DEF MildOnMatches, Touches, Mine, Ended, MatchDone

LEMMA KeptIs ==
    ASSUME NEW t, NEW l \in Loop, NEW q, MildOnMatches(l),
           loop \in [Loop -> Loops(t)], loop' = [loop EXCEPT ![l] = q],
           \A s \in ToRead(t, q) : s \in ToRead(t, loop[l]) \/ ~Ended(s)
    PROVE  Kept(t)
<1>1. ASSUME NEW s, Resolved(t, s) PROVE Resolved(t, s)'
  <2>1. Ended(s)'
    BY <1>1, EndedKept DEF Resolved
  <2>2. ASSUME NEW k \in Loop PROVE s \notin ToRead(t, loop'[k])
    <3>1. CASE k = l
      <4>1. loop'[k] = q
        BY <3>1
      <4> QED BY <4>1, <1>1 DEF Resolved
    <3>2. CASE k # l
      <4>1. loop'[k] = loop[k]
        BY <3>2
      <4> QED BY <4>1, <1>1 DEF Resolved
    <3> QED BY <3>1, <3>2
  <2> QED BY <2>1, <2>2 DEF Resolved
<1>2. \A s : Ended(s) => s \in DOMAIN match' /\ match'[s] = match[s]
  BY EndedKept
<1> QED BY <1>1, <1>2 DEF Kept

LEMMA KeptIdle ==
    ASSUME NEW t, NEW l, MildOnMatches(l), UNCHANGED loop
    PROVE  Kept(t)
<1>1. ASSUME NEW s, Resolved(t, s) PROVE Resolved(t, s)'
  BY <1>1, EndedKept DEF Resolved
<1>2. \A s : Ended(s) => s \in DOMAIN match' /\ match'[s] = match[s]
  BY EndedKept
<1> QED BY <1>1, <1>2 DEF Kept

LEMMA TakenKept ==
    ASSUME NEW t, Kept(t), NEW source, Ended(source.slot)
    PROVE  Taken(source)' = Taken(source)
  BY DEF Kept, Taken, LoserIn

LEMMA SideKept ==
    ASSUME NEW t, Kept(t), NEW x, NEW source, NEW x0, NEW source0, Side(t, x, source, x0, source0)
    PROVE  Side(t, x, source, x0, source0)'
<1>1. CASE x = x0 /\ source = source0
  BY <1>1 DEF Side
<1>2. CASE source0 # NoSource /\ source = NoSource /\ Resolved(t, source0.slot) /\ x = Taken(source0)
  <2>1. Resolved(t, source0.slot)'
    BY <1>2 DEF Kept
  <2>2. x = Taken(source0)'
    BY <1>2, TakenKept DEF Resolved
  <2> QED BY <1>2, <2>1, <2>2 DEF Side
<1> QED BY <1>1, <1>2 DEF Side

LEMMA VersionKept ==
    ASSUME NEW t, Kept(t), NEW v, IsVersion(t, v)
    PROVE  IsVersion(t, v)'
  BY SideKept DEF IsVersion

LEMMA KnowsKept ==
    ASSUME NEW t, Kept(t), NEW f, Ended(f.slot), Knows(f)
    PROVE  Knows(f)'
  BY DEF Kept, Knows, LoserIn

LEMMA FramesKept ==
    ASSUME NEW t, Kept(t), NEW r, FramesTrue(t, r)
    PROVE  FramesTrue(t, r)'
<1> SUFFICES ASSUME NEW i \in 1..Len(r.stack), r.stack[i].todo # {}
             PROVE  Resolved(t, r.stack[i].slot)' /\ Knows(r.stack[i])'
  BY DEF FramesTrue
<1>1. Resolved(t, r.stack[i].slot) /\ Knows(r.stack[i])
  BY DEF FramesTrue
<1>2. Resolved(t, r.stack[i].slot)'
  BY <1>1 DEF Kept
<1>3. PICK f : f = r.stack[i]
  OBVIOUS
<1>4. Knows(f)'
  BY <1>1, <1>3, KnowsKept DEF Resolved
<1> QED BY <1>2, <1>3, <1>4

-----------------------------------------------------------------------------
(* What a statement leaves to the other loops *)

LEMMA StackKept ==
    ASSUME NEW t, NEW l, MildOnMatches(l), Kept(t), NEW r, StackGood(t, r)
    PROVE  StackGood(t, r)'
<1>1. FramesTrue(t, r)'
  BY FramesKept DEF StackGood
<1>2. ASSUME Reading(r) PROVE /\ Read(r).slot \in DOMAIN match'
                              /\ Ended(Read(r).slot)' \/ match'[Read(r).slot].pairing.bye
  <2>1. Read(r).slot \in DOMAIN match /\ (Ended(Read(r).slot) \/ match[Read(r).slot].pairing.bye)
    BY <1>2 DEF StackGood
  <2>2. Read(r).slot \in DOMAIN match'
    BY <2>1 DEF MildOnMatches
  <2>3. CASE Ended(Read(r).slot)
    BY <2>2, <2>3, EndedKept
  <2>4. CASE match[Read(r).slot].pairing.bye
    BY <2>1, <2>2, <2>4 DEF MildOnMatches, Touches
  <2> QED BY <2>1, <2>2, <2>3, <2>4
<1>3. ASSUME r.pc = "candidates" PROVE Ended(Read(r).slot)' /\ Knows(Read(r))'
  <2>1. Ended(Read(r).slot) /\ Knows(Read(r))
    BY <1>3 DEF StackGood
  <2>2. PICK f : f = Read(r)
    OBVIOUS
  <2> QED BY <2>1, <2>2, EndedKept, KnowsKept
<1>4. Reading(r) => /\ r.stack # <<>> /\ Read(r).todo = {}
                    /\ r.job = ScheduleJob => Read(r).slot \notin SlotsOf(r.plan)
  BY DEF StackGood
<1>5. /\ r.pc = "feed" => r.stack # <<>>
      /\ r.job = ScheduleJob /\ Resolving(r) => r.plan \subseteq Byes(t)
  BY DEF StackGood
<1> QED BY <1>1, <1>2, <1>3, <1>4, <1>5 DEF StackGood

Spared(r) ==
    \A s \in Charge(r) :
        /\ match'[s] = match[s] /\ RunJob(Only(s)) \notin DOMAIN jobs'
        /\ Only(s) \in DOMAIN battle' => Only(s) \in DOMAIN battle

LEMMA PlayableKept ==
    ASSUME NEW t, Kept(t), NEW p, Playable(p)
    PROVE  Playable(p)'
  BY DEF Kept, Playable, NotFormal, Ended, MatchDone

LEMMA ChargeKept ==
    ASSUME NEW t, NEW l, MildOnMatches(l), MildOnBattles(t, l), Kept(t), NEW r, Spared(r), ChargeGood(t, r)
    PROVE  ChargeGood(t, r)'
<1>1. ASSUME NEW s \in Charge(r)
      PROVE  /\ s \in DOMAIN match' /\ ~MatchDone(s)' /\ ~Pending(match'[s].pairing)
             /\ RunJob(Only(s)) \notin DOMAIN jobs'
             /\ Only(s) \in DOMAIN battle' => r.pc = "enqueue" /\ s = r.p.slot
  <2>1. s \in DOMAIN match /\ ~MatchDone(s) /\ ~Pending(match[s].pairing)
        /\ (Only(s) \in DOMAIN battle => r.pc = "enqueue" /\ s = r.p.slot)
    BY DEF ChargeGood
  <2>2. match'[s] = match[s] /\ RunJob(Only(s)) \notin DOMAIN jobs'
        /\ (Only(s) \in DOMAIN battle' => Only(s) \in DOMAIN battle)
    BY DEF Spared
  <2> QED BY <2>1, <2>2 DEF MildOnMatches, MatchDone
<1>2. InHand(r) # {} => r.p = match'[r.p.slot].pairing
  BY DEF ChargeGood, Spared, Charge, InHand
<1>3. /\ Planning(r) => /\ r.p.slot \notin SlotsOf(r.plan)
                        /\ \A p \in r.plan : p.bye \/ (p.home # NoOne /\ p.away # NoOne)
      /\ r.pc = "bye" => r.p.bye /\ r.back = "calendar"
      /\ r.pc \in {"insert", "enqueue"} => r.back \in {"calendar", "resolve"} /\ r.game = 1
      /\ r.pc \in {"condition", "walkover", "existing"} => ~r.p.bye
      /\ r.pc = "condition" => r.p.home # NoOne /\ r.p.away # NoOne /\ r.p.conditionalOn # <<>>
  BY DEF ChargeGood
<1>4. PICK p : p = r.p
  OBVIOUS
<1>5. r.pc \in {"insert", "enqueue", "existing"} => Playable(p)'
  BY <1>4, PlayableKept DEF ChargeGood
<1>6. r.pc = "enqueue" => r.battle = Only(r.p.slot) /\ r.battle \in DOMAIN battle'
  BY DEF ChargeGood, MildOnBattles
<1>7. ASSUME r.pc = "walkover"
      PROVE \/ (r.p.home = NoOne \/ r.p.away = NoOne)
                /\ r.winner = IF r.p.home # NoOne THEN r.p.home ELSE r.p.away
            \/ r.p.home # NoOne /\ r.p.away # NoOne /\ r.p.conditionalOn # <<>> /\ Ended(r.p.conditionalOn)'
                /\ match'[r.p.conditionalOn].winner = r.p.home /\ r.winner = r.p.home
  <2>1. \/ (r.p.home = NoOne \/ r.p.away = NoOne)
                /\ r.winner = IF r.p.home # NoOne THEN r.p.home ELSE r.p.away
        \/ r.p.home # NoOne /\ r.p.away # NoOne /\ r.p.conditionalOn # <<>> /\ Ended(r.p.conditionalOn)
                /\ match[r.p.conditionalOn].winner = r.p.home /\ r.winner = r.p.home
    BY <1>7 DEF ChargeGood
  <2> QED BY <2>1, EndedKept DEF Kept
<1>8. r.pc \in {"insert", "enqueue", "existing"} => Playable(r.p)'
  BY <1>4, <1>5
<1> QED BY <1>1, <1>2, <1>3, <1>6, <1>7, <1>8 DEF ChargeGood

LEMMA SparedIs ==
    ASSUME NEW t, Queued, BattlesGood(t), InCharge, NEW l \in Loop, NEW k \in Loop, l # k,
           ChargeGood(t, loop[l]), ChargeGood(t, loop[k]), Mild(t, l)
    PROVE  Spared(loop[k])
<1> SUFFICES ASSUME NEW s \in Charge(loop[k])
             PROVE  /\ match'[s] = match[s] /\ RunJob(Only(s)) \notin DOMAIN jobs'
                    /\ Only(s) \in DOMAIN battle' => Only(s) \in DOMAIN battle
  BY DEF Spared
<1>1. s \in DOMAIN match /\ RunJob(Only(s)) \notin DOMAIN jobs
  BY DEF ChargeGood
<1>2. s \notin Charge(loop[l])
  BY DEF InCharge
<1>3. match'[s] = match[s]
  BY <1>1, NotTheirs DEF Mild, MildOnMatches, Touches
<1>4. RunJob(Only(s)) \notin DOMAIN jobs'
  <2>1. ~NewJob(l, RunJob(Only(s)))
    BY <1>2, JobsApart, OnlyApart DEF NewJob
  <2> QED BY <1>1, <2>1 DEF Mild, MildOnJobs
<1>5. Only(s) \in DOMAIN battle' => Only(s) \in DOMAIN battle
  BY <1>2, OnlyApart DEF Mild, MildOnBattles, NewBattle
<1> QED BY <1>3, <1>4, <1>5

-----------------------------------------------------------------------------
Still(r) == Fresh /\ r.job = ScheduleJob => Fresh'

LEMMA StillIs ==
    ASSUME NEW t, Typed(t), Queued, NEW l \in Loop, loop[l].pc # "idle", NEW k \in Loop, l # k
    PROVE  Still(loop[k])
  BY Alone DEF Still

LEMMA InsertedKept ==
    ASSUME NEW t, NEW l, MildOnMatches(l), Inserted(t)
    PROVE  Inserted(t)'
  BY DEF Inserted, MildOnMatches

LEMMA ScheduleKept ==
    ASSUME NEW t, NEW l, MildOnMatches(l), NEW r, Still(r), ScheduleGood(t, r)
    PROVE  ScheduleGood(t, r)'
<1> SUFFICES ASSUME r.job = ScheduleJob
             PROVE  /\ \/ r.pc \in {"begin", "matches", "running", "done", "fail"}
                       \/ Planning(r) \/ Resolving(r)
                    /\ r.pc = "matches" =>
                        /\ r.plan # {}
                        /\ \/ NextOf(r.plan).slot \in DOMAIN match'
                           \/ Fresh' /\ Slots(t) \ DOMAIN match' \subseteq SlotsOf(r.plan)
                    /\ r.pc = "running" \/ Planning(r) \/ Resolving(r) => Inserted(t)'
  BY DEF ScheduleGood
<1>1. DOMAIN match \subseteq DOMAIN match'
  BY DEF MildOnMatches
<1>2. Fresh => Fresh'
  BY DEF Still
<1>3. \/ r.pc \in {"begin", "matches", "running", "done", "fail"}
      \/ Planning(r) \/ Resolving(r)
  BY DEF ScheduleGood
<1>4. r.pc = "matches" =>
        /\ r.plan # {}
        /\ \/ NextOf(r.plan).slot \in DOMAIN match
           \/ Fresh /\ Slots(t) \ DOMAIN match \subseteq SlotsOf(r.plan)
  BY DEF ScheduleGood
<1>5. r.pc = "running" \/ Planning(r) \/ Resolving(r) => Inserted(t)'
  BY InsertedKept DEF ScheduleGood
<1> QED BY <1>1, <1>2, <1>3, <1>4, <1>5

LEMMA DecidedKept ==
    ASSUME NEW l, MildOnMatches(l), ~Fresh, AllDecided
    PROVE  AllDecided' /\ DOMAIN match' = DOMAIN match
  BY DEF MildOnMatches, Touches, Mine, AllDecided, MatchDone

LEMMA PlayedKept ==
    ASSUME NEW t, NEW l, MildOnBattles(t, l), AllDecided, AllPlayed
    PROVE  AllPlayed'
<1>1. DOMAIN battle' = DOMAIN battle
  BY DEF MildOnBattles, NewBattle, AllDecided
<1> QED BY <1>1 DEF MildOnBattles, AllPlayed

(* The match of a result job is let alone by the others. *)
Untouched(r) ==
    \A b \in DOMAIN battle : r.job = ResultJob(b) => match'[b[1]] = match[b[1]] \/ MatchDone(b[1])

LEMMA ResultKept ==
    ASSUME NEW t, NEW l, MildOnMatches(l), MildOnBattles(t, l), Queued, NEW k \in Loop,
           Untouched(loop[k]), ResultGood(loop[k])
    PROVE  ResultGood(loop[k])' \/ loop'[k] # loop[k]
<1> SUFFICES ASSUME loop'[k] = loop[k] PROVE ResultGood(loop[k])'
  OBVIOUS
<1>1. PICK r : r = loop[k]
  OBVIOUS
<1> SUFFICES ASSUME NEW b \in DOMAIN battle', r.job = ResultJob(b)
             PROVE  /\ \/ r.pc \in {"match", "series", "close", "standings", "openMatch", "openBattle",
                                    "champion", "finish", "done", "fail"}
                       \/ Resolving(r)
                    /\ r.pc = "match" => r.stack = <<>>
                    /\ r.pc \in {"series", "close"} =>
                          /\ r.p = match'[b[1]].pairing /\ ~MatchDone(b[1])'
                    /\ r.pc = "close" =>
                          /\ r.winner \in {r.p.home, r.p.away} \cup (IF IsMain(r.p) THEN {NoOne} ELSE {})
                    /\ r.pc \in {"openBattle", "champion", "finish"} => AllDecided'
                    /\ r.pc \in {"champion", "finish"} => AllPlayed'
  BY <1>1 DEF ResultGood
<1>2. b \in DOMAIN battle
  BY <1>1, ResultJobHeld
<1>3. ~Fresh
  BY <1>2 DEF Fresh
<1>4. /\ \/ r.pc \in {"match", "series", "close", "standings", "openMatch", "openBattle",
                      "champion", "finish", "done", "fail"}
         \/ Resolving(r)
      /\ r.pc = "match" => r.stack = <<>>
      /\ r.pc \in {"series", "close"} =>
            /\ r.p = match[b[1]].pairing /\ ~MatchDone(b[1])
      /\ r.pc = "close" =>
            /\ r.winner \in {r.p.home, r.p.away} \cup (IF IsMain(r.p) THEN {NoOne} ELSE {})
      /\ r.pc \in {"openBattle", "champion", "finish"} => AllDecided
      /\ r.pc \in {"champion", "finish"} => AllPlayed
  BY <1>1, <1>2 DEF ResultGood
<1>5. r.pc \in {"series", "close"} => match'[b[1]] = match[b[1]]
  BY <1>1, <1>2, <1>4 DEF Untouched
<1>6. r.pc \in {"openBattle", "champion", "finish"} => AllDecided'
  BY <1>3, <1>4, DecidedKept
<1>7. r.pc \in {"champion", "finish"} => AllPlayed'
  BY <1>4, PlayedKept
<1> QED BY <1>4, <1>5, <1>6, <1>7 DEF MatchDone

LEMMA UntouchedIs ==
    ASSUME NEW t, Typed(t), WellDrawn(t), Queued, BattlesGood(t), InCharge, NEW l \in Loop, NEW k \in Loop, l # k,
           ChargeGood(t, loop[l]), ChargeGood(t, loop[k]), MildOnMatches(l)
    PROVE  Untouched(loop[k])
<1> SUFFICES ASSUME NEW b \in DOMAIN battle, loop[k].job = ResultJob(b)
             PROVE  match'[b[1]] = match[b[1]]
  BY DEF Untouched
<1>1. PICK s \in Slots(t) : b = Only(s)
  BY DEF Typed, Keys
<1>2. b[1] = s /\ s \in DOMAIN match
  BY <1>1 DEF Only, BattlesGood, Inserted
<1>3. ~Mine(l, s)
  BY <1>1, NotTheirs
<1> QED BY <1>2, <1>3 DEF MildOnMatches, Touches

-----------------------------------------------------------------------------
(* What a statement of loop l leaves of the invariant *)

Turn(t, l, q) ==
    /\ loop' = [loop EXCEPT ![l] = q] /\ q \in Loops(t)
    /\ \A s \in ToRead(t, q) :
          s \in ToRead(t, loop[l]) \/ (~Ended(s) /\ \A k \in Loop \ {l} : s \notin ToRead(t, loop[k]))
    /\ \A s \in Charge(q) :
          s \in Charge(loop[l]) \/ \A k \in Loop \ {l} : s \notin Charge(loop[k])

(* The parts of the invariant that every statement relies on. *)
Rests(t) == Typed(t) /\ Queued /\ MatchesGood(t) /\ BattlesGood(t) /\ InCharge
            /\ \A l \in Loop : LoopGood(t, loop[l])

LEMMA HeldRests ==
    ASSUME NEW t, Held(t)
    PROVE  Rests(t)
  BY DEF Held, Rests

LEMMA OtherKept ==
    ASSUME NEW t, WellDrawn(t), Rests(t), NEW l \in Loop, NEW k \in Loop, l # k, loop'[k] = loop[k],
           Mild(t, l), Kept(t), Still(loop[k])
    PROVE  LoopGood(t, loop[k])'
<1>1. PICK r : r = loop[k]
  OBVIOUS
<1>2. StackGood(t, r) /\ ChargeGood(t, r) /\ ScheduleGood(t, r) /\ ResultGood(loop[k]) /\ ChargeGood(t, loop[l])
      /\ ChargeGood(t, loop[k])
  BY <1>1 DEF Rests, LoopGood
<1>3. MildOnMatches(l) /\ MildOnBattles(t, l)
  BY DEF Mild
<1>4. Typed(t) /\ Queued /\ BattlesGood(t) /\ InCharge
  BY DEF Rests
<1>5. StackGood(t, r)'
  BY <1>2, <1>3, StackKept
<1>6. Spared(r)
  BY <1>1, <1>2, <1>4, SparedIs
<1>7. ChargeGood(t, r)'
  BY <1>2, <1>3, <1>6, ChargeKept
<1>8. Still(r)
  BY <1>1
<1>9. ScheduleGood(t, r)'
  BY <1>2, <1>3, <1>8, ScheduleKept
<1>10. Untouched(loop[k])
  BY <1>2, <1>3, <1>4, UntouchedIs
<1>11. ResultGood(loop[k])'
  BY <1>2, <1>3, <1>4, <1>10, ResultKept
<1>12. r = loop'[k]
  BY <1>1
<1> QED BY <1>5, <1>7, <1>9, <1>11, <1>12 DEF LoopGood

LEMMA LoopsKept ==
    ASSUME NEW t, WellDrawn(t), Rests(t), NEW l \in Loop, NEW q, Turn(t, l, q), Mild(t, l), Kept(t),
           \A k \in Loop \ {l} : Still(loop[k]), LoopGood(t, q)'
    PROVE  \A k \in Loop : LoopGood(t, loop[k])'
<1> SUFFICES ASSUME NEW k \in Loop PROVE LoopGood(t, loop[k])'
  OBVIOUS
<1>0. loop \in [Loop -> Loops(t)]
  BY DEF Rests, Typed
<1>1. CASE k = l
  <2>1. loop'[k] = q
    BY <1>0, <1>1 DEF Turn
  <2> QED BY <2>1
<1>2. CASE k # l
  <2>1. loop'[k] = loop[k]
    BY <1>0, <1>2 DEF Turn
  <2> QED BY <1>2, <2>1, OtherKept
<1> QED BY <1>1, <1>2

LEMMA KeptByTurn ==
    ASSUME NEW t, Typed(t), NEW l \in Loop, NEW q, Turn(t, l, q), MildOnMatches(l)
    PROVE  Kept(t)
<1>1. loop \in [Loop -> Loops(t)]
  BY DEF Typed
<1>2. loop' = [loop EXCEPT ![l] = q] /\ \A s \in ToRead(t, q) : s \in ToRead(t, loop[l]) \/ ~Ended(s)
  BY DEF Turn
<1> QED BY <1>1, <1>2, KeptIs

-----------------------------------------------------------------------------
Changed(s) == s \notin DOMAIN match \/ match'[s] # match[s]

LEMMA MatchStays ==
    ASSUME NEW t, NEW l, MildOnBattles(t, l), Kept(t), NEW s \in DOMAIN match, match'[s] = match[s],
           MatchGood(t, s)
    PROVE  MatchGood(t, s)'
<1>1. PICK v : v = match[s].pairing
  OBVIOUS
<1>2. IsVersion(t, v)'
  BY <1>1, VersionKept DEF MatchGood
<1>3. v = match'[s].pairing
  BY <1>1
<1>4. IsVersion(t, match[s].pairing)'
  BY <1>2, <1>3
<1>5. ASSUME MatchDone(s), Only(s) \in DOMAIN battle' PROVE battle'[Only(s)].status = "finished"
  <2>1. Only(s) \in DOMAIN battle
    BY <1>5, OnlyApart DEF MildOnBattles, NewBattle
  <2> QED BY <2>1, <1>5 DEF MildOnBattles, MatchGood
<1> QED BY <1>4, <1>5 DEF MatchGood, MatchDone

LEMMA MatchesKept ==
    ASSUME NEW t, NEW l, MildOnBattles(t, l), Kept(t), MatchesGood(t),
           \A s \in DOMAIN match' : Changed(s) => MatchGood(t, s)'
    PROVE  MatchesGood(t)'
<1> SUFFICES ASSUME NEW s \in DOMAIN match' PROVE MatchGood(t, s)'
  BY DEF MatchesGood
<1>1. CASE Changed(s)
  BY <1>1
<1>2. CASE ~Changed(s)
  BY <1>2, MatchStays DEF Changed, MatchesGood
<1> QED BY <1>1, <1>2

LEMMA BattlesKept ==
    ASSUME NEW t, NEW l, MildOnBattles(t, l), MildOnMatches(l), Kept(t), BattlesGood(t)
    PROVE  BattlesGood(t)'
<1>1. ASSUME DOMAIN battle' # {} PROVE Inserted(t)'
  <2>1. Inserted(t)
    BY <1>1 DEF MildOnBattles, NewBattle, BattlesGood
  <2> QED BY <2>1, InsertedKept
<1>2. ASSUME NEW s \in DOMAIN match', Only(s) \in DOMAIN battle'
      PROVE  ~Pending(match'[s].pairing) /\ Playable(match[s].pairing)'
  <2>1. s \in DOMAIN match /\ ~Pending(match[s].pairing) /\ Playable(match[s].pairing)
    <3>1. CASE Only(s) \in DOMAIN battle
      <4>1. DOMAIN match' = DOMAIN match
        BY <3>1 DEF MildOnMatches, Fresh
      <4> QED BY <3>1, <4>1, <1>2 DEF BattlesGood
    <3>2. CASE Only(s) \notin DOMAIN battle
      BY <3>2, <1>2, OnlyApart DEF MildOnBattles, NewBattle
    <3> QED BY <3>1, <3>2
  <2>2. match'[s].pairing = match[s].pairing
    BY <2>1 DEF MildOnMatches, Touches
  <2>3. PICK v : v = match[s].pairing
    OBVIOUS
  <2>4. Playable(v)'
    BY <2>1, <2>3, PlayableKept
  <2>5. v = match'[s].pairing
    BY <2>2, <2>3
  <2> QED BY <2>1, <2>2, <2>4, <2>5
<1> QED BY <1>1, <1>2 DEF BattlesGood

LEMMA FreshKept ==
    ASSUME NEW t, NEW l, Mild(t, l), Fresh, DOMAIN match = {}, DOMAIN match' = {}
    PROVE  Fresh'
<1>1. DOMAIN battle' = {}
  BY DEF Fresh, Mild, MildOnBattles, NewBattle
<1>2. DOMAIN jobs' = {ScheduleJob}
  BY DEF Fresh, Mild, MildOnJobs, NewJob
<1>3. tournament'.state # "finished"
  BY DEF Fresh, Mild, MildOnTournament
<1> QED BY <1>1, <1>2, <1>3 DEF Fresh

LEMMA BegunKept ==
    ASSUME NEW t, NEW l, Mild(t, l), Begun(t),
           DOMAIN match = {} /\ DOMAIN match' # {} => NextOf(ScheduleOf(t)).slot \in DOMAIN match'
    PROVE  Begun(t)'
<1>1. CASE DOMAIN match' = {}
  <2>1. DOMAIN match = {}
    BY <1>1 DEF Mild, MildOnMatches
  <2> QED BY <1>1, <2>1, FreshKept DEF Begun
<1>2. CASE DOMAIN match' # {}
  <2>1. NextOf(ScheduleOf(t)).slot \in DOMAIN match'
    BY <1>2 DEF Begun, Mild, MildOnMatches
  <2> QED BY <1>2, <2>1 DEF Begun, Calendars, ScheduleOf
<1> QED BY <1>1, <1>2

LEMMA FinishedKept ==
    ASSUME NEW t, NEW l, Mild(t, l), FinishedGood
    PROVE  FinishedGood'
<1> SUFFICES ASSUME tournament'.state = "finished" PROVE AllDecided' /\ AllPlayed'
  BY DEF FinishedGood
<1>1. AllDecided /\ AllPlayed /\ ~Fresh
  BY DEF FinishedGood, Fresh, Mild, MildOnTournament
<1>2. AllDecided'
  BY <1>1, DecidedKept DEF Mild
<1>3. AllPlayed'
  BY <1>1, PlayedKept DEF Mild
<1> QED BY <1>2, <1>3

-----------------------------------------------------------------------------
LEMMA ReadOnceKept ==
    ASSUME NEW t, loop \in [Loop -> Loops(t)], ReadOnce(t), NEW l \in Loop, NEW q, Turn(t, l, q)
    PROVE  ReadOnce(t)'
<1>1. ASSUME NEW k \in Loop, k # l PROVE ToRead(t, q) \cap ToRead(t, loop[k]) = {}
  BY <1>1 DEF Turn, ReadOnce
<1> SUFFICES ASSUME NEW k \in Loop, NEW j \in Loop, k # j
             PROVE  ToRead(t, loop'[k]) \cap ToRead(t, loop'[j]) = {}
  BY DEF ReadOnce
<1>2. loop'[k] = (IF k = l THEN q ELSE loop[k]) /\ loop'[j] = (IF j = l THEN q ELSE loop[j])
  BY DEF Turn
<1>3. CASE k = l
  BY <1>1, <1>2, <1>3
<1>4. CASE j = l
  BY <1>1, <1>2, <1>4
<1>5. CASE k # l /\ j # l
  BY <1>2, <1>5 DEF ReadOnce
<1> QED BY <1>3, <1>4, <1>5

LEMMA InChargeKept ==
    ASSUME NEW t, loop \in [Loop -> Loops(t)], InCharge, NEW l \in Loop, NEW q, Turn(t, l, q)
    PROVE  InCharge'
<1>1. ASSUME NEW k \in Loop, k # l PROVE Charge(q) \cap Charge(loop[k]) = {}
  BY <1>1 DEF Turn, InCharge
<1> SUFFICES ASSUME NEW k \in Loop, NEW j \in Loop, k # j
             PROVE  Charge(loop'[k]) \cap Charge(loop'[j]) = {}
  BY DEF InCharge
<1>2. loop'[k] = (IF k = l THEN q ELSE loop[k]) /\ loop'[j] = (IF j = l THEN q ELSE loop[j])
  BY DEF Turn
<1>3. CASE k = l
  BY <1>1, <1>2, <1>3
<1>4. CASE j = l
  BY <1>1, <1>2, <1>4
<1>5. CASE k # l /\ j # l
  BY <1>2, <1>5 DEF InCharge
<1> QED BY <1>3, <1>4, <1>5

(* Every copy of q was one of r. *)
Fewer(r, q) ==
    \A i \in 1..Len(q.stack) : \A v \in q.stack[i].todo :
        i \in 1..Len(r.stack) /\ v \in r.stack[i].todo /\ q.stack[i].slot = r.stack[i].slot

SamePairings == \A s \in DOMAIN match : s \in DOMAIN match' /\ match'[s].pairing = match[s].pairing

LEMMA CopyKept ==
    ASSUME NEW t, Kept(t), SamePairings, NEW f, NEW v, CopyGood(t, f, v)
    PROVE  CopyGood(t, f, v)'
<1>1. IsVersion(t, v)'
  BY VersionKept DEF CopyGood
<1>2. v.slot \in DOMAIN match' /\ match'[v.slot].pairing = match[v.slot].pairing
  BY DEF CopyGood, SamePairings
<1>3. PICK w : w = match[v.slot].pairing
  OBVIOUS
<1>4. Unfed(t, w, f) /\ w = match'[v.slot].pairing
  BY <1>2, <1>3 DEF CopyGood
<1> QED BY <1>1, <1>2, <1>4 DEF CopyGood

LEMMA CopiesKept ==
    ASSUME NEW t, loop \in [Loop -> Loops(t)], Kept(t), SamePairings, CopiesGood(t), NEW l \in Loop, NEW q,
           loop' = [loop EXCEPT ![l] = q], Fewer(loop[l], q)
    PROVE  CopiesGood(t)'
<1> SUFFICES ASSUME NEW k \in Loop, NEW i \in 1..Len(loop'[k].stack), NEW v \in loop'[k].stack[i].todo
             PROVE  CopyGood(t, loop[k].stack[i].slot, v)'
  BY DEF CopiesGood
<1>1. PICK f : f = loop'[k].stack[i].slot
  OBVIOUS
<1>2. CopyGood(t, f, v)
  <2>1. CASE k = l
    <3>1. loop'[k] = q
      BY <2>1
    <3>2. i \in 1..Len(loop[l].stack) /\ v \in loop[l].stack[i].todo /\ f = loop[l].stack[i].slot
      BY <1>1, <3>1 DEF Fewer
    <3> QED BY <3>2 DEF CopiesGood
  <2>2. CASE k # l
    <3>1. loop'[k] = loop[k]
      BY <2>2
    <3> QED BY <1>1, <3>1 DEF CopiesGood
  <2> QED BY <2>1, <2>2
<1>3. CopyGood(t, f, v)'
  BY <1>2, CopyKept
<1> QED BY <1>1, <1>3

LEMMA AgreeKept ==
    ASSUME NEW t, loop \in [Loop -> Loops(t)], CopiesAgree(t), NEW l \in Loop, NEW q,
           loop' = [loop EXCEPT ![l] = q], Fewer(loop[l], q)
    PROVE  CopiesAgree(t)'
<1>1. ASSUME NEW k \in Loop, NEW i \in 1..Len(loop'[k].stack), NEW v \in loop'[k].stack[i].todo
      PROVE  i \in 1..Len(loop[k].stack) /\ v \in loop[k].stack[i].todo
             /\ loop'[k].stack[i].slot = loop[k].stack[i].slot
  <2>1. CASE k = l
    <3>1. loop'[k] = q
      BY <2>1
    <3> QED BY <2>1, <3>1, <1>1 DEF Fewer
  <2>2. CASE k # l
    <3>1. loop'[k] = loop[k]
      BY <2>2
    <3> QED BY <3>1, <1>1
  <2> QED BY <2>1, <2>2
<1> SUFFICES ASSUME NEW k \in Loop, NEW h \in Loop, NEW i \in 1..Len(loop'[k].stack),
                    NEW j \in 1..Len(loop'[h].stack),
                    NEW v \in loop'[k].stack[i].todo, NEW w \in loop'[h].stack[j].todo
             PROVE  IF k = h /\ i = j THEN v.slot = w.slot => v = w
                    ELSE Agree(t, loop'[k].stack[i].slot, v, loop'[h].stack[j].slot, w)
  BY DEF CopiesAgree
<1>2. i \in 1..Len(loop[k].stack) /\ v \in loop[k].stack[i].todo
      /\ loop'[k].stack[i].slot = loop[k].stack[i].slot
  BY <1>1
<1>3. j \in 1..Len(loop[h].stack) /\ w \in loop[h].stack[j].todo
      /\ loop'[h].stack[j].slot = loop[h].stack[j].slot
  BY <1>1
<1>4. IF k = h /\ i = j THEN v.slot = w.slot => v = w
      ELSE Agree(t, loop[k].stack[i].slot, v, loop[h].stack[j].slot, w)
  BY <1>2, <1>3 DEF CopiesAgree
<1> QED BY <1>2, <1>3, <1>4

-----------------------------------------------------------------------------
(* A statement that fills in no pairing and reads none *)

LEMMA StepKeeps ==
    ASSUME NEW t, WellDrawn(t), Held(t), NEW l \in Loop, NEW q, Turn(t, l, q), Mild(t, l),
           \A k \in Loop \ {l} : Still(loop[k]), LoopGood(t, q)',
           SamePairings, Fewer(loop[l], q), Typed(t)', Queued',
           \A s \in DOMAIN match' : Changed(s) => MatchGood(t, s)',
           DOMAIN match = {} /\ DOMAIN match' # {} => NextOf(ScheduleOf(t)).slot \in DOMAIN match'
    PROVE  Held(t)'
<1>1. Rests(t) /\ Typed(t) /\ loop \in [Loop -> Loops(t)] /\ loop' = [loop EXCEPT ![l] = q]
  BY HeldRests DEF Held, Typed, Turn
<1>2. MildOnMatches(l) /\ MildOnBattles(t, l)
  BY DEF Mild
<1>3. Kept(t)
  BY <1>1, <1>2, KeptByTurn
<1>4. \A k \in Loop : LoopGood(t, loop[k])'
  BY <1>1, <1>3, LoopsKept
<1>5. MatchesGood(t)'
  BY <1>2, <1>3, MatchesKept DEF Held
<1>6. BattlesGood(t)'
  BY <1>2, <1>3, BattlesKept DEF Held
<1>7. Begun(t)'
  BY BegunKept DEF Held
<1>8. FinishedGood'
  BY FinishedKept DEF Held
<1>9. ReadOnce(t)'
  BY <1>1, ReadOnceKept DEF Held
<1>10. InCharge'
  BY <1>1, InChargeKept DEF Held
<1>11. CopiesGood(t)'
  BY <1>1, <1>3, CopiesKept DEF Held
<1>12. CopiesAgree(t)'
  BY <1>1, AgreeKept DEF Held
<1> QED BY <1>4, <1>5, <1>6, <1>7, <1>8, <1>9, <1>10, <1>11, <1>12 DEF Held

-----------------------------------------------------------------------------
(* How a handler goes on: what the records of the loops become *)

LEMMA ScheduleIs ==
    ASSUME NEW t \in Entered, Typed(t)
    PROVE  Schedule = ScheduleOf(t)
<1>1. t = [format |-> t.format, entries |-> t.entries, owner |-> t.owner, games |-> t.games]
  BY TournamentAssumption
<1>2. tournament.format = t.format /\ tournament.entries = t.entries /\ tournament.owner = t.owner
      /\ tournament.games = t.games
  BY DEF Typed, Tournaments
<1>3. Schedule = Calendars[t]
  BY <1>1, <1>2 DEF Schedule
<1> QED BY <1>3 DEF Calendars, ScheduleOf

LEMMA NextIs ==
    ASSUME NEW S, S # {}
    PROVE  NextOf(S) \in S /\ Rest(S) \subseteq S /\ NextOf(S) \notin Rest(S)
           /\ \A x \in S : x = NextOf(S) \/ x \in Rest(S)
  BY DEF NextOf, Rest

LEMMA FrameTyped ==
    ASSUME NEW t, NEW s \in Slots(t)
    PROVE  Frame(s) \in Frames(t) /\ Frame(s).slot = s /\ Frame(s).todo = {}
  BY DEF Frame, Frames, Seats

(* Resume(r) goes on with a call that has something left, with the next    *)
(* bye, or with what follows.                                              *)
Resumes(t, r, q) ==
    /\ q \in Loops(t) /\ q.job = r.job
    /\ \/ /\ q.pc = "feed" /\ q.plan = r.plan /\ Len(q.stack) \in 1..Len(r.stack)
          /\ q.stack = SubSeq(r.stack, 1, Len(q.stack))
       \/ /\ r.job = ScheduleJob /\ r.plan # {} /\ q.pc = "source" /\ q.plan = Rest(r.plan)
          /\ q.stack = <<Frame(NextOf(r.plan).slot)>>
       \/ r.job = ScheduleJob /\ r.plan = {} /\ q.pc = "done" /\ q.stack = <<>>
       \/ r.job # ScheduleJob /\ q.pc = "standings" /\ q.stack = <<>>

LEMMA NextByeIs ==
    ASSUME NEW t, NEW r \in Loops(t), r.job = ScheduleJob, NEW byes \in SUBSET ScheduleOf(t)
    PROVE  /\ NextBye(r, byes) \in Loops(t) /\ NextBye(r, byes).job = ScheduleJob
           /\ \/ /\ byes # {} /\ NextBye(r, byes).pc = "source" /\ NextBye(r, byes).plan = Rest(byes)
                 /\ NextBye(r, byes).stack = <<Frame(NextOf(byes).slot)>>
              \/ byes = {} /\ NextBye(r, byes).pc = "done" /\ NextBye(r, byes).stack = <<>>
<1>1. CASE byes = {}
  <2>1. NextBye(r, byes) = [r EXCEPT !.pc = "done", !.stack = <<>>]
    BY <1>1 DEF NextBye
  <2>2. <<>> \in Seq(Frames(t)) /\ "done" \in Places
    BY DEF Places, PC
  <2> QED BY <1>1, <2>1, <2>2 DEF Loops
<1>2. CASE byes # {}
  <2>1. PICK f : f = Frame(NextOf(byes).slot)
    OBVIOUS
  <2>2. NextBye(r, byes) = [r EXCEPT !.pc = "source", !.stack = <<f>>, !.plan = Rest(byes)]
    BY <1>2, <2>1 DEF NextBye
  <2>3. NextOf(byes).slot \in Slots(t) /\ Rest(byes) \in SUBSET ScheduleOf(t)
    BY <1>2, NextIs DEF Slots, SlotsOf
  <2>4. f \in Frames(t)
    BY <2>1, <2>3, FrameTyped
  <2>5. <<f>> \in Seq(Frames(t)) /\ "source" \in Places
    BY <2>4 DEF Places, PC
  <2> QED BY <1>2, <2>1, <2>2, <2>3, <2>5 DEF Loops
<1> QED BY <1>1, <1>2

LEMMA AfterResolvingIs ==
    ASSUME NEW t, Typed(t), t.format # "swiss", NEW r \in Loops(t)
    PROVE  Resumes(t, r, AfterResolving(r))
<1>1. CASE r.job = ScheduleJob
  <2>1. AfterResolving(r) = NextBye(r, r.plan) /\ r.plan \in SUBSET ScheduleOf(t)
    BY <1>1 DEF AfterResolving, Loops
  <2> QED BY <1>1, <2>1, NextByeIs DEF Resumes
<1>2. CASE r.job # ScheduleJob
  <2>3. PICK pc : pc = IF tournament.format = "swiss" THEN "unfinished" ELSE "standings"
    OBVIOUS
  <2>4. AfterResolving(r) = [r EXCEPT !.pc = pc, !.stack = <<>>]
    BY <1>2, <2>3 DEF AfterResolving
  <2>5. tournament.format = t.format
    BY DEF Typed, Tournaments
  <2>1. AfterResolving(r) = [r EXCEPT !.pc = "standings", !.stack = <<>>]
    BY <2>3, <2>4, <2>5
  <2>2. <<>> \in Seq(Frames(t)) /\ "standings" \in Places
    BY DEF Places, PC
  <2> QED BY <1>2, <2>1, <2>2 DEF Loops, Resumes
<1> QED BY <1>1, <1>2

LEMMA MaxIs ==
    ASSUME NEW n \in Nat, NEW S \in SUBSET (1..n), S # {}
    PROVE  Max(S) \in S
<1>1. IsFiniteSet(1..n)
  BY FS_Interval
<1>4. IsFiniteSet(S)
  BY <1>1, FS_Subset
<1>5. S \subseteq Nat
  OBVIOUS
<1>2. PICK m \in S : \A k \in S : k <= m
  BY <1>4, <1>5, Greatest
<1>3. \A k \in S : m >= k
  BY <1>2
<1> QED BY <1>3 DEF Max

LEMMA SubSeqIs ==
    ASSUME NEW S, NEW s \in Seq(S), NEW n \in 1..Len(s)
    PROVE  /\ SubSeq(s, 1, n) \in Seq(S)
           /\ Len(SubSeq(s, 1, n)) = n
           /\ \A i \in 1..n : SubSeq(s, 1, n)[i] = s[i]
  OBVIOUS

LEMMA ResumeIs ==
    ASSUME NEW t, Typed(t), t.format # "swiss", NEW r \in Loops(t)
    PROVE  Resumes(t, r, Resume(r))
<1>0. r.stack \in Seq(Frames(t))
  BY DEF Loops
<1>1. PICK left : left = {i \in DOMAIN r.stack : r.stack[i].todo # {}}
  OBVIOUS
<1>2. CASE left = {}
  <2>1. Resume(r) = AfterResolving(r)
    BY <1>1, <1>2 DEF Resume
  <2> QED BY <2>1, AfterResolvingIs
<1>3. CASE left # {}
  <2>1. Resume(r) = [r EXCEPT !.pc = "feed", !.stack = SubSeq(r.stack, 1, Max(left))]
    BY <1>1, <1>3 DEF Resume
  <2>2. Len(r.stack) \in Nat /\ left \in SUBSET (1..Len(r.stack))
    BY <1>0, <1>1
  <2>3. PICK m : m = Max(left)
    OBVIOUS
  <2>4. m \in 1..Len(r.stack)
    BY <1>3, <2>2, <2>3, MaxIs
  <2>5. SubSeq(r.stack, 1, m) \in Seq(Frames(t)) /\ Len(SubSeq(r.stack, 1, m)) = m
    BY <1>0, <2>2, <2>4, SubSeqIs
  <2>6. PICK stack : stack = SubSeq(r.stack, 1, m)
    OBVIOUS
  <2>7. Resume(r) = [r EXCEPT !.pc = "feed", !.stack = stack]
    BY <2>1, <2>3, <2>6
  <2>8. "feed" \in Places
    BY DEF Places, PC
  <2>9. /\ Resume(r) \in Loops(t) /\ Resume(r).job = r.job /\ Resume(r).pc = "feed"
        /\ Resume(r).plan = r.plan /\ Resume(r).stack = stack
    BY <2>5, <2>6, <2>7, <2>8 DEF Loops
  <2> QED BY <2>4, <2>5, <2>6, <2>9 DEF Resumes
<1> QED BY <1>2, <1>3

-----------------------------------------------------------------------------
(* A handler that goes on is where it should be *)

LEMMA StackOf ==
    ASSUME NEW t, NEW r \in Loops(t), NEW n \in 1..Len(r.stack)
    PROVE  /\ Len(SubSeq(r.stack, 1, n)) = n
           /\ \A i \in 1..n : SubSeq(r.stack, 1, n)[i] = r.stack[i]
<1>1. r.stack \in Seq(Frames(t))
  BY DEF Loops
<1>2. n \in Nat /\ n >= 1 /\ Len(r.stack) \in Nat
  BY <1>1
<1>3. \A i \in 1..n : r.stack[i] \in Frames(t)
  BY <1>1, <1>2
<1> QED BY <1>2, <1>3, SubSeqIs

LEMMA ResumesFrames ==
    ASSUME NEW t, NEW r \in Loops(t), NEW q, Resumes(t, r, q)
    PROVE  /\ \A i \in 1..Len(q.stack) : q.stack[i].todo # {} =>
                    i \in 1..Len(r.stack) /\ q.stack[i] = r.stack[i]
           /\ q.pc = "feed" => Len(q.stack) > 0
<1>1. CASE /\ q.pc = "feed" /\ q.plan = r.plan /\ Len(q.stack) \in 1..Len(r.stack)
           /\ q.stack = SubSeq(r.stack, 1, Len(q.stack))
  <2>1. PICK n \in 1..Len(r.stack) : n = Len(q.stack)
    BY <1>1
  <2>2. q.stack = SubSeq(r.stack, 1, n)
    BY <1>1, <2>1
  <2>3. \A i \in 1..n : q.stack[i] = r.stack[i]
    BY <2>2, StackOf
  <2>4. r.stack \in Seq(Frames(t))
    BY DEF Loops
  <2>5. Len(r.stack) \in Nat
    BY <2>4
  <2> QED BY <2>1, <2>3, <2>5
<1>2. CASE q.pc = "source" /\ q.stack = <<Frame(NextOf(r.plan).slot)>>
  <2>1. PICK f : f = Frame(NextOf(r.plan).slot)
    OBVIOUS
  <2>2. f.todo = {}
    BY <2>1 DEF Frame
  <2>3. q.stack = <<f>>
    BY <1>2, <2>1
  <2>4. Len(q.stack) = 1 /\ q.stack[1] = f
    BY <2>3
  <2> QED BY <1>2, <2>2, <2>4
<1>3. CASE q.pc # "feed" /\ q.stack = <<>>
  BY <1>3
<1> QED BY <1>1, <1>2, <1>3 DEF Resumes

LEMMA FewerIs ==
    ASSUME NEW t, NEW r \in Loops(t), NEW q, Resumes(t, r, q)
    PROVE  Fewer(r, q)
  BY ResumesFrames DEF Fewer

(* What still holds for a handler that resolves dependents. *)
Resumable(t, r) ==
    /\ r \in Loops(t) /\ r.job # NoJob /\ FramesTrue(t, r)
    /\ r.job = ScheduleJob => /\ r.plan \subseteq Byes(t) /\ Inserted(t)
                              /\ \A p \in r.plan : p.slot \in DOMAIN match /\ match[p.slot].pairing.bye

(* Loops that hold no match and read nothing. *)
Elsewhere == {"done", "fail", "standings", "openMatch", "openBattle", "champion", "finish"}

LEMMA PlaceIs ==
    ASSUME NEW t, NEW q, q.pc \in Elsewhere \cup {"feed", "source"}
    PROVE  Charge(q) = {} /\ ~Planning(q) /\ q.pc # "idle" /\ (Resolving(q) <=> q.pc \in {"feed", "source"})
           /\ (Reading(q) <=> q.pc = "source")
  BY DEF Elsewhere, Charge, InHand, Ahead, Planning, Resolving, Reading

LEMMA ResumedCharge ==
    ASSUME NEW t, NEW q, q.pc \in Elsewhere \cup {"feed", "source"}
    PROVE  ChargeGood(t, q)'
<1>1. Charge(q) = {} /\ ~Planning(q)
  BY PlaceIs
<1>2. InHand(q) = {}
  BY <1>1 DEF Charge
<1> QED BY <1>1, <1>2 DEF ChargeGood, Elsewhere

LEMMA ResumesPlaces ==
    ASSUME NEW t, NEW r, NEW q, Resumes(t, r, q)
    PROVE  q.pc \in Elsewhere \cup {"feed", "source"}
  BY DEF Resumes, Elsewhere

LEMMA ResumedReads ==
    ASSUME NEW t, NEW r, NEW q, Resumes(t, r, q)
    PROVE  /\ ToRead(t, q) \subseteq SlotsOf(r.plan) /\ (r.job # ScheduleJob => ToRead(t, q) = {})
<1>1. Charge(q) = {} /\ ~Planning(q) /\ (Resolving(q) <=> q.pc \in {"feed", "source"})
      /\ (Reading(q) <=> q.pc = "source")
  BY ResumesPlaces, PlaceIs
<1>2. CASE q.pc = "feed" /\ q.plan = r.plan
  BY <1>1, <1>2 DEF ToRead, ToCome, Resumes
<1>3. CASE r.job = ScheduleJob /\ r.plan # {} /\ q.pc = "source" /\ q.plan = Rest(r.plan)
           /\ q.stack = <<Frame(NextOf(r.plan).slot)>>
  <2>1. PICK f : f = Frame(NextOf(r.plan).slot)
    OBVIOUS
  <2>2. q.stack = <<f>> /\ f.slot = NextOf(r.plan).slot
    BY <1>3, <2>1 DEF Frame
  <2>3. q.stack[Len(q.stack)].slot = NextOf(r.plan).slot
    BY <2>2
  <2>4. ToRead(t, q) = SlotsOf(Rest(r.plan)) \cup {NextOf(r.plan).slot}
    BY <1>1, <1>3, <2>3 DEF ToRead, ToCome, Resumes
  <2> QED BY <1>3, <2>4, NextIs DEF SlotsOf
<1>4. CASE q.pc \in {"done", "standings"}
  BY <1>1, <1>4 DEF ToRead, ToCome, Resumes
<1> QED BY <1>2, <1>3, <1>4 DEF Resumes

LEMMA ResumedStack ==
    ASSUME NEW t, WellDrawn(t), NEW r, Resumable(t, r)', NEW q, Resumes(t, r, q)
    PROVE  StackGood(t, q)'
<1>0. r \in Loops(t) /\ FramesTrue(t, r)'
  BY DEF Resumable
<1>1. ~Planning(q) /\ (Resolving(q) <=> q.pc \in {"feed", "source"}) /\ (Reading(q) <=> q.pc = "source")
      /\ q.pc # "candidates"
  BY ResumesPlaces, PlaceIs DEF Elsewhere
<1>2. FramesTrue(t, q)'
  <2> SUFFICES ASSUME NEW i \in 1..Len(q.stack), q.stack[i].todo # {}
               PROVE  Resolved(t, q.stack[i].slot)' /\ Knows(q.stack[i])'
    BY DEF FramesTrue
  <2>1. i \in 1..Len(r.stack) /\ q.stack[i] = r.stack[i]
    BY <1>0, ResumesFrames
  <2>2. Resolved(t, r.stack[i].slot)' /\ Knows(r.stack[i])'
    BY <1>0, <2>1 DEF FramesTrue
  <2> QED BY <2>1, <2>2
<1>3. ASSUME q.pc = "source"
      PROVE  /\ q.stack # <<>> /\ Read(q).todo = {} /\ Read(q).slot \in DOMAIN match'
             /\ match'[Read(q).slot].pairing.bye
             /\ Read(q).slot \notin SlotsOf(q.plan)
  <2>1. r.job = ScheduleJob /\ r.plan # {} /\ q.plan = Rest(r.plan)
        /\ q.stack = <<Frame(NextOf(r.plan).slot)>>
    BY <1>3 DEF Resumes
  <2>2. PICK f : f = Frame(NextOf(r.plan).slot)
    OBVIOUS
  <2>3. q.stack = <<f>> /\ f.slot = NextOf(r.plan).slot /\ f.todo = {}
    BY <2>1, <2>2 DEF Frame
  <2>4. q.stack # <<>> /\ Read(q) = f
    BY <2>3 DEF Read
  <2>5. PICK p \in r.plan : p = NextOf(r.plan)
    BY <2>1, NextIs
  <2>6. p.slot \in DOMAIN match' /\ match'[p.slot].pairing.bye
    BY <2>1 DEF Resumable
  <2>7. p \in ScheduleOf(t) /\ r.plan \subseteq ScheduleOf(t)
    BY <1>0 DEF Loops
  <2>8. p.slot \notin SlotsOf(q.plan)
    <3> SUFFICES ASSUME NEW o \in Rest(r.plan), o.slot = p.slot PROVE FALSE
      BY <2>1 DEF SlotsOf
    <3>1. o \in r.plan /\ o # p
      BY <2>5 DEF Rest
    <3> QED BY <3>1, <2>7 DEF WellDrawn
  <2> QED BY <2>3, <2>4, <2>5, <2>6, <2>8
<1>4. q.pc = "feed" => q.stack # <<>>
  BY <1>0, ResumesFrames
<1>5. q.job = ScheduleJob /\ Resolving(q) => q.plan \subseteq Byes(t)
  <2>1. SUFFICES ASSUME q.job = ScheduleJob, q.pc \in {"feed", "source"} PROVE q.plan \subseteq Byes(t)
    BY <1>1
  <2>2. r.job = ScheduleJob /\ r.plan \subseteq Byes(t)
    BY <2>1 DEF Resumes, Resumable
  <2> QED BY <2>1, <2>2, NextIs DEF Resumes
<1> QED BY <1>1, <1>2, <1>3, <1>4, <1>5 DEF StackGood

LEMMA ResumedGood ==
    ASSUME NEW t, WellDrawn(t), NEW r, Resumable(t, r)', NEW q, Resumes(t, r, q)
    PROVE  LoopGood(t, q)'
<1>0. q.pc \in Elsewhere \cup {"feed", "source"} /\ ~Planning(q)
      /\ (Resolving(q) <=> q.pc \in {"feed", "source"})
  BY ResumesPlaces, PlaceIs
<1>1. StackGood(t, q)' /\ ChargeGood(t, q)'
  BY <1>0, ResumedStack, ResumedCharge
<1>2. ScheduleGood(t, q)'
  <2> SUFFICES ASSUME q.job = ScheduleJob
               PROVE  /\ q.pc \in {"begin", "matches", "running", "done", "fail"} \/ Resolving(q)
                      /\ q.pc # "matches"
                      /\ q.pc = "running" \/ Resolving(q) => Inserted(t)'
    BY <1>0 DEF ScheduleGood
  <2>1. q.pc \in {"feed", "source", "done"}
    BY DEF Resumes
  <2>2. Inserted(t)'
    BY DEF Resumes, Resumable
  <2> QED BY <1>0, <2>1, <2>2
<1>3. ResultGood(q)'
  <2> SUFFICES ASSUME NEW b, q.job = ResultJob(b)
               PROVE  q.pc = "standings" \/ Resolving(q)
    BY <1>0 DEF ResultGood
  <2>1. r.job # ScheduleJob
    BY JobsApart DEF Resumes
  <2> QED BY <1>0, <2>1 DEF Resumes
<1> QED BY <1>1, <1>2, <1>3 DEF LoopGood

-----------------------------------------------------------------------------
(* Statements that change no match and no battle *)

LEMMA LoopIs ==
    ASSUME NEW t, Held(t), NEW l \in Loop
    PROVE  /\ loop \in [Loop -> Loops(t)] /\ loop[l] \in Loops(t) /\ LoopGood(t, loop[l])
           /\ StackGood(t, loop[l]) /\ ChargeGood(t, loop[l]) /\ ScheduleGood(t, loop[l]) /\ ResultGood(loop[l])
  BY DEF Held, Typed, LoopGood

LEMMA JobIs ==
    ASSUME NEW t, Held(t), NEW l \in Loop, loop[l].pc # "idle"
    PROVE  /\ loop[l].job # NoJob /\ loop[l].job \in DOMAIN jobs /\ jobs[loop[l].job] = "running"
           /\ \/ loop[l].job = ScheduleJob
              \/ \E b \in DOMAIN battle : loop[l].job = ResultJob(b)
<1>1. loop[l].job # NoJob /\ loop[l].job \in DOMAIN jobs /\ jobs[loop[l].job] = "running"
  BY DEF Held, Queued, At
<1>2. loop[l].job \in {NoJob, ScheduleJob} \cup {ResultJob(b) : b \in Keys(t)}
  BY LoopIs DEF Loops
<1>3. ASSUME NEW b, loop[l].job = ResultJob(b) PROVE b \in DOMAIN battle
  BY <1>3, ResultJobHeld DEF Held
<1> QED BY <1>1, <1>2, <1>3

LEMMA MildWithoutRows ==
    ASSUME NEW t, NEW l, UNCHANGED <<match, battle>>, MildOnJobs(l), MildOnTournament
    PROVE  Mild(t, l) /\ SamePairings /\ \A s \in DOMAIN match' : ~Changed(s)
  BY DEF Mild, MildOnMatches, MildOnBattles, SamePairings, Changed

LEMMA RowsStay ==
    ASSUME NEW t, WellDrawn(t), Held(t), NEW l \in Loop, loop[l].pc # "idle",
           NEW q, Turn(t, l, q), UNCHANGED <<match, battle>>, MildOnJobs(l), MildOnTournament,
           Fewer(loop[l], q), LoopGood(t, q)', Typed(t)', Queued'
    PROVE  Held(t)'
<1>1. Mild(t, l) /\ SamePairings /\ \A s \in DOMAIN match' : Changed(s) => MatchGood(t, s)'
  BY MildWithoutRows
<1>2. \A k \in Loop \ {l} : Still(loop[k])
  BY StillIs DEF Held
<1> QED BY <1>1, <1>2, StepKeeps

LEMMA TypedStays ==
    ASSUME NEW t, Typed(t), NEW l \in Loop, NEW q \in Loops(t), loop' = [loop EXCEPT ![l] = q],
           UNCHANGED <<tournament, match, battle, jobs>>
    PROVE  Typed(t)'
  BY DEF Typed

LEMMA QueuedStays ==
    ASSUME NEW t, Typed(t), Queued, NEW l \in Loop, loop[l].pc # "idle", NEW q,
           q.pc # "idle", q.job = loop[l].job, loop' = [loop EXCEPT ![l] = q],
           UNCHANGED <<battle, jobs>>
    PROVE  Queued'
<1>1. ASSUME NEW k \in Loop PROVE loop'[k].job = loop[k].job /\ (loop'[k].pc = "idle" <=> loop[k].pc = "idle")
  <2>1. CASE k = l
    BY <2>1 DEF Typed
  <2>2. CASE k # l
    BY <2>2 DEF Typed
  <2> QED BY <2>1, <2>2
<1>2. JobKeys' = JobKeys
  BY DEF JobKeys
<1> QED BY <1>1, <1>2 DEF Queued, At

LEMMA QuietStep ==
    ASSUME NEW t, WellDrawn(t), Held(t), NEW l \in Loop, loop[l].pc # "idle",
           NEW q \in Loops(t), q.pc # "idle", q.job = loop[l].job, loop' = [loop EXCEPT ![l] = q],
           UNCHANGED <<tournament, match, battle, jobs>>,
           ToRead(t, q) \subseteq ToRead(t, loop[l]), Charge(q) \subseteq Charge(loop[l]),
           Fewer(loop[l], q), LoopGood(t, q)'
    PROVE  Held(t)'
<1>1. Typed(t)'
  BY TypedStays DEF Held
<1>2. Queued'
  BY QueuedStays DEF Held
<1>3. Turn(t, l, q)
  BY DEF Turn
<1>4. MildOnJobs(l) /\ MildOnTournament
  BY DEF MildOnJobs, MildOnTournament
<1> QED BY <1>1, <1>2, <1>3, <1>4, RowsStay

(* The same stack holds the same copies. *)
LEMMA FewerSame ==
    ASSUME NEW r, NEW q, q.stack = r.stack
    PROVE  Fewer(r, q)
  BY DEF Fewer

LEMMA FramesSame ==
    ASSUME NEW t, NEW r, NEW q, q.stack = r.stack, FramesTrue(t, r)'
    PROVE  FramesTrue(t, q)'
  BY DEF FramesTrue

LEMMA KeptQuiet ==
    ASSUME NEW t, NEW l \in Loop, NEW q, loop \in [Loop -> Loops(t)], loop' = [loop EXCEPT ![l] = q],
           ToRead(t, q) \subseteq ToRead(t, loop[l]), UNCHANGED match
    PROVE  Kept(t)
<1>1. MildOnMatches(l)
  BY DEF MildOnMatches
<1>2. \A s \in ToRead(t, q) : s \in ToRead(t, loop[l]) \/ ~Ended(s)
  OBVIOUS
<1> QED BY <1>1, <1>2, KeptIs

(* A handler that is done with the matches *)
LEMMA ElsewhereGood ==
    ASSUME NEW t, Held(t), NEW l \in Loop, loop[l].pc # "idle",
           NEW q, q.pc \in Elsewhere, q.stack = loop[l].stack, q.job = loop[l].job,
           loop' = [loop EXCEPT ![l] = q], UNCHANGED match,
           q.job = ScheduleJob => q.pc \in {"done", "fail"},
           q.pc \in {"openBattle", "champion", "finish"} => AllDecided',
           q.pc \in {"champion", "finish"} => AllPlayed'
    PROVE  LoopGood(t, q)' /\ ToRead(t, q) = {} /\ Charge(q) = {} /\ Fewer(loop[l], q)
<1>1. Charge(q) = {} /\ ~Planning(q) /\ ~Resolving(q) /\ ~Reading(q) /\ q.pc # "running"
  BY PlaceIs DEF Elsewhere
<1>2. ToRead(t, q) = {}
  BY <1>1 DEF ToRead, ToCome
<1>3. PICK r : r = loop[l]
  OBVIOUS
<1>4. FramesTrue(t, r)
  BY <1>3, LoopIs DEF StackGood
<1>5. Kept(t)
  BY <1>2, LoopIs, KeptQuiet
<1>6. FramesTrue(t, r)'
  BY <1>4, <1>5, FramesKept
<1>7. FramesTrue(t, q)'
  BY <1>3, <1>6, FramesSame
<1>8. StackGood(t, q)'
  BY <1>1, <1>7 DEF StackGood, Elsewhere
<1>9. ChargeGood(t, q)'
  BY ResumedCharge
<1>10. ScheduleGood(t, q)'
  BY <1>1 DEF ScheduleGood
<1>11. ResultGood(q)'
  BY DEF ResultGood, Elsewhere
<1> QED BY <1>1, <1>2, <1>8, <1>9, <1>10, <1>11, FewerSame DEF LoopGood

LEMMA ElsewhereStep ==
    ASSUME NEW t, WellDrawn(t), Held(t), NEW l \in Loop, loop[l].pc # "idle",
           NEW q \in Loops(t), q.pc \in Elsewhere, q.stack = loop[l].stack, q.job = loop[l].job,
           loop' = [loop EXCEPT ![l] = q], UNCHANGED <<tournament, match, battle, jobs>>,
           q.job = ScheduleJob => q.pc \in {"done", "fail"},
           q.pc \in {"openBattle", "champion", "finish"} => AllDecided',
           q.pc \in {"champion", "finish"} => AllPlayed'
    PROVE  Held(t)'
<1>1. LoopGood(t, q)' /\ ToRead(t, q) = {} /\ Charge(q) = {} /\ Fewer(loop[l], q)
  BY ElsewhereGood
<1>2. q.pc # "idle"
  BY DEF Elsewhere
<1> QED BY <1>1, <1>2, QuietStep

LEMMA ResultGood1 ==
    ASSUME NEW t, Held(t), NEW l \in Loop, loop[l].pc # "idle", loop[l].job # ScheduleJob
    PROVE  /\ \/ loop[l].pc \in {"match", "series", "close", "standings", "openMatch", "openBattle",
                                 "champion", "finish", "done", "fail"}
              \/ Resolving(loop[l])
           /\ loop[l].pc \in {"openBattle", "champion", "finish"} => AllDecided
           /\ loop[l].pc \in {"champion", "finish"} => AllPlayed
           /\ DOMAIN battle # {}
  BY JobIs, LoopIs DEF ResultGood

LEMMA NotScheduling ==
    ASSUME NEW t, Held(t), NEW l \in Loop,
           loop[l].pc \in {"match", "series", "close", "standings", "openMatch", "openBattle", "champion", "finish"}
    PROVE  loop[l].job # ScheduleJob
<1>1. ~Planning(loop[l]) /\ ~Resolving(loop[l])
  BY DEF Planning, Resolving
<1> QED BY <1>1, LoopIs DEF ScheduleGood

-----------------------------------------------------------------------------
(* Actions: the end of process_result *)

LEMMA GotoElsewhere ==
    ASSUME NEW t, WellDrawn(t), Held(t), NEW l \in Loop, loop[l].pc # "idle",
           NEW pc \in Elsewhere, loop' = [loop EXCEPT ![l] = [loop[l] EXCEPT !.pc = pc]],
           UNCHANGED <<tournament, match, battle, jobs>>,
           loop[l].job = ScheduleJob => pc \in {"done", "fail"},
           pc \in {"openBattle", "champion", "finish"} => AllDecided',
           pc \in {"champion", "finish"} => AllPlayed'
    PROVE  Held(t)'
<1>1. PICK q : q = [loop[l] EXCEPT !.pc = pc]
  OBVIOUS
<1>2. loop[l] \in Loops(t) /\ pc \in Places
  BY LoopIs DEF Elsewhere, Places, PC
<1>3. q \in Loops(t) /\ q.pc = pc /\ q.stack = loop[l].stack /\ q.job = loop[l].job
  BY <1>1, <1>2 DEF Loops
<1> QED BY <1>1, <1>3, ElsewhereStep

LEMMA CheckMatchesKeeps ==
    ASSUME NEW t, WellDrawn(t), Held(t), NEW l \in Loop, CheckMatches(l)
    PROVE  Held(t)'
<1>1. loop[l].pc = "openMatch" /\ UNCHANGED <<tournament, match, battle, jobs>>
  BY DEF CheckMatches, At
<1>2. loop[l].job # ScheduleJob
  BY <1>1, NotScheduling
<1>3. PICK pc : pc = IF \E m \in DOMAIN match : ~MatchDone(m) THEN "done" ELSE "openBattle"
  OBVIOUS
<1>4. loop' = [loop EXCEPT ![l] = [loop[l] EXCEPT !.pc = pc]]
  BY <1>3 DEF CheckMatches, Goto, Continue
<1>5. pc \in Elsewhere /\ pc \notin {"champion", "finish"}
  BY <1>3 DEF Elsewhere
<1>6. pc \in {"openBattle", "champion", "finish"} => AllDecided'
  BY <1>1, <1>3 DEF AllDecided, MatchDone
<1> QED BY <1>1, <1>2, <1>4, <1>5, <1>6, GotoElsewhere

LEMMA CheckBattlesKeeps ==
    ASSUME NEW t, WellDrawn(t), Held(t), NEW l \in Loop, CheckBattles(l)
    PROVE  Held(t)'
<1>1. loop[l].pc = "openBattle" /\ UNCHANGED <<tournament, match, battle, jobs>>
  BY DEF CheckBattles, At
<1>2. loop[l].job # ScheduleJob
  BY <1>1, NotScheduling
<1>3. PICK pc : pc = IF \E b \in DOMAIN battle : Open(b) THEN "done" ELSE "champion"
  OBVIOUS
<1>4. loop' = [loop EXCEPT ![l] = [loop[l] EXCEPT !.pc = pc]]
  BY <1>3 DEF CheckBattles, Goto, Continue
<1>5. pc \in Elsewhere
  BY <1>3 DEF Elsewhere
<1>6. AllDecided'
  BY <1>1, <1>2, ResultGood1 DEF AllDecided, MatchDone
<1>7. pc \in {"champion", "finish"} => AllPlayed'
  BY <1>1, <1>3 DEF AllPlayed, Open
<1> QED BY <1>1, <1>2, <1>4, <1>5, <1>6, <1>7, GotoElsewhere

LEMMA ReadChampionKeeps ==
    ASSUME NEW t, WellDrawn(t), Held(t), NEW l \in Loop, ReadChampion(l)
    PROVE  Held(t)'
<1>1. loop[l].pc = "champion" /\ UNCHANGED <<tournament, match, battle, jobs>>
  BY DEF ReadChampion, At
<1>2. loop[l].job # ScheduleJob
  BY <1>1, NotScheduling
<1>3. PICK finals : finals = {m \in DOMAIN match : match[m].pairing.final /\ MatchDone(m)}
  OBVIOUS
<1>4. PICK id \in IF finals # {} THEN {match[m].winner : m \in finals} ELSE Leaders :
            loop' = [loop EXCEPT ![l] = [loop[l] EXCEPT !.pc = "finish", !.winner = id]]
  BY <1>3 DEF ReadChampion, Continue
<1>5. id \in Seats(t)
  <2>1. CASE finals # {}
    <3>1. PICK m \in finals : id = match[m].winner
      BY <1>4, <2>1
    <3>2. m \in DOMAIN match /\ match \in [DOMAIN match -> Rows(t)]
      BY <1>3, <3>1 DEF Held, Typed
    <3>3. match[m] \in Rows(t)
      BY <3>2
    <3> QED BY <3>1, <3>3 DEF Rows
  <2>2. CASE finals = {}
    <3>1. id \in Leaders
      BY <1>4, <2>2
    <3>2. PICK i \in DOMAIN tournament.entries : id = tournament.entries[i]
      BY <3>1 DEF Leaders
    <3>3. tournament.entries = t.entries
      BY DEF Held, Typed, Tournaments
    <3> QED BY <3>2, <3>3 DEF Seats, Range
  <2> QED BY <2>1, <2>2
<1>6. PICK q : q = [loop[l] EXCEPT !.pc = "finish", !.winner = id]
  OBVIOUS
<1>7. loop[l] \in Loops(t) /\ "finish" \in Places /\ "finish" \in Elsewhere
  BY LoopIs DEF Elsewhere, Places, PC
<1>8. q \in Loops(t) /\ q.pc = "finish" /\ q.stack = loop[l].stack /\ q.job = loop[l].job
  BY <1>5, <1>6, <1>7 DEF Loops
<1>9. AllDecided' /\ AllPlayed'
  BY <1>1, <1>2, ResultGood1 DEF AllDecided, MatchDone, AllPlayed
<1> QED BY <1>1, <1>2, <1>4, <1>6, <1>7, <1>8, <1>9, ElsewhereStep

LEMMA ReadSeriesKeeps ==
    ASSUME NEW t, WellDrawn(t), Held(t), NEW l \in Loop, ReadSeries(l)
    PROVE  Held(t)'
<1>1. loop[l].pc = "series" /\ UNCHANGED <<tournament, match, battle, jobs>>
  BY DEF ReadSeries, At
<1>2. loop[l].job # ScheduleJob
  BY <1>1, NotScheduling
<1>3. PICK r : r = loop[l]
  OBVIOUS
<1>4. PICK games : games = GamesOf(r.p.slot)
  OBVIOUS
<1>5. CASE \E b \in games : Open(b)
  <2>1. loop' = [loop EXCEPT ![l] = [loop[l] EXCEPT !.pc = "done"]]
    BY <1>3, <1>4, <1>5 DEF ReadSeries, Continue
  <2> QED BY <1>1, <1>2, <2>1, GotoElsewhere DEF Elsewhere
<1>6. CASE ~\E b \in games : Open(b)
  <2>1. PICK w : w = SeriesWinner({Game(b) : b \in games}, r.p)
    OBVIOUS
  <2>2. PICK q : q = [r EXCEPT !.pc = "close", !.winner = w]
    OBVIOUS
  <2>3. loop' = [loop EXCEPT ![l] = q]
    BY <1>3, <1>4, <1>6, <2>1, <2>2 DEF ReadSeries, Continue
  <2>4. w \in {r.p.home, r.p.away} \cup (IF IsMain(r.p) THEN {NoOne} ELSE {})
    BY <2>1, Zenon DEF SeriesWinner
  <2>5. r \in Loops(t) /\ r.p \in Pairings(t)
    BY <1>3, LoopIs DEF Loops
  <2>6. w \in Seats(t)
    BY <2>4, <2>5 DEF Pairings, Seats
  <2>7. "close" \in Places
    BY DEF Places, PC
  <2>8. q \in Loops(t) /\ q.pc = "close" /\ q.stack = r.stack /\ q.job = r.job /\ q.p = r.p /\ q.winner = w
    BY <2>2, <2>5, <2>6, <2>7 DEF Loops
  <2>9. ToRead(t, q) = {} /\ Charge(q) = {} /\ ~Planning(q) /\ ~Resolving(q) /\ ~Reading(q) /\ InHand(q) = {}
    BY <2>8 DEF ToRead, ToCome, Planning, Resolving, Reading, Charge, InHand, Ahead
  <2>10. FramesTrue(t, q)'
    <3>1. FramesTrue(t, r)
      BY <1>3, LoopIs DEF StackGood
    <3>2. Kept(t)
      BY <1>1, <2>3, <2>9, LoopIs, KeptQuiet
    <3>3. FramesTrue(t, r)'
      BY <3>1, <3>2, FramesKept
    <3> QED BY <2>8, <3>3, FramesSame
  <2>11. StackGood(t, q)'
    BY <2>8, <2>9, <2>10, <1>2, <1>3 DEF StackGood
  <2>12. ChargeGood(t, q)'
    BY <2>8, <2>9 DEF ChargeGood
  <2>13. ScheduleGood(t, q)'
    BY <2>8, <1>2, <1>3 DEF ScheduleGood
  <2>14. ResultGood(q)'
    <3> SUFFICES ASSUME NEW b \in DOMAIN battle, q.job = ResultJob(b)
                 PROVE  /\ q.p = match[b[1]].pairing /\ ~MatchDone(b[1])
                        /\ q.winner \in {q.p.home, q.p.away} \cup (IF IsMain(q.p) THEN {NoOne} ELSE {})
      BY <2>8, <1>1 DEF ResultGood, MatchDone
    <3>1. r.p = match[b[1]].pairing /\ ~MatchDone(b[1])
      BY <1>1, <1>3, <2>8, LoopIs DEF ResultGood
    <3> QED BY <2>4, <2>8, <3>1
  <2>15. LoopGood(t, q)'
    BY <2>11, <2>12, <2>13, <2>14 DEF LoopGood
  <2>16. Fewer(loop[l], q)
    BY <1>3, <2>8, FewerSame
  <2> QED BY <1>1, <1>3, <2>3, <2>8, <2>9, <2>15, <2>16, QuietStep
<1> QED BY <1>5, <1>6

-----------------------------------------------------------------------------
(* Actions: the end of a tournament, its jobs and its faults *)

LEMMA FinishTournamentKeeps ==
    ASSUME NEW t, WellDrawn(t), Held(t), NEW l \in Loop, FinishTournament(l)
    PROVE  Held(t)'
<1>1. loop[l].pc = "finish" /\ UNCHANGED <<match, battle, jobs>>
      /\ tournament' = [tournament EXCEPT !.state = "finished", !.champion = loop[l].winner]
  BY DEF FinishTournament, At
<1>2. loop[l].job # ScheduleJob
  BY <1>1, NotScheduling
<1>3. PICK q : q = [loop[l] EXCEPT !.pc = "done"]
  OBVIOUS
<1>4. loop[l] \in Loops(t) /\ "done" \in Places /\ "done" \in Elsewhere
  BY LoopIs DEF Elsewhere, Places, PC
<1>5. q \in Loops(t) /\ q.pc = "done" /\ q.stack = loop[l].stack /\ q.job = loop[l].job
  BY <1>3, <1>4 DEF Loops
<1>6. loop' = [loop EXCEPT ![l] = q]
  BY <1>3 DEF FinishTournament, Goto, Continue
<1>7. AllDecided /\ AllPlayed /\ DOMAIN battle # {}
  BY <1>1, <1>2, ResultGood1
<1>8. LoopGood(t, q)' /\ ToRead(t, q) = {} /\ Charge(q) = {} /\ Fewer(loop[l], q)
  BY <1>1, <1>4, <1>5, <1>6, ElsewhereGood
<1>9. Turn(t, l, q)
  BY <1>5, <1>6, <1>8 DEF Turn
<1>10. MildOnJobs(l) /\ MildOnTournament
  BY <1>1, <1>7 DEF MildOnJobs, MildOnTournament
<1>11. Queued'
  BY <1>1, <1>5, <1>6, QueuedStays DEF Held
<1>12. Typed(t)'
  <2>1. loop[l].winner \in Seats(t)
    BY <1>4 DEF Loops
  <2>2. PICK w \in Seats(t) : w = loop[l].winner
    BY <2>1
  <2>3. tournament' = [tournament EXCEPT !.state = "finished", !.champion = w]
    BY <1>1, <2>2
  <2>4. tournament \in Tournaments(t)
    BY DEF Held, Typed
  <2>5. tournament' \in Tournaments(t)
    BY <2>3, <2>4 DEF Tournaments
  <2> QED BY <1>1, <1>5, <1>6, <2>5 DEF Held, Typed
<1> QED BY <1>1, <1>8, <1>9, <1>10, <1>11, <1>12, RowsStay

EnqueuedShape(j) ==
    /\ DOMAIN jobs' = DOMAIN jobs \cup {j}
    /\ \A i \in DOMAIN jobs : jobs'[i] = jobs[i]
    /\ j \notin DOMAIN jobs => jobs'[j] = "queued"
    /\ jobs' \in [DOMAIN jobs' -> {"queued", "running", "done", "needs_review"}]

LEMMA EnqueueIs ==
    ASSUME NEW t, Typed(t), NEW j, Enqueue(j)
    PROVE  EnqueuedShape(j)
<1>1. jobs \in [DOMAIN jobs -> {"queued", "running", "done", "needs_review"}]
  BY DEF Typed
<1>2. CASE j \in DOMAIN jobs
  BY <1>1, <1>2 DEF Enqueue, EnqueuedShape
<1>3. CASE j \notin DOMAIN jobs
  <2>1. jobs' = Extend(jobs, j, "queued")
    BY <1>3 DEF Enqueue
  <2> QED BY <1>1, <1>3, <2>1 DEF Extend, EnqueuedShape
<1> QED BY <1>2, <1>3

LEMMA EnqueueStandingsKeeps ==
    ASSUME NEW t, WellDrawn(t), Held(t), NEW l \in Loop, EnqueueStandings(l)
    PROVE  Held(t)'
<1>1. loop[l].pc = "standings" /\ UNCHANGED <<tournament, match, battle>>
  BY DEF EnqueueStandings, At
<1>2. loop[l].job # ScheduleJob
  BY <1>1, NotScheduling
<1>3. PICK q : q = [loop[l] EXCEPT !.pc = "openMatch"]
  OBVIOUS
<1>4. loop[l] \in Loops(t) /\ "openMatch" \in Places /\ "openMatch" \in Elsewhere
  BY LoopIs DEF Elsewhere, Places, PC
<1>5. q \in Loops(t) /\ q.pc = "openMatch" /\ q.stack = loop[l].stack /\ q.job = loop[l].job
  BY <1>3, <1>4 DEF Loops
<1>6. loop' = [loop EXCEPT ![l] = q]
  BY <1>3 DEF EnqueueStandings, Goto, Continue
<1>7. PICK b \in DOMAIN battle : loop[l].job = ResultJob(b)
  BY <1>1, <1>2, JobIs
<1>8. loop[l].job.key = b
  BY <1>7 DEF ResultJob, Job
<1>9. EnqueuedShape(StandingsJob(b))
  BY <1>8, EnqueueIs DEF EnqueueStandings, Held
<1>10. LoopGood(t, q)' /\ ToRead(t, q) = {} /\ Charge(q) = {} /\ Fewer(loop[l], q)
  BY <1>1, <1>2, <1>4, <1>5, <1>6, ElsewhereGood
<1>11. Turn(t, l, q)
  BY <1>5, <1>6, <1>10 DEF Turn
<1>12. MildOnJobs(l) /\ MildOnTournament
  BY <1>1, <1>9 DEF MildOnJobs, MildOnTournament, NewJob, EnqueuedShape
<1>13. Typed(t)'
  BY <1>1, <1>5, <1>6, <1>9 DEF Held, Typed, EnqueuedShape
<1>14. Queued'
  <2>1. ASSUME NEW k \in Loop PROVE loop'[k].job = loop[k].job /\ (loop'[k].pc = "idle" <=> loop[k].pc = "idle")
    BY <1>1, <1>5, <1>6, LoopIs
  <2>2. JobKeys' = JobKeys /\ StandingsJob(b) \in JobKeys
    BY <1>1 DEF JobKeys
  <2>3. Queued
    BY DEF Held
  <2>4. \A c \in DOMAIN battle : StandingsJob(b) # RunJob(c) /\ StandingsJob(b) # ResultJob(c)
    BY JobsApart
  <2>5. DOMAIN jobs' = DOMAIN jobs \cup {StandingsJob(b)} /\ \A i \in DOMAIN jobs : jobs'[i] = jobs[i]
    BY <1>9 DEF EnqueuedShape
  <2>6. DOMAIN jobs' \subseteq JobKeys' /\ ScheduleJob \in DOMAIN jobs'
    BY <2>2, <2>3, <2>5 DEF Queued
  <2>7. \A k \in Loop : /\ loop'[k].pc = "idle" <=> loop'[k].job = NoJob
                        /\ loop'[k].pc # "idle" => loop'[k].job \in DOMAIN jobs'
                                                    /\ jobs'[loop'[k].job] = "running"
    BY <2>1, <2>3, <2>5 DEF Queued, At
  <2>8. \A k, h \in Loop : loop'[k].job = loop'[h].job /\ loop'[k].job # NoJob => k = h
    BY <2>1, <2>3 DEF Queued
  <2>9. \A c \in DOMAIN battle :
          /\ RunJob(c) \in DOMAIN jobs' => (jobs'[RunJob(c)] = "queued" <=> battle[c].status = "scheduled")
          /\ RunJob(c) \notin DOMAIN jobs' => battle[c].status = "scheduled"
          /\ ResultJob(c) \in DOMAIN jobs' => battle[c].status = "finished"
    BY <2>3, <2>4, <2>5 DEF Queued
  <2> QED BY <1>1, <2>6, <2>7, <2>8, <2>9 DEF Queued, At
<1> QED BY <1>1, <1>10, <1>11, <1>12, <1>13, <1>14, RowsStay

LEMMA IdleGood ==
    ASSUME NEW t
    PROVE  /\ IdleLoop \in Loops(t) /\ ToRead(t, IdleLoop) = {} /\ Charge(IdleLoop) = {}
           /\ LoopGood(t, IdleLoop)' /\ \A r : Fewer(r, IdleLoop)
           /\ IdleLoop.pc = "idle" /\ IdleLoop.job = NoJob
<1>0. PICK p : p = NoPairing
  OBVIOUS
<1>1. p \in Pairings(t)
  BY <1>0 DEF NoPairing, Known, Pairings, Sources, Seats, Conditions
<1>2. IdleLoop = [pc |-> "idle", job |-> NoJob, stack |-> <<>>, p |-> p,
                  winner |-> NoOne, game |-> 0, battle |-> <<>>, plan |-> {}, back |-> "none"]
  BY <1>0 DEF IdleLoop
<1>3. <<>> \in Seq(Frames(t)) /\ "idle" \in Places /\ NoOne \in Seats(t)
  BY DEF Places, PC, Seats
<1>4. IdleLoop \in Loops(t)
  BY <1>1, <1>2, <1>3 DEF Loops
<1>5. ~Planning(IdleLoop) /\ ~Resolving(IdleLoop) /\ ~Reading(IdleLoop) /\ InHand(IdleLoop) = {}
  BY <1>2 DEF Planning, Resolving, Reading, InHand
<1>6. ToRead(t, IdleLoop) = {} /\ Charge(IdleLoop) = {}
  BY <1>2, <1>5 DEF ToRead, ToCome, Charge, Ahead
<1>7. StackGood(t, IdleLoop)'
  <2>1. FramesTrue(t, IdleLoop)'
    BY <1>2 DEF FramesTrue
  <2> QED BY <2>1, <1>2, <1>5 DEF StackGood
<1>8. ChargeGood(t, IdleLoop)'
  BY <1>2, <1>5, <1>6 DEF ChargeGood
<1>9. ScheduleGood(t, IdleLoop)'
  BY <1>2, JobsApart DEF ScheduleGood
<1>10. ResultGood(IdleLoop)'
  BY <1>2, JobsApart DEF ResultGood
<1>11. \A r : Fewer(r, IdleLoop)
  BY <1>2 DEF Fewer
<1> QED BY <1>2, <1>4, <1>6, <1>7, <1>8, <1>9, <1>10, <1>11 DEF LoopGood

(* A loop lets go of its job, which is done, for review or left running. *)
LEMMA LetGo ==
    ASSUME NEW t, WellDrawn(t), Held(t), NEW l \in Loop, loop[l].pc # "idle",
           loop' = [loop EXCEPT ![l] = IdleLoop], UNCHANGED <<tournament, match, battle>>,
           DOMAIN jobs' = DOMAIN jobs, \A j \in DOMAIN jobs : j # loop[l].job => jobs'[j] = jobs[j],
           jobs' \in [DOMAIN jobs' -> {"queued", "running", "done", "needs_review"}]
    PROVE  Held(t)'
<1>1. PICK q : q = IdleLoop
  OBVIOUS
<1>2. /\ q \in Loops(t) /\ ToRead(t, q) = {} /\ Charge(q) = {}
      /\ LoopGood(t, q)' /\ Fewer(loop[l], q) /\ q.pc = "idle" /\ q.job = NoJob
  BY <1>1, IdleGood
<1>3. loop' = [loop EXCEPT ![l] = q] /\ loop \in [Loop -> Loops(t)]
  BY <1>1, LoopIs
<1>4. Turn(t, l, q)
  BY <1>2, <1>3 DEF Turn
<1>5. MildOnJobs(l) /\ MildOnTournament
  BY DEF MildOnJobs, MildOnTournament
<1>6. Typed(t)'
  BY <1>2, <1>3 DEF Held, Typed
<1>7. Queued'
  <2>1. Queued
    BY DEF Held
  <2>2. ASSUME NEW k \in Loop, k # l
        PROVE  loop'[k] = loop[k] /\ (loop[k].job = NoJob \/ loop[k].job # loop[l].job)
    BY <1>3, <2>1, <2>2 DEF Queued
  <2>3. loop'[l] = q
    BY <1>3
  <2>4. JobKeys' = JobKeys
    BY DEF JobKeys
  <2>5. \A b \in DOMAIN battle : RunJob(b) # loop[l].job
    BY JobIs, JobsApart
  <2>6. \A k \in Loop : /\ loop'[k].pc = "idle" <=> loop'[k].job = NoJob
                        /\ loop'[k].pc # "idle" => loop'[k].job \in DOMAIN jobs'
                                                    /\ jobs'[loop'[k].job] = "running"
    BY <1>2, <2>1, <2>2, <2>3 DEF Queued, At
  <2>7. \A k, h \in Loop : loop'[k].job = loop'[h].job /\ loop'[k].job # NoJob => k = h
    BY <1>2, <2>1, <2>2, <2>3 DEF Queued
  <2>8. \A c \in DOMAIN battle :
          /\ RunJob(c) \in DOMAIN jobs' => (jobs'[RunJob(c)] = "queued" <=> battle[c].status = "scheduled")
          /\ RunJob(c) \notin DOMAIN jobs' => battle[c].status = "scheduled"
          /\ ResultJob(c) \in DOMAIN jobs' => battle[c].status = "finished"
    BY <2>1, <2>5 DEF Queued
  <2> QED BY <2>1, <2>4, <2>6, <2>7, <2>8 DEF Queued, At
<1> QED BY <1>2, <1>4, <1>5, <1>6, <1>7, RowsStay

LEMMA EndJobKeeps ==
    ASSUME NEW t, WellDrawn(t), Held(t), NEW l \in Loop, NEW pc, pc # "idle",
           NEW status \in {"done", "needs_review"}, EndJob(l, pc, status)
    PROVE  Held(t)'
<1>1. loop[l].pc # "idle" /\ loop' = [loop EXCEPT ![l] = IdleLoop] /\ UNCHANGED <<tournament, match, battle>>
      /\ jobs' = [jobs EXCEPT ![loop[l].job] = status]
  BY DEF EndJob, At, Continue
<1>2. jobs \in [DOMAIN jobs -> {"queued", "running", "done", "needs_review"}]
  BY DEF Held, Typed
<1> QED BY <1>1, <1>2, LetGo

LEMMA CrashKeeps ==
    ASSUME NEW t, WellDrawn(t), Held(t), NEW l \in Loop, Crash(l)
    PROVE  Held(t)'
<1>1. loop[l].pc # "idle" /\ loop' = [loop EXCEPT ![l] = IdleLoop] /\ UNCHANGED <<tournament, match, battle, jobs>>
  BY DEF Crash, At, Continue
<1>2. jobs \in [DOMAIN jobs -> {"queued", "running", "done", "needs_review"}]
  BY DEF Held, Typed
<1> QED BY <1>1, <1>2, LetGo

LEMMA StatementFailsKeeps ==
    ASSUME NEW t, WellDrawn(t), Held(t), NEW l \in Loop, StatementFails(l)
    PROVE  Held(t)'
<1>1. loop[l].pc # "idle" /\ loop' = [loop EXCEPT ![l] = [loop[l] EXCEPT !.pc = "fail"]]
      /\ UNCHANGED <<tournament, match, battle, jobs>>
  BY DEF StatementFails, Goto, Continue
<1>2. PICK pc \in Elsewhere : pc = "fail"
  BY DEF Elsewhere
<1> QED BY <1>1, <1>2, GotoElsewhere

LEMMA ClaimKeeps ==
    ASSUME NEW t, WellDrawn(t), Held(t), NEW l \in Loop, NEW j \in DOMAIN jobs, Claim(l, j)
    PROVE  Held(t)'
<1>1. /\ loop[l].pc = "idle" /\ Handled(j) /\ UNCHANGED <<tournament, match, battle>>
      /\ \/ jobs[j] = "queued"
         \/ jobs[j] = "running" /\ \A k \in Loop : loop[k].job # j
      /\ jobs' = [jobs EXCEPT ![j] = "running"]
  BY DEF Claim, At
<1>2. Queued /\ Typed(t)
  BY DEF Held
<1>3. \A k \in Loop : loop[k].job # j
  <2> SUFFICES ASSUME NEW k \in Loop, loop[k].job = j PROVE FALSE
    OBVIOUS
  <2>1. j # NoJob
    BY <1>1 DEF Handled, NoJob, Job
  <2> QED BY <1>1, <1>2, <2>1 DEF Queued, At
<1>4. j = ScheduleJob \/ \E b \in DOMAIN battle : j = ResultJob(b)
  BY <1>1, <1>2 DEF Queued, JobKeys, Handled, RunJob, StandingsJob, Job
<1>5. PICK pc : pc = IF j = ScheduleJob THEN "begin" ELSE "match"
  OBVIOUS
<1>6. PICK q : q = [IdleLoop EXCEPT !.job = j, !.pc = pc]
  OBVIOUS
<1>7. loop' = [loop EXCEPT ![l] = q] /\ loop \in [Loop -> Loops(t)]
  BY <1>5, <1>6, LoopIs DEF Claim, Continue
<1>8. IdleLoop \in Loops(t) /\ IdleLoop.stack = <<>>
  BY IdleGood DEF IdleLoop
<1>9. pc \in Places
  BY <1>5 DEF Places, PC
<1>10. j \in {NoJob, ScheduleJob} \cup {ResultJob(b) : b \in Keys(t)}
  BY <1>2, <1>4 DEF Typed
<1>11. q \in Loops(t) /\ q.pc = pc /\ q.job = j /\ q.stack = <<>>
  BY <1>6, <1>8, <1>9, <1>10 DEF Loops
<1>12. ~Planning(q) /\ ~Resolving(q) /\ ~Reading(q) /\ InHand(q) = {} /\ q.pc \in {"begin", "match"}
  BY <1>5, <1>11 DEF Planning, Resolving, Reading, InHand
<1>13. ToRead(t, q) = {} /\ Charge(q) = {}
  BY <1>12 DEF ToRead, ToCome, Charge, Ahead
<1>14. Fewer(loop[l], q)
  BY <1>11 DEF Fewer
<1>15. LoopGood(t, q)'
  <2>1. FramesTrue(t, q)'
    BY <1>11 DEF FramesTrue
  <2>2. StackGood(t, q)'
    BY <2>1, <1>12 DEF StackGood
  <2>3. ChargeGood(t, q)'
    BY <1>12, <1>13 DEF ChargeGood
  <2>4. ScheduleGood(t, q)'
    BY <1>5, <1>11, <1>12 DEF ScheduleGood
  <2>5. ResultGood(q)'
    BY <1>5, <1>11, <1>12, JobsApart DEF ResultGood
  <2> QED BY <2>2, <2>3, <2>4, <2>5 DEF LoopGood
<1>16. Turn(t, l, q)
  BY <1>7, <1>11, <1>13 DEF Turn
<1>17. MildOnJobs(l) /\ MildOnTournament
  BY <1>1 DEF MildOnJobs, MildOnTournament
<1>18. Mild(t, l) /\ SamePairings /\ \A s \in DOMAIN match' : Changed(s) => MatchGood(t, s)'
  BY <1>1, <1>17, MildWithoutRows
<1>19. Typed(t)'
  BY <1>1, <1>2, <1>7, <1>11 DEF Typed
<1>20. Queued'
  <2>2. ASSUME NEW k \in Loop, k # l PROVE loop'[k] = loop[k]
    BY <1>7, <2>2
  <2>3. loop'[l] = q /\ j # NoJob
    BY <1>1, <1>7 DEF Handled, NoJob, Job
  <2>4. JobKeys' = JobKeys
    BY <1>1 DEF JobKeys
  <2>5. \A b \in DOMAIN battle : RunJob(b) # j
    BY <1>4, JobsApart
  <2>6. \A k \in Loop : /\ loop'[k].pc = "idle" <=> loop'[k].job = NoJob
                        /\ loop'[k].pc # "idle" => loop'[k].job \in DOMAIN jobs'
                                                    /\ jobs'[loop'[k].job] = "running"
    BY <1>1, <1>2, <1>11, <1>12, <2>2, <2>3 DEF Queued, At
  <2>7. \A k, h \in Loop : loop'[k].job = loop'[h].job /\ loop'[k].job # NoJob => k = h
    BY <1>2, <1>3, <1>11, <2>2, <2>3 DEF Queued
  <2>8. \A c \in DOMAIN battle :
          /\ RunJob(c) \in DOMAIN jobs' => (jobs'[RunJob(c)] = "queued" <=> battle[c].status = "scheduled")
          /\ RunJob(c) \notin DOMAIN jobs' => battle[c].status = "scheduled"
          /\ ResultJob(c) \in DOMAIN jobs' => battle[c].status = "finished"
    BY <1>1, <1>2, <2>5 DEF Queued
  <2> QED BY <1>1, <1>2, <2>4, <2>6, <2>7, <2>8 DEF Queued, At
<1>21. ASSUME NEW k \in Loop \ {l} PROVE Still(loop[k])
  BY <1>3 DEF Fresh, Still
<1> QED BY <1>1, <1>14, <1>15, <1>16, <1>18, <1>19, <1>20, <1>21, StepKeeps

-----------------------------------------------------------------------------
(* Actions: generate_schedule starts, and starts the tournament *)

LEMMA BeginScheduleKeeps ==
    ASSUME NEW t \in Entered, WellDrawn(t), Held(t), NEW l \in Loop, BeginSchedule(l)
    PROVE  Held(t)'
<1>1. loop[l].pc = "begin" /\ UNCHANGED <<tournament, match, battle, jobs>>
  BY DEF BeginSchedule, At
<1>2. loop[l].job = ScheduleJob
  <2>1. ~Resolving(loop[l])
    BY <1>1 DEF Resolving
  <2> QED BY <1>1, <2>1, ResultGood1
<1>3. CASE tournament.state # "closed"
  <2>1. loop' = [loop EXCEPT ![l] = [loop[l] EXCEPT !.pc = "done"]]
    BY <1>3 DEF BeginSchedule, Goto, Continue
  <2>2. PICK pc \in Elsewhere : pc = "done"
    BY DEF Elsewhere
  <2> QED BY <1>1, <2>1, <2>2, GotoElsewhere
<1>4. CASE tournament.state = "closed"
  <2>0. PICK r : r = loop[l]
    OBVIOUS
  <2>1. PICK plan : plan = ScheduleOf(t)
    OBVIOUS
  <2>2. Schedule = plan
    BY <2>1, ScheduleIs DEF Held
  <2>3. PICK q : q = [r EXCEPT !.pc = "matches", !.plan = plan]
    OBVIOUS
  <2>4. loop' = [loop EXCEPT ![l] = q]
    BY <1>4, <2>0, <2>2, <2>3 DEF BeginSchedule, Continue
  <2>5. r \in Loops(t) /\ "matches" \in Places /\ plan \in SUBSET ScheduleOf(t)
    BY <2>0, <2>1, LoopIs DEF Places, PC
  <2>6. q \in Loops(t) /\ q.pc = "matches" /\ q.plan = plan /\ q.job = ScheduleJob /\ q.stack = r.stack
    BY <1>2, <2>0, <2>3, <2>5 DEF Loops
  <2>7. ToRead(t, q) = {} /\ Charge(q) = {} /\ ~Planning(q) /\ ~Resolving(q) /\ ~Reading(q) /\ InHand(q) = {}
    BY <2>6 DEF ToRead, ToCome, Planning, Resolving, Reading, Charge, InHand, Ahead
  <2>8. FramesTrue(t, q)'
    <3>1. FramesTrue(t, r)
      BY <2>0, LoopIs DEF StackGood
    <3>2. Kept(t)
      BY <1>1, <2>4, <2>7, LoopIs, KeptQuiet
    <3>3. FramesTrue(t, r)'
      BY <3>1, <3>2, FramesKept
    <3> QED BY <2>6, <3>3, FramesSame
  <2>9. StackGood(t, q)'
    BY <2>6, <2>7, <2>8 DEF StackGood
  <2>10. ChargeGood(t, q)'
    BY <2>6, <2>7 DEF ChargeGood
  <2>11. ScheduleGood(t, q)'
    <3>1. plan # {}
      BY <2>1 DEF WellDrawn
    <3>2. NextOf(plan).slot \in DOMAIN match \/ (Fresh /\ DOMAIN match = {})
      BY <2>1 DEF Held, Begun
    <3>3. Fresh => Fresh'
      BY <1>1 DEF Fresh, MatchDone
    <3>4. Slots(t) = SlotsOf(plan)
      BY <2>1 DEF Slots
    <3> QED BY <1>1, <2>6, <2>7, <3>1, <3>2, <3>3, <3>4 DEF ScheduleGood
  <2>12. ResultGood(q)'
    BY <2>6, JobsApart DEF ResultGood
  <2>13. LoopGood(t, q)'
    BY <2>9, <2>10, <2>11, <2>12 DEF LoopGood
  <2>14. Fewer(loop[l], q) /\ q.pc # "idle" /\ q.job = loop[l].job
    BY <1>2, <2>0, <2>6, FewerSame
  <2> QED BY <1>1, <2>4, <2>6, <2>7, <2>13, <2>14, QuietStep
<1> QED BY <1>3, <1>4

(* What resumes can rely on *)
LEMMA ResumableIs ==
    ASSUME NEW t, WellDrawn(t), MatchesGood(t), NEW l, MildOnMatches(l), Kept(t),
           NEW r \in Loops(t), r.job # NoJob, FramesTrue(t, r),
           r.job = ScheduleJob => r.plan \subseteq Byes(t) /\ Inserted(t)
    PROVE  Resumable(t, r)'
<1>1. FramesTrue(t, r)'
  BY FramesKept
<1>2. ASSUME r.job = ScheduleJob
      PROVE  /\ Inserted(t)'
             /\ \A p \in r.plan : p.slot \in DOMAIN match' /\ match'[p.slot].pairing.bye
  <2>1. Inserted(t)'
    BY <1>2, InsertedKept
  <2>2. ASSUME NEW p \in r.plan PROVE p.slot \in DOMAIN match' /\ match'[p.slot].pairing.bye
    <3>1. p.slot \in DOMAIN match /\ match[p.slot].pairing.bye
      BY <1>2, ByeRows
    <3> QED BY <3>1 DEF MildOnMatches, Touches
  <2> QED BY <2>1, <2>2
<1> QED BY <1>1, <1>2 DEF Resumable

LEMMA StartTournamentKeeps ==
    ASSUME NEW t \in Entered, WellDrawn(t), Held(t), NEW l \in Loop, StartTournament(l)
    PROVE  Held(t)'
<1>1. loop[l].pc = "running" /\ UNCHANGED <<match, battle, jobs>>
      /\ tournament' = [tournament EXCEPT !.state = "running"]
  BY DEF StartTournament, At
<1>2. loop[l].job = ScheduleJob
  <2>1. ~Resolving(loop[l])
    BY <1>1 DEF Resolving
  <2> QED BY <1>1, <2>1, ResultGood1
<1>3. PICK r : r = loop[l]
  OBVIOUS
<1>4. r \in Loops(t) /\ StackGood(t, r) /\ ScheduleGood(t, r) /\ loop \in [Loop -> Loops(t)]
  BY <1>3, LoopIs
<1>5. PICK byes \in SUBSET ScheduleOf(t) : byes = Byes(t)
  BY DEF Byes
<1>6. {p \in Schedule : p.bye} = byes
  BY <1>5, ScheduleIs DEF Held, Byes
<1>7. PICK q : q = NextBye(r, byes)
  OBVIOUS
<1>8. loop' = [loop EXCEPT ![l] = q]
  BY <1>3, <1>6, <1>7 DEF StartTournament, Continue
<1>9. PICK r2 : r2 = [r EXCEPT !.plan = byes]
  OBVIOUS
<1>10. r2 \in Loops(t) /\ r2.plan = byes /\ r2.job = ScheduleJob /\ r2.stack = r.stack
  BY ZenonT(60), SMTT(60), <1>2, <1>3, <1>4, <1>9 DEF Loops
<1>11. Resumes(t, r2, q)
  BY <1>2, <1>3, <1>4, <1>7, <1>10, NextByeIs DEF Resumes
<1>12. Fewer(r2, q) /\ ToRead(t, q) \subseteq SlotsOf(byes) /\ q.job = ScheduleJob /\ q.pc # "idle"
       /\ q \in Loops(t) /\ Charge(q) = {}
  BY <1>10, <1>11, FewerIs, ResumedReads, ResumesPlaces, PlaceIs DEF Resumes
<1>13. Fewer(loop[l], q)
  BY <1>3, <1>10, <1>12 DEF Fewer
<1>14. ToRead(t, q) \subseteq ToRead(t, r)
  BY <1>1, <1>2, <1>3, <1>5, <1>12 DEF ToRead, ToCome
<1>15. Kept(t)
  BY <1>1, <1>3, <1>4, <1>8, <1>14, KeptQuiet
<1>16. FramesTrue(t, r2)
  BY <1>4, <1>10 DEF StackGood, FramesTrue
<1>17. Inserted(t)
  BY <1>1, <1>2, <1>3, <1>4 DEF ScheduleGood
<1>18. MildOnMatches(l) /\ MildOnJobs(l) /\ MildOnTournament
  BY <1>1 DEF MildOnMatches, MildOnJobs, MildOnTournament, Held, Typed, Tournaments
<1>19. Resumable(t, r2)'
  <2>1. r2.job # NoJob /\ MatchesGood(t) /\ r2.plan \subseteq Byes(t)
    BY <1>5, <1>10, JobsApart DEF Held
  <2> QED BY <1>10, <1>15, <1>16, <1>17, <1>18, <2>1, ResumableIs
<1>20. LoopGood(t, q)'
  BY <1>11, <1>19, ResumedGood
<1>21. Turn(t, l, q)
  BY <1>3, <1>8, <1>12, <1>14 DEF Turn
<1>22. Queued'
  BY <1>1, <1>2, <1>8, <1>12, QueuedStays DEF Held
<1>23. Typed(t)'
  BY <1>1, <1>4, <1>8, <1>12 DEF Held, Typed, Tournaments
<1> QED BY <1>1, <1>13, <1>18, <1>20, <1>21, <1>22, <1>23, RowsStay

-----------------------------------------------------------------------------
(* A handler goes on after a query that changed nothing. *)

LEMMA ResumeKeeps ==
    ASSUME NEW t, WellDrawn(t), Held(t), NEW l \in Loop, loop[l].pc # "idle",
           loop[l].job = ScheduleJob => Resolving(loop[l]) /\ ~Planning(loop[l]) /\ loop[l].pc # "running",
           NEW q, Resumes(t, loop[l], q), loop' = [loop EXCEPT ![l] = q],
           UNCHANGED <<tournament, match, battle, jobs>>
    PROVE  Held(t)'
<1>1. PICK r : r = loop[l]
  OBVIOUS
<1>2. r \in Loops(t) /\ StackGood(t, r) /\ ScheduleGood(t, r) /\ loop \in [Loop -> Loops(t)] /\ r.job # NoJob
  BY <1>1, LoopIs, JobIs
<1>3. Resumes(t, r, q)
  BY <1>1
<1>4. Fewer(r, q) /\ q.job = r.job /\ q.pc # "idle" /\ q \in Loops(t) /\ Charge(q) = {}
      /\ ToRead(t, q) \subseteq SlotsOf(r.plan) /\ (r.job # ScheduleJob => ToRead(t, q) = {})
  BY <1>2, <1>3, FewerIs, ResumedReads, ResumesPlaces, PlaceIs DEF Resumes
<1>5. ToRead(t, q) \subseteq ToRead(t, r)
  BY <1>1, <1>4 DEF ToRead, ToCome
<1>6. Kept(t)
  BY <1>1, <1>2, <1>5, KeptQuiet
<1>7. Resumable(t, r)'
  <2>1. MildOnMatches(l) /\ MatchesGood(t)
    BY DEF MildOnMatches, Held
  <2>2. FramesTrue(t, r) /\ (r.job = ScheduleJob => r.plan \subseteq Byes(t) /\ Inserted(t))
    BY <1>1, <1>2 DEF StackGood, ScheduleGood
  <2> QED BY <1>2, <1>6, <2>1, <2>2, ResumableIs
<1>8. LoopGood(t, q)'
  BY <1>3, <1>7, ResumedGood
<1> QED BY <1>1, <1>4, <1>5, <1>8, QuietStep

LEMMA CheckExistingKeepsResuming ==
    ASSUME NEW t, WellDrawn(t), t.format # "swiss", Held(t), NEW l \in Loop,
           loop[l].pc \in {"source", "existing"}, loop' = [loop EXCEPT ![l] = Resume(loop[l])],
           UNCHANGED <<tournament, match, battle, jobs>>
    PROVE  Held(t)'
<1>1. PICK q : q = Resume(loop[l])
  OBVIOUS
<1>2. Resumes(t, loop[l], q)
  BY <1>1, LoopIs, ResumeIs DEF Held
<1>3. Resolving(loop[l]) /\ ~Planning(loop[l])
  BY DEF Resolving, Planning
<1> QED BY <1>1, <1>2, <1>3, ResumeKeeps

-----------------------------------------------------------------------------
(* Actions: the queries of process_result and of resolveDependents *)

LEMMA BattleIs ==
    ASSUME NEW t, Held(t), NEW b \in DOMAIN battle
    PROVE  b[1] \in Slots(t) /\ b = Only(b[1]) /\ b[1] \in DOMAIN match
<1>1. PICK s \in Slots(t) : b = Only(s)
  BY DEF Held, Typed, Keys
<1> QED BY <1>1 DEF Only, Held, BattlesGood, Inserted

LEMMA RowIs ==
    ASSUME NEW t, Held(t), NEW s \in DOMAIN match
    PROVE  /\ match[s] \in Rows(t) /\ match[s].pairing \in Pairings(t) /\ match[s].winner \in Seats(t)
           /\ LoserIn(match[s]) \in Seats(t) /\ s \in Slots(t) /\ MatchGood(t, s)
<1>1. match[s] \in Rows(t) /\ s \in Slots(t)
  BY DEF Held, Typed
<1>2. match[s].pairing \in Pairings(t) /\ match[s].winner \in Seats(t)
  BY <1>1 DEF Rows
<1>3. match[s].pairing.home \in Seats(t) /\ match[s].pairing.away \in Seats(t)
  BY <1>2 DEF Pairings
<1> QED BY <1>1, <1>2, <1>3 DEF LoserIn, Held, MatchesGood

LEMMA ReadMatchKeeps ==
    ASSUME NEW t, WellDrawn(t), t.format # "swiss", Held(t), NEW l \in Loop, ReadMatch(l)
    PROVE  Held(t)'
<1>1. loop[l].pc = "match" /\ UNCHANGED <<tournament, match, battle, jobs>>
  BY DEF ReadMatch, At
<1>2. loop[l].job # ScheduleJob
  BY <1>1, NotScheduling
<1>3. PICK b \in DOMAIN battle : loop[l].job = ResultJob(b)
  BY <1>1, <1>2, JobIs
<1>4. loop[l].job.key = b
  BY <1>3 DEF ResultJob, Job
<1>5. PICK s \in DOMAIN match : s = b[1] /\ b = Only(s)
  BY BattleIs
<1>6. PICK r : r = loop[l]
  OBVIOUS
<1>7. r \in Loops(t) /\ StackGood(t, r) /\ ResultGood(r)
  BY <1>6, LoopIs
<1>8. CASE MatchDone(s)
  <2>1. PICK q : q = AfterResolving(r)
    OBVIOUS
  <2>2. loop' = [loop EXCEPT ![l] = q]
    BY <1>4, <1>5, <1>6, <1>8, <2>1 DEF ReadMatch, Continue
  <2>3. Resumes(t, loop[l], q)
    BY <1>6, <1>7, <2>1, AfterResolvingIs DEF Held
  <2> QED BY <1>1, <1>2, <2>2, <2>3, ResumeKeeps
<1>9. CASE ~MatchDone(s)
  <2>1. PICK p \in Pairings(t) : p = match[s].pairing
    BY RowIs
  <2>2. PICK q : q = [r EXCEPT !.pc = "series", !.p = p]
    OBVIOUS
  <2>3. loop' = [loop EXCEPT ![l] = q]
    BY <1>4, <1>5, <1>6, <1>9, <2>1, <2>2 DEF ReadMatch, Continue
  <2>4. "series" \in Places
    BY DEF Places, PC
  <2>5. q \in Loops(t) /\ q.pc = "series" /\ q.stack = r.stack /\ q.job = r.job /\ q.p = p
    BY <1>7, <2>2, <2>4 DEF Loops
  <2>6. r.stack = <<>>
    BY <1>1, <1>3, <1>6, <1>7 DEF ResultGood
  <2>7. ToRead(t, q) = {} /\ Charge(q) = {} /\ ~Planning(q) /\ ~Resolving(q) /\ ~Reading(q) /\ InHand(q) = {}
    BY <2>5 DEF ToRead, ToCome, Planning, Resolving, Reading, Charge, InHand, Ahead
  <2>8. StackGood(t, q)'
    <3>1. FramesTrue(t, q)'
      BY <2>5, <2>6 DEF FramesTrue
    <3> QED BY <2>5, <2>7, <3>1 DEF StackGood
  <2>9. ChargeGood(t, q)'
    BY <2>5, <2>7 DEF ChargeGood
  <2>10. ScheduleGood(t, q)'
    BY <1>2, <1>6, <2>5 DEF ScheduleGood
  <2>11. ResultGood(q)'
    <3> SUFFICES ASSUME NEW c \in DOMAIN battle, q.job = ResultJob(c)
                 PROVE  q.p = match[c[1]].pairing /\ ~MatchDone(c[1])
      BY <1>1, <2>5 DEF ResultGood, MatchDone
    <3>1. c = b
      BY ZenonT(60), SMTT(60), <1>3, <1>6, <2>5, JobsApart
    <3> QED BY <1>5, <1>9, <2>1, <2>5, <3>1
  <2>12. LoopGood(t, q)'
    BY <2>8, <2>9, <2>10, <2>11 DEF LoopGood
  <2>13. Fewer(loop[l], q) /\ q.pc # "idle" /\ q.job = loop[l].job
    BY <1>6, <2>5, FewerSame
  <2> QED BY <1>1, <2>3, <2>5, <2>7, <2>12, <2>13, QuietStep
<1> QED BY <1>8, <1>9

LEMMA TopIs ==
    ASSUME NEW t, NEW r \in Loops(t), r.stack # <<>>
    PROVE  Len(r.stack) \in Nat /\ Len(r.stack) > 0 /\ Read(r) \in Frames(t)
<1>1. r.stack \in Seq(Frames(t))
  BY DEF Loops
<1>2. Len(r.stack) \in Nat /\ Len(r.stack) > 0
  BY <1>1
<1> QED BY <1>1, <1>2 DEF Read

(* The stack with the frame g instead of its top. *)
Topped(r, g, stack) == stack = [r.stack EXCEPT ![Len(r.stack)] = g]

LEMMA ToppedIs ==
    ASSUME NEW t, NEW r \in Loops(t), r.stack # <<>>, NEW g \in Frames(t), NEW stack, Topped(r, g, stack)
    PROVE  /\ stack \in Seq(Frames(t)) /\ Len(stack) = Len(r.stack) /\ stack # <<>>
           /\ stack[Len(r.stack)] = g
           /\ \A i \in 1..Len(r.stack) : i # Len(r.stack) => stack[i] = r.stack[i]
<1>1. r.stack \in Seq(Frames(t)) /\ Len(r.stack) \in Nat /\ Len(r.stack) > 0
  BY TopIs DEF Loops
<1>2. stack = [r.stack EXCEPT ![Len(r.stack)] = g]
  BY DEF Topped
<1> QED BY <1>1, <1>2

LEMMA ReadSourceKeeps ==
    ASSUME NEW t, WellDrawn(t), t.format # "swiss", Held(t), NEW l \in Loop, ReadSource(l)
    PROVE  Held(t)'
<1>1. loop[l].pc = "source" /\ UNCHANGED <<tournament, match, battle, jobs>>
  BY DEF ReadSource, At
<1>2. PICK r : r = loop[l]
  OBVIOUS
<1>3. r \in Loops(t) /\ StackGood(t, r) /\ ScheduleGood(t, r) /\ loop \in [Loop -> Loops(t)] /\ r.job # NoJob
  BY <1>1, <1>2, LoopIs, JobIs
<1>4. r.stack # <<>> /\ Read(r).slot \in DOMAIN match /\ Read(r).todo = {}
  BY <1>1, <1>2, <1>3 DEF StackGood, Reading
<1>5. PICK s \in DOMAIN match : s = Read(r).slot
  BY <1>4
<1>6. r.stack[Top(r)].slot = s
  BY <1>5 DEF Read, Top
<1>7. CASE ~MatchDone(s)
  <2>1. loop' = [loop EXCEPT ![l] = Resume(loop[l])]
    BY <1>2, <1>6, <1>7 DEF ReadSource, Continue
  <2> QED BY ZenonT(60), SMTT(60), <1>1, <2>1, CheckExistingKeepsResuming
<1>8. CASE MatchDone(s)
  <2>1. PICK f \in Frames(t) : f = Read(r)
    BY <1>3, <1>4, TopIs, FrameTyped, RowIs
  <2>2. PICK w \in Seats(t), x \in Seats(t) : w = match[s].winner /\ x = LoserIn(match[s])
    BY RowIs
  <2>3. PICK g : g = [f EXCEPT !.winner = w, !.loser = x]
    OBVIOUS
  <2>4. g \in Frames(t) /\ g.slot = s /\ g.todo = {} /\ g.winner = w /\ g.loser = x
    BY <1>4, <1>5, <2>1, <2>3 DEF Frames
  <2>5. PICK stack : Topped(r, g, stack)
    BY DEF Topped
  <2>6. /\ Len(r.stack) \in Nat /\ Len(r.stack) > 0
        /\ stack \in Seq(Frames(t)) /\ Len(stack) = Len(r.stack) /\ stack # <<>>
        /\ stack[Len(r.stack)] = g
        /\ \A i \in 1..Len(r.stack) : i # Len(r.stack) => stack[i] = r.stack[i]
    BY <1>3, <1>4, <2>4, <2>5, TopIs, ToppedIs
  <2>7. PICK q : q = [r EXCEPT !.pc = "candidates", !.stack = stack]
    OBVIOUS
  <2>8. loop' = [loop EXCEPT ![l] = q]
    <3>1. loop' = [loop EXCEPT ![l] = [r EXCEPT !.pc = "candidates",
                                !.stack[Top(r)] = [@ EXCEPT !.winner = match[s].winner,
                                                            !.loser = LoserIn(match[s])]]]
      BY <1>2, <1>6, <1>8 DEF ReadSource, Continue
    <3>2. r.stack[Top(r)] = f /\ Top(r) = Len(r.stack)
      BY <2>1 DEF Read, Top
    <3>3. [r EXCEPT !.pc = "candidates",
                    !.stack[Top(r)] = [@ EXCEPT !.winner = match[s].winner,
                                                !.loser = LoserIn(match[s])]]
            = [r EXCEPT !.pc = "candidates", !.stack = [r.stack EXCEPT ![Len(r.stack)] = g]]
      BY <1>3, <2>2, <2>3, <3>2 DEF Loops
    <3> QED BY <2>5, <2>7, <3>1, <3>3 DEF Topped
  <2>9. "candidates" \in Places
    BY DEF Places, PC
  <2>10. q \in Loops(t) /\ q.pc = "candidates" /\ q.stack = stack /\ q.job = r.job /\ q.plan = r.plan
    BY <1>3, <2>6, <2>7, <2>9 DEF Loops
  <2>11. Read(q) = g
    BY <2>6, <2>10 DEF Read
  <2>12. ToRead(t, q) = ToRead(t, r) /\ Charge(q) = {} /\ ~Planning(q) /\ Resolving(q) /\ Reading(q) /\ InHand(q) = {}
    <3>1. ~Planning(q) /\ Resolving(q) /\ Reading(q) /\ Charge(q) = {} /\ InHand(q) = {}
      BY <2>10 DEF Planning, Resolving, Reading, Charge, InHand, Ahead
    <3>2. ~Planning(r) /\ Resolving(r) /\ Reading(r) /\ r.pc # "running" /\ q.pc # "running"
      BY <1>1, <1>2, <2>10 DEF Planning, Resolving, Reading
    <3>3. q.stack[Len(q.stack)].slot = r.stack[Len(r.stack)].slot
      BY <1>6, <2>4, <2>6, <2>10 DEF Top
    <3> QED BY <2>10, <3>1, <3>2, <3>3 DEF ToRead, ToCome
  <2>13. Fewer(r, q)
    BY <2>4, <2>6, <2>10 DEF Fewer
  <2>14. Kept(t)
    BY <1>1, <1>2, <1>3, <2>8, <2>12, KeptQuiet
  <2>15. FramesTrue(t, q)'
    <3>1. FramesTrue(t, r)'
      BY <1>3, <2>14, FramesKept DEF StackGood
    <3> SUFFICES ASSUME NEW i \in 1..Len(q.stack), q.stack[i].todo # {}
                 PROVE  Resolved(t, q.stack[i].slot)' /\ Knows(q.stack[i])'
      BY DEF FramesTrue
    <3>2. i \in 1..Len(r.stack) /\ q.stack[i] = r.stack[i]
      BY <2>4, <2>6, <2>10
    <3>3. Resolved(t, r.stack[i].slot)' /\ Knows(r.stack[i])'
      BY <3>1, <3>2 DEF FramesTrue
    <3> QED BY <3>2, <3>3
  <2>16. StackGood(t, q)'
    <3>1. Ended(Read(q).slot)' /\ Knows(Read(q))' /\ Read(q).slot \in DOMAIN match'
      BY <1>1, <1>8, <2>2, <2>4, <2>11 DEF Ended, Knows, MatchDone, LoserIn
    <3>2. r.job = ScheduleJob => /\ Read(r).slot \notin SlotsOf(r.plan) /\ r.plan \subseteq Byes(t)
      BY <1>1, <1>2, <1>3 DEF StackGood, Reading, Resolving
    <3> QED BY <1>5, <2>4, <2>6, <2>10, <2>11, <2>12, <2>15, <3>1, <3>2 DEF StackGood
  <2>17. ChargeGood(t, q)'
    BY <2>10, <2>12 DEF ChargeGood
  <2>18. ScheduleGood(t, q)'
    <3>1. r.job = ScheduleJob => Inserted(t)'
      BY <1>1, <1>2, <1>3 DEF ScheduleGood, Resolving, Inserted
    <3> QED BY <2>10, <2>12, <3>1 DEF ScheduleGood
  <2>19. ResultGood(q)'
    BY <2>10, <2>12 DEF ResultGood
  <2>20. LoopGood(t, q)'
    BY <2>16, <2>17, <2>18, <2>19 DEF LoopGood
  <2> QED BY ZenonT(60), SMTT(60), <1>1, <1>2, <2>8, <2>10, <2>12, <2>13, <2>20, QuietStep
<1> QED BY <1>7, <1>8

-----------------------------------------------------------------------------
(* Actions: what resolveDependents does with a match that is complete *)

LEMMA ConditionEnded ==
    ASSUME NEW t, WellDrawn(t), MatchesGood(t), NEW s \in DOMAIN match,
           ~Pending(match[s].pairing), match[s].pairing.conditionalOn # <<>>
    PROVE  Ended(match[s].pairing.conditionalOn)
<1>1. PICK v : v = match[s].pairing
  OBVIOUS
<1>2. IsVersion(t, v) /\ v.slot = s /\ ~Pending(v)
  BY <1>1 DEF MatchesGood, MatchGood
<1>3. PICK o \in ScheduleOf(t) : o = Origin(t, s) /\ o.slot = s
  BY <1>2, OriginOf DEF IsVersion
<1>4. v.conditionalOn = o.conditionalOn /\ Side(t, v.home, v.homeSource, o.home, o.homeSource)
  BY <1>2, <1>3 DEF IsVersion
<1>5. ~IsKnown(o) /\ IsWaiting(t, o)
  BY <1>1, <1>4, DrawnIs DEF IsKnown
<1>6. PICK d \in ScheduleOf(t) : /\ d.slot = o.homeSource.slot
                                 /\ d.homeSource # NoSource
                                 /\ d.homeSource.slot = o.conditionalOn
  BY <1>1, <1>4, <1>5 DEF IsWaiting
<1>7. v.homeSource = NoSource /\ o.homeSource # NoSource
  BY <1>2, <1>5, NotPendingIsFed DEF IsWaiting
<1>8. Ended(d.slot)
  BY <1>4, <1>6, <1>7 DEF Side, Resolved
<1>9. PICK w : w = match[d.slot].pairing
  OBVIOUS
<1>10. IsVersion(t, w) /\ w.slot = d.slot /\ ~Pending(w)
  BY <1>8, <1>9 DEF MatchesGood, MatchGood, Ended
<1>11. Side(t, w.home, w.homeSource, d.home, d.homeSource)
  BY <1>10, OriginIs DEF IsVersion
<1>12. w.homeSource = NoSource
  BY <1>10, NotPendingIsFed
<1>13. Ended(d.homeSource.slot)
  BY <1>6, <1>11, <1>12 DEF Side, Resolved
<1> QED BY <1>1, <1>4, <1>6, <1>13

LEMMA InHandStep ==
    ASSUME NEW t, WellDrawn(t), Held(t), NEW l \in Loop, loop[l].pc \in {"condition", "existing"},
           NEW q \in Loops(t), loop' = [loop EXCEPT ![l] = q], UNCHANGED <<tournament, match, battle, jobs>>,
           q.pc \in {"walkover", "existing"} \/ (q.pc = "insert" /\ q.back = "resolve"),
           q.job = loop[l].job, q.stack = loop[l].stack, q.plan = loop[l].plan, q.p = loop[l].p,
           ChargeGood(t, q)
    PROVE  Held(t)'
<1>1. PICK r : r = loop[l]
  OBVIOUS
<1>2. r \in Loops(t) /\ StackGood(t, r) /\ ScheduleGood(t, r) /\ loop \in [Loop -> Loops(t)]
  BY <1>1, LoopIs
<1>3. /\ Resolving(r) /\ ~Planning(r) /\ ~Reading(r) /\ r.pc # "running" /\ r.pc # "idle"
      /\ InHand(r) = {r.p.slot} /\ Charge(r) = {r.p.slot}
  BY <1>1 DEF Resolving, Planning, Reading, InHand, Charge, Ahead
<1>4. /\ Resolving(q) /\ ~Planning(q) /\ ~Reading(q) /\ q.pc # "running" /\ q.pc # "idle"
      /\ q.pc \notin {"candidates", "feed", "matches"} /\ InHand(q) = {q.p.slot} /\ Charge(q) = {q.p.slot}
  BY DEF Resolving, Planning, Reading, InHand, Charge, Ahead
<1>5. /\ ToRead(t, q) = ToRead(t, r) /\ Charge(q) = Charge(r) /\ Fewer(r, q)
      /\ q.job = r.job /\ q.stack = r.stack /\ q.plan = r.plan
  BY <1>1, <1>3, <1>4, FewerSame DEF ToRead, ToCome
<1>6. Kept(t)
  BY <1>1, <1>2, <1>5, KeptQuiet
<1>7. FramesTrue(t, q)'
  BY <1>2, <1>5, <1>6, FramesKept, FramesSame DEF StackGood
<1>8. StackGood(t, q)'
  BY SMTT(60), ZenonT(60), <1>2, <1>3, <1>4, <1>5, <1>7 DEF StackGood
<1>9. ChargeGood(t, q)'
  BY DEF ChargeGood, MatchDone, Playable, NotFormal, Ended
<1>10. ScheduleGood(t, q)'
  BY <1>2, <1>3, <1>4, <1>5 DEF ScheduleGood, Inserted
<1>11. ResultGood(q)'
  BY <1>4 DEF ResultGood
<1>12. LoopGood(t, q)'
  BY <1>8, <1>9, <1>10, <1>11 DEF LoopGood
<1> QED BY <1>1, <1>3, <1>4, <1>5, <1>12, QuietStep

LEMMA CheckConditionKeeps ==
    ASSUME NEW t, WellDrawn(t), Held(t), NEW l \in Loop, CheckCondition(l)
    PROVE  Held(t)'
<1>1. loop[l].pc = "condition" /\ UNCHANGED <<tournament, match, battle, jobs>>
  BY DEF CheckCondition, At
<1>2. PICK r : r = loop[l]
  OBVIOUS
<1>3. r \in Loops(t) /\ ChargeGood(t, r)
  BY <1>2, LoopIs
<1>4. InHand(r) = {r.p.slot} /\ Charge(r) = {r.p.slot} /\ ~Planning(r)
  BY <1>1, <1>2 DEF InHand, Charge, Ahead, Planning
<1>5. PICK s : s = r.p.slot
  OBVIOUS
<1>6. /\ s \in DOMAIN match /\ ~MatchDone(s) /\ ~Pending(match[s].pairing) /\ RunJob(Only(s)) \notin DOMAIN jobs
      /\ Only(s) \notin DOMAIN battle /\ r.p = match[s].pairing /\ ~r.p.bye
      /\ r.p.home # NoOne /\ r.p.away # NoOne /\ r.p.conditionalOn # <<>>
  BY <1>1, <1>2, <1>3, <1>4, <1>5 DEF ChargeGood
<1>7. Ended(r.p.conditionalOn)
  BY <1>6, ConditionEnded DEF Held
<1>8. PICK cond : cond = match[r.p.conditionalOn].winner
  OBVIOUS
<1>9. cond \in Seats(t)
  BY <1>7, <1>8, RowIs DEF Ended
<1>10. CASE cond # NoOne /\ cond = r.p.home
  <2>1. PICK q : q = [r EXCEPT !.pc = "walkover", !.winner = cond]
    OBVIOUS
  <2>2. loop' = [loop EXCEPT ![l] = q]
    BY <1>2, <1>8, <1>10, <2>1 DEF CheckCondition, Continue
  <2>3. "walkover" \in Places
    BY DEF Places, PC
  <2>4. /\ q \in Loops(t) /\ q.pc = "walkover" /\ q.winner = cond /\ q.job = r.job /\ q.stack = r.stack
        /\ q.plan = r.plan /\ q.p = r.p
    BY ZenonT(60), SMTT(60), <1>3, <1>9, <2>1, <2>3 DEF Loops
  <2>5. Charge(q) = {s} /\ InHand(q) = {s} /\ ~Planning(q)
    BY SMTT(60), ZenonT(60), <1>5, <2>4 DEF InHand, Charge, Ahead, Planning
  <2>6. ChargeGood(t, q)
    BY ZenonT(60), SMTT(60), <1>5, <1>6, <1>7, <1>8, <1>10, <2>4, <2>5 DEF ChargeGood
  <2> QED BY <1>1, <1>2, <2>2, <2>4, <2>6, InHandStep
<1>11. CASE ~(cond # NoOne /\ cond = r.p.home)
  <2>1. PICK q : q = [r EXCEPT !.pc = "existing"]
    OBVIOUS
  <2>2. loop' = [loop EXCEPT ![l] = q]
    BY <1>2, <1>8, <1>11, <2>1 DEF CheckCondition, Continue
  <2>3. "existing" \in Places
    BY DEF Places, PC
  <2>4. /\ q \in Loops(t) /\ q.pc = "existing" /\ q.job = r.job /\ q.stack = r.stack
        /\ q.plan = r.plan /\ q.p = r.p
    BY <1>3, <2>1, <2>3 DEF Loops
  <2>5. Charge(q) = {s} /\ InHand(q) = {s} /\ ~Planning(q)
    BY <1>5, <2>4 DEF InHand, Charge, Ahead, Planning
  <2>6. Playable(r.p)
    BY SMTT(60), ZenonT(60), <1>6, <1>7, <1>8, <1>11 DEF Playable, NotFormal
  <2>7. ChargeGood(t, q)
    BY <1>5, <1>6, <2>4, <2>5, <2>6 DEF ChargeGood
  <2> QED BY <1>1, <1>2, <2>2, <2>4, <2>7, InHandStep
<1> QED BY <1>10, <1>11

LEMMA CheckExistingKeeps ==
    ASSUME NEW t, WellDrawn(t), t.format # "swiss", Held(t), NEW l \in Loop, CheckExisting(l)
    PROVE  Held(t)'
<1>1. loop[l].pc = "existing" /\ UNCHANGED <<tournament, match, battle, jobs>>
  BY DEF CheckExisting, At
<1>2. PICK r : r = loop[l]
  OBVIOUS
<1>3. CASE GamesOf(r.p.slot) # {}
  BY <1>1, <1>2, <1>3, CheckExistingKeepsResuming DEF CheckExisting, Continue
<1>4. CASE GamesOf(r.p.slot) = {}
  <2>1. PICK q : q = [r EXCEPT !.pc = "insert", !.p = r.p, !.game = 1, !.back = "resolve"]
    OBVIOUS
  <2>2. loop' = [loop EXCEPT ![l] = q]
    BY <1>2, <1>4, <2>1 DEF CheckExisting, Continue, Materialize
  <2>3. "insert" \in Places
    BY DEF Places, PC
  <2>4. r \in Loops(t) /\ ChargeGood(t, r)
    BY <1>2, LoopIs
  <2>5. /\ q \in Loops(t) /\ q.pc = "insert" /\ q.job = r.job /\ q.stack = r.stack
        /\ q.plan = r.plan /\ q.p = r.p /\ q.back = "resolve" /\ q.game = 1
    BY <2>1, <2>3, <2>4 DEF Loops
  <2>6. InHand(r) = {r.p.slot} /\ Charge(r) = {r.p.slot}
    BY <1>1, <1>2 DEF InHand, Charge, Ahead, Planning
  <2>7. Charge(q) = {r.p.slot} /\ InHand(q) = {r.p.slot} /\ ~Planning(q)
    BY <2>5 DEF InHand, Charge, Ahead, Planning
  <2>8. ChargeGood(t, q)
    BY <1>1, <1>2, <2>4, <2>5, <2>6, <2>7 DEF ChargeGood
  <2> QED BY <1>1, <1>2, <2>2, <2>5, <2>8, InHandStep
<1> QED BY <1>3, <1>4

-----------------------------------------------------------------------------
(* Actions: the second loop of generate_schedule, and a battle's job *)

PlanNext(t, r, plan, q) ==
    /\ q \in Loops(t) /\ q.job = r.job /\ q.stack = r.stack
    /\ \/ plan = {} /\ q.pc = "running"
       \/ /\ plan # {} /\ q.p = NextOf(plan) /\ q.plan = Rest(plan) /\ q.back = "calendar"
          /\ \/ q.pc = "bye" /\ q.p.bye
             \/ q.pc = "insert" /\ ~q.p.bye /\ q.game = 1

LEMMA NextOfCalendarIs ==
    ASSUME NEW t, WellDrawn(t), NEW r \in Loops(t), NEW plan \in SUBSET ScheduleOf(t)
    PROVE  PlanNext(t, r, plan, NextOfCalendar(r, plan))
<1>1. CASE plan = {}
  <2>1. NextOfCalendar(r, plan) = [r EXCEPT !.pc = "running"]
    BY <1>1 DEF NextOfCalendar
  <2>2. "running" \in Places
    BY DEF Places, PC
  <2> QED BY <1>1, <2>1, <2>2 DEF Loops, PlanNext
<1>2. CASE plan # {}
  <2>1. PICK p \in plan : p = NextOf(plan)
    BY <1>2, NextIs
  <2>2. p \in Pairings(t)
    BY <2>1, DrawnIs
  <2>3. PICK q : q = [r EXCEPT !.plan = Rest(plan)]
    OBVIOUS
  <2>4. Rest(plan) \in SUBSET ScheduleOf(t)
    BY DEF Rest
  <2>5. q \in Loops(t) /\ q.job = r.job /\ q.stack = r.stack /\ q.plan = Rest(plan)
    BY <2>3, <2>4 DEF Loops
  <2>6. CASE p.bye
    <3>1. NextOfCalendar(r, plan) = [q EXCEPT !.pc = "bye", !.p = p, !.back = "calendar"]
      BY <1>2, <2>1, <2>3, <2>6 DEF NextOfCalendar
    <3>2. "bye" \in Places
      BY DEF Places, PC
    <3> QED BY ZenonT(60), SMTT(60), <1>2, <2>1, <2>2, <2>5, <2>6, <3>1, <3>2 DEF Loops, PlanNext
  <2>7. CASE ~p.bye
    <3>1. NextOfCalendar(r, plan) = [q EXCEPT !.pc = "insert", !.p = p, !.game = 1, !.back = "calendar"]
      BY <1>2, <2>1, <2>3, <2>7 DEF NextOfCalendar, Materialize
    <3>2. "insert" \in Places
      BY DEF Places, PC
    <3> QED BY ZenonT(60), SMTT(60), <1>2, <2>1, <2>2, <2>5, <2>7, <3>1, <3>2 DEF Loops, PlanNext
  <2> QED BY <2>6, <2>7
<1> QED BY <1>1, <1>2

(* The pairings of the second loop that are still to come. *)
PlanReady(plan) ==
    \A p \in plan :
        /\ p.bye \/ (p.home # NoOne /\ p.away # NoOne)
        /\ p.slot \in DOMAIN match /\ ~MatchDone(p.slot) /\ match[p.slot].pairing = p
        /\ RunJob(Only(p.slot)) \notin DOMAIN jobs /\ Only(p.slot) \notin DOMAIN battle

LEMMA KnownIs ==
    ASSUME NEW t, WellDrawn(t), NEW p \in ScheduleOf(t), p.bye \/ p.home # NoOne
    PROVE  IsKnown(p) /\ ~Pending(p) /\ p.conditionalOn = <<>>
  BY DrawnIs DEF IsKnown, IsWaiting, Pending

LEMMA CalendarCharge ==
    ASSUME NEW t, WellDrawn(t), NEW r, NEW plan \in SUBSET ScheduleOf(t), NEW q, PlanNext(t, r, plan, q),
           PlanReady(plan)'
    PROVE  ChargeGood(t, q)' /\ Charge(q) \subseteq SlotsOf(plan)
<1>1. CASE plan = {}
  <2>1. q.pc = "running"
    BY <1>1 DEF PlanNext
  <2>2. Charge(q) = {} /\ InHand(q) = {} /\ ~Planning(q)
    BY <2>1 DEF Charge, InHand, Ahead, Planning
  <2> QED BY <2>1, <2>2 DEF ChargeGood
<1>2. CASE plan # {}
  <2>1. PICK p \in plan : p = NextOf(plan)
    BY <1>2, NextIs
  <2>2. q.p = p /\ q.plan = Rest(plan) /\ q.back = "calendar" /\ q.pc \in {"bye", "insert"}
        /\ (q.pc = "bye" => p.bye) /\ (q.pc = "insert" => ~p.bye /\ q.game = 1)
    BY <1>2, <2>1 DEF PlanNext
  <2>3. Planning(q) /\ InHand(q) = {p.slot} /\ Ahead(q) = SlotsOf(Rest(plan))
    BY <2>2 DEF Planning, InHand, Ahead
  <2>4. Charge(q) \subseteq SlotsOf(plan)
    BY <2>3, NextIs, <1>2 DEF Charge, SlotsOf
  <2>5. ASSUME NEW s \in Charge(q)
        PROVE  /\ s \in DOMAIN match' /\ ~MatchDone(s)' /\ ~Pending(match'[s].pairing)
               /\ RunJob(Only(s)) \notin DOMAIN jobs' /\ Only(s) \notin DOMAIN battle'
    <3>1. PICK o \in plan : o.slot = s
      BY <2>4 DEF SlotsOf
    <3>2. /\ o.bye \/ (o.home # NoOne /\ o.away # NoOne)
          /\ s \in DOMAIN match' /\ ~MatchDone(s)' /\ match'[s].pairing = o
          /\ RunJob(Only(s)) \notin DOMAIN jobs' /\ Only(s) \notin DOMAIN battle'
      BY <3>1 DEF PlanReady
    <3>3. ~Pending(o)
      BY <3>2, KnownIs
    <3> QED BY <3>2, <3>3
  <2>6. p.slot \notin SlotsOf(Rest(plan))
    <3> SUFFICES ASSUME NEW o \in Rest(plan), o.slot = p.slot PROVE FALSE
      BY DEF SlotsOf
    <3>1. o \in plan /\ o # p
      BY <2>1 DEF Rest
    <3> QED BY <3>1 DEF WellDrawn
  <2>7. p = match'[p.slot].pairing /\ (p.bye \/ (p.home # NoOne /\ p.away # NoOne))
    BY DEF PlanReady
  <2>8. \A o \in Rest(plan) : o.bye \/ (o.home # NoOne /\ o.away # NoOne)
    BY DEF PlanReady, Rest
  <2>9. p.conditionalOn = <<>>
    BY <2>7, KnownIs
  <2>10. q.pc = "insert" => Playable(p)'
    BY <2>2, <2>7, <2>9 DEF Playable, NotFormal
  <2> QED BY <2>2, <2>3, <2>4, <2>5, <2>6, <2>7, <2>8, <2>10 DEF ChargeGood
<1> QED BY <1>1, <1>2

LEMMA CalendarPlaces ==
    ASSUME NEW t, NEW r, r.job = ScheduleJob, NEW plan, NEW q, PlanNext(t, r, plan, q)
    PROVE  /\ q.pc = "running" \/ Planning(q)
           /\ ~Resolving(q) /\ ~Reading(q) /\ q.pc \notin {"idle", "candidates", "feed", "matches"}
           /\ ToRead(t, q) = SlotsOf(Byes(t))
<1>1. q.job = ScheduleJob /\ (q.pc = "running" \/ (q.pc \in {"bye", "insert"} /\ q.back = "calendar"))
  BY DEF PlanNext
<1>2. /\ q.pc = "running" \/ Planning(q)
      /\ ~Resolving(q) /\ ~Reading(q) /\ q.pc \notin {"idle", "candidates", "feed", "matches"}
  BY <1>1 DEF Planning, Resolving, Reading
<1> QED BY <1>1, <1>2 DEF ToRead, ToCome

LEMMA CalendarGood ==
    ASSUME NEW t, WellDrawn(t), NEW r, r.job = ScheduleJob, NEW plan \in SUBSET ScheduleOf(t),
           NEW q, PlanNext(t, r, plan, q), PlanReady(plan)', Inserted(t)', FramesTrue(t, r)'
    PROVE  LoopGood(t, q)'
<1>1. q.stack = r.stack /\ q.job = ScheduleJob
  BY DEF PlanNext
<1>2. FramesTrue(t, q)'
  BY <1>1, FramesSame
<1>3. /\ q.pc = "running" \/ Planning(q)
      /\ ~Resolving(q) /\ ~Reading(q) /\ q.pc \notin {"idle", "candidates", "feed", "matches"}
  BY CalendarPlaces
<1>4. StackGood(t, q)'
  BY <1>2, <1>3 DEF StackGood
<1>5. ChargeGood(t, q)'
  BY CalendarCharge
<1>6. ScheduleGood(t, q)'
  BY <1>3 DEF ScheduleGood
<1>7. ResultGood(q)'
  BY <1>1, JobsApart DEF ResultGood
<1> QED BY <1>4, <1>5, <1>6, <1>7 DEF LoopGood

LEMMA PlanningIs ==
    ASSUME NEW t, WellDrawn(t), Held(t), NEW l \in Loop, Planning(loop[l])
    PROVE  /\ loop[l].job = ScheduleJob /\ Inserted(t) /\ PlanReady(loop[l].plan)
           /\ loop[l].p.slot \notin SlotsOf(loop[l].plan) /\ loop[l].plan \in SUBSET ScheduleOf(t)
           /\ ToRead(t, loop[l]) = SlotsOf(Byes(t)) /\ FramesTrue(t, loop[l])
<1>1. PICK r : r = loop[l]
  OBVIOUS
<1>2. r \in Loops(t) /\ StackGood(t, r) /\ ChargeGood(t, r) /\ ScheduleGood(t, r)
  BY <1>1, LoopIs
<1>3. Planning(r) /\ r.pc # "idle" /\ ~Resolving(r) /\ ~Reading(r)
      /\ r.pc \in {"bye", "insert", "enqueue"}
  BY <1>1 DEF Planning, Resolving, Reading
<1>4. r.job = ScheduleJob
  BY <1>1, <1>3, ResultGood1
<1>5. Inserted(t) /\ r.plan \in SUBSET ScheduleOf(t) /\ r.p.slot \notin SlotsOf(r.plan)
      /\ ToRead(t, r) = SlotsOf(Byes(t)) /\ FramesTrue(t, r)
  BY <1>2, <1>3, <1>4 DEF ScheduleGood, Loops, ChargeGood, StackGood, ToRead, ToCome
<1>6. ASSUME NEW p \in r.plan
      PROVE  /\ p.bye \/ (p.home # NoOne /\ p.away # NoOne)
             /\ p.slot \in DOMAIN match /\ ~MatchDone(p.slot) /\ match[p.slot].pairing = p
             /\ RunJob(Only(p.slot)) \notin DOMAIN jobs /\ Only(p.slot) \notin DOMAIN battle
  <2>1. p.bye \/ (p.home # NoOne /\ p.away # NoOne)
    BY <1>2, <1>3 DEF ChargeGood
  <2>2. p.slot \in Charge(r) /\ p.slot # r.p.slot
    BY <1>3, <1>5 DEF Charge, Ahead, SlotsOf
  <2>3. /\ p.slot \in DOMAIN match /\ ~MatchDone(p.slot)
        /\ RunJob(Only(p.slot)) \notin DOMAIN jobs /\ Only(p.slot) \notin DOMAIN battle
    BY <1>2, <2>2 DEF ChargeGood
  <2>4. PICK v : v = match[p.slot].pairing
    OBVIOUS
  <2>5. IsVersion(t, v) /\ v.slot = p.slot
    BY <2>3, <2>4 DEF Held, MatchesGood, MatchGood
  <2>6. Origin(t, v.slot) = p /\ IsKnown(p)
    BY <1>5, <2>1, <2>5, OriginIs, KnownIs
  <2>7. v = p
    BY <2>5, <2>6, KnownStays
  <2> QED BY <2>1, <2>3, <2>4, <2>7
<1>7. PlanReady(r.plan)
  BY <1>6 DEF PlanReady
<1> QED BY <1>1, <1>4, <1>5, <1>7

-----------------------------------------------------------------------------
(* Where EnqueueBattle goes on when a match is one game. *)

LEMMA AfterEnqueue ==
    ASSUME NEW t, WellDrawn(t), t.format # "swiss", Held(t), NEW r \in Loops(t),
           NEW r2, r2 = [r EXCEPT !.battle = <<>>], r.back \in {"calendar", "resolve"}
    PROVE  /\ r2 \in Loops(t) /\ r2.job = r.job /\ r2.stack = r.stack /\ r2.plan = r.plan /\ r2.pc = r.pc
           /\ r.back = "calendar" => PlanNext(t, r2, r2.plan, Return(r2))
           /\ r.back = "resolve" => Resumes(t, r2, Return(r2))
<1>1. /\ r2 \in Loops(t) /\ r2.job = r.job /\ r2.stack = r.stack /\ r2.plan = r.plan /\ r2.back = r.back
      /\ r2.pc = r.pc
  BY DEF Loops
<1>2. CASE r.back = "calendar"
  <2>1. Return(r2) = NextOfCalendar(r2, r2.plan)
    BY <1>1, <1>2, Zenon DEF Return
  <2>2. r2.plan \in SUBSET ScheduleOf(t)
    BY <1>1 DEF Loops
  <2> QED BY <1>1, <1>2, <2>1, <2>2, NextOfCalendarIs
<1>3. CASE r.back = "resolve"
  <2>1. r2.back # "calendar" /\ r2.back # "round" /\ r2.back = "resolve"
    BY <1>1, <1>3
  <2>2. Return(r2) = Resume(r2)
    BY <2>1, Zenon DEF Return
  <2> QED BY <1>1, <1>3, <2>2, ResumeIs DEF Held
<1> QED BY <1>2, <1>3

LEMMA QueuedWithBattle ==
    ASSUME NEW t, Typed(t), Queued, NEW l \in Loop, loop[l].pc # "idle", NEW q,
           q.pc # "idle", q.job = loop[l].job, loop' = [loop EXCEPT ![l] = q],
           NEW b \in DOMAIN battle, RunJob(b) \notin DOMAIN jobs, EnqueuedShape(RunJob(b)), UNCHANGED battle
    PROVE  Queued'
<1>1. ASSUME NEW k \in Loop PROVE loop'[k].job = loop[k].job /\ (loop'[k].pc = "idle" <=> loop[k].pc = "idle")
  <2>1. CASE k = l
    BY <2>1 DEF Typed
  <2>2. CASE k # l
    BY <2>2 DEF Typed
  <2> QED BY <2>1, <2>2
<1>2. JobKeys' = JobKeys /\ RunJob(b) \in JobKeys
  BY DEF JobKeys
<1>3. DOMAIN jobs' = DOMAIN jobs \cup {RunJob(b)} /\ jobs'[RunJob(b)] = "queued"
      /\ \A i \in DOMAIN jobs : jobs'[i] = jobs[i]
  BY DEF EnqueuedShape
<1>4. \A c \in DOMAIN battle : ResultJob(c) # RunJob(b) /\ (RunJob(c) = RunJob(b) => c = b)
  BY JobsApart
<1>5. DOMAIN jobs' \subseteq JobKeys' /\ ScheduleJob \in DOMAIN jobs'
  BY <1>2, <1>3 DEF Queued
<1>6. \A k \in Loop : /\ loop'[k].pc = "idle" <=> loop'[k].job = NoJob
                      /\ loop'[k].pc # "idle" => loop'[k].job \in DOMAIN jobs'
                                                  /\ jobs'[loop'[k].job] = "running"
  BY <1>1, <1>3 DEF Queued, At
<1>7. \A k, h \in Loop : loop'[k].job = loop'[h].job /\ loop'[k].job # NoJob => k = h
  BY <1>1 DEF Queued
<1>8. \A c \in DOMAIN battle :
          /\ RunJob(c) \in DOMAIN jobs' => (jobs'[RunJob(c)] = "queued" <=> battle[c].status = "scheduled")
          /\ RunJob(c) \notin DOMAIN jobs' => battle[c].status = "scheduled"
          /\ ResultJob(c) \in DOMAIN jobs' => battle[c].status = "finished"
  BY <1>3, <1>4 DEF Queued
<1> QED BY <1>5, <1>6, <1>7, <1>8 DEF Queued, At

LEMMA EnqueueBattleKeeps ==
    ASSUME NEW t, WellDrawn(t), t.format # "swiss", t.games = 1, Held(t), NEW l \in Loop, EnqueueBattle(l)
    PROVE  Held(t)'
<1>1. loop[l].pc = "enqueue" /\ UNCHANGED <<tournament, match, battle>>
  BY DEF EnqueueBattle, At
<1>2. PICK r : r = loop[l]
  OBVIOUS
<1>3. /\ r \in Loops(t) /\ StackGood(t, r) /\ ChargeGood(t, r) /\ ScheduleGood(t, r)
      /\ loop \in [Loop -> Loops(t)] /\ r.job # NoJob
  BY <1>1, <1>2, LoopIs, JobIs
<1>4. PICK s : s = r.p.slot
  OBVIOUS
<1>5. s \in Charge(r)
  BY <1>1, <1>2, <1>4 DEF Charge, InHand
<1>6. /\ s \in DOMAIN match /\ ~MatchDone(s) /\ RunJob(Only(s)) \notin DOMAIN jobs
      /\ r.battle = Only(s) /\ Only(s) \in DOMAIN battle /\ r.back \in {"calendar", "resolve"} /\ r.game = 1
  BY <1>1, <1>2, <1>3, <1>4, <1>5 DEF ChargeGood
<1>7. EnqueuedShape(RunJob(Only(s)))
  BY <1>2, <1>6, EnqueueIs DEF EnqueueBattle, Held
<1>8. PICK r2 : r2 = [r EXCEPT !.battle = <<>>]
  OBVIOUS
<1>9. PICK q : q = Return(r2)
  OBVIOUS
<1>10. /\ r2 \in Loops(t) /\ r2.job = r.job /\ r2.stack = r.stack /\ r2.plan = r.plan /\ r2.pc = r.pc
       /\ r.back = "calendar" => PlanNext(t, r2, r2.plan, q)
       /\ r.back = "resolve" => Resumes(t, r2, q)
  BY <1>3, <1>6, <1>8, <1>9, AfterEnqueue
<1>11. loop' = [loop EXCEPT ![l] = q]
  <2>1. tournament.games = 1
    BY DEF Held, Typed, Tournaments
  <2>2. r2.game = 1
    BY <1>3, <1>6, <1>8 DEF Loops
  <2>3. ~(r2.game < tournament.games)
    BY <2>1, <2>2
  <2> QED BY <1>2, <1>8, <1>9, <2>3 DEF EnqueueBattle, Continue
<1>12. MildOnMatches(l) /\ MildOnTournament
  BY <1>1 DEF MildOnMatches, MildOnTournament
<1>13. MildOnJobs(l)
  BY <1>2, <1>5, <1>6, <1>7 DEF MildOnJobs, NewJob, EnqueuedShape
<1>14. FramesTrue(t, r2)
  BY <1>3, <1>10 DEF StackGood, FramesTrue
<1>15. CASE r.back = "calendar"
  <2>1. Planning(r)
    BY <1>1, <1>2, <1>15 DEF Planning
  <2>2. /\ r.job = ScheduleJob /\ Inserted(t) /\ PlanReady(r.plan) /\ s \notin SlotsOf(r.plan)
        /\ r.plan \in SUBSET ScheduleOf(t) /\ ToRead(t, r) = SlotsOf(Byes(t))
    BY <1>2, <1>4, <2>1, PlanningIs
  <2>3. PlanNext(t, r2, r2.plan, q) /\ r2.job = ScheduleJob
    BY <1>10, <1>15, <2>2
  <2>4. ToRead(t, q) = ToRead(t, r) /\ q.pc # "idle"
    BY <2>2, <2>3, CalendarPlaces
  <2>5. Kept(t)
    BY <1>1, <1>2, <1>3, <1>11, <2>4, KeptQuiet
  <2>6. FramesTrue(t, r2)'
    BY <1>14, <2>5, FramesKept
  <2>7. PlanReady(r2.plan)'
    <3> SUFFICES ASSUME NEW p \in r.plan
                 PROVE  /\ p.bye \/ (p.home # NoOne /\ p.away # NoOne)
                        /\ p.slot \in DOMAIN match' /\ ~MatchDone(p.slot)' /\ match'[p.slot].pairing = p
                        /\ RunJob(Only(p.slot)) \notin DOMAIN jobs' /\ Only(p.slot) \notin DOMAIN battle'
      BY <1>10 DEF PlanReady
    <3>1. /\ p.bye \/ (p.home # NoOne /\ p.away # NoOne)
          /\ p.slot \in DOMAIN match /\ ~MatchDone(p.slot) /\ match[p.slot].pairing = p
          /\ RunJob(Only(p.slot)) \notin DOMAIN jobs /\ Only(p.slot) \notin DOMAIN battle
      BY <2>2 DEF PlanReady
    <3>2. p.slot # s
      BY <2>2 DEF SlotsOf
    <3>3. RunJob(Only(p.slot)) # RunJob(Only(s))
      BY <3>2, JobsApart, OnlyApart
    <3> QED BY <1>1, <1>7, <3>1, <3>3 DEF EnqueuedShape, MatchDone
  <2>8. Inserted(t)'
    BY <1>1, <2>2 DEF Inserted
  <2>9. r2.plan \in SUBSET ScheduleOf(t)
    BY <1>10, <2>2
  <2>10. LoopGood(t, q)' /\ Charge(q) \subseteq SlotsOf(r2.plan)
    BY <2>3, <2>6, <2>7, <2>8, <2>9, CalendarGood, CalendarCharge
  <2>11. Charge(q) \subseteq Charge(r)
    BY <1>10, <2>1, <2>10 DEF Charge, Ahead
  <2>12. q \in Loops(t) /\ q.job = r.job /\ Fewer(r, q)
    BY <1>10, <2>3, FewerSame DEF PlanNext
  <2>13. Turn(t, l, q)
    BY <1>2, <1>11, <2>4, <2>11, <2>12 DEF Turn
  <2>14. Typed(t)'
    BY <1>1, <1>7, <1>11, <2>12 DEF Held, Typed, EnqueuedShape
  <2>15. Queued'
    BY <1>1, <1>2, <1>6, <1>7, <1>11, <2>4, <2>12, QueuedWithBattle DEF Held
  <2> QED BY <1>1, <1>2, <1>12, <1>13, <2>10, <2>12, <2>13, <2>14, <2>15, RowsStay
<1>16. CASE r.back = "resolve"
  <2>1. Resumes(t, r2, q)
    BY <1>10, <1>16
  <2>2. Resolving(r) /\ ~Planning(r) /\ ~Reading(r) /\ r.pc # "running"
    BY <1>1, <1>2, <1>16 DEF Resolving, Planning, Reading
  <2>3. q \in Loops(t) /\ q.job = r.job /\ Fewer(r2, q) /\ q.pc # "idle" /\ Charge(q) = {}
        /\ ToRead(t, q) \subseteq SlotsOf(r.plan) /\ (r.job # ScheduleJob => ToRead(t, q) = {})
    BY <1>10, <2>1, FewerIs, ResumedReads, ResumesPlaces, PlaceIs DEF Resumes
  <2>4. ToRead(t, q) \subseteq ToRead(t, r)
    BY <2>2, <2>3 DEF ToRead, ToCome
  <2>5. Kept(t)
    BY <1>1, <1>2, <1>3, <1>11, <2>4, KeptQuiet
  <2>6. Resumable(t, r2)'
    <3>1. r2.job # NoJob /\ MatchesGood(t)
      BY <1>3, <1>10 DEF Held
    <3>2. r2.job = ScheduleJob => r2.plan \subseteq Byes(t) /\ Inserted(t)
      BY <1>3, <1>10, <2>2 DEF StackGood, ScheduleGood
    <3> QED BY <1>10, <1>12, <1>14, <2>5, <3>1, <3>2, ResumableIs
  <2>7. LoopGood(t, q)'
    BY <2>1, <2>6, ResumedGood
  <2>8. Fewer(r, q)
    BY <1>10, <2>3 DEF Fewer
  <2>9. Turn(t, l, q)
    BY <1>2, <1>11, <2>3, <2>4 DEF Turn
  <2>14. Typed(t)'
    BY <1>1, <1>7, <1>11, <2>3 DEF Held, Typed, EnqueuedShape
  <2>15. Queued'
    BY <1>1, <1>2, <1>6, <1>7, <1>11, <2>3, QueuedWithBattle DEF Held
  <2> QED BY <1>1, <1>2, <1>12, <1>13, <2>7, <2>8, <2>9, <2>14, <2>15, RowsStay
<1> QED BY <1>6, <1>15, <1>16

-----------------------------------------------------------------------------
(* Actions: a match is decided *)

(* Loop l decides match s, which w wins. *)
Decides(l, s, w) ==
    /\ s \in DOMAIN match /\ Mine(l, s) /\ match' = [match EXCEPT ![s] = Decided(@, w)]
    /\ UNCHANGED <<tournament, battle, jobs>>

DecidedRow(s, w) ==
    /\ DOMAIN match' = DOMAIN match /\ s \in DOMAIN match'
    /\ \A u \in DOMAIN match \ {s} : match'[u] = match[u]
    /\ match'[s].state = "finished" /\ match'[s].winner = w /\ match'[s].pairing = match[s].pairing

LEMMA DecidesIs ==
    ASSUME NEW t, Held(t), NEW l \in Loop, NEW s, NEW w \in Seats(t), Decides(l, s, w)
    PROVE  DecidedRow(s, w) /\ match' \in [DOMAIN match' -> Rows(t)]
<1>1. match \in [DOMAIN match -> Rows(t)] /\ s \in DOMAIN match
  BY DEF Held, Typed, Decides
<1>2. PICK row : row = match[s]
  OBVIOUS
<1>3. PICK done : done = [row EXCEPT !.state = "finished", !.winner = w]
  OBVIOUS
<1>4. row \in Rows(t)
  BY <1>1, <1>2
<1>5. done \in Rows(t) /\ done.state = "finished" /\ done.winner = w /\ done.pairing = row.pairing
  BY <1>3, <1>4 DEF Rows
<1>6. match' = [match EXCEPT ![s] = done]
  BY <1>2, <1>3 DEF Decides, Decided
<1> QED BY <1>1, <1>2, <1>5, <1>6 DEF DecidedRow

LEMMA DecidesMildly ==
    ASSUME NEW t, Held(t), NEW l \in Loop, NEW s, NEW w, Decides(l, s, w), DecidedRow(s, w)
    PROVE  Mild(t, l) /\ SamePairings
<1>1. /\ DOMAIN match' = DOMAIN match /\ \A u \in DOMAIN match \ {s} : match'[u] = match[u]
      /\ s \in DOMAIN match /\ Mine(l, s) /\ match'[s].pairing = match[s].pairing
      /\ UNCHANGED <<tournament, battle, jobs>>
  BY DEF Decides, DecidedRow
<1>2. MildOnMatches(l)
  <2> SUFFICES ASSUME NEW u \in DOMAIN match PROVE match'[u] = match[u] \/ Touches(l, u)
    BY <1>1 DEF MildOnMatches
  <2>1. CASE u = s
    BY <1>1, <2>1 DEF Touches
  <2> QED BY <1>1, <2>1
<1>3. MildOnBattles(t, l) /\ MildOnJobs(l) /\ MildOnTournament
  BY <1>1 DEF MildOnBattles, MildOnJobs, MildOnTournament
<1>4. SamePairings
  <2> SUFFICES ASSUME NEW u \in DOMAIN match PROVE u \in DOMAIN match' /\ match'[u].pairing = match[u].pairing
    BY DEF SamePairings
  <2>1. CASE u = s
    BY <1>1, <2>1
  <2> QED BY <1>1, <2>1
<1> QED BY <1>2, <1>3, <1>4 DEF Mild

(* What the winner of a match must be, and its game. *)
MayWin(s, w) ==
    /\ ~Pending(match[s].pairing) /\ w \in {match[s].pairing.home, match[s].pairing.away, NoOne}
    /\ Only(s) \in DOMAIN battle => battle[Only(s)].status = "finished"

LEMMA DecideStep ==
    ASSUME NEW t, WellDrawn(t), Held(t), NEW l \in Loop, loop[l].pc # "idle", NEW s, NEW w \in Seats(t),
           Decides(l, s, w), MayWin(s, w), NEW q, q.pc # "idle", q.job = loop[l].job, Turn(t, l, q),
           Fewer(loop[l], q), LoopGood(t, q)'
    PROVE  Held(t)'
<1>1. DecidedRow(s, w) /\ match' \in [DOMAIN match' -> Rows(t)]
  BY DecidesIs
<1>2. Mild(t, l) /\ SamePairings /\ MildOnMatches(l)
  BY <1>1, DecidesMildly DEF Mild
<1>3. UNCHANGED <<tournament, battle, jobs>> /\ s \in DOMAIN match
  BY DEF Decides
<1>4. Kept(t)
  BY <1>2, KeptByTurn DEF Held
<1>5. ASSUME NEW u \in DOMAIN match', Changed(u) PROVE MatchGood(t, u)'
  <2>1. u = s
    BY <1>1, <1>5 DEF Changed, DecidedRow
  <2>2. PICK v : v = match[s].pairing
    OBVIOUS
  <2>3. IsVersion(t, v) /\ v.slot = s /\ ~Pending(v)
    BY <1>3, <2>2 DEF Held, MatchesGood, MatchGood, MayWin
  <2>4. IsVersion(t, v)' /\ v = match'[s].pairing /\ match'[s].winner = w /\ match'[s].state = "finished"
    BY <1>1, <1>4, <2>2, <2>3, VersionKept DEF DecidedRow
  <2>5. MatchGood(t, s)'
    BY <1>3, <2>2, <2>3, <2>4 DEF MatchGood, MayWin, MatchDone
  <2> QED BY <2>1, <2>5
<1>6. \A k \in Loop \ {l} : Still(loop[k])
  BY StillIs DEF Held
<1>7. q \in Loops(t) /\ loop' = [loop EXCEPT ![l] = q]
  BY DEF Turn
<1>8. Typed(t)'
  BY <1>1, <1>3, <1>7 DEF Held, Typed, DecidedRow
<1>9. Queued'
  BY <1>3, <1>7, QueuedStays DEF Held
<1>10. DOMAIN match' = DOMAIN match
  BY <1>1 DEF DecidedRow
<1> QED BY <1>2, <1>5, <1>6, <1>8, <1>9, <1>10, StepKeeps

LEMMA DecideByeKeeps ==
    ASSUME NEW t, WellDrawn(t), Held(t), NEW l \in Loop, DecideBye(l)
    PROVE  Held(t)'
<1>1. loop[l].pc = "bye" /\ UNCHANGED <<tournament, battle, jobs>>
  BY DEF DecideBye, At
<1>2. PICK r : r = loop[l]
  OBVIOUS
<1>3. r \in Loops(t) /\ ChargeGood(t, r) /\ loop \in [Loop -> Loops(t)]
  BY <1>2, LoopIs
<1>4. PICK s : s = r.p.slot
  OBVIOUS
<1>5. s \in Charge(r) /\ InHand(r) # {}
  BY <1>1, <1>2, <1>4 DEF Charge, InHand
<1>6. /\ s \in DOMAIN match /\ ~MatchDone(s) /\ ~Pending(match[s].pairing) /\ r.p = match[s].pairing
      /\ Only(s) \notin DOMAIN battle /\ r.back = "calendar"
  BY <1>1, <1>2, <1>3, <1>4, <1>5 DEF ChargeGood
<1>7. Planning(r)
  BY <1>1, <1>2, <1>6 DEF Planning
<1>8. /\ r.job = ScheduleJob /\ Inserted(t) /\ PlanReady(r.plan) /\ s \notin SlotsOf(r.plan)
      /\ r.plan \in SUBSET ScheduleOf(t) /\ ToRead(t, r) = SlotsOf(Byes(t)) /\ FramesTrue(t, r)
  BY <1>2, <1>4, <1>7, PlanningIs
<1>9. PICK w : w = r.p.home
  BY SMTT(60), ZenonT(60)
<1>10. w \in Seats(t)
  BY SMTT(60), ZenonT(60), <1>3, <1>9 DEF Loops, Pairings
<1>11. Decides(l, s, w) /\ MayWin(s, w)
  BY ZenonT(60), SMTT(60), <1>1, <1>2, <1>4, <1>5, <1>6, <1>9 DEF Decides, Mine, MayWin, DecideBye
<1>12. DecidedRow(s, w)
  BY <1>10, <1>11, DecidesIs
<1>13. PICK q : q = NextOfCalendar(r, r.plan)
  OBVIOUS
<1>14. loop' = [loop EXCEPT ![l] = q]
  <2>1. Return(r) = NextOfCalendar(r, r.plan)
    BY <1>6, Zenon DEF Return
  <2> QED BY <1>2, <1>13, <2>1 DEF DecideBye, Continue
<1>15. PlanNext(t, r, r.plan, q)
  BY <1>3, <1>8, <1>13, NextOfCalendarIs
<1>16. q \in Loops(t) /\ q.job = r.job /\ Fewer(r, q)
  BY <1>15, FewerSame DEF PlanNext
<1>17. ToRead(t, q) = ToRead(t, r) /\ q.pc # "idle"
  BY <1>8, <1>15, CalendarPlaces
<1>18. Kept(t)
  <2>1. MildOnMatches(l)
    BY <1>11, <1>12, DecidesMildly DEF Mild
  <2> QED BY <1>2, <1>3, <1>14, <1>17, <2>1, KeptIs
<1>19. PlanReady(r.plan)'
  <2> SUFFICES ASSUME NEW p \in r.plan
               PROVE  /\ p.bye \/ (p.home # NoOne /\ p.away # NoOne)
                      /\ p.slot \in DOMAIN match' /\ ~MatchDone(p.slot)' /\ match'[p.slot].pairing = p
                      /\ RunJob(Only(p.slot)) \notin DOMAIN jobs' /\ Only(p.slot) \notin DOMAIN battle'
    BY DEF PlanReady
  <2>1. /\ p.bye \/ (p.home # NoOne /\ p.away # NoOne)
        /\ p.slot \in DOMAIN match /\ ~MatchDone(p.slot) /\ match[p.slot].pairing = p
        /\ RunJob(Only(p.slot)) \notin DOMAIN jobs /\ Only(p.slot) \notin DOMAIN battle
    BY <1>8 DEF PlanReady
  <2>2. p.slot # s
    BY <1>8 DEF SlotsOf
  <2> QED BY <1>1, <1>12, <2>1, <2>2 DEF DecidedRow, MatchDone
<1>20. FramesTrue(t, r)'
  BY <1>8, <1>18, FramesKept
<1>21. Inserted(t)'
  BY <1>8, <1>12 DEF Inserted, DecidedRow
<1>22. LoopGood(t, q)' /\ Charge(q) \subseteq SlotsOf(r.plan)
  BY <1>8, <1>15, <1>19, <1>20, <1>21, CalendarGood, CalendarCharge
<1>23. Charge(q) \subseteq Charge(r)
  BY <1>7, <1>22 DEF Charge, Ahead
<1>24. Turn(t, l, q)
  BY <1>2, <1>14, <1>16, <1>17, <1>23 DEF Turn
<1> QED BY <1>1, <1>2, <1>10, <1>11, <1>16, <1>17, <1>22, <1>24, DecideStep

-----------------------------------------------------------------------------
(* Actions: a match is decided, and its dependents are to be read *)

LEMMA NotReadYet ==
    ASSUME NEW t, WellDrawn(t), Held(t), NEW s \in DOMAIN match, ~MatchDone(s), ~match[s].pairing.bye
    PROVE  ~Ended(s) /\ \A k \in Loop : s \notin ToRead(t, loop[k])
<1>1. ~Ended(s)
  BY DEF Ended
<1>2. ASSUME NEW k \in Loop PROVE s \notin ToRead(t, loop[k])
  <2>1. StackGood(t, loop[k]) /\ ScheduleGood(t, loop[k]) /\ MatchesGood(t)
    BY LoopIs DEF Held
  <2> QED BY <2>1, ToReadIs
<1> QED BY <1>1, <1>2

LEMMA CloseMatchKeeps ==
    ASSUME NEW t, WellDrawn(t), Held(t), NEW l \in Loop, CloseMatch(l)
    PROVE  Held(t)'
<1>1. loop[l].pc = "close" /\ UNCHANGED <<tournament, battle, jobs>>
  BY DEF CloseMatch, At
<1>2. PICK r : r = loop[l]
  OBVIOUS
<1>3. r \in Loops(t) /\ ResultGood(r) /\ loop \in [Loop -> Loops(t)]
  BY <1>2, LoopIs
<1>4. r.job # ScheduleJob
  BY <1>1, <1>2, NotScheduling
<1>5. PICK b \in DOMAIN battle : r.job = ResultJob(b)
  BY <1>1, <1>2, <1>4, JobIs
<1>6. PICK s \in DOMAIN match : s = b[1] /\ b = Only(s)
  BY BattleIs
<1>7. /\ r.p = match[s].pairing /\ ~MatchDone(s)
      /\ r.winner \in {r.p.home, r.p.away} \cup (IF IsMain(r.p) THEN {NoOne} ELSE {})
  BY <1>1, <1>2, <1>3, <1>5, <1>6 DEF ResultGood
<1>8. r.p.slot = s /\ s \in Slots(t)
  BY <1>7, RowIs DEF MatchGood
<1>9. battle[Only(s)].status = "finished"
  BY <1>2, <1>5, <1>6, ResultJobHeld DEF Held
<1>10. ~Pending(match[s].pairing) /\ Playable(match[s].pairing)
  BY <1>6 DEF Held, BattlesGood
<1>11. ~match[s].pairing.bye
  <2>1. IsVersion(t, match[s].pairing)
    BY RowIs DEF MatchGood
  <2> QED BY <1>10, <2>1, ByeIs DEF Playable
<1>12. PICK w : w = r.winner
  OBVIOUS
<1>13. w \in Seats(t) /\ w \in {match[s].pairing.home, match[s].pairing.away, NoOne}
  BY <1>3, <1>7, <1>12 DEF Loops
<1>14. Decides(l, s, w) /\ MayWin(s, w)
  BY <1>1, <1>2, <1>5, <1>6, <1>7, <1>8, <1>9, <1>10, <1>12, <1>13 DEF Decides, Mine, MayWin, CloseMatch
<1>15. DecidedRow(s, w)
  BY <1>13, <1>14, DecidesIs
<1>16. PICK f : f = Frame(s)
  OBVIOUS
<1>17. f \in Frames(t) /\ f.slot = s /\ f.todo = {}
  BY <1>8, <1>16, FrameTyped
<1>18. PICK q : q = [r EXCEPT !.pc = "source", !.stack = <<f>>]
  OBVIOUS
<1>19. loop' = [loop EXCEPT ![l] = q]
  BY <1>2, <1>8, <1>16, <1>18 DEF CloseMatch, Continue
<1>20. <<f>> \in Seq(Frames(t)) /\ "source" \in Places
  BY <1>17 DEF Places, PC
<1>21. q \in Loops(t) /\ q.pc = "source" /\ q.job = r.job /\ q.stack = <<f>>
  BY <1>3, <1>18, <1>20 DEF Loops
<1>22. Len(q.stack) = 1 /\ q.stack[1] = f /\ q.stack # <<>> /\ Read(q) = f
  BY <1>21 DEF Read
<1>23. /\ Charge(q) = {} /\ InHand(q) = {} /\ ~Planning(q) /\ Reading(q) /\ Resolving(q)
       /\ q.stack[Len(q.stack)].slot = s
  BY <1>17, <1>21, <1>22 DEF Charge, InHand, Ahead, Planning, Reading, Resolving
<1>24. ToRead(t, q) = {s}
  BY <1>4, <1>21, <1>23 DEF ToRead, ToCome
<1>25. ~Ended(s) /\ \A k \in Loop : s \notin ToRead(t, loop[k])
  BY <1>7, <1>11, NotReadYet
<1>26. Turn(t, l, q)
  BY <1>19, <1>21, <1>23, <1>24, <1>25 DEF Turn
<1>27. Fewer(r, q)
  BY <1>17, <1>22 DEF Fewer
<1>28. StackGood(t, q)'
  <2>1. s \in DOMAIN match' /\ Ended(s)'
    BY <1>15 DEF DecidedRow, Ended, MatchDone
  <2>2. FramesTrue(t, q)'
    BY <1>17, <1>22 DEF FramesTrue
  <2> QED BY <1>4, <1>17, <1>21, <1>22, <2>1, <2>2 DEF StackGood
<1>29. ChargeGood(t, q)'
  BY <1>21, <1>23 DEF ChargeGood
<1>30. ScheduleGood(t, q)'
  BY <1>4, <1>21 DEF ScheduleGood
<1>31. ResultGood(q)'
  BY <1>21, <1>23 DEF ResultGood
<1>32. LoopGood(t, q)'
  BY <1>28, <1>29, <1>30, <1>31 DEF LoopGood
<1> QED BY <1>1, <1>2, <1>13, <1>14, <1>21, <1>26, <1>27, <1>32, DecideStep

LEMMA WalkOverKeeps ==
    ASSUME NEW t, WellDrawn(t), Held(t), NEW l \in Loop, WalkOver(l)
    PROVE  Held(t)'
<1>1. loop[l].pc = "walkover" /\ UNCHANGED <<tournament, battle, jobs>>
  BY DEF WalkOver, At
<1>2. PICK r : r = loop[l]
  OBVIOUS
<1>3. r \in Loops(t) /\ StackGood(t, r) /\ ChargeGood(t, r) /\ ScheduleGood(t, r) /\ loop \in [Loop -> Loops(t)]
  BY <1>2, LoopIs
<1>4. PICK s : s = r.p.slot
  OBVIOUS
<1>5. /\ Resolving(r) /\ ~Planning(r) /\ ~Reading(r) /\ r.pc # "running" /\ s \in Charge(r) /\ InHand(r) # {}
  BY <1>1, <1>2, <1>4 DEF Resolving, Planning, Reading, Charge, InHand
<1>6. /\ s \in DOMAIN match /\ ~MatchDone(s) /\ ~Pending(match[s].pairing) /\ r.p = match[s].pairing
      /\ Only(s) \notin DOMAIN battle /\ ~match[s].pairing.bye
  BY <1>1, <1>2, <1>3, <1>4, <1>5 DEF ChargeGood
<1>7. PICK w : w = r.winner
  OBVIOUS
<1>8. w \in {r.p.home, r.p.away}
  BY <1>1, <1>2, <1>3, <1>7 DEF ChargeGood
<1>9. w \in Seats(t) /\ s \in Slots(t) /\ r.stack \in Seq(Frames(t))
  BY SMTT(60), ZenonT(60), <1>3, <1>6, <1>7, RowIs DEF Loops
<1>10. Decides(l, s, w) /\ MayWin(s, w)
  BY ZenonT(60), SMTT(60), <1>1, <1>2, <1>4, <1>5, <1>6, <1>7, <1>8 DEF Decides, Mine, MayWin, WalkOver
<1>11. DecidedRow(s, w)
  BY <1>9, <1>10, DecidesIs
<1>12. PICK f : f = Frame(s)
  OBVIOUS
<1>13. f \in Frames(t) /\ f.slot = s /\ f.todo = {}
  BY <1>9, <1>12, FrameTyped
<1>14. PICK stack : stack = Append(r.stack, f)
  OBVIOUS
<1>15. /\ stack \in Seq(Frames(t)) /\ Len(stack) = Len(r.stack) + 1 /\ stack[Len(stack)] = f /\ stack # <<>>
       /\ Len(r.stack) \in Nat /\ \A i \in 1..Len(r.stack) : stack[i] = r.stack[i]
  BY <1>9, <1>13, <1>14
<1>16. PICK q : q = [r EXCEPT !.pc = "source", !.stack = stack]
  OBVIOUS
<1>17. loop' = [loop EXCEPT ![l] = q]
  <2>1. loop' = [loop EXCEPT ![l] = [r EXCEPT !.pc = "source", !.stack = Append(@, Frame(s))]]
    BY <1>2, <1>4 DEF WalkOver, Continue
  <2>2. [r EXCEPT !.pc = "source", !.stack = Append(@, Frame(s))] = q
    BY <1>3, <1>12, <1>14, <1>16 DEF Loops
  <2> QED BY <2>1, <2>2
<1>18. "source" \in Places
  BY DEF Places, PC
<1>19. q \in Loops(t) /\ q.pc = "source" /\ q.job = r.job /\ q.stack = stack /\ q.plan = r.plan
  BY <1>3, <1>15, <1>16, <1>18 DEF Loops
<1>20. /\ Charge(q) = {} /\ InHand(q) = {} /\ ~Planning(q) /\ Reading(q) /\ Resolving(q)
       /\ q.stack[Len(q.stack)].slot = s /\ Read(q) = f
  BY <1>13, <1>15, <1>19 DEF Charge, InHand, Ahead, Planning, Reading, Resolving, Read
<1>21. ToRead(t, q) = ToRead(t, r) \cup {s}
  BY <1>5, <1>19, <1>20 DEF ToRead, ToCome
<1>22. ~Ended(s) /\ \A k \in Loop : s \notin ToRead(t, loop[k])
  BY <1>6, NotReadYet
<1>23. Turn(t, l, q)
  BY <1>2, <1>17, <1>19, <1>20, <1>21, <1>22 DEF Turn
<1>24. Fewer(r, q)
  <2> SUFFICES ASSUME NEW i \in 1..Len(q.stack), NEW v \in q.stack[i].todo
               PROVE  i \in 1..Len(r.stack) /\ q.stack[i] = r.stack[i]
    BY DEF Fewer
  <2>1. i # Len(stack)
    BY <1>13, <1>15, <1>19
  <2> QED BY <1>15, <1>19, <2>1
<1>25. MildOnMatches(l)
  BY <1>10, <1>11, DecidesMildly DEF Mild
<1>26. Kept(t)
  BY <1>23, <1>25, KeptByTurn DEF Held
<1>27. FramesTrue(t, r)'
  BY <1>3, <1>26, FramesKept DEF StackGood
<1>28. FramesTrue(t, q)'
  <2> SUFFICES ASSUME NEW i \in 1..Len(q.stack), q.stack[i].todo # {}
               PROVE  Resolved(t, q.stack[i].slot)' /\ Knows(q.stack[i])'
    BY DEF FramesTrue
  <2>1. i # Len(stack)
    BY <1>13, <1>15, <1>19
  <2>2. i \in 1..Len(r.stack) /\ q.stack[i] = r.stack[i]
    BY <1>15, <1>19, <2>1
  <2>3. Resolved(t, r.stack[i].slot)' /\ Knows(r.stack[i])'
    BY <1>27, <2>2 DEF FramesTrue
  <2> QED BY <2>2, <2>3
<1>29. StackGood(t, q)'
  <2>1. s \in DOMAIN match' /\ Ended(s)'
    BY <1>11 DEF DecidedRow, Ended, MatchDone
  <2>2. r.job = ScheduleJob => r.plan \subseteq Byes(t) /\ Inserted(t)
    BY <1>3, <1>5 DEF StackGood, ScheduleGood
  <2>3. r.job = ScheduleJob => s \notin SlotsOf(r.plan)
    <3> SUFFICES ASSUME r.job = ScheduleJob, NEW p \in r.plan, p.slot = s PROVE FALSE
      BY DEF SlotsOf
    <3>1. p \in Byes(t) /\ Inserted(t) /\ MatchesGood(t)
      BY <2>2 DEF Held
    <3> QED BY <1>6, <3>1, ByeRows
  <2> QED BY <1>13, <1>15, <1>19, <1>20, <1>28, <2>1, <2>2, <2>3 DEF StackGood
<1>30. ChargeGood(t, q)'
  BY <1>19, <1>20 DEF ChargeGood
<1>31. ScheduleGood(t, q)'
  <2>1. r.job = ScheduleJob => Inserted(t)'
    BY <1>3, <1>5, <1>25, InsertedKept DEF ScheduleGood
  <2> QED BY <1>19, <1>20, <2>1 DEF ScheduleGood
<1>32. ResultGood(q)'
  BY <1>19, <1>20 DEF ResultGood
<1>33. LoopGood(t, q)'
  BY <1>29, <1>30, <1>31, <1>32 DEF LoopGood
<1> QED BY <1>1, <1>2, <1>9, <1>10, <1>19, <1>23, <1>24, <1>33, DecideStep

-----------------------------------------------------------------------------
(* Actions: the battle of a match *)

LEMMA FirstCopy ==
    ASSUME NEW t, Held(t), NEW s \in DOMAIN match, Only(s) \notin DOMAIN battle
    PROVE  <<s, 1, Cardinality({b \in GamesOf(s) : b[2] = 1}) + 1>> = Only(s)
<1>1. \A b \in DOMAIN battle : b = Only(b[1])
  BY BattleIs
<1>2. {b \in GamesOf(s) : b[2] = 1} = {}
  BY <1>1 DEF GamesOf
<1>3. Cardinality({b \in GamesOf(s) : b[2] = 1}) = 0
  BY <1>2, FS_EmptySet
<1> QED BY <1>3 DEF Only

LEMMA InsertBattleKeeps ==
    ASSUME NEW t, WellDrawn(t), Held(t), NEW l \in Loop, InsertBattle(l)
    PROVE  Held(t)'
<1>1. loop[l].pc = "insert" /\ UNCHANGED <<tournament, match, jobs>>
  BY DEF InsertBattle, At
<1>2. PICK r : r = loop[l]
  OBVIOUS
<1>3. /\ r \in Loops(t) /\ StackGood(t, r) /\ ChargeGood(t, r) /\ ScheduleGood(t, r)
      /\ loop \in [Loop -> Loops(t)]
  BY <1>2, LoopIs
<1>4. PICK s : s = r.p.slot
  OBVIOUS
<1>5. s \in Charge(r) /\ InHand(r) = {s} /\ ~Reading(r) /\ r.pc # "running"
  BY <1>1, <1>2, <1>4 DEF Charge, InHand, Reading
<1>6. /\ s \in DOMAIN match /\ ~MatchDone(s) /\ ~Pending(match[s].pairing) /\ r.p = match[s].pairing
      /\ Only(s) \notin DOMAIN battle /\ Playable(r.p) /\ RunJob(Only(s)) \notin DOMAIN jobs
      /\ r.back \in {"calendar", "resolve"} /\ r.game = 1
  BY <1>1, <1>2, <1>3, <1>4, <1>5 DEF ChargeGood
<1>7. s \in Slots(t)
  BY <1>6, RowIs
<1>8. PICK b : b = Only(s)
  OBVIOUS
<1>9. PICK row : row = [status |-> "scheduled", winner |-> "none", lead |-> 0]
  OBVIOUS
<1>10. battle' = Extend(battle, b, row)
  <2>1. PICK key : key = <<s, 1, Cardinality({c \in GamesOf(s) : c[2] = 1}) + 1>>
    BY ZenonT(60), SMTT(60)
  <2>2. key = b
    BY <1>6, <1>8, <2>1, FirstCopy
  <2>3. battle' = Extend(battle, key, row)
    BY ZenonT(60), SMTT(60), <1>2, <1>4, <1>6, <1>9, <2>1 DEF InsertBattle
  <2> QED BY <2>2, <2>3
<1>11. PICK q : q = [r EXCEPT !.pc = "enqueue", !.battle = b]
  OBVIOUS
<1>12. loop' = [loop EXCEPT ![l] = q]
  <2>1. PICK key : key = <<s, 1, Cardinality({c \in GamesOf(s) : c[2] = 1}) + 1>>
    OBVIOUS
  <2>2. key = b
    BY <1>6, <1>8, <2>1, FirstCopy
  <2>3. loop' = [loop EXCEPT ![l] = [r EXCEPT !.pc = "enqueue", !.battle = key]]
    BY ZenonT(60), SMTT(60), <1>2, <1>4, <1>6, <2>1 DEF InsertBattle, Continue
  <2> QED BY <1>11, <2>2, <2>3
<1>13. "enqueue" \in Places /\ b \in Keys(t)
  BY <1>7, <1>8 DEF Places, PC, Keys
<1>14. /\ q \in Loops(t) /\ q.pc = "enqueue" /\ q.battle = b /\ q.job = r.job /\ q.stack = r.stack
       /\ q.plan = r.plan /\ q.p = r.p /\ q.back = r.back /\ q.game = r.game
  BY ZenonT(60), SMTT(60), <1>3, <1>11, <1>13 DEF Loops
<1>15. /\ Planning(q) <=> Planning(r)
       /\ Resolving(q) <=> Resolving(r)
       /\ ~Reading(q) /\ InHand(q) = {s}
  BY <1>1, <1>2, <1>4, <1>14 DEF Planning, Resolving, Reading, InHand
<1>16. Charge(q) = Charge(r) /\ ToRead(t, q) = ToRead(t, r) /\ Fewer(r, q)
  BY <1>1, <1>2, <1>5, <1>14, <1>15, FewerSame DEF Charge, Ahead, ToRead, ToCome
<1>17. /\ DOMAIN battle' = DOMAIN battle \cup {b} /\ battle'[b] = row
       /\ \A c \in DOMAIN battle : battle'[c] = battle[c]
  BY <1>6, <1>8, <1>10 DEF Extend
<1>18. Planning(r) \/ Resolving(r)
  BY <1>1, <1>2, <1>6 DEF Planning, Resolving
<1>19. Inserted(t)
  <2>1. CASE r.job = ScheduleJob
    BY <1>3, <1>18, <2>1 DEF ScheduleGood
  <2>2. CASE r.job # ScheduleJob
    <3>1. DOMAIN battle # {}
      BY <1>1, <1>2, <2>2, ResultGood1
    <3> QED BY <3>1 DEF Held, BattlesGood
  <2> QED BY <2>1, <2>2
<1>20. Mild(t, l)
  <2>1. NewBattle(t, l, b)
    BY <1>2, <1>5, <1>6, <1>8, <1>19 DEF NewBattle
  <2>2. MildOnBattles(t, l)
    BY <1>17, <2>1 DEF MildOnBattles
  <2> QED BY <1>1, <2>2 DEF Mild, MildOnMatches, MildOnJobs, MildOnTournament
<1>21. SamePairings /\ \A u \in DOMAIN match' : ~Changed(u)
  BY <1>1 DEF SamePairings, Changed
<1>22. MildOnMatches(l)
  BY <1>20 DEF Mild
<1>23. Turn(t, l, q)
  BY <1>2, <1>12, <1>14, <1>16 DEF Turn
<1>24. Kept(t)
  BY <1>22, <1>23, KeptByTurn DEF Held
<1>25. Typed(t)'
  <2>1. row \in Battles
    BY <1>9 DEF Battles
  <2>2. battle' \in [DOMAIN battle' -> Battles] /\ DOMAIN battle' \subseteq Keys(t)
    <3>1. battle \in [DOMAIN battle -> Battles] /\ DOMAIN battle \subseteq Keys(t)
      BY DEF Held, Typed
    <3> QED BY <1>10, <1>13, <2>1, <3>1 DEF Extend
  <2> QED BY <1>1, <1>12, <1>14, <2>2 DEF Held, Typed
<1>26. Queued'
  <2>1. ASSUME NEW k \in Loop PROVE loop'[k].job = loop[k].job /\ (loop'[k].pc = "idle" <=> loop[k].pc = "idle")
    BY <1>1, <1>2, <1>3, <1>12, <1>14
  <2>2. JobKeys \subseteq JobKeys'
    BY <1>17 DEF JobKeys
  <2>3. Queued
    BY DEF Held
  <2>4. RunJob(b) \notin DOMAIN jobs /\ ResultJob(b) \notin DOMAIN jobs /\ battle'[b].status = "scheduled"
    BY <1>6, <1>8, <1>9, <1>17, <2>3, ResultJobMeans
  <2>5. DOMAIN jobs \subseteq JobKeys' /\ ScheduleJob \in DOMAIN jobs
    BY <2>2, <2>3 DEF Queued
  <2>6. \A c \in DOMAIN battle' :
          /\ RunJob(c) \in DOMAIN jobs => (jobs[RunJob(c)] = "queued" <=> battle'[c].status = "scheduled")
          /\ RunJob(c) \notin DOMAIN jobs => battle'[c].status = "scheduled"
          /\ ResultJob(c) \in DOMAIN jobs => battle'[c].status = "finished"
    BY <1>17, <2>3, <2>4 DEF Queued
  <2>7. \A k \in Loop : /\ loop'[k].pc = "idle" <=> loop'[k].job = NoJob
                        /\ loop'[k].pc # "idle" => loop'[k].job \in DOMAIN jobs
                                                    /\ jobs[loop'[k].job] = "running"
    BY <2>1, <2>3 DEF Queued, At
  <2>8. \A k, h \in Loop : loop'[k].job = loop'[h].job /\ loop'[k].job # NoJob => k = h
    BY <2>1, <2>3 DEF Queued
  <2> QED BY <1>1, <2>5, <2>6, <2>7, <2>8 DEF Queued, At
<1>27. StackGood(t, q)'
  <2>1. FramesTrue(t, q)'
    BY <1>3, <1>14, <1>24, FramesKept, FramesSame DEF StackGood
  <2>2. q.job = ScheduleJob /\ Resolving(q) => q.plan \subseteq Byes(t)
    BY <1>3, <1>14, <1>15 DEF StackGood
  <2> QED BY <1>14, <1>15, <2>1, <2>2 DEF StackGood
<1>28. ChargeGood(t, q)'
  <2>1. ASSUME NEW u \in Charge(q)
        PROVE  /\ u \in DOMAIN match' /\ ~MatchDone(u)' /\ ~Pending(match'[u].pairing)
               /\ RunJob(Only(u)) \notin DOMAIN jobs'
               /\ Only(u) \in DOMAIN battle' => u = s
    <3>1. /\ u \in DOMAIN match /\ ~MatchDone(u) /\ ~Pending(match[u].pairing)
          /\ RunJob(Only(u)) \notin DOMAIN jobs
          /\ Only(u) \notin DOMAIN battle
      BY <1>1, <1>2, <1>3, <1>16 DEF ChargeGood
    <3> QED BY <1>1, <1>8, <1>17, <3>1, OnlyApart DEF MatchDone
  <2>2. Planning(q) => /\ q.p.slot \notin SlotsOf(q.plan)
                       /\ \A p \in q.plan : p.bye \/ (p.home # NoOne /\ p.away # NoOne)
    BY <1>3, <1>14, <1>15 DEF ChargeGood
  <2>3. Playable(q.p)'
    BY SMTT(60), ZenonT(60), <1>1, <1>6, <1>14 DEF Playable, NotFormal, Ended, MatchDone
  <2>4. q.p = match'[q.p.slot].pairing /\ q.p.slot = s /\ q.battle = Only(q.p.slot) /\ q.battle \in DOMAIN battle'
    BY <1>1, <1>4, <1>6, <1>8, <1>14, <1>17
  <2> QED BY <1>6, <1>14, <2>1, <2>2, <2>3, <2>4 DEF ChargeGood
<1>29. ScheduleGood(t, q)'
  BY <1>1, <1>14, <1>15, <1>18, <1>19 DEF ScheduleGood, Inserted
<1>30. ResultGood(q)'
  <2> SUFFICES ASSUME NEW c, q.job = ResultJob(c) PROVE Resolving(q)
    BY <1>14 DEF ResultGood
  <2>1. r.job # ScheduleJob
    BY <1>14, JobsApart
  <2> QED BY <1>1, <1>2, <1>15, <2>1, ResultGood1
<1>31. LoopGood(t, q)'
  BY <1>27, <1>28, <1>29, <1>30 DEF LoopGood
<1>32. \A k \in Loop \ {l} : Still(loop[k])
  BY <1>1, StillIs DEF Held
<1> QED BY <1>1, <1>2, <1>16, <1>20, <1>21, <1>23, <1>25, <1>26, <1>31, <1>32, StepKeeps

-----------------------------------------------------------------------------
(* Actions: the first loop of generate_schedule *)

(* The rows after pairing p got its match. *)
Inserts(p) ==
    /\ DOMAIN match' = DOMAIN match \cup {p.slot} /\ match'[p.slot] = NewMatch(p)
    /\ \A s \in DOMAIN match : match'[s] = match[s]
    /\ match' = Extend(match, p.slot, NewMatch(p))

(* What the first loop relies on before it inserts p, the next of its plan.*)
Inserting(t, l, p) ==
    /\ loop[l].pc = "matches" /\ loop[l].job = ScheduleJob /\ p \in loop[l].plan /\ p = NextOf(loop[l].plan)
    /\ p \in ScheduleOf(t) /\ p.slot \notin DOMAIN match /\ Fresh
    /\ Slots(t) \ DOMAIN match \subseteq SlotsOf(loop[l].plan)

LEMMA OthersIdle ==
    ASSUME NEW t, Held(t), Fresh, NEW l \in Loop, loop[l].job = ScheduleJob, NEW k \in Loop \ {l}
    PROVE  ToRead(t, loop[k]) = {} /\ Charge(loop[k]) = {}
<1>1. loop[k].pc = "idle" /\ loop[k].job = NoJob
  BY Alone DEF Held
<1>2. loop[k].job # ScheduleJob
  BY <1>1, JobsApart
<1>3. ~Planning(loop[k]) /\ ~Reading(loop[k])
  BY <1>1 DEF Planning, Reading
<1> QED BY <1>1, <1>2, <1>3 DEF ToRead, ToCome, Charge, InHand, Ahead

LEMMA InsertedRow ==
    ASSUME NEW t, WellDrawn(t), Held(t), NEW l \in Loop, NEW p, Inserting(t, l, p), Inserts(p),
           UNCHANGED <<tournament, battle, jobs>>
    PROVE  /\ Mild(t, l) /\ SamePairings /\ Fresh'
           /\ match' \in [DOMAIN match' -> Rows(t)] /\ DOMAIN match' \subseteq Slots(t) /\ IsFiniteSet(DOMAIN match')
           /\ \A u \in DOMAIN match' : Changed(u) => MatchGood(t, u)'
           /\ DOMAIN match = {} => NextOf(ScheduleOf(t)).slot \in DOMAIN match'
<1>1. /\ DOMAIN match' = DOMAIN match \cup {p.slot} /\ match'[p.slot] = NewMatch(p)
      /\ \A s \in DOMAIN match : match'[s] = match[s]
  BY DEF Inserts
<1>2. Fresh /\ p \in ScheduleOf(t) /\ p.slot \notin DOMAIN match /\ p = NextOf(loop[l].plan)
      /\ Slots(t) \ DOMAIN match \subseteq SlotsOf(loop[l].plan)
  BY DEF Inserting
<1>3. MildOnMatches(l)
  BY <1>1, <1>2 DEF MildOnMatches
<1>4. MildOnBattles(t, l) /\ MildOnJobs(l) /\ MildOnTournament
  BY DEF MildOnBattles, MildOnJobs, MildOnTournament
<1>5. SamePairings
  BY <1>1 DEF SamePairings
<1>6. /\ match'[p.slot].state = "scheduled" /\ match'[p.slot].pairing = p /\ match'[p.slot].winner = NoOne
  BY <1>1 DEF NewMatch
<1>7. Fresh'
  BY <1>1, <1>2, <1>6 DEF Fresh, MatchDone
<1>8. p \in Pairings(t) /\ p.slot \in Slots(t) /\ Origin(t, p.slot) = p
  BY <1>2, DrawnIs, OriginIs
<1>9. match' \in [DOMAIN match' -> Rows(t)] /\ DOMAIN match' \subseteq Slots(t) /\ IsFiniteSet(DOMAIN match')
  <2>1. NewMatch(p) \in Rows(t)
    BY <1>8 DEF NewMatch, Rows, Seats
  <2>2. match \in [DOMAIN match -> Rows(t)] /\ DOMAIN match \subseteq Slots(t) /\ IsFiniteSet(DOMAIN match)
    BY DEF Held, Typed
  <2>3. IsFiniteSet(DOMAIN match \cup {p.slot})
    BY <2>2, FS_AddElement
  <2>4. \A s \in DOMAIN match' : match'[s] \in Rows(t)
    BY <1>1, <2>1, <2>2
  <2>5. match' = [s \in DOMAIN match' |-> match'[s]]
    BY DEF Inserts, Extend
  <2> QED BY <1>1, <1>8, <2>2, <2>3, <2>4, <2>5
<1>10. ASSUME NEW u \in DOMAIN match', Changed(u) PROVE MatchGood(t, u)'
  <2>1. u = p.slot
    BY <1>1, <1>10 DEF Changed
  <2>2. IsVersion(t, p)'
    BY <1>8 DEF IsVersion, Side
  <2> QED BY <1>6, <2>1, <2>2 DEF MatchGood, MatchDone
<1>11. ASSUME DOMAIN match = {} PROVE NextOf(ScheduleOf(t)).slot \in DOMAIN match'
  <2>1. loop[l].plan \subseteq ScheduleOf(t)
    BY LoopIs DEF Loops
  <2>2. Slots(t) \subseteq SlotsOf(loop[l].plan)
    BY <1>2, <1>11
  <2>3. ASSUME NEW o \in ScheduleOf(t) PROVE o \in loop[l].plan
    <3>1. o.slot \in Slots(t)
      BY DEF Slots, SlotsOf
    <3>2. PICK x \in loop[l].plan : x.slot = o.slot
      BY <2>2, <3>1 DEF SlotsOf
    <3> QED BY <2>1, <3>2 DEF WellDrawn
  <2>4. loop[l].plan = ScheduleOf(t)
    BY <2>1, <2>3
  <2> QED BY <1>1, <1>2, <2>4
<1> QED BY <1>3, <1>4, <1>5, <1>7, <1>9, <1>10, <1>11 DEF Mild

LEMMA InsertStep ==
    ASSUME NEW t, WellDrawn(t), Held(t), NEW l \in Loop, NEW p, Inserting(t, l, p), Inserts(p),
           UNCHANGED <<tournament, battle, jobs>>, NEW q \in Loops(t), q.pc # "idle", q.job = ScheduleJob,
           loop' = [loop EXCEPT ![l] = q], Fewer(loop[l], q), LoopGood(t, q)'
    PROVE  Held(t)'
<1>1. /\ Mild(t, l) /\ SamePairings
      /\ match' \in [DOMAIN match' -> Rows(t)] /\ DOMAIN match' \subseteq Slots(t) /\ IsFiniteSet(DOMAIN match')
      /\ \A u \in DOMAIN match' : Changed(u) => MatchGood(t, u)'
      /\ DOMAIN match = {} => NextOf(ScheduleOf(t)).slot \in DOMAIN match'
  BY InsertedRow
<1>2. loop[l].pc = "matches" /\ loop[l].job = ScheduleJob /\ Fresh
  BY DEF Inserting
<1>3. \A k \in Loop \ {l} : ToRead(t, loop[k]) = {} /\ Charge(loop[k]) = {}
  BY <1>2, OthersIdle
<1>4. \A s : ~Ended(s)
  BY <1>2 DEF Fresh, Ended
<1>5. Turn(t, l, q)
  BY <1>3, <1>4 DEF Turn
<1>6. \A k \in Loop \ {l} : Still(loop[k])
  BY <1>2, StillIs DEF Held
<1>7. Typed(t)'
  BY <1>1 DEF Held, Typed
<1>8. Queued'
  BY <1>2, QueuedStays DEF Held
<1> QED BY <1>1, <1>5, <1>6, <1>7, <1>8, StepKeeps

LEMMA InsertKept ==
    ASSUME NEW t, WellDrawn(t), Held(t), NEW l \in Loop, NEW p, Inserting(t, l, p), Inserts(p),
           UNCHANGED <<tournament, battle, jobs>>, NEW q \in Loops(t), loop' = [loop EXCEPT ![l] = q]
    PROVE  Kept(t)
<1>1. MildOnMatches(l) /\ Fresh
  BY InsertedRow DEF Mild, Inserting
<1>2. \A s : ~Ended(s)
  BY <1>1 DEF Fresh, Ended
<1> QED BY <1>1, <1>2, KeptIs DEF Held, Typed

LEMMA AllInserted ==
    ASSUME NEW t, WellDrawn(t), Held(t), NEW l \in Loop, NEW p, Inserting(t, l, p), Inserts(p),
           UNCHANGED <<tournament, battle, jobs>>, Rest(loop[l].plan) = {},
           NEW dealt, dealt = {o \in ScheduleOf(t) : o.bye \/ (o.home # NoOne /\ o.away # NoOne)}
    PROVE  Inserted(t)' /\ PlanReady(dealt)'
<1>1. /\ DOMAIN match' = DOMAIN match \cup {p.slot} /\ match'[p.slot] = NewMatch(p)
      /\ \A s \in DOMAIN match : match'[s] = match[s]
  BY DEF Inserts
<1>2. Fresh /\ p \in ScheduleOf(t) /\ p.slot \notin DOMAIN match /\ p = NextOf(loop[l].plan)
      /\ Slots(t) \ DOMAIN match \subseteq SlotsOf(loop[l].plan) /\ p \in loop[l].plan
  BY DEF Inserting
<1>3. \A o \in loop[l].plan : o = p
  BY <1>2 DEF Rest
<1>4. Inserted(t)'
  BY <1>1, <1>2, <1>3 DEF Inserted, SlotsOf
<1>5. Fresh'
  BY InsertedRow
<1>6. ASSUME NEW o \in dealt
      PROVE  /\ o.bye \/ (o.home # NoOne /\ o.away # NoOne)
             /\ o.slot \in DOMAIN match' /\ ~MatchDone(o.slot)' /\ match'[o.slot].pairing = o
             /\ RunJob(Only(o.slot)) \notin DOMAIN jobs' /\ Only(o.slot) \notin DOMAIN battle'
  <2>1. o \in ScheduleOf(t) /\ (o.bye \/ (o.home # NoOne /\ o.away # NoOne))
    OBVIOUS
  <2>2. o.slot \in DOMAIN match'
    BY <1>4, <2>1 DEF Inserted, Slots, SlotsOf
  <2>3. ~MatchDone(o.slot)' /\ Only(o.slot) \notin DOMAIN battle' /\ RunJob(Only(o.slot)) \notin DOMAIN jobs'
    BY <1>5, <2>2, JobsApart DEF Fresh
  <2>4. CASE o.slot = p.slot
    <3>1. o = p
      BY <1>2, <2>1, <2>4 DEF WellDrawn
    <3>2. match'[o.slot].pairing = o
      BY <1>1, <3>1 DEF NewMatch
    <3> QED BY <2>1, <2>2, <2>3, <3>2
  <2>5. CASE o.slot # p.slot
    <3>1. o.slot \in DOMAIN match /\ match'[o.slot] = match[o.slot]
      BY <1>1, <2>2, <2>5
    <3>2. PICK v : v = match[o.slot].pairing
      OBVIOUS
    <3>3. IsVersion(t, v) /\ v.slot = o.slot
      BY <3>1, <3>2, RowIs DEF MatchGood
    <3>4. Origin(t, v.slot) = o /\ IsKnown(o)
      BY <2>1, <3>3, OriginIs, KnownIs
    <3>5. v = o
      BY <3>3, <3>4, KnownStays
    <3> QED BY <2>1, <2>2, <2>3, <3>1, <3>2, <3>5
  <2> QED BY <2>4, <2>5
<1>7. PlanReady(dealt)'
  BY <1>6 DEF PlanReady
<1> QED BY <1>4, <1>7

LEMMA InsertMatchKeeps ==
    ASSUME NEW t \in Entered, WellDrawn(t), Held(t), NEW l \in Loop, InsertMatch(l)
    PROVE  Held(t)'
<1>1. loop[l].pc = "matches" /\ UNCHANGED <<tournament, battle, jobs>>
  BY DEF InsertMatch, At
<1>2. PICK r : r = loop[l]
  OBVIOUS
<1>3. /\ r \in Loops(t) /\ StackGood(t, r) /\ ScheduleGood(t, r) /\ loop \in [Loop -> Loops(t)]
  BY <1>2, LoopIs
<1>4. r.job = ScheduleJob
  <2>1. ~Resolving(r)
    BY <1>1, <1>2 DEF Resolving
  <2> QED BY <1>1, <1>2, <2>1, ResultGood1
<1>5. /\ r.plan # {}
      /\ \/ NextOf(r.plan).slot \in DOMAIN match
         \/ Fresh /\ Slots(t) \ DOMAIN match \subseteq SlotsOf(r.plan)
  BY <1>1, <1>2, <1>3, <1>4 DEF ScheduleGood
<1>6. PICK p \in r.plan : p = NextOf(r.plan)
  BY <1>5, NextIs
<1>7. p \in ScheduleOf(t) /\ r.plan \in SUBSET ScheduleOf(t)
  BY <1>3 DEF Loops
<1>8. PICK dealt : dealt = {o \in ScheduleOf(t) : o.bye \/ (o.home # NoOne /\ o.away # NoOne)}
  OBVIOUS
<1>9. Schedule = ScheduleOf(t)
  BY ScheduleIs DEF Held
<1>10. CASE p.slot \in DOMAIN match
  <2>1. loop' = [loop EXCEPT ![l] = [loop[l] EXCEPT !.pc = "fail"]] /\ UNCHANGED match
    BY <1>2, <1>6, <1>10 DEF InsertMatch, Goto, Continue
  <2>2. "fail" \in Elsewhere
    BY DEF Elsewhere
  <2> QED BY <1>1, <2>1, <2>2, GotoElsewhere
<1>11. CASE p.slot \notin DOMAIN match
  <2>1. Inserting(t, l, p)
    BY <1>1, <1>2, <1>4, <1>5, <1>6, <1>7, <1>11 DEF Inserting
  <2>2. match' = Extend(match, p.slot, NewMatch(p))
    BY <1>2, <1>6, <1>11 DEF InsertMatch
  <2>3. Inserts(p)
    BY <1>11, <2>2 DEF Inserts, Extend
  <2>4. FramesTrue(t, r)
    BY <1>3 DEF StackGood
  <2>5. CASE Rest(r.plan) # {}
    <3>1. PICK q : q = [r EXCEPT !.plan = Rest(r.plan)]
      OBVIOUS
    <3>2. loop' = [loop EXCEPT ![l] = q]
      BY <1>2, <1>6, <1>11, <2>5, <3>1 DEF InsertMatch, Continue
    <3>3. Rest(r.plan) \in SUBSET ScheduleOf(t)
      BY <1>7 DEF Rest
    <3>4. q \in Loops(t) /\ q.pc = "matches" /\ q.job = ScheduleJob /\ q.stack = r.stack /\ q.plan = Rest(r.plan)
      BY <1>1, <1>2, <1>3, <1>4, <3>1, <3>3 DEF Loops
    <3>5. Fewer(r, q)
      BY <3>4, FewerSame
    <3>6. Kept(t)
      BY <1>1, <2>1, <2>3, <3>2, <3>4, InsertKept
    <3>7. FramesTrue(t, q)'
      BY <2>4, <3>4, <3>6, FramesKept, FramesSame
    <3>8. ~Planning(q) /\ ~Resolving(q) /\ ~Reading(q) /\ Charge(q) = {} /\ InHand(q) = {}
      BY <3>4 DEF Planning, Resolving, Reading, Charge, InHand, Ahead
    <3>9. StackGood(t, q)' /\ ChargeGood(t, q)'
      BY <3>4, <3>7, <3>8 DEF StackGood, ChargeGood
    <3>10. ScheduleGood(t, q)'
      <4>1. Fresh'
        BY <1>1, <2>1, <2>3, InsertedRow
      <4>2. Slots(t) \ DOMAIN match' \subseteq SlotsOf(q.plan)
        BY <1>2, <1>6, <2>1, <2>3, <3>4 DEF Inserting, Inserts, SlotsOf, Rest
      <4> QED BY <2>5, <3>4, <3>8, <4>1, <4>2 DEF ScheduleGood
    <3>11. ResultGood(q)'
      BY <3>4, JobsApart DEF ResultGood
    <3>12. LoopGood(t, q)'
      BY <3>9, <3>10, <3>11 DEF LoopGood
    <3> QED BY <1>1, <1>2, <2>1, <2>3, <3>2, <3>4, <3>5, <3>12, InsertStep
  <2>6. CASE Rest(r.plan) = {}
    <3>1. PICK q : q = NextOfCalendar(r, dealt)
      OBVIOUS
    <3>2. loop' = [loop EXCEPT ![l] = q]
      BY <1>2, <1>6, <1>8, <1>9, <1>11, <2>6, <3>1 DEF InsertMatch, Continue
    <3>3. dealt \in SUBSET ScheduleOf(t)
      BY <1>8
    <3>4. PlanNext(t, r, dealt, q)
      BY <1>3, <3>1, <3>3, NextOfCalendarIs
    <3>5. q \in Loops(t) /\ q.job = ScheduleJob /\ Fewer(r, q)
      BY <1>4, <3>4, FewerSame DEF PlanNext
    <3>6. q.pc # "idle"
      BY <1>4, <3>4, CalendarPlaces
    <3>7. Kept(t)
      BY <1>1, <2>1, <2>3, <3>2, <3>5, InsertKept
    <3>8. FramesTrue(t, r)'
      BY <2>4, <3>7, FramesKept
    <3>9. Inserted(t)' /\ PlanReady(dealt)'
      BY <1>1, <1>2, <1>8, <2>1, <2>3, <2>6, AllInserted
    <3>10. LoopGood(t, q)'
      BY <1>4, <3>3, <3>4, <3>8, <3>9, CalendarGood
    <3> QED BY <1>1, <1>2, <2>1, <2>3, <3>2, <3>5, <3>6, <3>10, InsertStep
  <2> QED BY <2>5, <2>6
<1> QED BY <1>10, <1>11

-----------------------------------------------------------------------------
(* Actions: the engine ends a game *)

(* Battle b ends: its job has a new status, and its result may have a job. *)
Ends(b, row, status, announced) ==
    /\ b \in DOMAIN battle /\ RunJob(b) \in DOMAIN jobs /\ jobs[RunJob(b)] = "queued"
    /\ UNCHANGED <<tournament, match, loop>>
    /\ battle' = [battle EXCEPT ![b] = row] /\ row \in Battles /\ row.status # "scheduled"
    /\ status \in {"done", "needs_review"}
    /\ announced \subseteq {ResultJob(b)} /\ (announced # {} => row.status = "finished")
    /\ jobs' = [j \in DOMAIN jobs \cup announced |->
                  IF j \in announced THEN "queued" ELSE IF j = RunJob(b) THEN status ELSE jobs[j]]

LEMMA EndsKeepsQueue ==
    ASSUME NEW t, Held(t), NEW b, NEW row, NEW status, NEW announced, Ends(b, row, status, announced)
    PROVE  Typed(t)' /\ Queued'
<1>1. /\ b \in DOMAIN battle /\ RunJob(b) \in DOMAIN jobs /\ jobs[RunJob(b)] = "queued"
      /\ UNCHANGED <<tournament, match, loop>>
      /\ battle' = [battle EXCEPT ![b] = row] /\ row \in Battles /\ row.status # "scheduled"
      /\ status \in {"done", "needs_review"}
      /\ announced \subseteq {ResultJob(b)} /\ (announced # {} => row.status = "finished")
  BY DEF Ends
<1>2. jobs' = [j \in DOMAIN jobs \cup announced |->
                  IF j \in announced THEN "queued" ELSE IF j = RunJob(b) THEN status ELSE jobs[j]]
  BY DEF Ends
<1>3. Typed(t) /\ Queued
  BY DEF Held
<1>4. battle' \in [DOMAIN battle' -> Battles] /\ DOMAIN battle' = DOMAIN battle
  BY <1>1, <1>3 DEF Typed
<1>5. jobs' \in [DOMAIN jobs' -> {"queued", "running", "done", "needs_review"}]
  BY <1>1, <1>2, <1>3 DEF Typed
<1>6. Typed(t)'
  BY <1>1, <1>3, <1>4, <1>5 DEF Typed
<1>7. battle[b].status = "scheduled"
  BY <1>1, <1>3 DEF Queued
<1>8. ResultJob(b) \notin DOMAIN jobs
  BY <1>3, <1>7, ResultJobMeans
<1>9. \A c \in DOMAIN battle : /\ ResultJob(c) # RunJob(b) /\ RunJob(c) # ResultJob(b)
                               /\ RunJob(c) = RunJob(b) => c = b
                               /\ ResultJob(c) = ResultJob(b) => c = b
  BY JobsApart
<1>10. /\ DOMAIN jobs' = DOMAIN jobs \cup announced
       /\ \A j \in DOMAIN jobs : j # RunJob(b) => jobs'[j] = jobs[j]
       /\ jobs'[RunJob(b)] = status
  BY <1>1, <1>2, <1>8
<1>11. JobKeys' = JobKeys /\ ResultJob(b) \in JobKeys
  BY <1>1, <1>4 DEF JobKeys
<1>12. DOMAIN jobs' \subseteq JobKeys' /\ ScheduleJob \in DOMAIN jobs'
  BY <1>1, <1>3, <1>10, <1>11 DEF Queued
<1>13. \A k \in Loop : /\ loop'[k].pc = "idle" <=> loop'[k].job = NoJob
                       /\ loop'[k].pc # "idle" => loop'[k].job \in DOMAIN jobs'
                                                   /\ jobs'[loop'[k].job] = "running"
  <2> SUFFICES ASSUME NEW k \in Loop
               PROVE  /\ loop[k].pc = "idle" <=> loop[k].job = NoJob
                      /\ loop[k].pc # "idle" => loop[k].job \in DOMAIN jobs'
                                                  /\ jobs'[loop[k].job] = "running"
    BY <1>1
  <2>1. /\ loop[k].pc = "idle" <=> loop[k].job = NoJob
        /\ loop[k].pc # "idle" => loop[k].job \in DOMAIN jobs /\ jobs[loop[k].job] = "running"
    BY <1>3 DEF Queued, At
  <2> QED BY <1>1, <1>10, <2>1
<1>14. \A k, h \in Loop : loop'[k].job = loop'[h].job /\ loop'[k].job # NoJob => k = h
  BY <1>1, <1>3 DEF Queued
<1>15. ASSUME NEW c \in DOMAIN battle
       PROVE  /\ RunJob(c) \in DOMAIN jobs' => (jobs'[RunJob(c)] = "queued" <=> battle'[c].status = "scheduled")
              /\ RunJob(c) \notin DOMAIN jobs' => battle'[c].status = "scheduled"
              /\ ResultJob(c) \in DOMAIN jobs' => battle'[c].status = "finished"
  <2>1. CASE c = b
    <3>1. battle'[c] = row
      BY <1>1, <1>3, <2>1 DEF Typed
    <3>2. ResultJob(c) \in DOMAIN jobs' => row.status = "finished"
      BY <1>1, <1>8, <1>10, <2>1
    <3> QED BY <1>1, <1>10, <2>1, <3>1, <3>2
  <2>2. CASE c # b
    <3>1. battle'[c] = battle[c] /\ RunJob(c) # RunJob(b) /\ ResultJob(c) # ResultJob(b)
          /\ RunJob(c) # ResultJob(b) /\ ResultJob(c) # RunJob(b)
      BY <1>1, <1>3, <1>9, <2>2 DEF Typed
    <3>2. /\ RunJob(c) \in DOMAIN jobs' <=> RunJob(c) \in DOMAIN jobs
          /\ ResultJob(c) \in DOMAIN jobs' <=> ResultJob(c) \in DOMAIN jobs
      BY <1>1, <1>10, <3>1
    <3> QED BY <1>3, <1>10, <3>1, <3>2 DEF Queued
  <2> QED BY <2>1, <2>2
<1>16. Queued'
  BY <1>4, <1>12, <1>13, <1>14, <1>15 DEF Queued, At
<1> QED BY <1>6, <1>16

LEMMA EndsKeeps ==
    ASSUME NEW t, WellDrawn(t), Held(t), NEW b, NEW row, NEW status, NEW announced,
           Ends(b, row, status, announced)
    PROVE  Held(t)'
<1>1. /\ b \in DOMAIN battle /\ RunJob(b) \in DOMAIN jobs /\ jobs[RunJob(b)] = "queued"
      /\ UNCHANGED <<tournament, match, loop>>
      /\ battle' = [battle EXCEPT ![b] = row]
      /\ announced \subseteq {ResultJob(b)}
  BY DEF Ends
<1>2. Typed(t)' /\ Queued'
  BY EndsKeepsQueue
<1>3. DOMAIN jobs' = DOMAIN jobs \cup announced
  BY DEF Ends
<1>4. PICK l : l = NoOne
  OBVIOUS
<1>5. MildOnMatches(l) /\ MildOnTournament
  BY <1>1 DEF MildOnMatches, MildOnTournament
<1>6. MildOnJobs(l)
  BY <1>1, <1>3 DEF MildOnJobs, NewJob
<1>7. MildOnBattles(t, l)
  <2>1. battle[b].status = "scheduled"
    BY <1>1 DEF Held, Queued
  <2>2. DOMAIN battle' = DOMAIN battle /\ \A c \in DOMAIN battle : c = b \/ battle'[c] = battle[c]
    BY <1>1 DEF Held, Typed
  <2> QED BY <2>1, <2>2 DEF MildOnBattles
<1>8. Mild(t, l) /\ Kept(t)
  BY <1>1, <1>5, <1>6, <1>7, KeptIdle DEF Mild
<1>9. ~Fresh
  BY <1>1 DEF Fresh
<1>10. DOMAIN battle' = DOMAIN battle
  BY <1>1
<1>11. ASSUME NEW k \in Loop PROVE LoopGood(t, loop[k])'
  <2>1. PICK r : r = loop[k]
    OBVIOUS
  <2>2. StackGood(t, r) /\ ChargeGood(t, r) /\ ScheduleGood(t, r) /\ ResultGood(loop[k])
    BY <2>1, LoopIs
  <2>3. StackGood(t, r)'
    BY <1>5, <1>8, <2>2, StackKept
  <2>4. Spared(r)
    <3> SUFFICES ASSUME NEW s \in Charge(r) PROVE RunJob(Only(s)) \notin DOMAIN jobs'
      BY <1>1, <1>10 DEF Spared
    <3>1. RunJob(Only(s)) \notin DOMAIN jobs
      BY <2>2 DEF ChargeGood
    <3> QED BY <1>1, <1>3, <3>1, JobsApart
  <2>5. ChargeGood(t, r)'
    BY <1>5, <1>7, <1>8, <2>2, <2>4, ChargeKept
  <2>6. Still(r)
    BY <1>9 DEF Still
  <2>7. ScheduleGood(t, r)'
    BY <1>5, <2>2, <2>6, ScheduleKept
  <2>8. Untouched(loop[k])
    BY <1>1 DEF Untouched
  <2>9. ResultGood(loop[k])'
    BY <1>1, <1>5, <1>7, <2>2, <2>8, ResultKept DEF Held
  <2>10. r = loop'[k]
    BY <1>1, <2>1
  <2> QED BY <2>3, <2>5, <2>7, <2>9, <2>10 DEF LoopGood
<1>12. MatchesGood(t)'
  <2>1. \A s \in DOMAIN match' : Changed(s) => MatchGood(t, s)'
    BY <1>1 DEF Changed
  <2> QED BY <1>7, <1>8, <2>1, MatchesKept DEF Held
<1>13. BattlesGood(t)'
  BY <1>5, <1>7, <1>8, BattlesKept DEF Held
<1>14. Begun(t)'
  <2>1. DOMAIN match' = DOMAIN match
    BY <1>1
  <2> QED BY <1>8, <2>1, BegunKept DEF Held
<1>15. FinishedGood'
  BY <1>8, FinishedKept DEF Held
<1>16. ReadOnce(t)' /\ InCharge'
  BY SMTT(60), ZenonT(60), <1>1 DEF Held, ReadOnce, InCharge
<1>17. CopiesGood(t)'
  <2>1. SamePairings
    BY <1>1 DEF SamePairings
  <2> SUFFICES ASSUME NEW k \in Loop, NEW i \in 1..Len(loop[k].stack), NEW v \in loop[k].stack[i].todo
               PROVE  CopyGood(t, loop[k].stack[i].slot, v)'
    BY <1>1 DEF CopiesGood
  <2>2. PICK f : f = loop[k].stack[i].slot
    OBVIOUS
  <2>3. CopyGood(t, f, v)
    BY <2>2 DEF Held, CopiesGood
  <2>4. CopyGood(t, f, v)'
    BY <1>8, <2>1, <2>3, CopyKept
  <2>5. f = loop'[k].stack[i].slot
    BY <1>1, <2>2
  <2> QED BY <2>4, <2>5
<1>18. CopiesAgree(t)'
  BY <1>1 DEF Held, CopiesAgree
<1> QED BY <1>2, <1>11, <1>12, <1>13, <1>14, <1>15, <1>16, <1>17, <1>18 DEF Held

LEMMA PlayBattleKeeps ==
    ASSUME NEW t, WellDrawn(t), Held(t), NEW b \in DOMAIN battle, NEW o \in Outcomes, PlayBattle(b, o)
    PROVE  Held(t)'
<1>1. PICK row : row = [status |-> "finished", winner |-> o.winner, lead |-> o.lead]
  OBVIOUS
<1>2. row \in Battles /\ row.status = "finished"
  BY <1>1, TournamentAssumption DEF Battles
<1>3. RunJob(b) \in DOMAIN jobs /\ jobs[RunJob(b)] = "queued" /\ UNCHANGED <<tournament, match, loop>>
      /\ battle' = [battle EXCEPT ![b] = row]
      /\ jobs' = Extend([jobs EXCEPT ![RunJob(b)] = "done"], ResultJob(b), "queued")
  BY <1>1 DEF PlayBattle
<1>4. PICK announced : announced = {ResultJob(b)}
  OBVIOUS
<1>5. jobs' = [j \in DOMAIN jobs \cup announced |->
                  IF j \in announced THEN "queued" ELSE IF j = RunJob(b) THEN "done" ELSE jobs[j]]
  BY <1>3, <1>4 DEF Extend
<1>6. Ends(b, row, "done", announced)
  BY <1>2, <1>3, <1>4, <1>5 DEF Ends
<1> QED BY <1>6, EndsKeeps

LEMMA BattleFailsKeeps ==
    ASSUME NEW t, WellDrawn(t), Held(t), NEW b \in DOMAIN battle, BattleFails(b)
    PROVE  Held(t)'
<1>1. PICK old \in Battles : old = battle[b]
  BY DEF Held, Typed
<1>2. PICK row : row = [old EXCEPT !.status = "failed"]
  OBVIOUS
<1>3. row \in Battles /\ row.status = "failed"
  BY <1>2 DEF Battles
<1>4. RunJob(b) \in DOMAIN jobs /\ jobs[RunJob(b)] = "queued" /\ UNCHANGED <<tournament, match, loop>>
      /\ battle' = [battle EXCEPT ![b] = row]
      /\ jobs' = [jobs EXCEPT ![RunJob(b)] = "needs_review"]
  BY <1>1, <1>2 DEF BattleFails
<1>5. jobs \in [DOMAIN jobs -> {"queued", "running", "done", "needs_review"}]
  BY DEF Held, Typed
<1>6. jobs' = [j \in DOMAIN jobs \cup {} |->
                  IF j \in {} THEN "queued" ELSE IF j = RunJob(b) THEN "needs_review" ELSE jobs[j]]
  BY <1>4, <1>5
<1>7. Ends(b, row, "needs_review", {})
  BY ZenonT(60), SMTT(60), <1>3, <1>4, <1>6 DEF Ends
<1> QED BY <1>7, EndsKeeps

-----------------------------------------------------------------------------
(* Actions: the candidates of a match are read *)

(* As StepKeeps, for the two statements that change what loops have read.  *)
LEMMA StepWithCopies ==
    ASSUME NEW t, WellDrawn(t), Held(t), NEW l \in Loop, NEW q, Turn(t, l, q), Mild(t, l),
           \A k \in Loop \ {l} : Still(loop[k]), LoopGood(t, q)',
           CopiesGood(t)', CopiesAgree(t)', Typed(t)', Queued',
           \A s \in DOMAIN match' : Changed(s) => MatchGood(t, s)',
           DOMAIN match = {} /\ DOMAIN match' # {} => NextOf(ScheduleOf(t)).slot \in DOMAIN match'
    PROVE  Held(t)'
<1>1. Rests(t) /\ Typed(t) /\ loop \in [Loop -> Loops(t)]
  BY HeldRests DEF Held, Typed
<1>2. MildOnMatches(l) /\ MildOnBattles(t, l)
  BY DEF Mild
<1>3. Kept(t)
  BY <1>1, <1>2, KeptByTurn
<1>4. \A k \in Loop : LoopGood(t, loop[k])'
  BY <1>1, <1>3, LoopsKept
<1>5. MatchesGood(t)'
  BY <1>2, <1>3, MatchesKept DEF Held
<1>6. BattlesGood(t)'
  BY <1>2, <1>3, BattlesKept DEF Held
<1>7. Begun(t)'
  BY BegunKept DEF Held
<1>8. FinishedGood'
  BY FinishedKept DEF Held
<1>9. ReadOnce(t)'
  BY <1>1, ReadOnceKept DEF Held
<1>10. InCharge'
  BY <1>1, InChargeKept DEF Held
<1> QED BY <1>4, <1>5, <1>6, <1>7, <1>8, <1>9, <1>10 DEF Held

LEMMA NotResolvedUnfed ==
    ASSUME NEW t, NEW v, IsVersion(t, v), NEW f, ~Resolved(t, f)
    PROVE  Unfed(t, v, f)
  BY DEF IsVersion, Side, Unfed

(* The dependents of a match f, as their rows are now. *)
Dependents(f) ==
    {p \in {match[m].pairing : m \in {s \in DOMAIN match : ~MatchDone(s)}} :
        Waits(p.homeSource, p.home, f) \/ Waits(p.awaySource, p.away, f)}

LEMMA DependentsAre ==
    ASSUME NEW t, Held(t), NEW f, NEW v \in Dependents(f)
    PROVE  /\ v \in Pairings(t) /\ v.slot \in DOMAIN match /\ v = match[v.slot].pairing /\ IsVersion(t, v)
           /\ Waits(v.homeSource, v.home, f) \/ Waits(v.awaySource, v.away, f)
<1>1. PICK m \in DOMAIN match : v = match[m].pairing
  BY DEF Dependents
<1>2. MatchGood(t, m) /\ v \in Pairings(t)
  BY <1>1, RowIs
<1>3. v.slot = m /\ IsVersion(t, v)
  BY <1>1, <1>2 DEF MatchGood
<1> QED BY <1>1, <1>2, <1>3 DEF Dependents

(* The loop reads the dependents of f into the top of its stack. *)
Reads(t, l, f, stack) ==
    /\ loop[l].pc = "candidates" /\ Len(loop[l].stack) \in Nat /\ Len(loop[l].stack) > 0
    /\ f = Read(loop[l]).slot /\ Ended(f) /\ ~Resolved(t, f) /\ Knows(Read(loop[l]))
    /\ Len(stack) = Len(loop[l].stack)
    /\ stack[Len(stack)].slot = f /\ stack[Len(stack)].todo = Dependents(f)
    /\ stack[Len(stack)].winner = Read(loop[l]).winner /\ stack[Len(stack)].loser = Read(loop[l]).loser
    /\ \A i \in 1..Len(stack) : i # Len(stack) => stack[i] = loop[l].stack[i]

CopyAt(k, i, v, g) ==
    k \in Loop /\ i \in 1..Len(loop[k].stack) /\ v \in loop[k].stack[i].todo /\ g = loop[k].stack[i].slot

(* The loop goes on as q, with no other copies than those of the stack. *)
GoesOn(l, stack, q) ==
    /\ loop' = [loop EXCEPT ![l] = q]
    /\ \A i \in 1..Len(q.stack) : \A v \in q.stack[i].todo :
        i \in 1..Len(stack) /\ v \in stack[i].todo /\ q.stack[i].slot = stack[i].slot

(* A copy is a row that was just read, or it was there. *)
JustRead(l, f, stack, k, i, v, g) == k = l /\ i = Len(stack) /\ g = f /\ v \in Dependents(f)
WasThere(l, f, stack, k, i, v, g) == ~(k = l /\ i = Len(stack)) /\ CopyAt(k, i, v, g) /\ g # f

LEMMA NewCopies ==
    ASSUME NEW t, Held(t), NEW l \in Loop, NEW f, NEW stack, Reads(t, l, f, stack), NEW q,
           GoesOn(l, stack, q), NEW k, NEW i, NEW v, NEW g, CopyAt(k, i, v, g)'
    PROVE  /\ IsVersion(t, v) /\ CopyGood(t, g, v)
           /\ JustRead(l, f, stack, k, i, v, g) \/ WasThere(l, f, stack, k, i, v, g)
<1>0. /\ loop \in [Loop -> Loops(t)] /\ loop' = [loop EXCEPT ![l] = q] /\ k \in Loop
      /\ i \in 1..Len(loop'[k].stack) /\ v \in loop'[k].stack[i].todo /\ g = loop'[k].stack[i].slot
  BY DEF Held, Typed, GoesOn, CopyAt
<1>1. ASSUME k = l, i = Len(stack), v \in stack[i].todo, g = stack[i].slot
      PROVE  IsVersion(t, v) /\ CopyGood(t, g, v) /\ JustRead(l, f, stack, k, i, v, g)
  <2>1. g = f /\ v \in Dependents(f) /\ ~Resolved(t, f)
    BY <1>1 DEF Reads
  <2>2. /\ v.slot \in DOMAIN match /\ v = match[v.slot].pairing /\ IsVersion(t, v)
        /\ Waits(v.homeSource, v.home, f) \/ Waits(v.awaySource, v.away, f)
    BY <2>1, DependentsAre
  <2>3. Unfed(t, v, f)
    BY <2>1, <2>2, NotResolvedUnfed
  <2> QED BY <1>1, <2>1, <2>2, <2>3 DEF CopyGood, JustRead
<1>2. ASSUME CopyAt(k, i, v, g)
      PROVE  IsVersion(t, v) /\ CopyGood(t, g, v) /\ g # f
  <2>0. i \in 1..Len(loop[k].stack) /\ v \in loop[k].stack[i].todo /\ g = loop[k].stack[i].slot
    BY <1>2 DEF CopyAt
  <2>1. CopyGood(t, g, v)
    BY <1>0, <2>0 DEF Held, CopiesGood
  <2>2. Resolved(t, g)
    BY <1>0, <2>0, LoopIs DEF StackGood, FramesTrue
  <2> QED BY <2>1, <2>2 DEF CopyGood, Reads
<1>3. CASE k # l
  <2>1. loop'[k] = loop[k]
    BY <1>0, <1>3
  <2>2. CopyAt(k, i, v, g)
    BY <1>0, <2>1 DEF CopyAt
  <2> QED BY <1>2, <1>3, <2>2 DEF WasThere
<1>4. CASE k = l
  <2>1. loop'[k] = q
    BY <1>0, <1>4
  <2>2. i \in 1..Len(stack) /\ v \in stack[i].todo /\ g = stack[i].slot
    BY <1>0, <2>1 DEF GoesOn
  <2>3. CASE i = Len(stack)
    BY <1>1, <1>4, <2>2, <2>3
  <2>4. CASE i # Len(stack)
    <3>1. i \in 1..Len(loop[k].stack) /\ stack[i] = loop[k].stack[i]
      BY <1>4, <2>2, <2>4 DEF Reads
    <3>2. CopyAt(k, i, v, g)
      BY <1>0, <2>2, <3>1 DEF CopyAt
    <3> QED BY <1>2, <2>4, <3>2 DEF WasThere
  <2> QED BY <2>3, <2>4
<1> QED BY <1>3, <1>4

LEMMA NewCopiesGood ==
    ASSUME NEW t, Held(t), NEW l \in Loop, NEW f, NEW stack, Reads(t, l, f, stack), NEW q,
           GoesOn(l, stack, q), Kept(t), SamePairings
    PROVE  CopiesGood(t)'
<1> SUFFICES ASSUME NEW k \in Loop, NEW i \in 1..Len(loop'[k].stack), NEW v \in loop'[k].stack[i].todo
             PROVE  CopyGood(t, loop[k].stack[i].slot, v)'
  BY DEF CopiesGood
<1>1. PICK g : g = loop'[k].stack[i].slot
  OBVIOUS
<1>2. CopyAt(k, i, v, g)'
  BY <1>1 DEF CopyAt
<1>3. CopyGood(t, g, v)
  BY <1>2, NewCopies
<1>4. CopyGood(t, g, v)'
  BY <1>3, CopyKept
<1> QED BY <1>1, <1>4

LEMMA NewCopiesAgree ==
    ASSUME NEW t, Held(t), NEW l \in Loop, NEW f, NEW stack, Reads(t, l, f, stack), NEW q,
           GoesOn(l, stack, q)
    PROVE  CopiesAgree(t)'
<1> SUFFICES ASSUME NEW k \in Loop, NEW h \in Loop, NEW i \in 1..Len(loop'[k].stack),
                    NEW j \in 1..Len(loop'[h].stack),
                    NEW v \in loop'[k].stack[i].todo, NEW w \in loop'[h].stack[j].todo
             PROVE  IF k = h /\ i = j THEN v.slot = w.slot => v = w
                    ELSE Agree(t, loop'[k].stack[i].slot, v, loop'[h].stack[j].slot, w)
  BY DEF CopiesAgree
<1>1. PICK g, e : g = loop'[k].stack[i].slot /\ e = loop'[h].stack[j].slot
  OBVIOUS
<1>2. CopyAt(k, i, v, g)' /\ CopyAt(h, j, w, e)'
  BY <1>1 DEF CopyAt
<1>3. /\ IsVersion(t, v) /\ CopyGood(t, g, v)
      /\ JustRead(l, f, stack, k, i, v, g) \/ WasThere(l, f, stack, k, i, v, g)
  BY <1>2, NewCopies
<1>4. /\ IsVersion(t, w) /\ CopyGood(t, e, w)
      /\ JustRead(l, f, stack, h, j, w, e) \/ WasThere(l, f, stack, h, j, w, e)
  BY <1>2, NewCopies
<1>5. Unfed(t, v, f) /\ Unfed(t, w, f)
  BY <1>3, <1>4, NotResolvedUnfed DEF Reads
<1>6. ASSUME NEW x \in Dependents(f) PROVE x = match[x.slot].pairing
  BY DependentsAre
<1>7. CASE JustRead(l, f, stack, k, i, v, g) /\ JustRead(l, f, stack, h, j, w, e)
  <2>1. k = h /\ i = j /\ v \in Dependents(f) /\ w \in Dependents(f)
    BY <1>7 DEF JustRead
  <2>2. v.slot = w.slot => v = w
    BY <1>6, <2>1
  <2> QED BY <2>1, <2>2
<1>8. CASE JustRead(l, f, stack, k, i, v, g) /\ WasThere(l, f, stack, h, j, w, e)
  <2>0. g = f /\ v \in Dependents(f) /\ e # f /\ ~(k = h /\ i = j)
    BY <1>8 DEF JustRead, WasThere
  <2>1. v.slot = w.slot => Unfed(t, v, e)
    BY <1>4, <1>6, <2>0 DEF CopyGood
  <2>2. Agree(t, g, v, e, w)
    BY <1>5, <2>0, <2>1 DEF Agree
  <2> QED BY <1>1, <2>0, <2>2
<1>9. CASE WasThere(l, f, stack, k, i, v, g) /\ JustRead(l, f, stack, h, j, w, e)
  <2>0. e = f /\ w \in Dependents(f) /\ g # f /\ ~(k = h /\ i = j)
    BY <1>9 DEF JustRead, WasThere
  <2>1. v.slot = w.slot => Unfed(t, w, g)
    BY <1>3, <1>6, <2>0 DEF CopyGood
  <2>2. Agree(t, g, v, e, w)
    BY <1>5, <2>0, <2>1 DEF Agree
  <2> QED BY <1>1, <2>0, <2>2
<1>10. CASE WasThere(l, f, stack, k, i, v, g) /\ WasThere(l, f, stack, h, j, w, e)
  <2>0. /\ i \in 1..Len(loop[k].stack) /\ v \in loop[k].stack[i].todo /\ g = loop[k].stack[i].slot
        /\ j \in 1..Len(loop[h].stack) /\ w \in loop[h].stack[j].todo /\ e = loop[h].stack[j].slot
    BY <1>10 DEF WasThere, CopyAt
  <2>1. IF k = h /\ i = j THEN v.slot = w.slot => v = w
        ELSE Agree(t, loop[k].stack[i].slot, v, loop[h].stack[j].slot, w)
    BY SMTT(60), ZenonT(60), <2>0 DEF Held, CopiesAgree
  <2> QED BY <1>1, <2>0, <2>1
<1> QED BY <1>3, <1>4, <1>7, <1>8, <1>9, <1>10

LEMMA ReadCandidatesKeeps ==
    ASSUME NEW t, WellDrawn(t), t.format # "swiss", Held(t), NEW l \in Loop, ReadCandidates(l)
    PROVE  Held(t)'
<1>1. loop[l].pc = "candidates" /\ UNCHANGED <<tournament, match, battle, jobs>>
  BY DEF ReadCandidates, At
<1>2. PICK r : r = loop[l]
  OBVIOUS
<1>3. /\ r \in Loops(t) /\ StackGood(t, r) /\ ScheduleGood(t, r) /\ loop \in [Loop -> Loops(t)]
      /\ r.job # NoJob
  BY <1>1, <1>2, LoopIs, JobIs
<1>4. /\ r.stack # <<>> /\ Ended(Read(r).slot) /\ Knows(Read(r))
      /\ r.job = ScheduleJob => Read(r).slot \notin SlotsOf(r.plan)
      /\ FramesTrue(t, r)
  BY <1>1, <1>2, <1>3 DEF StackGood, Reading
<1>5. Len(r.stack) \in Nat /\ Len(r.stack) > 0 /\ Read(r) \in Frames(t)
  BY <1>3, <1>4, TopIs
<1>6. PICK f : f = Read(r).slot
  OBVIOUS
<1>7. /\ Reading(r) /\ Resolving(r) /\ ~Planning(r) /\ r.pc # "running"
  BY <1>1, <1>2 DEF Reading, Resolving, Planning
<1>8. f \in ToRead(t, r)
  BY <1>6, <1>7 DEF ToRead, Read
<1>9. ~Resolved(t, f) /\ \A k \in Loop : k # l => f \notin ToRead(t, loop[k])
  BY <1>2, <1>8 DEF Resolved, Held, ReadOnce
<1>10. PICK waiting : waiting = Dependents(f)
  OBVIOUS
<1>11. waiting \in SUBSET Pairings(t)
  BY <1>10, DependentsAre
<1>12. PICK x \in Frames(t) : x = Read(r)
  BY <1>5
<1>13. PICK g : g = [x EXCEPT !.todo = waiting]
  OBVIOUS
<1>14. g \in Frames(t) /\ g.slot = f /\ g.todo = waiting /\ g.winner = x.winner /\ g.loser = x.loser
  BY <1>6, <1>11, <1>12, <1>13 DEF Frames
<1>15. PICK stack : Topped(r, g, stack)
  BY DEF Topped
<1>16. /\ stack \in Seq(Frames(t)) /\ Len(stack) = Len(r.stack) /\ stack # <<>>
       /\ stack[Len(r.stack)] = g
       /\ \A i \in 1..Len(r.stack) : i # Len(r.stack) => stack[i] = r.stack[i]
  BY <1>3, <1>4, <1>14, <1>15, ToppedIs
<1>17. PICK r2 : r2 = [r EXCEPT !.stack = stack]
  OBVIOUS
<1>18. r2 \in Loops(t) /\ r2.stack = stack /\ r2.job = r.job /\ r2.plan = r.plan /\ r2.pc = r.pc
  BY <1>3, <1>16, <1>17 DEF Loops
<1>19. PICK q : q = Resume(r2)
  OBVIOUS
<1>20. loop' = [loop EXCEPT ![l] = q]
  <2>1. r.stack[Top(r)].slot = f /\ Top(r) = Len(r.stack) /\ r.stack[Top(r)] = x
    BY <1>6, <1>12 DEF Read, Top
  <2>2. loop' = [loop EXCEPT ![l] = Resume([r EXCEPT !.stack[Top(r)].todo = waiting])]
    BY <1>2, <1>10, <2>1 DEF ReadCandidates, Continue, Dependents
  <2>3. [r EXCEPT !.stack[Top(r)].todo = waiting] = [r EXCEPT !.stack = [r.stack EXCEPT ![Len(r.stack)] = g]]
    BY <1>3, <1>13, <2>1 DEF Loops
  <2>4. [r EXCEPT !.stack[Top(r)].todo = waiting] = r2
    BY <1>15, <1>17, <2>3 DEF Topped
  <2> QED BY <1>19, <2>2, <2>4
<1>21. Resumes(t, r2, q)
  BY <1>18, <1>19, ResumeIs DEF Held
<1>22. /\ Fewer(r2, q) /\ q.job = r.job /\ q.pc # "idle" /\ q \in Loops(t) /\ Charge(q) = {}
       /\ ToRead(t, q) \subseteq SlotsOf(r.plan) /\ (r.job # ScheduleJob => ToRead(t, q) = {})
  BY ZenonT(60), SMTT(60), <1>18, <1>21, FewerIs, ResumedReads, ResumesPlaces, PlaceIs DEF Resumes
<1>23. ToRead(t, q) \subseteq ToRead(t, r) /\ f \notin ToRead(t, q)
  BY <1>4, <1>6, <1>7, <1>22 DEF ToRead, ToCome
<1>24. Kept(t)
  BY <1>1, <1>2, <1>3, <1>20, <1>23, KeptQuiet
<1>25. Reads(t, l, f, stack)
  BY <1>1, <1>2, <1>4, <1>5, <1>6, <1>9, <1>10, <1>12, <1>14, <1>16 DEF Reads
<1>26. SamePairings /\ Mild(t, l) /\ \A u \in DOMAIN match' : ~Changed(u)
  BY <1>1, MildWithoutRows DEF MildOnJobs, MildOnTournament
<1>27. CopiesGood(t)' /\ CopiesAgree(t)'
  <2>1. GoesOn(l, stack, q)
    BY <1>18, <1>20, <1>22 DEF GoesOn, Fewer
  <2> QED BY <1>24, <1>25, <1>26, <2>1, NewCopiesGood, NewCopiesAgree
<1>28. Resolved(t, f)'
  <2>1. ASSUME NEW k \in Loop PROVE f \notin ToRead(t, loop'[k])
    <3>1. CASE k = l
      BY <1>3, <1>20, <1>23, <3>1
    <3>2. CASE k # l
      BY <1>3, <1>9, <1>20, <3>2
    <3> QED BY <3>1, <3>2
  <2>2. Ended(f)'
    BY <1>1, <1>4, <1>6 DEF Ended, MatchDone
  <2> QED BY <2>1, <2>2 DEF Resolved
<1>29. Resumable(t, r2)'
  <2>1. MildOnMatches(l) /\ MatchesGood(t)
    BY <1>26 DEF Mild, Held
  <2>2. r.job = ScheduleJob => r.plan \subseteq Byes(t) /\ Inserted(t)
    BY <1>3, <1>7 DEF StackGood, ScheduleGood
  <2>3. Resumable(t, r)'
    BY <1>3, <1>4, <1>24, <2>1, <2>2, ResumableIs
  <2>4. FramesTrue(t, r)'
    BY <2>3 DEF Resumable
  <2>5. FramesTrue(t, r2)'
    <3> SUFFICES ASSUME NEW i \in 1..Len(stack), stack[i].todo # {}
                 PROVE  Resolved(t, stack[i].slot)' /\ Knows(stack[i])'
      BY <1>18 DEF FramesTrue
    <3>1. CASE i = Len(r.stack)
      <4>1. Knows(g)'
        BY <1>1, <1>4, <1>6, <1>12, <1>14 DEF Knows, LoserIn
      <4> QED BY <1>14, <1>16, <1>28, <3>1, <4>1
    <3>2. CASE i # Len(r.stack)
      <4>1. i \in 1..Len(r.stack) /\ stack[i] = r.stack[i]
        BY <1>16, <3>2
      <4>2. Resolved(t, r.stack[i].slot)' /\ Knows(r.stack[i])'
        BY <2>4, <4>1 DEF FramesTrue
      <4> QED BY <4>1, <4>2
    <3> QED BY <3>1, <3>2
  <2> QED BY <1>18, <2>3, <2>5 DEF Resumable
<1>30. LoopGood(t, q)'
  BY <1>21, <1>29, ResumedGood
<1>31. Turn(t, l, q)
  BY <1>2, <1>20, <1>22, <1>23 DEF Turn
<1>32. Typed(t)'
  BY <1>1, <1>20, <1>22, TypedStays DEF Held
<1>33. Queued'
  BY <1>1, <1>2, <1>20, <1>22, QueuedStays DEF Held
<1>34. \A k \in Loop \ {l} : Still(loop[k])
  BY <1>1, StillIs DEF Held
<1> QED BY <1>1, <1>26, <1>27, <1>30, <1>31, <1>32, <1>33, <1>34, StepWithCopies

-----------------------------------------------------------------------------
(* Actions: a dependent gets its side *)

(* The copy old, which waits for the match of frame f, and its row. *)
Feeds(t, f, old) ==
    /\ f \in Frames(t) /\ old \in Pairings(t) /\ CopyGood(t, f.slot, old)
    /\ Resolved(t, f.slot) /\ Knows(f)

LEMMA RowWaits ==
    ASSUME NEW t, WellDrawn(t), Held(t), NEW f, NEW old, Feeds(t, f, old),
           NEW s, s = old.slot, NEW row, row = match[s].pairing
    PROVE  /\ s \in DOMAIN match /\ Pending(row) /\ ~MatchDone(s) /\ row.slot = s /\ match[s].winner = NoOne
           /\ ~row.bye /\ Only(s) \notin DOMAIN battle /\ RunJob(Only(s)) \notin DOMAIN jobs
           /\ \A k \in Loop : s \notin Charge(loop[k])
           /\ ~Origin(t, s).bye
<1>1. /\ s \in DOMAIN match /\ IsVersion(t, old) /\ Unfed(t, row, f.slot)
      /\ Waits(old.homeSource, old.home, f.slot) \/ Waits(old.awaySource, old.away, f.slot)
      /\ f.slot \in Slots(t)
  BY DEF Feeds, CopyGood, Frames
<1>2. MatchGood(t, s) /\ IsVersion(t, row) /\ row.slot = s
  BY <1>1, RowIs DEF MatchGood
<1>3. PICK o : o = Origin(t, s)
  OBVIOUS
<1>4. o \in ScheduleOf(t) /\ (IsKnown(o) \/ IsWaiting(t, o))
  BY <1>1, <1>3, OriginOf, DrawnIs DEF IsVersion
<1>5. f.slot # <<>>
  BY <1>1, SlotsAreSlots
<1>6. Pending(row) /\ IsWaiting(t, o)
  <2>1. CASE Waits(old.homeSource, old.home, f.slot)
    <3>1. old.homeSource.slot = f.slot /\ old.homeSource # NoSource
      BY <1>5, <2>1 DEF Waits, NoSource
    <3>2. old.homeSource = o.homeSource
      BY <1>1, <1>3, <3>1 DEF IsVersion, Side
    <3>3. o.homeSource # NoSource /\ row.homeSource = o.homeSource
      BY <1>1, <1>2, <1>3, <3>1, <3>2 DEF Unfed
    <3>4. IsWaiting(t, o)
      BY <1>4, <3>3 DEF IsKnown
    <3>5. row.home = o.home
      BY <1>2, <1>3, <3>3 DEF IsVersion, Side
    <3>6. o.home = NoOne
      BY <3>4 DEF IsWaiting
    <3> QED BY <3>3, <3>4, <3>5, <3>6 DEF Pending
  <2>2. CASE Waits(old.awaySource, old.away, f.slot)
    <3>1. old.awaySource.slot = f.slot /\ old.awaySource # NoSource
      BY <1>5, <2>2 DEF Waits, NoSource
    <3>2. old.awaySource = o.awaySource
      BY <1>1, <1>3, <3>1 DEF IsVersion, Side
    <3>3. o.awaySource # NoSource /\ row.awaySource = o.awaySource
      BY <1>1, <1>2, <1>3, <3>1, <3>2 DEF Unfed
    <3>4. IsWaiting(t, o)
      BY <1>4, <3>3 DEF IsKnown
    <3>5. row.away = o.away
      BY <1>2, <1>3, <3>3 DEF IsVersion, Side
    <3>6. o.away = NoOne
      BY SMTT(60), ZenonT(60), <3>4 DEF IsWaiting
    <3> QED BY <3>3, <3>4, <3>5, <3>6 DEF Pending
  <2> QED BY <1>1, <2>1, <2>2
<1>7. ~MatchDone(s) /\ match[s].winner = NoOne
  BY <1>2, <1>6 DEF MatchGood
<1>8. ~row.bye /\ ~o.bye
  BY <1>2, <1>3, <1>6 DEF IsVersion, IsWaiting
<1>9. Only(s) \notin DOMAIN battle
  BY <1>1, <1>6 DEF Held, BattlesGood
<1>10. RunJob(Only(s)) \notin DOMAIN jobs
  <2> SUFFICES ASSUME RunJob(Only(s)) \in DOMAIN jobs PROVE FALSE
    OBVIOUS
  <2>1. RunJob(Only(s)) \in JobKeys
    BY DEF Held, Queued
  <2>2. \E b \in DOMAIN battle : RunJob(Only(s)) = RunJob(b)
    BY <2>1, JobsApart DEF JobKeys
  <2> QED BY <1>9, <2>2, JobsApart
<1>11. \A k \in Loop : s \notin Charge(loop[k])
  BY <1>6, LoopIs DEF ChargeGood
<1> QED BY <1>1, <1>2, <1>3, <1>6, <1>7, <1>8, <1>9, <1>10, <1>11

TakenBy(f, source) == IF source.take = "winner" THEN f.winner ELSE f.loser

(* One side of the pairing that is written. *)
FedSide(f, x, source, y, newSource) ==
    IF Waits(source, x, f.slot) THEN y = TakenBy(f, source) /\ newSource = NoSource
    ELSE y = x /\ newSource = source

IsFed(f, old, p) ==
    /\ p.slot = old.slot /\ p.bye = old.bye /\ p.final = old.final /\ p.conditionalOn = old.conditionalOn
    /\ FedSide(f, old.home, old.homeSource, p.home, p.homeSource)
    /\ FedSide(f, old.away, old.awaySource, p.away, p.awaySource)

LEMMA FedIs ==
    ASSUME NEW t, NEW f \in Frames(t), NEW old \in Pairings(t)
    PROVE  Fed(old, f) \in Pairings(t) /\ IsFed(f, old, Fed(old, f))
<1>1. PICK h : h = IF Waits(old.homeSource, old.home, f.slot) THEN TakenBy(f, old.homeSource) ELSE old.home
  OBVIOUS
<1>2. PICK a : a = IF Waits(old.awaySource, old.away, f.slot) THEN TakenBy(f, old.awaySource) ELSE old.away
  OBVIOUS
<1>3. PICK hs : hs = IF Waits(old.homeSource, old.home, f.slot) THEN NoSource ELSE old.homeSource
  OBVIOUS
<1>4. PICK as : as = IF Waits(old.awaySource, old.away, f.slot) THEN NoSource ELSE old.awaySource
  OBVIOUS
<1>5. Fed(old, f) = [old EXCEPT !.home = h, !.away = a, !.homeSource = hs, !.awaySource = as]
  BY <1>1, <1>2, <1>3, <1>4 DEF Fed, TakenBy, Pairings
<1>6. h \in Seats(t) /\ a \in Seats(t) /\ hs \in Sources(t) /\ as \in Sources(t)
  <2>1. f.winner \in Seats(t) /\ f.loser \in Seats(t)
    BY DEF Frames
  <2>2. /\ old.home \in Seats(t) /\ old.away \in Seats(t)
        /\ old.homeSource \in Sources(t) /\ old.awaySource \in Sources(t)
    BY DEF Pairings
  <2>3. NoSource \in Sources(t)
    BY DEF Sources
  <2> QED BY <1>1, <1>2, <1>3, <1>4, <2>1, <2>2, <2>3 DEF TakenBy
<1>7. PICK p : p = Fed(old, f)
  OBVIOUS
<1>8. /\ p \in Pairings(t) /\ p.home = h /\ p.away = a /\ p.homeSource = hs /\ p.awaySource = as
      /\ p.slot = old.slot /\ p.bye = old.bye /\ p.final = old.final /\ p.conditionalOn = old.conditionalOn
  BY ZenonT(60), SMTT(60), <1>5, <1>6, <1>7 DEF Pairings
<1>9. IsFed(f, old, p)
  BY <1>1, <1>2, <1>3, <1>4, <1>8 DEF IsFed, FedSide
<1> QED BY <1>7, <1>8, <1>9

LEMMA FedSideKept ==
    ASSUME NEW t, WellDrawn(t), Kept(t), NEW f, f.slot \in Slots(t), Resolved(t, f.slot), Knows(f),
           NEW x, NEW source, NEW y, NEW newSource, FedSide(f, x, source, y, newSource),
           NEW x0, NEW source0, Side(t, x, source, x0, source0)
    PROVE  Side(t, y, newSource, x0, source0)'
<1>1. CASE ~Waits(source, x, f.slot)
  <2>1. y = x /\ newSource = source
    BY <1>1 DEF FedSide
  <2> QED BY <2>1, SideKept
<1>2. CASE Waits(source, x, f.slot)
  <2>1. y = TakenBy(f, source) /\ newSource = NoSource /\ source.slot = f.slot
    BY <1>2 DEF FedSide, Waits
  <2>2. source # NoSource
    BY <2>1, SlotsAreSlots DEF NoSource
  <2>3. source = source0
    BY <2>2 DEF Side
  <2>4. TakenBy(f, source) = Taken(source)
    BY <2>1 DEF TakenBy, Taken, Knows
  <2>5. Taken(source)' = Taken(source)
    BY <2>1, TakenKept DEF Resolved
  <2>6. Resolved(t, f.slot)'
    BY DEF Kept
  <2> QED BY <2>1, <2>2, <2>3, <2>4, <2>5, <2>6 DEF Side
<1> QED BY <1>1, <1>2

LEMMA FedVersion ==
    ASSUME NEW t, WellDrawn(t), Kept(t), NEW f, NEW old, Feeds(t, f, old),
           NEW p \in Pairings(t), IsFed(f, old, p)
    PROVE  IsVersion(t, p)'
<1>1. IsVersion(t, old) /\ f.slot \in Slots(t) /\ Resolved(t, f.slot) /\ Knows(f)
  BY DEF Feeds, CopyGood, Frames
<1>2. PICK o : o = Origin(t, old.slot)
  OBVIOUS
<1>3. /\ old.slot \in Slots(t) /\ old.bye = o.bye /\ old.final = o.final /\ old.conditionalOn = o.conditionalOn
      /\ Side(t, old.home, old.homeSource, o.home, o.homeSource)
      /\ Side(t, old.away, old.awaySource, o.away, o.awaySource)
  BY <1>1, <1>2 DEF IsVersion
<1>4. p.slot = old.slot /\ p.bye = old.bye /\ p.final = old.final /\ p.conditionalOn = old.conditionalOn
  BY DEF IsFed
<1>5. Side(t, p.home, p.homeSource, o.home, o.homeSource)'
  <2>1. FedSide(f, old.home, old.homeSource, p.home, p.homeSource)
    BY DEF IsFed
  <2> QED BY <1>1, <1>3, <2>1, FedSideKept
<1>6. Side(t, p.away, p.awaySource, o.away, o.awaySource)'
  <2>1. FedSide(f, old.away, old.awaySource, p.away, p.awaySource)
    BY DEF IsFed
  <2> QED BY <1>1, <1>3, <2>1, FedSideKept
<1> QED BY <1>2, <1>3, <1>4, <1>5, <1>6 DEF IsVersion

LEMMA FedUnfed ==
    ASSUME NEW t, NEW f, NEW old, NEW p, IsFed(f, old, p), NEW g, g # f.slot, Unfed(t, old, g)
    PROVE  Unfed(t, p, g)
<1>1. PICK o : o = Origin(t, old.slot)
  OBVIOUS
<1>2. p.slot = old.slot /\ FedSide(f, old.home, old.homeSource, p.home, p.homeSource)
      /\ FedSide(f, old.away, old.awaySource, p.away, p.awaySource)
  BY DEF IsFed
<1>3. o.homeSource.slot = g => old.homeSource = o.homeSource
  BY <1>1 DEF Unfed
<1>4. o.awaySource.slot = g => old.awaySource = o.awaySource
  BY <1>1 DEF Unfed
<1>5. o.homeSource.slot = g => p.homeSource = o.homeSource
  BY <1>2, <1>3 DEF FedSide, Waits
<1>6. o.awaySource.slot = g => p.awaySource = o.awaySource
  BY <1>2, <1>4 DEF FedSide, Waits
<1> QED BY <1>1, <1>2, <1>5, <1>6 DEF Unfed

(* Loop l fills in p, which it makes of the copy old of its innermost frame f. *)
Feeding(t, l, f, old, p) ==
    /\ loop[l].pc = "feed" /\ Len(loop[l].stack) \in Nat /\ Len(loop[l].stack) > 0
    /\ f = Read(loop[l]) /\ old \in f.todo /\ Feeds(t, f, old)
    /\ p \in Pairings(t) /\ IsFed(f, old, p)
    /\ match' = [match EXCEPT ![old.slot].pairing = p]
    /\ UNCHANGED <<tournament, battle, jobs>>

FedRow(s, p) ==
    /\ DOMAIN match' = DOMAIN match /\ s \in DOMAIN match
    /\ \A u \in DOMAIN match \ {s} : match'[u] = match[u]
    /\ match'[s].pairing = p /\ match'[s].state = match[s].state /\ match'[s].winner = match[s].winner

LEMMA FedRowIs ==
    ASSUME NEW t, WellDrawn(t), Held(t), NEW l \in Loop, NEW f, NEW old, NEW p, Feeding(t, l, f, old, p)
    PROVE  FedRow(old.slot, p) /\ match' \in [DOMAIN match' -> Rows(t)] /\ p.slot = old.slot
<1>1. PICK s : s = old.slot
  OBVIOUS
<1>2. match \in [DOMAIN match -> Rows(t)] /\ s \in DOMAIN match
  BY <1>1 DEF Held, Typed, Feeding, Feeds, CopyGood
<1>3. PICK row \in Rows(t) : row = match[s]
  BY <1>2
<1>4. PICK fed : fed = [row EXCEPT !.pairing = p]
  OBVIOUS
<1>5. fed \in Rows(t) /\ fed.pairing = p /\ fed.state = row.state /\ fed.winner = row.winner
  BY <1>4 DEF Rows, Feeding
<1>6. match' = [match EXCEPT ![s] = fed]
  BY <1>1, <1>2, <1>3, <1>4 DEF Feeding
<1> QED BY <1>1, <1>2, <1>3, <1>5, <1>6 DEF FedRow, Feeding, IsFed

LEMMA FeedsMildly ==
    ASSUME NEW t, WellDrawn(t), Held(t), NEW l \in Loop, NEW f, NEW old, NEW p, Feeding(t, l, f, old, p)
    PROVE  Mild(t, l)
<1>1. PICK s, row : s = old.slot /\ row = match[s].pairing
  OBVIOUS
<1>2. FedRow(s, p)
  BY <1>1, FedRowIs
<1>3. Feeds(t, f, old) /\ IsVersion(t, old) /\ p.bye = old.bye /\ p \in Pairings(t) /\ UNCHANGED <<tournament, battle, jobs>>
  BY DEF Feeding, Feeds, CopyGood, IsFed
<1>4. s \in DOMAIN match /\ Pending(row) /\ ~MatchDone(s) /\ ~row.bye /\ ~Origin(t, s).bye
  BY <1>1, <1>3, RowWaits
<1>5. row.bye \in BOOLEAN /\ p.bye \in BOOLEAN /\ ~p.bye
  BY <1>1, <1>3, <1>4, RowIs DEF IsVersion, Pairings
<1>6. Touches(l, s)
  BY <1>1, <1>2, <1>4, <1>5 DEF Touches, Mine, FedRow
<1>7. MildOnMatches(l)
  BY <1>2, <1>6 DEF MildOnMatches, FedRow
<1> QED BY <1>3, <1>7 DEF Mild, MildOnBattles, MildOnJobs, MildOnTournament

(* The loop goes on as q, with the copies it had but the one it used. *)
Uses(l, old, q) ==
    /\ loop' = [loop EXCEPT ![l] = q] /\ Fewer(loop[l], q)
    /\ Len(loop[l].stack) \in 1..Len(q.stack) => old \notin q.stack[Len(loop[l].stack)].todo

LEMMA CopiesLeft ==
    ASSUME NEW t, Held(t), NEW l \in Loop, NEW old, NEW q, Uses(l, old, q),
           NEW k, NEW i, NEW v, NEW g, CopyAt(k, i, v, g)'
    PROVE  CopyAt(k, i, v, g) /\ ~(k = l /\ i = Len(loop[l].stack) /\ v = old)
<1>1. /\ loop \in [Loop -> Loops(t)] /\ loop' = [loop EXCEPT ![l] = q] /\ k \in Loop
      /\ i \in 1..Len(loop'[k].stack) /\ v \in loop'[k].stack[i].todo /\ g = loop'[k].stack[i].slot
  BY DEF Held, Typed, Uses, CopyAt
<1>2. CASE k = l
  <2>1. loop'[k] = q
    BY <1>1, <1>2
  <2> QED BY <1>1, <1>2, <2>1 DEF Uses, Fewer, CopyAt
<1>3. CASE k # l
  <2>1. loop'[k] = loop[k]
    BY <1>1, <1>3
  <2> QED BY <1>1, <1>3, <2>1 DEF CopyAt
<1> QED BY <1>2, <1>3

LEMMA CopiesLeftGood ==
    ASSUME NEW t, WellDrawn(t), Held(t), NEW l \in Loop, NEW f, NEW old, NEW p, Feeding(t, l, f, old, p),
           NEW q, Uses(l, old, q), Kept(t)
    PROVE  CopiesGood(t)'
<1> SUFFICES ASSUME NEW k \in Loop, NEW i \in 1..Len(loop'[k].stack), NEW v \in loop'[k].stack[i].todo
             PROVE  CopyGood(t, loop[k].stack[i].slot, v)'
  BY DEF CopiesGood
<1>1. PICK g : g = loop'[k].stack[i].slot
  OBVIOUS
<1>2. CopyAt(k, i, v, g)'
  BY <1>1 DEF CopyAt
<1>3. CopyAt(k, i, v, g) /\ ~(k = l /\ i = Len(loop[l].stack) /\ v = old)
  BY <1>2, CopiesLeft
<1>4. CopyGood(t, g, v)
  BY <1>3 DEF CopyAt, Held, CopiesGood
<1>5. FedRow(old.slot, p) /\ p.slot = old.slot
  BY FedRowIs
<1>6. IsVersion(t, v)'
  BY <1>4, VersionKept DEF CopyGood
<1>7. v.slot \in DOMAIN match' /\ (Waits(v.homeSource, v.home, g) \/ Waits(v.awaySource, v.away, g))
  BY <1>4, <1>5 DEF CopyGood, FedRow
<1>8. PICK w : w = match'[v.slot].pairing
  OBVIOUS
<1>9. Unfed(t, w, g)
  <2>1. CASE v.slot # old.slot
    <3>1. w = match[v.slot].pairing
      BY <1>4, <1>5, <1>8, <2>1 DEF FedRow, CopyGood
    <3> QED BY <1>4, <3>1 DEF CopyGood
  <2>2. CASE v.slot = old.slot
    <3>1. w = p
      BY <1>5, <1>8, <2>2 DEF FedRow
    <3>2. PICK n : n = Len(loop[l].stack)
      OBVIOUS
    <3>3. n \in 1..Len(loop[l].stack) /\ old \in loop[l].stack[n].todo /\ f = loop[l].stack[n]
      BY <3>2 DEF Feeding, Read
    <3>4. i \in 1..Len(loop[k].stack) /\ v \in loop[k].stack[i].todo /\ g = loop[k].stack[i].slot
      BY <1>3 DEF CopyAt
    <3>5. IF k = l /\ i = n THEN v.slot = old.slot => v = old ELSE Agree(t, g, v, f.slot, old)
      BY <3>3, <3>4 DEF Held, CopiesAgree
    <3>6. Agree(t, g, v, f.slot, old)
      BY <1>3, <2>2, <3>2, <3>5
    <3>7. Unfed(t, old, g) /\ g # f.slot
      BY <2>2, <3>6 DEF Agree
    <3>8. IsFed(f, old, p)
      BY DEF Feeding
    <3>9. Unfed(t, p, g)
      BY <3>7, <3>8, FedUnfed
    <3> QED BY <3>1, <3>9
  <2> QED BY <2>1, <2>2
<1>10. Unfed(t, w, g)'
  BY <1>9 DEF Unfed, Origin
<1>11. CopyGood(t, g, v)'
  BY <1>6, <1>7, <1>8, <1>10 DEF CopyGood
<1> QED BY <1>1, <1>11

LEMMA FeedStep ==
    ASSUME NEW t, WellDrawn(t), Held(t), NEW l \in Loop, NEW f, NEW old, NEW p, Feeding(t, l, f, old, p),
           NEW q, q.pc # "idle", q.job = loop[l].job, Uses(l, old, q), Turn(t, l, q), Kept(t), LoopGood(t, q)'
    PROVE  Held(t)'
<1>1. Mild(t, l)
  BY FeedsMildly
<1>2. FedRow(old.slot, p) /\ match' \in [DOMAIN match' -> Rows(t)] /\ p.slot = old.slot
  BY FedRowIs
<1>3. /\ Feeds(t, f, old) /\ p \in Pairings(t) /\ IsFed(f, old, p) /\ loop[l].pc # "idle"
      /\ UNCHANGED <<tournament, battle, jobs>>
  BY DEF Feeding
<1>4. /\ loop \in [Loop -> Loops(t)] /\ loop' = [loop EXCEPT ![l] = q] /\ q \in Loops(t) /\ Fewer(loop[l], q)
  BY DEF Held, Typed, Turn, Uses
<1>5. \A k \in Loop \ {l} : Still(loop[k])
  BY <1>3, StillIs DEF Held
<1>6. CopiesGood(t)'
  BY CopiesLeftGood
<1>7. CopiesAgree(t)'
  BY <1>4, AgreeKept DEF Held
<1>8. Typed(t)'
  BY <1>2, <1>3, <1>4 DEF Held, Typed, FedRow
<1>9. Queued'
  BY <1>3, <1>4, QueuedStays DEF Held
<1>10. PICK s : s = old.slot
  OBVIOUS
<1>11. MatchGood(t, s)'
  <2>1. IsVersion(t, p)'
    BY <1>3, FedVersion
  <2>2. PICK row : row = match[s].pairing
    OBVIOUS
  <2>3. ~MatchDone(s) /\ match[s].winner = NoOne
    BY <1>3, <1>10, <2>2, RowWaits
  <2>4. match'[s].pairing = p /\ ~MatchDone(s)' /\ match'[s].winner = NoOne
    BY <1>2, <1>10, <2>3 DEF FedRow, MatchDone
  <2> QED BY <1>2, <1>10, <2>1, <2>4 DEF MatchGood
<1>12. ASSUME NEW u \in DOMAIN match', Changed(u) PROVE MatchGood(t, u)'
  BY <1>2, <1>10, <1>11, <1>12 DEF Changed, FedRow
<1>13. DOMAIN match' = DOMAIN match
  BY <1>2 DEF FedRow
<1> QED BY <1>1, <1>5, <1>6, <1>7, <1>8, <1>9, <1>12, <1>13, StepWithCopies

(* Where the handler goes with the pairing p it has just written. *)
Onward(t, r, p, q) ==
    \/ Pending(p) /\ Resumes(t, r, q)
    \/ /\ ~Pending(p) /\ q \in Loops(t) /\ q.job = r.job /\ q.stack = r.stack /\ q.plan = r.plan /\ q.p = p
       /\ \/ /\ p.home # NoOne /\ p.away # NoOne
             /\ q.pc = IF p.conditionalOn # <<>> THEN "condition" ELSE "existing"
          \/ /\ p.home = NoOne \/ p.away = NoOne
             /\ q.pc = "walkover" /\ q.winner = IF p.home # NoOne THEN p.home ELSE p.away

LEMMA OnwardIs ==
    ASSUME NEW t, Typed(t), t.format # "swiss", NEW r \in Loops(t), NEW p \in Pairings(t)
    PROVE  \E r0 \in Loops(t) : /\ r0.job = r.job /\ r0.stack = r.stack /\ r0.plan = r.plan
                                /\ Onward(t, r0, p, AfterFeeding(r, p))
<1>1. PICK r0 : r0 = [r EXCEPT !.p = p]
  OBVIOUS
<1>2. r0 \in Loops(t) /\ r0.job = r.job /\ r0.stack = r.stack /\ r0.plan = r.plan /\ r0.p = p
  BY <1>1 DEF Loops
<1>3. PICK q : q = AfterFeeding(r, p)
  OBVIOUS
<1>4. {"condition", "existing", "walkover"} \subseteq Places
  BY DEF Places, PC
<1>5. CASE Pending(p)
  <2>1. q = Resume(r0)
    BY ZenonT(60), SMTT(60), <1>1, <1>3, <1>5 DEF AfterFeeding
  <2> QED BY <1>2, <1>3, <1>5, <2>1, ResumeIs DEF Onward
<1>6. CASE ~Pending(p) /\ p.home # NoOne /\ p.away # NoOne
  <2>1. PICK pc : pc = IF p.conditionalOn # <<>> THEN "condition" ELSE "existing"
    OBVIOUS
  <2>2. q = [r0 EXCEPT !.pc = pc]
    BY <1>1, <1>3, <1>6, <2>1 DEF AfterFeeding
  <2>3. pc \in Places
    BY <1>4, <2>1
  <2>4. q \in Loops(t) /\ q.pc = pc /\ q.job = r0.job /\ q.stack = r0.stack /\ q.plan = r0.plan /\ q.p = p
    BY SMTT(60), ZenonT(60), <1>2, <2>2, <2>3 DEF Loops
  <2>5. Onward(t, r0, p, q)
    BY <1>6, <2>1, <2>4 DEF Onward
  <2> QED BY <1>2, <1>3, <2>5
<1>7. CASE ~Pending(p) /\ (p.home = NoOne \/ p.away = NoOne)
  <2>1. PICK w : w = IF p.home # NoOne THEN p.home ELSE p.away
    OBVIOUS
  <2>2. q = [r0 EXCEPT !.pc = "walkover", !.winner = w]
    BY <1>1, <1>3, <1>7, <2>1 DEF AfterFeeding
  <2>3. w \in Seats(t)
    BY <2>1 DEF Pairings
  <2>4. /\ q \in Loops(t) /\ q.pc = "walkover" /\ q.winner = w /\ q.job = r0.job /\ q.stack = r0.stack
        /\ q.plan = r0.plan /\ q.p = p
    BY <1>2, <1>4, <2>2, <2>3 DEF Loops
  <2>5. Onward(t, r0, p, q)
    BY <1>7, <2>1, <2>4 DEF Onward
  <2> QED BY <1>2, <1>3, <2>5
<1> QED BY <1>5, <1>6, <1>7

(* The loop takes charge of the match it has filled in. *)
LEMMA FedCharge ==
    ASSUME NEW t, WellDrawn(t), Held(t), NEW l \in Loop, NEW f, NEW old, NEW p, Feeding(t, l, f, old, p),
           NEW r, NEW q, Onward(t, r, p, q), ~Pending(p)
    PROVE  /\ ChargeGood(t, q)' /\ Charge(q) = {old.slot} /\ Resolving(q) /\ ~Reading(q) /\ ~Planning(q)
           /\ q.pc \in {"condition", "existing", "walkover"}
<1>1. PICK s, row : s = old.slot /\ row = match[s].pairing
  OBVIOUS
<1>2. FedRow(s, p) /\ p.slot = s
  BY <1>1, FedRowIs
<1>3. Feeds(t, f, old) /\ p \in Pairings(t) /\ IsFed(f, old, p) /\ UNCHANGED <<tournament, battle, jobs>>
  BY DEF Feeding
<1>4. s \in DOMAIN match /\ ~MatchDone(s) /\ Only(s) \notin DOMAIN battle /\ RunJob(Only(s)) \notin DOMAIN jobs
      /\ ~Origin(t, s).bye
  BY <1>1, <1>3, RowWaits
<1>5. ~p.bye
  BY <1>1, <1>3, <1>4 DEF IsFed, Feeds, CopyGood, IsVersion
<1>6. q.p = p /\ q.pc \in {"condition", "existing", "walkover"}
  BY DEF Onward
<1>7. Charge(q) = {s} /\ InHand(q) = {s} /\ Resolving(q) /\ ~Reading(q) /\ ~Planning(q)
  BY <1>2, <1>6 DEF Charge, InHand, Ahead, Resolving, Reading, Planning
<1>8. s \in DOMAIN match' /\ ~MatchDone(s)' /\ match'[s].pairing = p
  BY <1>2, <1>4 DEF FedRow, MatchDone
<1>9. Only(s) \notin DOMAIN battle' /\ RunJob(Only(s)) \notin DOMAIN jobs'
  BY <1>3, <1>4
<1>10. q.pc = "existing" => p.home # NoOne /\ p.away # NoOne /\ p.conditionalOn = <<>>
  BY DEF Onward
<1>11. q.pc = "existing" => Playable(p)'
  BY <1>10 DEF Playable, NotFormal
<1>12. q.pc = "condition" => p.home # NoOne /\ p.away # NoOne /\ p.conditionalOn # <<>>
  BY DEF Onward
<1>13. q.pc = "walkover" =>
          (p.home = NoOne \/ p.away = NoOne) /\ q.winner = IF p.home # NoOne THEN p.home ELSE p.away
  BY DEF Onward
<1>14. ChargeGood(t, q)'
  BY <1>2, <1>5, <1>6, <1>7, <1>8, <1>9, <1>11, <1>12, <1>13 DEF ChargeGood
<1> QED BY <1>1, <1>6, <1>7, <1>14

LEMMA FeedDependentKeeps ==
    ASSUME NEW t, WellDrawn(t), t.format # "swiss", Held(t), NEW l \in Loop, FeedDependent(l)
    PROVE  Held(t)'
<1>1. loop[l].pc = "feed" /\ UNCHANGED <<tournament, battle, jobs>>
  BY DEF FeedDependent, At
<1>2. PICK r : r = loop[l]
  OBVIOUS
<1>3. /\ r \in Loops(t) /\ StackGood(t, r) /\ ScheduleGood(t, r) /\ loop \in [Loop -> Loops(t)]
      /\ r.job # NoJob
  BY <1>1, <1>2, LoopIs, JobIs
<1>4. r.stack # <<>> /\ FramesTrue(t, r)
  BY <1>1, <1>2, <1>3 DEF StackGood
<1>5. Len(r.stack) \in Nat /\ Len(r.stack) > 0 /\ Read(r) \in Frames(t)
  BY <1>3, <1>4, TopIs
<1>6. /\ Resolving(r) /\ ~Planning(r) /\ ~Reading(r) /\ r.pc # "running"
  BY <1>1, <1>2 DEF Reading, Resolving, Planning
<1>7. PICK f \in Frames(t) : f = Read(r)
  BY <1>5
<1>8. r.stack[Top(r)] = f /\ Top(r) = Len(r.stack)
  BY <1>7 DEF Read, Top
<1>9. PICK old \in f.todo :
        /\ match' = [match EXCEPT ![Fed(old, f).slot].pairing = Fed(old, f)]
        /\ Continue(l, AfterFeeding([r EXCEPT !.stack[Top(r)].todo = @ \ {old}], Fed(old, f)))
  BY <1>2, <1>8 DEF FeedDependent
<1>10. PICK p : p = Fed(old, f)
  OBVIOUS
<1>11. Feeds(t, f, old)
  <2>1. Len(r.stack) \in 1..Len(r.stack)
    BY <1>5
  <2>2. CopyGood(t, f.slot, old)
    BY <1>2, <1>8, <2>1 DEF Held, CopiesGood
  <2>3. Resolved(t, f.slot) /\ Knows(f)
    BY <1>4, <1>8, <2>1 DEF FramesTrue
  <2>4. old \in Pairings(t)
    BY <1>7 DEF Frames
  <2> QED BY <2>2, <2>3, <2>4 DEF Feeds
<1>12. p \in Pairings(t) /\ IsFed(f, old, p) /\ p.slot = old.slot
  BY <1>7, <1>10, <1>11, FedIs DEF Feeds, IsFed
<1>13. Feeding(t, l, f, old, p)
  BY <1>1, <1>2, <1>5, <1>7, <1>9, <1>10, <1>11, <1>12 DEF Feeding
<1>14. PICK g : g = [f EXCEPT !.todo = f.todo \ {old}]
  OBVIOUS
<1>15. g \in Frames(t) /\ g.slot = f.slot /\ g.todo = f.todo \ {old} /\ g.winner = f.winner /\ g.loser = f.loser
  BY <1>7, <1>14 DEF Frames
<1>16. PICK stack : Topped(r, g, stack)
  BY DEF Topped
<1>17. /\ stack \in Seq(Frames(t)) /\ Len(stack) = Len(r.stack) /\ stack # <<>>
       /\ stack[Len(r.stack)] = g
       /\ \A i \in 1..Len(r.stack) : i # Len(r.stack) => stack[i] = r.stack[i]
  BY <1>3, <1>4, <1>15, <1>16, ToppedIs
<1>18. PICK r2 : r2 = [r EXCEPT !.stack = stack]
  BY ZenonT(60), SMTT(60)
<1>19. r2 \in Loops(t) /\ r2.stack = stack /\ r2.job = r.job /\ r2.plan = r.plan
  BY <1>3, <1>17, <1>18 DEF Loops
<1>20. PICK q : q = AfterFeeding(r2, p)
  OBVIOUS
<1>21. loop' = [loop EXCEPT ![l] = q]
  <2>1. [r EXCEPT !.stack[Top(r)].todo = @ \ {old}] = [r EXCEPT !.stack = [r.stack EXCEPT ![Len(r.stack)] = g]]
    BY <1>3, <1>8, <1>14 DEF Loops
  <2>2. [r EXCEPT !.stack[Top(r)].todo = @ \ {old}] = r2
    BY <1>16, <1>18, <2>1 DEF Topped
  <2> QED BY <1>2, <1>9, <1>10, <1>20, <2>2 DEF Continue
<1>22. PICK r0 \in Loops(t) : /\ r0.job = r.job /\ r0.stack = stack /\ r0.plan = r.plan
                              /\ Onward(t, r0, p, q)
  BY <1>12, <1>19, <1>20, OnwardIs DEF Held
<1>23. FramesTrue(t, r0)
  <2>1. ASSUME NEW i \in 1..Len(stack), stack[i].todo # {} PROVE Resolved(t, stack[i].slot) /\ Knows(stack[i])
    <3>1. CASE i = Len(stack)
      <4>1. stack[i].slot = f.slot /\ stack[i].winner = f.winner /\ stack[i].loser = f.loser
        BY <1>15, <1>17, <3>1
      <4>2. Resolved(t, f.slot) /\ Knows(f)
        BY <1>11 DEF Feeds
      <4> QED BY <4>1, <4>2 DEF Knows
    <3>2. CASE i # Len(stack)
      <4>1. i \in 1..Len(r.stack) /\ stack[i] = r.stack[i]
        BY <1>17, <3>2
      <4> QED BY <1>4, <2>1, <4>1 DEF FramesTrue
    <3> QED BY <3>1, <3>2
  <2> QED BY <1>22, <2>1 DEF FramesTrue
<1>24. Fewer(r, r0)
  <2>1. ASSUME NEW i \in 1..Len(stack), NEW v \in stack[i].todo
        PROVE  i \in 1..Len(r.stack) /\ v \in r.stack[i].todo /\ stack[i].slot = r.stack[i].slot
    BY <1>7, <1>8, <1>15, <1>17
  <2> QED BY <1>22, <2>1 DEF Fewer
<1>25. q \in Loops(t) /\ q.job = r.job /\ q.pc # "idle" /\ Fewer(r0, q)
  <2>1. CASE Pending(p)
    <3>1. Resumes(t, r0, q)
      BY <1>22, <2>1 DEF Onward
    <3>2. Fewer(r0, q) /\ q.pc \in Elsewhere \cup {"feed", "source"}
      BY <3>1, FewerIs, ResumesPlaces
    <3> QED BY <1>22, <3>1, <3>2, PlaceIs DEF Resumes
  <2>2. CASE ~Pending(p)
    BY <1>22, <2>2, FewerSame DEF Onward
  <2> QED BY <2>1, <2>2
<1>26. Uses(l, old, q)
  <2>1. Fewer(r, q)
    BY <1>24, <1>25 DEF Fewer
  <2>2. Len(r.stack) \in 1..Len(q.stack) => old \notin q.stack[Len(r.stack)].todo
    <3> SUFFICES ASSUME Len(r.stack) \in 1..Len(q.stack), old \in q.stack[Len(r.stack)].todo PROVE FALSE
      OBVIOUS
    <3>1. old \in r0.stack[Len(r.stack)].todo
      BY <1>25 DEF Fewer
    <3> QED BY <1>15, <1>17, <1>22, <3>1
  <2> QED BY <1>2, <1>21, <2>1, <2>2 DEF Uses
<1>27. /\ ToRead(t, q) \subseteq ToRead(t, r) /\ \A s \in Charge(q) : ~Pending(p) /\ s = old.slot
  <2>1. CASE Pending(p)
    <3>1. Resumes(t, r0, q)
      BY <1>22, <2>1 DEF Onward
    <3>2. ToRead(t, q) \subseteq SlotsOf(r.plan) /\ (r.job # ScheduleJob => ToRead(t, q) = {}) /\ Charge(q) = {}
      BY <1>22, <3>1, ResumedReads, ResumesPlaces, PlaceIs
    <3> QED BY <1>6, <3>2 DEF ToRead, ToCome
  <2>2. CASE ~Pending(p)
    <3>1. Charge(q) = {old.slot} /\ Resolving(q) /\ ~Reading(q) /\ ~Planning(q) /\ q.pc # "running"
      BY <1>13, <1>22, <2>2, FedCharge
    <3>2. q.plan = r.plan
      BY <1>22, <2>2 DEF Onward
    <3>3. ToRead(t, q) = ToRead(t, r)
      BY <1>6, <1>25, <3>1, <3>2 DEF ToRead, ToCome
    <3> QED BY <2>2, <3>1, <3>3
  <2> QED BY <2>1, <2>2
<1>28. Turn(t, l, q)
  <2>1. \A k \in Loop : old.slot \notin Charge(loop[k])
    BY <1>11, RowWaits
  <2> QED BY <1>2, <1>21, <1>25, <1>27, <2>1 DEF Turn
<1>29. MildOnMatches(l)
  BY <1>13, FeedsMildly DEF Mild
<1>30. Kept(t)
  BY <1>28, <1>29, KeptByTurn DEF Held
<1>31. r.job = ScheduleJob => r.plan \subseteq Byes(t) /\ Inserted(t)
  BY <1>3, <1>6 DEF StackGood, ScheduleGood
<1>32. LoopGood(t, q)'
  <2>1. CASE Pending(p)
    <3>1. Resumable(t, r0)'
      BY <1>3, <1>22, <1>23, <1>29, <1>30, <1>31, ResumableIs DEF Held
    <3>2. Resumes(t, r0, q)
      BY <1>22, <2>1 DEF Onward
    <3> QED BY <3>1, <3>2, ResumedGood
  <2>2. CASE ~Pending(p)
    <3>1. /\ ChargeGood(t, q)' /\ Resolving(q) /\ ~Reading(q) /\ ~Planning(q)
          /\ q.pc \in {"condition", "existing", "walkover"}
      BY <1>13, <1>22, <2>2, FedCharge
    <3>2. q.plan = r.plan /\ q.stack = r0.stack
      BY <1>22, <2>2 DEF Onward
    <3>3. FramesTrue(t, r0)'
      BY <1>23, <1>30, FramesKept
    <3>4. FramesTrue(t, q)'
      BY <3>2, <3>3, FramesSame
    <3>5. StackGood(t, q)'
      BY <1>25, <1>31, <3>1, <3>2, <3>4 DEF StackGood
    <3>6. Inserted(t) => Inserted(t)'
      BY <1>29, InsertedKept
    <3>7. ScheduleGood(t, q)'
      BY <1>25, <1>31, <3>1, <3>6 DEF ScheduleGood
    <3>8. ResultGood(q)'
      BY <3>1 DEF ResultGood
    <3> QED BY <3>1, <3>5, <3>7, <3>8 DEF LoopGood
  <2> QED BY <2>1, <2>2
<1> QED BY <1>2, <1>13, <1>25, <1>26, <1>28, <1>30, <1>32, FeedStep

-----------------------------------------------------------------------------
(* Every step *)

LEMMA NoSwissRound ==
    ASSUME NEW t, Held(t), NEW l \in Loop
    PROVE  ~NextSwissRound(l)
<1>1. loop[l].pc \in Places
  BY LoopIs DEF Loops
<1> QED BY <1>1 DEF NextSwissRound, CheckRound, ReadTable, InsertPairing, At, Places

LEMMA StatementKeeps ==
    ASSUME NEW t \in Entered, WellDrawn(t), t.format # "swiss", t.games = 1, Held(t),
           NEW l \in Loop, Statement(l)
    PROVE  Held(t)'
<1>1. CASE GenerateSchedule(l)
  BY <1>1, BeginScheduleKeeps, InsertMatchKeeps, DecideByeKeeps, StartTournamentKeeps DEF GenerateSchedule
<1>2. CASE MaterializeBattles(l)
  BY <1>2, InsertBattleKeeps, EnqueueBattleKeeps DEF MaterializeBattles
<1>3. CASE CloseSeries(l)
  BY <1>3, ReadMatchKeeps, ReadSeriesKeeps, CloseMatchKeeps DEF CloseSeries
<1>4. CASE ResolveDependents(l)
  BY <1>4, ReadSourceKeeps, ReadCandidatesKeeps, FeedDependentKeeps, CheckConditionKeeps, WalkOverKeeps,
     CheckExistingKeeps DEF ResolveDependents
<1>5. CASE ConcludeResult(l)
  BY <1>5, EnqueueStandingsKeeps, CheckMatchesKeeps, CheckBattlesKeeps, ReadChampionKeeps,
     FinishTournamentKeeps DEF ConcludeResult
<1>6. CASE CompleteJob(l)
  BY <1>6, EndJobKeeps DEF CompleteJob
<1>7. CASE FailJob(l)
  BY <1>7, EndJobKeeps DEF FailJob
<1> QED BY <1>1, <1>2, <1>3, <1>4, <1>5, <1>6, <1>7, NoSwissRound DEF Statement

LEMMA NextKeeps ==
    ASSUME NEW t \in Entered, WellDrawn(t), t.format # "swiss", t.games = 1, Held(t), Next
    PROVE  Held(t)'
<1>1. CASE \E l \in Loop : Statement(l) \/ Crash(l) \/ StatementFails(l)
  BY <1>1, StatementKeeps, CrashKeeps, StatementFailsKeeps
<1>2. CASE \E l \in Loop, j \in DOMAIN jobs : Claim(l, j)
  BY <1>2, ClaimKeeps
<1>3. CASE \E b \in DOMAIN battle : EngineEnds(b)
  BY <1>3, PlayBattleKeeps, BattleFailsKeeps DEF EngineEnds
<1> QED BY <1>1, <1>2, <1>3 DEF Next

LEMMA StutterKeeps ==
    ASSUME NEW t, Held(t), UNCHANGED vars
    PROVE  Held(t)'
<1>1. UNCHANGED <<tournament, match, battle, jobs, loop>>
  BY DEF vars
<1>2. Typed(t)'
  BY <1>1 DEF Held, Typed
<1>3. Queued' /\ Begun(t)' /\ FinishedGood'
  BY SMTT(60), ZenonT(60), <1>1
     DEF Held, Queued, Begun, FinishedGood, At, JobKeys, Fresh, AllDecided, AllPlayed, MatchDone
<1>4. MatchesGood(t)' /\ BattlesGood(t)'
  BY ZenonT(60), SMTT(60), <1>1
     DEF Held, MatchesGood, MatchGood, BattlesGood, Inserted, MatchDone, Pending, Playable, NotFormal,
     Ended, IsVersion, Side, Resolved, Taken, LoserIn
<1>5. ASSUME NEW l \in Loop PROVE LoopGood(t, loop[l])'
  <2>1. StackGood(t, loop[l])' /\ ScheduleGood(t, loop[l])'
    BY ZenonT(60), SMTT(60), <1>1
       DEF Held, LoopGood, StackGood, ScheduleGood, FramesTrue, Resolved, Knows, Ended, MatchDone,
       LoserIn, Inserted, Fresh
  <2>2. ChargeGood(t, loop[l])' /\ ResultGood(loop[l])'
    BY SMTT(60), ZenonT(60), <1>1
       DEF Held, LoopGood, ChargeGood, ResultGood, MatchDone, Pending, Playable, NotFormal, Ended,
       AllDecided, AllPlayed
  <2> QED BY SMTT(60), ZenonT(60), <2>1, <2>2 DEF LoopGood
<1>6. CopiesGood(t)' /\ CopiesAgree(t)'
  BY <1>1 DEF Held, CopiesGood, CopyGood, CopiesAgree, Agree, IsVersion, Side, Resolved, Ended, MatchDone,
     Taken, LoserIn
<1>7. ReadOnce(t)' /\ InCharge'
  BY <1>1 DEF Held, ReadOnce, InCharge
<1> QED BY <1>2, <1>3, <1>4, <1>5, <1>6, <1>7 DEF Held

LEMMA InitHolds ==
    ASSUME NEW t \in Entered, WellDrawn(t),
           tournament = [format |-> t.format, entries |-> t.entries, owner |-> t.owner,
                         games |-> t.games, state |-> "closed", champion |-> NoOne],
           match = << >>, battle = << >>, jobs = [j \in {ScheduleJob} |-> "queued"],
           loop = [l \in Loop |-> IdleLoop]
    PROVE  Held(t)
<1>1. DOMAIN match = {} /\ DOMAIN battle = {} /\ DOMAIN jobs = {ScheduleJob}
  OBVIOUS
<1>2. \A l \in Loop : loop[l] = IdleLoop
  OBVIOUS
<1>3. /\ IdleLoop \in Loops(t) /\ IdleLoop.pc = "idle" /\ IdleLoop.job = NoJob /\ IdleLoop.stack = <<>>
  BY IdleGood DEF IdleLoop
<1>4. Typed(t)
  <2>1. tournament \in Tournaments(t)
    BY DEF Tournaments, Seats
  <2>2. match \in [DOMAIN match -> Rows(t)] /\ battle \in [DOMAIN battle -> Battles]
    BY <1>1
  <2>3. IsFiniteSet(DOMAIN match)
    BY <1>1, FS_EmptySet
  <2>4. jobs \in [DOMAIN jobs -> {"queued", "running", "done", "needs_review"}]
    OBVIOUS
  <2>5. loop \in [Loop -> Loops(t)]
    BY <1>3
  <2> QED BY <1>1, <2>1, <2>2, <2>3, <2>4, <2>5 DEF Typed
<1>5. Queued
  BY <1>1, <1>2, <1>3, JobsApart DEF Queued, At, JobKeys
<1>6. Begun(t)
  BY <1>1 DEF Begun, Fresh
<1>7. MatchesGood(t) /\ BattlesGood(t) /\ FinishedGood
  BY <1>1 DEF MatchesGood, BattlesGood, FinishedGood
<1>8. /\ ~Reading(IdleLoop) /\ ~Planning(IdleLoop) /\ ~Resolving(IdleLoop)
      /\ ToRead(t, IdleLoop) = {} /\ Charge(IdleLoop) = {}
  BY <1>3, IdleGood DEF Reading, Planning, Resolving
<1>9. LoopGood(t, IdleLoop)
  <2>1. StackGood(t, IdleLoop)
    BY <1>3, <1>8, JobsApart DEF StackGood, FramesTrue
  <2>2. ChargeGood(t, IdleLoop)
    BY <1>3, <1>8 DEF ChargeGood, InHand
  <2>3. ScheduleGood(t, IdleLoop)
    BY <1>3, JobsApart DEF ScheduleGood
  <2>4. ResultGood(IdleLoop)
    BY <1>1 DEF ResultGood
  <2> QED BY <2>1, <2>2, <2>3, <2>4 DEF LoopGood
<1>10. CopiesGood(t) /\ CopiesAgree(t)
  BY <1>2, <1>3 DEF CopiesGood, CopiesAgree
<1>11. ReadOnce(t) /\ InCharge
  BY <1>2, <1>8 DEF ReadOnce, InCharge
<1> QED BY <1>2, <1>4, <1>5, <1>6, <1>7, <1>9, <1>10, <1>11 DEF Held

-----------------------------------------------------------------------------
(* What is entered has a well-formed calendar *)

LEMMA EntriesField ==
    ASSUME NEW t \in Entered
    PROVE  IsField(t.entries)
  BY TournamentAssumption DEF IsField

(* Whatever is entered in these formats has a calendar of distinct slots,  *)
(* for its entrants, whose pairings wait for matches that are drawn.       *)
LEMMA DrawnWell ==
    ASSUME NEW t \in Entered,
           t.format \in {"league", "round_robin", "single_elimination", "double_elimination"}
    PROVE  WellDrawn(t) /\ Seats(t) \subseteq {NoOne} \cup Range(t.entries)
<1>1. IsField(t.entries)
  BY EntriesField
<1> QED BY <1>1, LeaguesDrawn, SinglesDrawn, DoublesDrawn

-----------------------------------------------------------------------------
(* What the theorems are about: tournaments whose calendar is drawn at     *)
(* once and whose matches are one game.                                    *)

SingleGames ==
    \A t \in Entered :
        /\ t.games = 1
        /\ t.format \in {"league", "round_robin", "single_elimination", "double_elimination"}

LEMMA InitInvariant ==
    ASSUME SingleGames, Init
    PROVE  TInv
<1>1. PICK t \in Entered :
          tournament = [format |-> t.format, entries |-> t.entries, owner |-> t.owner,
                        games |-> t.games, state |-> "closed", champion |-> NoOne]
  BY DEF Init
<1>2. WellDrawn(t)
  BY DrawnWell DEF SingleGames
<1>3. Held(t)
  BY <1>1, <1>2, InitHolds DEF Init
<1> QED BY <1>3 DEF TInv

LEMMA NextInvariant ==
    ASSUME SingleGames, TInv, [Next]_vars
    PROVE  TInv'
<1>1. PICK t \in Entered : Held(t)
  BY DEF TInv
<1>2. WellDrawn(t) /\ t.format # "swiss" /\ t.games = 1
  BY DrawnWell DEF SingleGames
<1>3. Held(t)'
  BY <1>1, <1>2, NextKeeps, StutterKeeps
<1> QED BY <1>3 DEF TInv

(* What the handlers hold in their hands and have read stays true of the   *)
(* rows, whatever the loops do and whichever of them dies.                 *)
THEOREM Invariance ==
    ASSUME SingleGames
    PROVE  Spec => []TInv
<1>1. Init => TInv
  BY InitInvariant
<1>2. TInv /\ [Next]_vars => TInv'
  BY NextInvariant
<1> QED BY <1>1, <1>2, PTL DEF Spec

-----------------------------------------------------------------------------
(* What follows from the invariant *)

LEMMA HeldTypeOK ==
    ASSUME NEW t \in Entered, t.games = 1, WellDrawn(t), Seats(t) \subseteq {NoOne} \cup Range(t.entries), Held(t)
    PROVE  TypeOK
<1>1. /\ tournament \in Tournaments(t) /\ IsFiniteSet(DOMAIN match)
      /\ jobs \in [DOMAIN jobs -> {"queued", "running", "done", "needs_review"}]
      /\ loop \in [Loop -> Loops(t)]
  BY DEF Held, Typed
<1>2. /\ tournament.state \in {"closed", "running", "finished"} /\ tournament.games = 1
      /\ tournament.entries = t.entries /\ tournament.champion \in Seats(t)
  BY <1>1 DEF Tournaments
<1>3. tournament.champion \in Ids \cup {NoOne}
  BY <1>2 DEF Ids
<1>4. ASSUME NEW m \in DOMAIN match
      PROVE  /\ match[m].state \in {"scheduled", "finished"}
             /\ match[m].winner \in Sides(m) \cup {NoOne}
             /\ match[m].pairing.slot = m
  <2>1. match[m] \in Rows(t) /\ MatchGood(t, m)
    BY RowIs
  <2>2. match[m].state \in {"scheduled", "finished"}
    BY <2>1 DEF Rows
  <2>3. match[m].winner \in {match[m].pairing.home, match[m].pairing.away, NoOne}
    BY <2>1 DEF MatchGood
  <2> QED BY <2>1, <2>2, <2>3 DEF MatchGood, Sides
<1>5. ASSUME NEW b \in DOMAIN battle
      PROVE  b[1] \in DOMAIN match /\ b[2] \in 1..tournament.games
  <2>1. b = Only(b[1]) /\ b[1] \in DOMAIN match
    BY BattleIs
  <2>2. b[2] = 1
    BY <2>1 DEF Only
  <2> QED BY <1>2, <2>1, <2>2
<1>6. DOMAIN jobs \subseteq JobKeys
  BY DEF Held, Queued
<1>7. ASSUME NEW l \in Loop
      PROVE  loop[l].pc \in PC /\ loop[l].job \in DOMAIN jobs \cup {NoJob}
  <2>1. loop[l] \in Loops(t)
    BY LoopIs
  <2>2. loop[l].pc \in PC
    BY <2>1 DEF Loops, Places
  <2>3. loop[l].job \in DOMAIN jobs \cup {NoJob}
    BY DEF Held, Queued, At
  <2> QED BY <2>2, <2>3
<1> QED BY <1>1, <1>2, <1>3, <1>4, <1>5, <1>6, <1>7 DEF TypeOK

LEMMA InvariantImplies ==
    ASSUME SingleGames, TInv
    PROVE  TypeOK /\ FinishedIsComplete
<1>1. PICK t \in Entered : Held(t)
  BY DEF TInv
<1>2. WellDrawn(t) /\ Seats(t) \subseteq {NoOne} \cup Range(t.entries) /\ t.games = 1
  BY DrawnWell DEF SingleGames
<1>3. TypeOK
  BY <1>1, <1>2, HeldTypeOK
<1>4. FinishedIsComplete
  BY <1>1 DEF Held, FinishedGood, FinishedIsComplete, Finished, AllDecided, AllPlayed
<1> QED BY <1>3, <1>4

(* The rows, the queue and the loops keep their shape: a winner is a side  *)
(* of its match, the champion an entrant, a battle belongs to a match, and *)
(* a loop works on a job of the queue.                                     *)
THEOREM TypeCorrect ==
    ASSUME SingleGames
    PROVE  Spec => []TypeOK
<1>1. TInv => TypeOK
  BY InvariantImplies
<1> QED BY <1>1, Invariance, PTL

(* A tournament is marked finished only when every match is decided and    *)
(* every battle played, although both were read some statements before     *)
(* (maybeFinishTournament).                                                *)
THEOREM Complete ==
    ASSUME SingleGames
    PROVE  Spec => []FinishedIsComplete
<1>1. TInv => FinishedIsComplete
  BY InvariantImplies
<1> QED BY <1>1, Invariance, PTL

-----------------------------------------------------------------------------
(* The calendar that is kept: the same draw *)

LEMMA RoundRobinSame ==
    ASSUME NEW ids, NEW startRound, NEW swapSides
    PROVE  C!RoundRobin(ids, startRound, swapSides) = RoundRobin(ids, startRound, swapSides)
  BY SMTT(60), ZenonT(60)
     DEF C!RoundRobin, RoundRobin, C!Seat, Seat, C!Known, Known, C!Resting, Resting, C!NoSource, NoSource

LEMMA LeagueSame ==
    ASSUME NEW ids
    PROVE  C!League(ids, 2) = League(ids, 2)
  BY SMTT(60), ZenonT(60)
     DEF C!League, League, C!RoundRobin, RoundRobin, C!Seat, Seat, C!Known, Known, C!Resting, Resting,
         C!NoSource, NoSource

LEMMA FirstRoundSame ==
    ASSUME NEW ids, NEW owner, NEW k
    PROVE  C!FirstRound(ids, owner, k) = FirstRound(ids, owner, k)
  BY ZenonT(60) DEF C!FirstRound, FirstRound, C!SeedPositions, SeedPositions, C!AvoidAt, AvoidAt,
         C!SameOwner, SameOwner, C!FoldLeftDomain, FoldLeftDomain, C!FoldLeft, FoldLeft,
         C!MapThenFoldSet, MapThenFoldSet, C!Max, Max, C!Min, Min

LEMMA SingleSame ==
    ASSUME NEW ids, NEW owner
    PROVE  C!SingleElimination(ids, owner) = SingleElimination(ids, owner)
<1>1. PICK k : k = Log2Up(Len(ids))
  OBVIOUS
<1>2. C!Log2Up(Len(ids)) = k
  BY <1>1 DEF C!Log2Up, Log2Up
<1>3. PICK tables : tables = FirstRound(ids, owner, k)
  OBVIOUS
<1>4. C!FirstRound(ids, owner, k) = tables
  BY <1>3, FirstRoundSame
<1> QED BY <1>1, <1>2, <1>3, <1>4
        DEF C!SingleElimination, SingleElimination, C!FedByWinners, FedByWinners, C!Awaiting, Awaiting,
            C!WinnerOf, WinnerOf, C!Known, Known, C!Resting, Resting, C!NoSource, NoSource

LEMMA LosersSame ==
    ASSUME NEW k
    PROVE  C!LosersBracket(k) = LosersBracket(k)
  BY DEF C!LosersBracket, LosersBracket, C!FedByWinners, FedByWinners, C!Awaiting, Awaiting,
         C!WinnerOf, WinnerOf, C!LoserOf, LoserOf, C!Known, Known, C!NoSource, NoSource

LEMMA DoubleSame ==
    ASSUME NEW ids, NEW owner
    PROVE  C!DoubleElimination(ids, owner) = DoubleElimination(ids, owner)
<1>1. PICK k : k = Log2Up(Len(ids))
  OBVIOUS
<1>2. C!Log2Up(Len(ids)) = k
  BY <1>1 DEF C!Log2Up, Log2Up
<1>3. PICK A, B : A = SingleElimination(ids, owner) /\ B = LosersBracket(k)
  OBVIOUS
<1>4. C!SingleElimination(ids, owner) = A /\ C!LosersBracket(k) = B
  BY <1>3, SingleSame, LosersSame
<1> QED BY <1>1, <1>2, <1>3, <1>4
        DEF C!DoubleElimination, DoubleElimination, C!Awaiting, Awaiting, C!WinnerOf, WinnerOf,
            C!LoserOf, LoserOf, C!Known, Known, C!NoSource, NoSource

LEMMA DrawSame ==
    ASSUME NEW t, t.format \in {"league", "round_robin", "single_elimination", "double_elimination"},
           NEW e, e = Drawing(t)
    PROVE  C!Draw(e) = ScheduleOf(t)
<1>1. e.format = t.format /\ e.ids = t.entries /\ e.owner = t.owner /\ e.format # "swiss"
  BY DEF Drawing
<1>2. C!Draw(e) = C!InitialSchedule(t.format, t.entries, t.owner)
  BY <1>1 DEF C!Draw
<1>3. CASE t.format = "league"
  BY <1>2, <1>3, LeagueSame DEF C!InitialSchedule, InitialSchedule, ScheduleOf
<1>4. CASE t.format = "round_robin"
  <2>1. ScheduleOf(t) = RoundRobin(t.entries, 1, FALSE)
    BY <1>4 DEF InitialSchedule, ScheduleOf
  <2>2. C!InitialSchedule(t.format, t.entries, t.owner) = C!RoundRobin(t.entries, 1, FALSE)
    BY <1>4 DEF C!InitialSchedule
  <2> QED BY <1>2, <2>1, <2>2, RoundRobinSame
<1>5. CASE t.format = "single_elimination"
  BY <1>2, <1>5, SingleSame DEF C!InitialSchedule, InitialSchedule, ScheduleOf
<1>6. CASE t.format = "double_elimination"
  BY <1>2, <1>6, DoubleSame DEF C!InitialSchedule, InitialSchedule, ScheduleOf
<1> QED BY <1>3, <1>4, <1>5, <1>6

(* What is drawn is what the calendar takes for granted. *)
LEMMA DrawnIsAllowed == C!CalendarAssumption
<1> SUFFICES ASSUME NEW t \in Entered, NEW e, e = Drawing(t)
             PROVE  /\ e.ids \in Seq(C!Range(e.ids)) /\ Len(e.ids) >= 2
                    /\ C!IsInjective(e.ids) /\ NoOne \notin C!Range(e.ids)
  BY DEF C!CalendarAssumption
<1>1. PICK ids : ids = t.entries
  OBVIOUS
<1>2. e.ids = ids
  BY <1>1 DEF Drawing
<1>3. ids \in Seq(Range(ids)) /\ Len(ids) >= 2 /\ IsInjective(ids) /\ NoOne \notin Range(ids)
  BY <1>1, TournamentAssumption
<1>4. ids \in Seq(C!Range(ids)) /\ C!IsInjective(ids) /\ NoOne \notin C!Range(ids)
  BY <1>3 DEF C!IsInjective, IsInjective, C!Range, Range
<1> QED BY <1>2, <1>3, <1>4

-----------------------------------------------------------------------------
(* The calendar that is kept: what a step does to its results *)

Results ==
    [m \in {p.slot : p \in Schedule} \cap {k \in DOMAIN match : MatchDone(k)} |->
        [home |-> match[m].pairing.home, away |-> match[m].pairing.away, winner |-> match[m].winner]]

Score(row) == [home |-> row.pairing.home, away |-> row.pairing.away, winner |-> row.winner]

LEMMA ResultsAre ==
    ASSUME NEW t \in Entered, Typed(t)
    PROVE  /\ DOMAIN Results = {s \in DOMAIN match : MatchDone(s)}
           /\ \A m \in DOMAIN Results : Results[m] = Score(match[m])
           /\ Results = [m \in DOMAIN Results |-> Results[m]]
<1>1. {p.slot : p \in Schedule} = Slots(t)
  BY ScheduleIs DEF Slots, SlotsOf
<1>2. DOMAIN match \subseteq Slots(t)
  BY DEF Typed
<1> QED BY <1>1, <1>2 DEF Results, Score

LEMMA FixedIs ==
    ASSUME NEW t \in Entered, Typed(t), Typed(t)'
    PROVE  /\ Drawing(tournament)' = Drawing(tournament) /\ Schedule' = Schedule /\ Schedule = ScheduleOf(t)
           /\ Drawing(tournament) = Drawing(t)
<1>1. /\ tournament.format = t.format /\ tournament.entries = t.entries /\ tournament.owner = t.owner
      /\ tournament.games = t.games
  BY DEF Typed, Tournaments
<1>2. /\ tournament'.format = t.format /\ tournament'.entries = t.entries /\ tournament'.owner = t.owner
      /\ tournament'.games = t.games
  BY DEF Typed, Tournaments
<1> QED BY <1>1, <1>2, ScheduleIs DEF Drawing, Schedule

(* The primed form of ResultsAre. *)
LEMMA ResultsBecome ==
    ASSUME NEW t \in Entered, Typed(t), Typed(t)'
    PROVE  Results' = [m \in {s \in DOMAIN match' : match'[s].state = "finished"} |-> Score(match'[m])]
<1>1. {p.slot : p \in Schedule'} = Slots(t)
  BY FixedIs DEF Slots, SlotsOf
<1>2. DOMAIN match' \subseteq Slots(t)
  BY DEF Typed
<1> QED BY <1>1, <1>2 DEF Results, Score, MatchDone

(* Nothing is decided. *)
Undecided ==
    /\ \A s \in DOMAIN match : MatchDone(s) => s \in DOMAIN match' /\ match'[s] = match[s]
    /\ \A s \in DOMAIN match' : match'[s].state = "finished" => s \in DOMAIN match /\ MatchDone(s)

LEMMA ResultsStay ==
    ASSUME NEW t \in Entered, Typed(t), Typed(t)', Undecided
    PROVE  Results' = Results
<1>1. {s \in DOMAIN match' : match'[s].state = "finished"} = {s \in DOMAIN match : MatchDone(s)}
  BY DEF Undecided, MatchDone
<1>2. \A s \in DOMAIN match : MatchDone(s) => match'[s] = match[s]
  BY DEF Undecided
<1>3. Results = [m \in {s \in DOMAIN match : MatchDone(s)} |-> Score(match[m])]
  BY ResultsAre
<1> QED BY <1>1, <1>2, <1>3, ResultsBecome

(* The match of pairing p is decided, between home and away. *)
Deciding(p, home, away, w) ==
    Results' = [m \in DOMAIN Results \cup {p.slot} |->
                   IF m = p.slot THEN [home |-> home, away |-> away, winner |-> w] ELSE Results[m]]

LEMMA ResultsGrow ==
    ASSUME NEW t \in Entered, Typed(t), Typed(t)', NEW s, ~MatchDone(s), NEW w, DecidedRow(s, w),
           NEW v, v = match[s].pairing, NEW p, p.slot = s
    PROVE  Deciding(p, v.home, v.away, w)
<1>1. /\ DOMAIN match' = DOMAIN match /\ s \in DOMAIN match'
      /\ \A u \in DOMAIN match \ {s} : match'[u] = match[u]
      /\ match'[s].state = "finished" /\ match'[s].winner = w /\ match'[s].pairing = match[s].pairing
  BY DEF DecidedRow
<1>2. {u \in DOMAIN match' : match'[u].state = "finished"} = {u \in DOMAIN match : MatchDone(u)} \cup {s}
  BY <1>1 DEF MatchDone
<1>3. Results = [m \in {u \in DOMAIN match : MatchDone(u)} |-> Score(match[m])]
  BY ResultsAre
<1>4. PICK row : row = [home |-> match[s].pairing.home, away |-> match[s].pairing.away, winner |-> w]
  OBVIOUS
<1>5. Score(match'[s]) = row
  BY <1>1, <1>4 DEF Score
<1> QED BY ZenonT(60), SMTT(60), <1>1, <1>2, <1>3, <1>4, <1>5, ResultsBecome DEF Deciding

-----------------------------------------------------------------------------
(* The calendar that is kept: a match is decided in its turn *)

(* What the handlers may say of a match. *)
MaySay(s, w) ==
    LET v == match[s].pairing IN
    \/ (v.home = NoOne \/ v.away = NoOne) /\ w = IF v.home = NoOne THEN v.away ELSE v.home
    \/ /\ v.home # NoOne /\ v.away # NoOne /\ v.conditionalOn # <<>> /\ Ended(v.conditionalOn)
       /\ match[v.conditionalOn].winner = v.home /\ w = v.home
    \/ Playable(v) /\ Only(s) \in DOMAIN battle
          /\ w \in {v.home, v.away} \cup (IF IsMain(v) THEN {NoOne} ELSE {})

(* Origin p of a side, and who C!Seated says sits on it. *)
LEMMA SourceIsTaken ==
    ASSUME NEW t \in Entered, WellDrawn(t), Held(t), NEW x, NEW source, NEW x0, NEW source0,
           Side(t, x, source, x0, source0), source = NoSource,
           source0 # NoSource => source0.take \in {"winner", "loser"}
    PROVE  /\ source0 # NoSource => source0.slot \in DOMAIN Results
           /\ C!Seated(x0, source0) = x
<1>1. C!NoSource = NoSource
  BY DEF C!NoSource, NoSource
<1>2. NoSource.take = "none"
  BY DEF NoSource
<1>3. Typed(t)
  BY DEF Held
<1>4. CASE source0 = NoSource
  <2>1. x = x0
    BY <1>4 DEF Side
  <2>2. source0.take # "winner" /\ source0.take # "loser"
    BY <1>4, <1>2
  <2>3. C!Seated(x0, source0) = x0
    BY <1>1, <1>4, <2>2 DEF C!Seated
  <2> QED BY <1>4, <2>1, <2>3
<1>5. CASE source0 # NoSource
  <2>1. Ended(source0.slot) /\ x = Taken(source0)
    BY <1>5 DEF Side, Resolved
  <2>2. source0.slot \in DOMAIN Results /\ Results[source0.slot] = Score(match[source0.slot])
    BY <1>3, <2>1, ResultsAre DEF Ended
  <2>3. PICK row : row = match[source0.slot]
    OBVIOUS
  <2>4. CASE source0.take = "winner"
    <3>1. C!Seated(x0, source0) = Results[source0.slot].winner
      BY <1>1, <1>5, <2>4 DEF C!Seated, Results
    <3>2. x = row.winner
      BY <2>1, <2>3, <2>4 DEF Taken
    <3> QED BY <2>2, <2>3, <3>1, <3>2 DEF Score
  <2>5. CASE source0.take = "loser"
    <3>1. C!Seated(x0, source0) = C!Loser(Results[source0.slot])
      BY <1>1, <1>5, <2>5 DEF C!Seated, Results
    <3>2. x = LoserIn(row)
      BY <2>1, <2>3, <2>5 DEF Taken
    <3>3. C!Loser(Score(row)) = LoserIn(row)
      BY DEF C!Loser, Score, LoserIn
    <3> QED BY <2>2, <2>3, <3>1, <3>2, <3>3
  <2> QED BY <1>5, <2>2, <2>4, <2>5
<1> QED BY <1>4, <1>5

(* The verdicts of the calendar allow what the handlers say. *)
LEMMA SayIsVerdict ==
    ASSUME NEW t \in Entered, WellDrawn(t), Held(t), NEW s \in DOMAIN match,
           NEW w, MaySay(s, w), NEW v, v = match[s].pairing, NEW p, p = Origin(t, s)
    PROVE  w \in C!Verdicts(p, v.home, v.away)
<1>1. v.slot = s /\ p.slot = s /\ v.conditionalOn = p.conditionalOn
  <2>1. IsVersion(t, v) /\ v.slot = s
    BY RowIs DEF MatchGood
  <2> QED BY <2>1, OriginOf DEF IsVersion
<1>2. Typed(t)
  BY DEF Held
<1>3. \A c : Ended(c) => c \in DOMAIN Results /\ Results[c].winner = match[c].winner
  <2> SUFFICES ASSUME NEW c, Ended(c) PROVE c \in DOMAIN Results /\ Results[c].winner = match[c].winner
    OBVIOUS
  <2>1. c \in DOMAIN Results
    BY <1>2, ResultsAre DEF Ended
  <2>2. Results[c] = Score(match[c])
    BY <1>2, <2>1, ResultsAre
  <2> QED BY <2>1, <2>2 DEF Score
<1>4. C!Formality(p, v.home) <=> p.conditionalOn # <<>> /\ Results[p.conditionalOn].winner = v.home
  BY DEF C!Formality, Results
<1>5. C!IsMain(p) <=> IsMain(v)
  BY <1>1 DEF C!IsMain, IsMain
<1>6. CASE v.home = NoOne \/ v.away = NoOne
  <2>1. w = IF v.home = NoOne THEN v.away ELSE v.home
    BY <1>6 DEF MaySay, Playable
  <2>2. C!Verdicts(p, v.home, v.away) = {IF v.home = NoOne THEN v.away ELSE v.home}
    BY <1>6 DEF C!Verdicts
  <2> QED BY <2>1, <2>2
<1>7. CASE v.home # NoOne /\ v.away # NoOne /\ C!Formality(p, v.home)
  <2>1. ~Playable(v)
    BY <1>1, <1>3, <1>4, <1>7 DEF Playable, NotFormal
  <2>2. w = v.home
    BY <1>7, <2>1 DEF MaySay
  <2>3. C!Verdicts(p, v.home, v.away) = {v.home}
    BY <1>7 DEF C!Verdicts
  <2> QED BY <2>2, <2>3
<1>8. CASE v.home # NoOne /\ v.away # NoOne /\ ~C!Formality(p, v.home)
  <2>1. w \in {v.home, v.away} \cup (IF IsMain(v) THEN {NoOne} ELSE {})
    BY <1>1, <1>3, <1>4, <1>8 DEF MaySay
  <2>2. C!Verdicts(p, v.home, v.away) = {v.home, v.away} \cup (IF C!IsMain(p) THEN {NoOne} ELSE {})
    BY <1>8 DEF C!Verdicts
  <2> QED BY <1>5, <2>1, <2>2
<1> QED BY <1>6, <1>7, <1>8

LEMMA DecideIs ==
    ASSUME NEW p, C!Ready(p), NEW home, home = C!Seated(p.home, p.homeSource),
           NEW away, away = C!Seated(p.away, p.awaySource),
           NEW w \in C!Verdicts(p, home, away), Deciding(p, home, away, w),
           UNCHANGED <<Drawing(tournament), Schedule>>
    PROVE  C!Decide(p)
<1>1. C!Decide(p) <=>
        /\ C!Ready(p)
        /\ \E x \in C!Verdicts(p, C!Seated(p.home, p.homeSource), C!Seated(p.away, p.awaySource)) :
              Deciding(p, C!Seated(p.home, p.homeSource), C!Seated(p.away, p.awaySource), x)
        /\ UNCHANGED <<Drawing(tournament), Schedule>>
  BY Zenon DEF C!Decide, Deciding, Results
<1> QED BY <1>1

(* A match that a handler decides is decided in its turn. *)
LEMMA DecidedInTurn ==
    ASSUME NEW t \in Entered, WellDrawn(t), Held(t), Held(t)', NEW s \in DOMAIN match, ~MatchDone(s),
           ~Pending(match[s].pairing), NEW w, MaySay(s, w), DecidedRow(s, w)
    PROVE  C!CalendarNext
<1>1. PICK v, p : v = match[s].pairing /\ p = Origin(t, s)
  OBVIOUS
<1>2. IsVersion(t, v) /\ v.slot = s
  BY <1>1, RowIs DEF MatchGood
<1>3. p \in ScheduleOf(t) /\ p.slot = s
  BY <1>1, <1>2, OriginOf DEF IsVersion
<1>4. v.homeSource = NoSource /\ v.awaySource = NoSource
  BY <1>1, <1>2, NotPendingIsFed
<1>5. /\ Side(t, v.home, v.homeSource, p.home, p.homeSource)
      /\ Side(t, v.away, v.awaySource, p.away, p.awaySource)
  BY <1>1, <1>2 DEF IsVersion
<1>6. /\ p.homeSource # NoSource => p.homeSource.take \in {"winner", "loser"}
      /\ p.awaySource # NoSource => p.awaySource.take \in {"winner", "loser"}
  BY <1>3, DrawnIs DEF IsKnown, IsWaiting
<1>7. /\ p.homeSource # NoSource => p.homeSource.slot \in DOMAIN Results
      /\ p.awaySource # NoSource => p.awaySource.slot \in DOMAIN Results
      /\ C!Seated(p.home, p.homeSource) = v.home /\ C!Seated(p.away, p.awaySource) = v.away
  BY <1>4, <1>5, <1>6, SourceIsTaken
<1>8. Typed(t) /\ Typed(t)'
  BY DEF Held
<1>9. s \notin DOMAIN Results
  BY <1>8, ResultsAre
<1>10. C!Ready(p)
  <2>1. C!NoSource = NoSource
    BY DEF C!NoSource, NoSource
  <2> QED BY <1>3, <1>7, <1>9, <2>1 DEF C!Ready, Results
<1>11. w \in C!Verdicts(p, v.home, v.away)
  BY <1>1, SayIsVerdict
<1>12. Deciding(p, v.home, v.away, w)
  BY <1>1, <1>3, <1>8, ResultsGrow
<1>13. UNCHANGED <<Drawing(tournament), Schedule>> /\ Schedule = ScheduleOf(t)
  BY <1>8, FixedIs
<1>14. C!Decide(p)
  BY <1>7, <1>10, <1>11, <1>12, <1>13, DecideIs
<1> QED BY <1>3, <1>13, <1>14 DEF C!CalendarNext

-----------------------------------------------------------------------------
(* The calendar that is kept: every step plays it or leaves it alone *)

DecidesInTurn ==
    \E s \in DOMAIN match : \E w :
        ~MatchDone(s) /\ ~Pending(match[s].pairing) /\ MaySay(s, w) /\ DecidedRow(s, w)

LEMMA DecideByeInTurn ==
    ASSUME NEW t, WellDrawn(t), Held(t), NEW l \in Loop, DecideBye(l)
    PROVE  DecidesInTurn
<1>1. loop[l].pc = "bye" /\ UNCHANGED <<tournament, battle, jobs>>
  BY DEF DecideBye, At
<1>2. PICK r, s, w : r = loop[l] /\ s = r.p.slot /\ w = r.p.home
  OBVIOUS
<1>3. r \in Loops(t) /\ ChargeGood(t, r) /\ s \in Charge(r) /\ InHand(r) # {}
  BY <1>1, <1>2, LoopIs DEF Charge, InHand
<1>4. s \in DOMAIN match /\ ~MatchDone(s) /\ ~Pending(match[s].pairing) /\ r.p = match[s].pairing /\ r.p.bye
  BY <1>1, <1>2, <1>3 DEF ChargeGood
<1>5. r.p.away = NoOne
  <2>1. IsVersion(t, match[s].pairing)
    BY SMTT(60), ZenonT(60), <1>4, RowIs DEF MatchGood
  <2> QED BY <1>4, <2>1, ByeIs
<1>6. MaySay(s, w)
  BY ZenonT(60), SMTT(60), <1>2, <1>4, <1>5 DEF MaySay
<1>7. w \in Seats(t)
  BY SMTT(60), ZenonT(60), <1>2, <1>3 DEF Loops, Pairings
<1>8. Decides(l, s, w)
  BY <1>1, <1>2, <1>3, <1>4 DEF Decides, Mine, DecideBye
<1> QED BY <1>4, <1>6, <1>7, <1>8, DecidesIs DEF DecidesInTurn

LEMMA CloseMatchInTurn ==
    ASSUME NEW t, WellDrawn(t), Held(t), NEW l \in Loop, CloseMatch(l)
    PROVE  DecidesInTurn
<1>1. loop[l].pc = "close" /\ UNCHANGED <<tournament, battle, jobs>>
  BY DEF CloseMatch, At
<1>2. PICK r, w : r = loop[l] /\ w = r.winner
  OBVIOUS
<1>3. r \in Loops(t) /\ ResultGood(r) /\ r.job # ScheduleJob
  BY <1>1, <1>2, LoopIs, NotScheduling
<1>4. PICK b \in DOMAIN battle : r.job = ResultJob(b)
  BY <1>1, <1>2, <1>3, JobIs
<1>5. PICK s \in DOMAIN match : s = b[1] /\ b = Only(s)
  BY BattleIs
<1>6. r.p = match[s].pairing /\ ~MatchDone(s) /\ w \in {r.p.home, r.p.away} \cup (IF IsMain(r.p) THEN {NoOne} ELSE {})
  BY <1>1, <1>2, <1>3, <1>4, <1>5 DEF ResultGood
<1>7. ~Pending(match[s].pairing) /\ Playable(match[s].pairing)
  BY <1>5 DEF Held, BattlesGood
<1>8. r.p.slot = s
  BY <1>6, RowIs DEF MatchGood
<1>9. MaySay(s, w)
  BY <1>4, <1>5, <1>6, <1>7 DEF MaySay
<1>10. w \in Seats(t)
  BY <1>2, <1>3 DEF Loops
<1>11. Decides(l, s, w)
  BY <1>1, <1>2, <1>4, <1>5, <1>6, <1>8 DEF Decides, Mine, CloseMatch
<1> QED BY <1>6, <1>7, <1>9, <1>10, <1>11, DecidesIs DEF DecidesInTurn

LEMMA WalkOverInTurn ==
    ASSUME NEW t, WellDrawn(t), Held(t), NEW l \in Loop, WalkOver(l)
    PROVE  DecidesInTurn
<1>1. loop[l].pc = "walkover" /\ UNCHANGED <<tournament, battle, jobs>>
  BY DEF WalkOver, At
<1>2. PICK r, s, w : r = loop[l] /\ s = r.p.slot /\ w = r.winner
  OBVIOUS
<1>3. r \in Loops(t) /\ ChargeGood(t, r) /\ s \in Charge(r) /\ InHand(r) # {}
  BY <1>1, <1>2, LoopIs DEF Charge, InHand
<1>4. s \in DOMAIN match /\ ~MatchDone(s) /\ ~Pending(match[s].pairing) /\ r.p = match[s].pairing
  BY SMTT(60), ZenonT(60), <1>1, <1>2, <1>3 DEF ChargeGood
<1>5. MaySay(s, w)
  BY ZenonT(60), SMTT(60), <1>1, <1>2, <1>3, <1>4 DEF MaySay, ChargeGood
<1>6. w \in Seats(t)
  BY SMTT(60), ZenonT(60), <1>2, <1>3 DEF Loops
<1>7. Decides(l, s, w)
  BY ZenonT(60), SMTT(60), <1>1, <1>2, <1>3, <1>4 DEF Decides, Mine, WalkOver
<1> QED BY <1>4, <1>5, <1>6, <1>7, DecidesIs DEF DecidesInTurn

LEMMA InsertMatchUndecided ==
    ASSUME NEW t \in Entered, WellDrawn(t), Held(t), NEW l \in Loop, InsertMatch(l)
    PROVE  Undecided
<1>1. PICK p : p = NextOf(loop[l].plan)
  OBVIOUS
<1>2. CASE p.slot \in DOMAIN match
  BY <1>1, <1>2 DEF InsertMatch, Undecided, MatchDone
<1>3. CASE p.slot \notin DOMAIN match
  <2>1. match' = Extend(match, p.slot, NewMatch(p))
    BY <1>1, <1>3 DEF InsertMatch
  <2>2. /\ DOMAIN match' = DOMAIN match \cup {p.slot} /\ match'[p.slot] = NewMatch(p)
        /\ \A s \in DOMAIN match : match'[s] = match[s]
    BY SMTT(60), ZenonT(60), <1>3, <2>1 DEF Extend
  <2> QED BY <2>2 DEF Undecided, MatchDone, NewMatch
<1> QED BY <1>2, <1>3

LEMMA FeedDependentIs ==
    ASSUME NEW t, WellDrawn(t), Held(t), NEW l \in Loop, FeedDependent(l)
    PROVE  \E f, old, p : Feeding(t, l, f, old, p)
<1>1. loop[l].pc = "feed" /\ UNCHANGED <<tournament, battle, jobs>>
  BY DEF FeedDependent, At
<1>2. PICK r : r = loop[l]
  OBVIOUS
<1>3. r \in Loops(t) /\ StackGood(t, r) /\ r.stack # <<>>
  BY <1>1, <1>2, LoopIs DEF StackGood
<1>4. PICK f : f = Read(r)
  OBVIOUS
<1>5. Len(r.stack) \in Nat /\ Len(r.stack) > 0 /\ f \in Frames(t) /\ f = r.stack[Len(r.stack)]
  BY SMTT(60), ZenonT(60), <1>3, <1>4, TopIs DEF Read
<1>6. PICK old \in f.todo : match' = [match EXCEPT ![Fed(old, f).slot].pairing = Fed(old, f)]
  BY ZenonT(60), SMTT(60), <1>2, <1>5 DEF FeedDependent, Top
<1>7. PICK p : p = Fed(old, f)
  OBVIOUS
<1>8. Feeds(t, f, old)
  <2>1. Len(loop[l].stack) \in 1..Len(loop[l].stack) /\ old \in loop[l].stack[Len(loop[l].stack)].todo
    BY <1>2, <1>5, <1>6
  <2>2. CopyGood(t, f.slot, old)
    BY <1>2, <1>5, <2>1 DEF Held, CopiesGood
  <2>3. FramesTrue(t, r)
    BY <1>3 DEF StackGood
  <2>4. Resolved(t, f.slot) /\ Knows(f)
    BY <1>2, <1>5, <2>1, <2>3 DEF FramesTrue
  <2>5. old \in Pairings(t)
    BY <1>5 DEF Frames
  <2> QED BY SMTT(60), ZenonT(60), <1>5, <2>2, <2>4, <2>5 DEF Feeds
<1>9. p \in Pairings(t) /\ IsFed(f, old, p) /\ p.slot = old.slot
  BY <1>7, <1>8, FedIs DEF Feeds, IsFed
<1>10. Feeding(t, l, f, old, p)
  BY <1>1, <1>2, <1>4, <1>5, <1>6, <1>7, <1>8, <1>9 DEF Feeding
<1> QED BY SMTT(60), ZenonT(60), <1>10

LEMMA FeedDependentUndecided ==
    ASSUME NEW t, WellDrawn(t), Held(t), NEW l \in Loop, FeedDependent(l)
    PROVE  Undecided
<1>1. PICK f, old, p : Feeding(t, l, f, old, p)
  BY FeedDependentIs
<1>2. FedRow(old.slot, p) /\ Feeds(t, f, old)
  BY <1>1, FedRowIs DEF Feeding
<1>3. ~MatchDone(old.slot)
  BY <1>2, RowWaits
<1> QED BY <1>2, <1>3 DEF FedRow, Undecided, MatchDone

LEMMA RowsStand ==
    ASSUME UNCHANGED match
    PROVE  Undecided
  BY DEF Undecided, MatchDone

LEMMA StatementPlays ==
    ASSUME NEW t \in Entered, WellDrawn(t), Held(t), NEW l \in Loop, Statement(l)
    PROVE  DecidesInTurn \/ Undecided
<1>1. CASE GenerateSchedule(l)
  <2>1. CASE BeginSchedule(l) \/ StartTournament(l)
    BY <2>1, RowsStand DEF BeginSchedule, StartTournament
  <2>2. CASE InsertMatch(l)
    BY <2>2, InsertMatchUndecided
  <2>3. CASE DecideBye(l)
    BY <2>3, DecideByeInTurn
  <2> QED BY <1>1, <2>1, <2>2, <2>3 DEF GenerateSchedule
<1>2. CASE MaterializeBattles(l)
  BY <1>2, RowsStand DEF MaterializeBattles, InsertBattle, EnqueueBattle
<1>3. CASE CloseSeries(l)
  <2>1. CASE ReadMatch(l) \/ ReadSeries(l)
    BY <2>1, RowsStand DEF ReadMatch, ReadSeries
  <2>2. CASE CloseMatch(l)
    BY <2>2, CloseMatchInTurn
  <2> QED BY <1>3, <2>1, <2>2 DEF CloseSeries
<1>4. CASE ResolveDependents(l)
  <2>1. CASE ReadSource(l) \/ ReadCandidates(l) \/ CheckCondition(l) \/ CheckExisting(l)
    BY <2>1, RowsStand DEF ReadSource, ReadCandidates, CheckCondition, CheckExisting
  <2>2. CASE FeedDependent(l)
    BY <2>2, FeedDependentUndecided
  <2>3. CASE WalkOver(l)
    BY <2>3, WalkOverInTurn
  <2> QED BY SMTT(60), ZenonT(60), <1>4, <2>1, <2>2, <2>3 DEF ResolveDependents
<1>5. CASE ConcludeResult(l)
  BY <1>5, RowsStand DEF ConcludeResult, EnqueueStandings, CheckMatches, CheckBattles, ReadChampion, FinishTournament
<1>6. CASE CompleteJob(l) \/ FailJob(l)
  BY <1>6, RowsStand DEF CompleteJob, FailJob, EndJob
<1> QED BY <1>1, <1>2, <1>3, <1>4, <1>5, <1>6, NoSwissRound DEF Statement

LEMMA NextPlays ==
    ASSUME NEW t \in Entered, WellDrawn(t), Held(t), [Next]_vars
    PROVE  DecidesInTurn \/ Undecided
<1>1. CASE \E l \in Loop : Statement(l) \/ Crash(l) \/ StatementFails(l)
  BY <1>1, StatementPlays, RowsStand DEF Crash, StatementFails
<1>2. CASE \E l \in Loop, j \in DOMAIN jobs : Claim(l, j)
  BY <1>2, RowsStand DEF Claim
<1>3. CASE \E b \in DOMAIN battle : EngineEnds(b)
  BY <1>3, RowsStand DEF EngineEnds, PlayBattle, BattleFails
<1>4. CASE UNCHANGED vars
  BY <1>4, RowsStand DEF vars
<1> QED BY <1>1, <1>2, <1>3, <1>4 DEF Next

(* A step of the tournament decides a match of the calendar in its turn,   *)
(* or none.                                                                *)
LEMMA StepKeepsCalendar ==
    ASSUME SingleGames, TInv, [Next]_vars
    PROVE  [C!CalendarNext]_<<Drawing(tournament), Schedule, Results>>
<1>1. PICK t \in Entered : Held(t)
  BY DEF TInv
<1>2. WellDrawn(t) /\ t.format # "swiss" /\ t.games = 1
  BY DrawnWell DEF SingleGames
<1>3. Held(t)'
  BY <1>1, <1>2, NextKeeps, StutterKeeps
<1>4. CASE DecidesInTurn
  <2>1. C!CalendarNext
    BY <1>1, <1>2, <1>3, <1>4, DecidedInTurn DEF DecidesInTurn
  <2> QED BY <2>1
<1>5. CASE Undecided
  <2>1. Typed(t) /\ Typed(t)'
    BY <1>1, <1>3 DEF Held
  <2>2. UNCHANGED <<Drawing(tournament), Schedule, Results>>
    BY <1>1, <1>5, <2>1, ResultsStay, FixedIs
  <2> QED BY <2>2
<1> QED BY <1>1, <1>2, <1>4, <1>5, NextPlays

LEMMA StartsCalendar ==
    ASSUME SingleGames, Init
    PROVE  C!CalendarInit
<1>1. PICK t \in Entered :
          tournament = [format |-> t.format, entries |-> t.entries, owner |-> t.owner,
                        games |-> t.games, state |-> "closed", champion |-> NoOne]
  BY DEF Init
<1>2. t.format \in {"league", "round_robin", "single_elimination", "double_elimination"} /\ WellDrawn(t)
  BY DrawnWell DEF SingleGames
<1>3. Held(t)
  BY <1>1, <1>2, InitHolds DEF Init
<1>4. Drawing(tournament) = Drawing(t)
  BY <1>1 DEF Drawing
<1>5. Schedule = C!Draw(Drawing(tournament))
  <2>1. Schedule = ScheduleOf(t)
    BY <1>3, ScheduleIs DEF Held
  <2> QED BY <1>2, <1>4, <2>1, DrawSame
<1>6. Results = << >>
  <2>1. DOMAIN Results = {}
    BY DEF Init, Results
  <2> QED BY <2>1 DEF Results
<1>7. Drawing(tournament) \in {Drawing(x) : x \in Entered}
  BY <1>4
<1> QED BY <1>5, <1>6, <1>7 DEF C!CalendarInit, Results

(* The tournament plays its calendar: the four formats as formats.ts draws *)
(* them, every match decided once, after the matches its sides come from   *)
(* and by the sides that earned them, whatever is read too early, retried  *)
(* or left behind by a loop that dies.                                     *)
THEOREM PlaysCalendar ==
    ASSUME SingleGames
    PROVE  Spec => KeepsCalendar
<1>1. Init => C!CalendarInit
  BY StartsCalendar
<1>2. TInv /\ [Next]_vars => [C!CalendarNext]_(C!calendarVars)
  BY StepKeepsCalendar DEF C!calendarVars, Results
<1> QED BY <1>1, <1>2, Invariance, PTL DEF Spec, KeepsCalendar, C!CalendarSpec

-----------------------------------------------------------------------------
(* The champion of a league: points *)

LEMMA PointsAre ==
    ASSUME NEW id, NEW S, IsFiniteSet(S)
    PROVE  Points(id, S) = Sum([m \in S |-> PointsFor(id, m)], S)
<1> DEFINE f == [m \in S |-> PointsFor(id, m)]
           Adds(h) == h = [s \in SUBSET S |->
                              IF s = {} THEN 0 ELSE PointsFor(id, One(s)) + h[s \ {One(s)}]]
<1>1. Points(id, S) = (CHOOSE h : Adds(h))[S]
  BY DEF Points, MapThenSumSet, MapThenFoldSet, One
<1>2. \A s \in SUBSET S : s # {} => f[One(s)] = PointsFor(id, One(s))
  BY OneIn
<1> HIDE DEF f
<1>3. ASSUME NEW h PROVE IsSum(f, S, h) <=> Adds(h)
  BY <1>2 DEF IsSum, Body
<1>4. \E h : Adds(h)
  BY <1>3, Exists
<1> DEFINE h0 == CHOOSE h : Adds(h)
<1>5. Adds(h0)
  BY <1>4
<1> HIDE DEF h0
<1>6. IsSum(f, S, h0)
  BY <1>3, <1>5
<1>7. h0[S] = Sum(f, S)
  BY <1>6, SumIs
<1> QED BY <1>1, <1>7 DEF h0, f

LEMMA PointsInt ==
    ASSUME NEW id, NEW S, IsFiniteSet(S)
    PROVE  Points(id, S) \in Int
<1> DEFINE f == [m \in S |-> PointsFor(id, m)]
<1>1. \A m \in S : f[m] \in Int
  BY DEF PointsFor
<1>2. Points(id, S) = Sum(f, S)
  BY PointsAre
<1> HIDE DEF f
<1> QED BY <1>1, <1>2, SumInt

(* Nobody has more points than c, an entrant. *)
Leads(c) == c \in Ids /\ \A id \in Ids : Points(id, Counted) <= Points(c, Counted)

(* The comparator is no order, but whoever is put first is ahead on points.*)
LEMMA LeadersLead ==
    ASSUME IsFiniteSet(DOMAIN match), NEW c \in Leaders
    PROVE  Leads(c)
<1>1. IsFiniteSet(Counted)
  BY FS_Subset DEF Counted
<1>2. PICK P : P = [id \in Ids |-> Points(id, Counted)]
  OBVIOUS
<1>3. \A id \in Ids : P[id] = Points(id, Counted) /\ P[id] \in Int
  BY <1>1, <1>2, PointsInt
<1>4. PICK seeds, e : seeds = DOMAIN tournament.entries /\ e = tournament.entries
  OBVIOUS
<1>5. Ids = {e[i] : i \in seeds}
  BY <1>4 DEF Ids, Range
<1>6. ASSUME NEW i \in seeds, NEW j \in seeds, Outranks(i, j) PROVE P[e[j]] <= P[e[i]]
  <2>1. e[i] \in Ids /\ e[j] \in Ids
    BY <1>5
  <2>2. Points(e[i], Counted) - Points(e[j], Counted) > 0 \/ Points(e[i], Counted) - Points(e[j], Counted) = 0
    BY <1>4, <1>6 DEF Outranks
  <2> QED BY <1>3, <2>1, <2>2
<1>7. PICK i \in seeds : /\ c = e[i]
                         /\ \/ \A j \in seeds \ {i} : Outranks(i, j)
                            \/ \A j \in seeds : Points(e[i], Counted) >= Points(e[j], Counted)
  BY <1>4 DEF Leaders
<1>8. c \in Ids
  BY <1>5, <1>7
<1>9. ASSUME NEW id \in Ids PROVE P[id] <= P[c]
  <2>1. PICK j \in seeds : id = e[j]
    BY <1>5
  <2>2. CASE \A k \in seeds \ {i} : Outranks(i, k)
    <3>1. CASE i = j
      BY <1>3, <1>7, <1>8, <2>1, <3>1
    <3>2. CASE i # j
      BY <1>6, <1>7, <2>1, <2>2, <3>2
    <3> QED BY <3>1, <3>2
  <2>3. CASE \A k \in seeds : Points(e[i], Counted) >= Points(e[k], Counted)
    BY <1>3, <1>7, <1>8, <2>1, <2>3
  <2> QED BY <1>7, <2>2, <2>3
<1> QED BY <1>3, <1>8, <1>9 DEF Leads

(* The table depends on nothing but the rows. *)
LEMMA LeadsStill ==
    ASSUME UNCHANGED <<match, battle>>, tournament'.entries = tournament.entries, NEW c, Leads(c)
    PROVE  Leads(c)'
<1>1. Counted' = Counted
  BY DEF Counted, MatchDone, Technicals, GamesOf
<1>2. Ids' = Ids
  BY DEF Ids
<1>3. ASSUME NEW id PROVE Points(id, Counted)' = Points(id, Counted)
  BY <1>1 DEF Points, PointsFor, Sides, MatchDone, MapThenSumSet, MapThenFoldSet
<1> QED BY <1>2, <1>3 DEF Leads

(* When all is decided and played the rows change no more. *)
Settled == AllDecided /\ AllPlayed /\ ~Fresh

LEMMA NoneDecided ==
    ASSUME Settled
    PROVE  ~DecidesInTurn
  BY DEF Settled, AllDecided, DecidesInTurn

LEMMA NothingInHand ==
    ASSUME NEW t, Held(t), Settled, NEW l \in Loop
    PROVE  Charge(loop[l]) = {}
<1>1. ChargeGood(t, loop[l])
  BY LoopIs
<1> QED BY <1>1 DEF ChargeGood, Settled, AllDecided

LEMMA SettledStatement ==
    ASSUME NEW t \in Entered, WellDrawn(t), Held(t), Settled, NEW l \in Loop, Statement(l)
    PROVE  UNCHANGED <<match, battle>>
<1>1. CASE GenerateSchedule(l)
  <2>1. CASE BeginSchedule(l) \/ StartTournament(l)
    BY <2>1 DEF BeginSchedule, StartTournament
  <2>2. CASE InsertMatch(l)
    <3>1. loop[l].pc = "matches" /\ UNCHANGED battle
      BY <2>2 DEF InsertMatch, At
    <3>2. loop[l].job = ScheduleJob
      <4> SUFFICES ASSUME loop[l].job # ScheduleJob PROVE FALSE
        OBVIOUS
      <4> QED BY <3>1, ResultGood1 DEF Resolving
    <3>3. NextOf(loop[l].plan).slot \in DOMAIN match
      BY <3>1, <3>2, LoopIs DEF ScheduleGood, Settled
    <3> QED BY <2>2, <3>1, <3>3 DEF InsertMatch
  <2>3. CASE DecideBye(l)
    BY <2>3, DecideByeInTurn, NoneDecided
  <2> QED BY <1>1, <2>1, <2>2, <2>3 DEF GenerateSchedule
<1>2. CASE MaterializeBattles(l)
  <2>1. CASE InsertBattle(l)
    <3>1. Charge(loop[l]) # {}
      BY <2>1 DEF InsertBattle, At, Charge, InHand
    <3> QED BY <3>1, NothingInHand
  <2>2. CASE EnqueueBattle(l)
    BY <2>2 DEF EnqueueBattle
  <2> QED BY <1>2, <2>1, <2>2 DEF MaterializeBattles
<1>3. CASE CloseSeries(l)
  <2>1. CASE ReadMatch(l) \/ ReadSeries(l)
    BY <2>1 DEF ReadMatch, ReadSeries
  <2>2. CASE CloseMatch(l)
    BY <2>2, CloseMatchInTurn, NoneDecided
  <2> QED BY <1>3, <2>1, <2>2 DEF CloseSeries
<1>4. CASE ResolveDependents(l)
  <2>1. CASE ReadSource(l) \/ ReadCandidates(l) \/ CheckCondition(l) \/ CheckExisting(l)
    BY <2>1 DEF ReadSource, ReadCandidates, CheckCondition, CheckExisting
  <2>2. CASE FeedDependent(l)
    <3>1. PICK f, old, p : Feeding(t, l, f, old, p)
      BY <2>2, FeedDependentIs
    <3>2. old.slot \in DOMAIN match /\ ~MatchDone(old.slot)
      BY <3>1, RowWaits DEF Feeding
    <3> QED BY <3>2 DEF Settled, AllDecided
  <2>3. CASE WalkOver(l)
    BY <2>3, WalkOverInTurn, NoneDecided
  <2> QED BY SMTT(60), ZenonT(60), <1>4, <2>1, <2>2, <2>3 DEF ResolveDependents
<1>5. CASE ConcludeResult(l)
  BY ZenonT(60), SMTT(60), <1>5
     DEF ConcludeResult, EnqueueStandings, CheckMatches, CheckBattles, ReadChampion, FinishTournament
<1>6. CASE CompleteJob(l) \/ FailJob(l)
  BY <1>6 DEF CompleteJob, FailJob, EndJob
<1> QED BY <1>1, <1>2, <1>3, <1>4, <1>5, <1>6, NoSwissRound DEF Statement

LEMMA SettledNext ==
    ASSUME NEW t \in Entered, WellDrawn(t), Held(t), Settled, [Next]_vars
    PROVE  UNCHANGED <<match, battle>>
<1>1. CASE \E l \in Loop : Statement(l) \/ Crash(l) \/ StatementFails(l)
  BY <1>1, SettledStatement DEF Crash, StatementFails
<1>2. CASE \E l \in Loop, j \in DOMAIN jobs : Claim(l, j)
  BY <1>2 DEF Claim
<1>3. CASE \E b \in DOMAIN battle : EngineEnds(b)
  <2> SUFFICES ASSUME NEW b \in DOMAIN battle, EngineEnds(b) PROVE FALSE
    BY <1>3
  <2>1. RunJob(b) \in DOMAIN jobs /\ jobs[RunJob(b)] = "queued"
    BY DEF EngineEnds, PlayBattle, BattleFails
  <2>2. battle[b].status = "scheduled"
    BY <2>1 DEF Held, Queued
  <2> QED BY <2>2 DEF Settled, AllPlayed
<1>4. CASE UNCHANGED vars
  BY <1>4 DEF vars
<1> QED BY <1>1, <1>2, <1>3, <1>4 DEF Next

(* Only the reading of the champion leads to the end of the tournament. *)
HasPc(r) == "pc" \in DOMAIN r

Onwards(r, q) == HasPc(r) => q.pc # "finish"

LEMMA ResumeOnwards ==
    ASSUME NEW r
    PROVE  /\ \A byes : Onwards(r, NextBye(r, byes))
           /\ Onwards(r, AfterResolving(r)) /\ Onwards(r, Resume(r))
<1>1. ASSUME NEW byes PROVE Onwards(r, NextBye(r, byes))
  BY DEF NextBye, Onwards, HasPc
<1>2. Onwards(r, AfterResolving(r))
  BY <1>1 DEF AfterResolving, Onwards, HasPc
<1>3. Onwards(r, Resume(r))
  BY <1>2 DEF Resume, Onwards, HasPc
<1> QED BY <1>1, <1>2, <1>3

LEMMA CalendarOnwards ==
    ASSUME NEW r, NEW plan
    PROVE  Onwards(r, NextOfCalendar(r, plan))
  BY DEF NextOfCalendar, Materialize, Onwards, HasPc

LEMMA ReturnOnwards ==
    ASSUME NEW r, r.back \in {"calendar", "resolve"}
    PROVE  Onwards(r, Return(r))
<1>1. CASE r.back = "calendar"
  <2>1. Return(r) = NextOfCalendar(r, r.plan)
    BY <1>1, Zenon DEF Return
  <2> QED BY <2>1, CalendarOnwards
<1>2. CASE r.back = "resolve"
  <2>1. Return(r) = Resume(r)
    BY <1>2, Zenon DEF Return
  <2> QED BY <2>1, ResumeOnwards
<1> QED BY <1>1, <1>2

LEMMA FeedingOnwards ==
    ASSUME NEW r, NEW p
    PROVE  Onwards(r, AfterFeeding(r, p))
<1>1. PICK q : q = [r EXCEPT !.p = p]
  OBVIOUS
<1>2. HasPc(r) => HasPc(q)
  BY <1>1 DEF HasPc
<1>3. CASE Pending(p)
  <2>1. AfterFeeding(r, p) = Resume(q)
    BY <1>1, <1>3 DEF AfterFeeding
  <2> QED BY <1>2, <2>1, ResumeOnwards DEF Onwards
<1>4. CASE ~Pending(p)
  BY <1>4 DEF AfterFeeding, Onwards, HasPc
<1> QED BY <1>3, <1>4

LEMMA LoopHasPc ==
    ASSUME NEW t, Held(t), NEW l \in Loop
    PROVE  HasPc(loop[l]) /\ loop \in [Loop -> Loops(t)]
  BY LoopIs DEF Loops, HasPc

LEMMA ScheduleFinish ==
    ASSUME NEW t, WellDrawn(t), Held(t), NEW l \in Loop, GenerateSchedule(l)
    PROVE  loop'[l].pc # "finish"
<1>1. PICK r : r = loop[l]
  OBVIOUS
<1>2. HasPc(r) /\ l \in DOMAIN loop
  BY <1>1, LoopHasPc
<1>3. CASE BeginSchedule(l)
  BY <1>1, <1>2, <1>3 DEF BeginSchedule, Continue, Goto, HasPc
<1>4. CASE InsertMatch(l)
  <2>1. PICK dealt : dealt = {q \in Schedule : q.bye \/ (q.home # NoOne /\ q.away # NoOne)}
    OBVIOUS
  <2>2. \/ loop' = [loop EXCEPT ![l] = [r EXCEPT !.pc = "fail"]]
        \/ loop' = [loop EXCEPT ![l] = [r EXCEPT !.plan = Rest(r.plan)]] /\ r.pc = "matches"
        \/ loop' = [loop EXCEPT ![l] = NextOfCalendar(r, dealt)]
    BY <1>1, <1>4, <2>1 DEF InsertMatch, Continue, Goto, At
  <2> QED BY <1>2, <2>2, CalendarOnwards DEF Onwards, HasPc
<1>5. CASE DecideBye(l)
  <2>1. ChargeGood(t, r) /\ r.pc = "bye"
    BY <1>1, <1>5, LoopIs DEF DecideBye, At
  <2>2. Onwards(r, Return(r))
    BY <2>1, ReturnOnwards DEF ChargeGood
  <2>3. loop' = [loop EXCEPT ![l] = Return(r)]
    BY <1>1, <1>5 DEF DecideBye, Continue
  <2> QED BY <1>2, <2>2, <2>3 DEF Onwards
<1>6. CASE StartTournament(l)
  <2>1. PICK byes : loop' = [loop EXCEPT ![l] = NextBye(r, byes)]
    BY <1>1, <1>6 DEF StartTournament, Continue
  <2> QED BY <1>2, <2>1, ResumeOnwards DEF Onwards
<1> QED BY <1>3, <1>4, <1>5, <1>6 DEF GenerateSchedule

LEMMA MaterializeFinish ==
    ASSUME NEW t, Held(t), NEW l \in Loop, MaterializeBattles(l)
    PROVE  loop'[l].pc # "finish"
<1>1. PICK r : r = loop[l]
  OBVIOUS
<1>2. HasPc(r) /\ l \in DOMAIN loop /\ r \in Loops(t)
  BY <1>1, LoopHasPc
<1>3. CASE InsertBattle(l)
  BY <1>1, <1>2, <1>3 DEF InsertBattle, Continue, HasPc
<1>4. CASE EnqueueBattle(l)
  <2>1. PICK q : q = [r EXCEPT !.battle = <<>>]
    OBVIOUS
  <2>2. ChargeGood(t, r) /\ r.pc = "enqueue"
    BY <1>1, <1>4, LoopIs DEF EnqueueBattle, At
  <2>3. HasPc(q) /\ q.back = r.back /\ q.back \in {"calendar", "resolve"}
    BY <1>2, <2>1, <2>2 DEF HasPc, ChargeGood, Loops
  <2>4. loop'[l] = Return(q) \/ \E g : loop'[l] = [q EXCEPT !.pc = "insert", !.game = g]
    BY ZenonT(60), SMTT(60), <1>1, <1>2, <1>4, <2>1 DEF EnqueueBattle, Continue
  <2>5. Return(q).pc # "finish"
    BY <2>3, ReturnOnwards DEF Onwards
  <2>6. \A g : [q EXCEPT !.pc = "insert", !.game = g].pc # "finish"
    BY <2>3 DEF HasPc
  <2> QED BY <2>4, <2>5, <2>6
<1> QED BY <1>3, <1>4 DEF MaterializeBattles

LEMMA CloseFinish ==
    ASSUME NEW t, Held(t), NEW l \in Loop, CloseSeries(l)
    PROVE  loop'[l].pc # "finish"
<1>1. PICK r : r = loop[l]
  OBVIOUS
<1>2. HasPc(r) /\ l \in DOMAIN loop
  BY <1>1, LoopHasPc
<1>3. CASE ReadMatch(l)
  BY <1>1, <1>2, <1>3, ResumeOnwards DEF ReadMatch, Continue, Onwards, HasPc
<1>4. CASE ReadSeries(l) \/ CloseMatch(l)
  BY ZenonT(60), SMTT(60), <1>1, <1>2, <1>4 DEF ReadSeries, CloseMatch, Continue, HasPc
<1> QED BY <1>3, <1>4 DEF CloseSeries

LEMMA ResolveFinish ==
    ASSUME NEW t, Held(t), NEW l \in Loop, ResolveDependents(l)
    PROVE  loop'[l].pc # "finish"
<1>1. PICK r : r = loop[l]
  OBVIOUS
<1>2. HasPc(r) /\ l \in DOMAIN loop
  BY <1>1, LoopHasPc
<1>3. CASE ReadSource(l)
  <2>1. \/ loop'[l] = Resume(r)
        \/ \E g : loop'[l] = [r EXCEPT !.pc = "candidates", !.stack[Top(r)] = g]
    BY ZenonT(60), SMTT(60), <1>1, <1>2, <1>3 DEF ReadSource, Continue
  <2> QED BY <1>2, <2>1, ResumeOnwards DEF Onwards, HasPc
<1>4. CASE ReadCandidates(l)
  <2>1. PICK q : HasPc(q) /\ loop'[l] = Resume(q)
    BY <1>1, <1>2, <1>4 DEF ReadCandidates, Continue, HasPc
  <2> QED BY <2>1, ResumeOnwards DEF Onwards
<1>5. CASE FeedDependent(l)
  <2>1. PICK q, p : HasPc(q) /\ loop'[l] = AfterFeeding(q, p)
    BY <1>1, <1>2, <1>5 DEF FeedDependent, Continue, HasPc
  <2> QED BY <2>1, FeedingOnwards DEF Onwards
<1>6. CASE CheckCondition(l) \/ WalkOver(l)
  BY ZenonT(60), SMTT(60), <1>1, <1>2, <1>6 DEF CheckCondition, WalkOver, Continue, HasPc
<1>7. CASE CheckExisting(l)
  BY <1>1, <1>2, <1>7, ResumeOnwards DEF CheckExisting, Continue, Materialize, Onwards, HasPc
<1> QED BY <1>3, <1>4, <1>5, <1>6, <1>7 DEF ResolveDependents

LEMMA OnlyChampionFinishes ==
    ASSUME NEW t, WellDrawn(t), Held(t), NEW l \in Loop, Statement(l), loop'[l].pc = "finish"
    PROVE  ReadChampion(l)
<1>1. HasPc(loop[l]) /\ l \in DOMAIN loop
  BY LoopHasPc
<1>2. ~GenerateSchedule(l) /\ ~MaterializeBattles(l) /\ ~CloseSeries(l) /\ ~ResolveDependents(l)
  BY ScheduleFinish, MaterializeFinish, CloseFinish, ResolveFinish
<1>3. ~CompleteJob(l) /\ ~FailJob(l)
  BY <1>1, IdleGood DEF CompleteJob, FailJob, EndJob, Continue
<1>4. CASE ConcludeResult(l)
  BY <1>1, <1>4 DEF ConcludeResult, EnqueueStandings, CheckMatches, CheckBattles, FinishTournament, Continue,
     Goto, HasPc
<1> QED BY <1>2, <1>3, <1>4, NoSwissRound DEF Statement

(* Whoever is, or is about to be, the champion of a league leads it. *)
Table(t) == t.format \in {"league", "round_robin"}

Named(c) ==
    \/ \E l \in Loop : loop[l].pc = "finish" /\ loop[l].winner = c
    \/ tournament.state = "finished" /\ tournament.champion = c

Crowned(t) == Table(t) => \A c : Named(c) => Leads(c)

CInv == \E t \in Entered : Held(t) /\ Crowned(t)

LEMMA SettledIs ==
    ASSUME NEW t, Held(t)
    PROVE  /\ \A l \in Loop : loop[l].pc \in {"champion", "finish"} => Settled
           /\ tournament.state = "finished" => Settled
<1>1. ASSUME NEW l \in Loop, loop[l].pc \in {"champion", "finish"} PROVE Settled
  <2>1. loop[l].job # ScheduleJob /\ loop[l].pc # "idle"
    BY <1>1, NotScheduling
  <2>2. AllDecided /\ AllPlayed /\ DOMAIN battle # {}
    BY <1>1, <2>1, ResultGood1
  <2> QED BY <2>2 DEF Settled, Fresh
<1>2. ASSUME tournament.state = "finished" PROVE Settled
  BY <1>2 DEF Held, FinishedGood, Settled, Fresh
<1> QED BY <1>1, <1>2

LEMMA ChampionIsLeader ==
    ASSUME NEW t \in Entered, WellDrawn(t), Table(t), Held(t), NEW l \in Loop, ReadChampion(l),
           NEW c, c = loop'[l].winner
    PROVE  Leads(c)
<1>1. \A p \in ScheduleOf(t) : ~p.final
  BY EntriesField, LeaguesDrawn DEF Table
<1>2. ASSUME NEW m \in DOMAIN match PROVE ~match[m].pairing.final
  <2>1. IsVersion(t, match[m].pairing)
    BY RowIs DEF MatchGood
  <2> QED BY <1>1, <2>1, OriginOf DEF IsVersion
<1>3. PICK id \in Leaders : loop' = [loop EXCEPT ![l] = [loop[l] EXCEPT !.pc = "finish", !.winner = id]]
  BY <1>2 DEF ReadChampion, Continue
<1>4. loop'[l].winner = id
  BY <1>3, LoopIs DEF Loops
<1>5. IsFiniteSet(DOMAIN match)
  BY DEF Held, Typed
<1> QED BY <1>4, <1>5, LeadersLead

LEMMA Continues ==
    ASSUME NEW l, Statement(l)
    PROVE  \E q : loop' = [loop EXCEPT ![l] = q]
<1>1. CASE GenerateSchedule(l)
  BY <1>1 DEF GenerateSchedule, BeginSchedule, InsertMatch, DecideBye, StartTournament, Goto, Continue
<1>2. CASE MaterializeBattles(l)
  BY <1>2 DEF MaterializeBattles, InsertBattle, EnqueueBattle, Continue
<1>3. CASE CloseSeries(l)
  BY SMTT(60), ZenonT(60), <1>3 DEF CloseSeries, ReadMatch, ReadSeries, CloseMatch, Continue
<1>4. CASE ResolveDependents(l)
  BY ZenonT(60), SMTT(60), <1>4
     DEF ResolveDependents, ReadSource, ReadCandidates, FeedDependent, CheckCondition, WalkOver,
     CheckExisting, Goto, Continue
<1>5. CASE NextSwissRound(l)
  BY SMTT(60), ZenonT(60), <1>5 DEF NextSwissRound, CheckRound, ReadTable, InsertPairing, Goto, Continue
<1>6. CASE ConcludeResult(l)
  BY <1>6 DEF ConcludeResult, EnqueueStandings, CheckMatches, CheckBattles, ReadChampion, FinishTournament,
     Goto, Continue
<1>7. CASE CompleteJob(l) \/ FailJob(l)
  BY <1>7 DEF CompleteJob, FailJob, EndJob, Continue
<1> QED BY <1>1, <1>2, <1>3, <1>4, <1>5, <1>6, <1>7 DEF Statement

LEMMA OnlyMine ==
    ASSUME NEW t, WellDrawn(t), Held(t), [Next]_vars, NEW l \in Loop, loop'[l] # loop[l], loop'[l].pc = "finish"
    PROVE  ReadChampion(l)
<1>1. loop \in [Loop -> Loops(t)] /\ HasPc(loop[l])
  BY LoopHasPc
<1>2. ASSUME NEW k \in Loop, NEW q, loop' = [loop EXCEPT ![k] = q] PROVE k = l /\ loop'[l] = q
  BY <1>1, <1>2
<1>3. CASE \E k \in Loop : Statement(k)
  <2>1. PICK k \in Loop : Statement(k)
    BY <1>3
  <2>2. \E q : loop' = [loop EXCEPT ![k] = q]
    BY <2>1, Continues
  <2>3. k = l
    BY <1>2, <2>2
  <2> QED BY <2>1, <2>3, OnlyChampionFinishes
<1>4. CASE \E k \in Loop : Crash(k) \/ StatementFails(k)
  <2>1. PICK k \in Loop : Crash(k) \/ StatementFails(k)
    BY <1>4
  <2>2. loop' = [loop EXCEPT ![k] = IdleLoop] \/ loop' = [loop EXCEPT ![k] = [loop[k] EXCEPT !.pc = "fail"]]
    BY <2>1 DEF Crash, StatementFails, Goto, Continue
  <2>3. k = l /\ (loop'[l] = IdleLoop \/ loop'[l] = [loop[l] EXCEPT !.pc = "fail"])
    BY <1>2, <2>2
  <2> QED BY <1>1, <2>3, IdleGood DEF HasPc
<1>5. CASE \E k \in Loop, j \in DOMAIN jobs : Claim(k, j)
  <2>1. PICK k \in Loop, j \in DOMAIN jobs : Claim(k, j)
    BY <1>5
  <2>2. loop' = [loop EXCEPT ![k] = [IdleLoop EXCEPT !.job = j, !.pc = IF j = ScheduleJob THEN "begin" ELSE "match"]]
    BY <2>1 DEF Claim, Continue
  <2>3. loop'[l] = [IdleLoop EXCEPT !.job = j, !.pc = IF j = ScheduleJob THEN "begin" ELSE "match"]
    BY <1>2, <2>2
  <2>4. loop'[l].pc \in {"begin", "match"}
    BY <2>3 DEF IdleLoop
  <2> QED BY <2>4
<1>6. CASE (\E b \in DOMAIN battle : EngineEnds(b)) \/ UNCHANGED vars
  BY ZenonT(60), SMTT(60), <1>6 DEF EngineEnds, PlayBattle, BattleFails, vars
<1> QED BY <1>3, <1>4, <1>5, <1>6 DEF Next

LEMMA Finisher ==
    ASSUME NEW t, Held(t), [Next]_vars, tournament' # tournament, tournament'.state = "finished"
    PROVE  \E l \in Loop : FinishTournament(l)
<1>1. PICK l \in Loop : Statement(l)
  BY ZenonT(60), SMTT(60) DEF Next, Crash, StatementFails, Claim, EngineEnds, PlayBattle, BattleFails, vars
<1>2. StartTournament(l) \/ FinishTournament(l)
  BY ZenonT(60), SMTT(60), <1>1, NoSwissRound DEF Statement, GenerateSchedule, BeginSchedule, InsertMatch, DecideBye,
     MaterializeBattles, InsertBattle, EnqueueBattle, CloseSeries, ReadMatch, ReadSeries, CloseMatch,
     ResolveDependents, ReadSource, ReadCandidates, FeedDependent, CheckCondition, WalkOver, CheckExisting,
     ConcludeResult, EnqueueStandings, CheckMatches, CheckBattles, ReadChampion, CompleteJob, FailJob, EndJob
<1>3. ~StartTournament(l)
  BY DEF StartTournament, Held, Typed, Tournaments
<1> QED BY <1>2, <1>3

LEMMA CrownedKept ==
    ASSUME NEW t \in Entered, WellDrawn(t), Held(t), Held(t)', Crowned(t), [Next]_vars
    PROVE  Crowned(t)'
<1> SUFFICES ASSUME Table(t), NEW c, Named(c)' PROVE Leads(c)'
  BY DEF Crowned, Table
<1>1. tournament'.entries = tournament.entries
  BY DEF Held, Typed, Tournaments
<1>2. Settled /\ Leads(c) => Leads(c)'
  BY <1>1, SettledNext, LeadsStill
<1>3. ASSUME NEW l \in Loop, loop'[l].pc = "finish", loop'[l].winner = c PROVE Leads(c)'
  <2>1. CASE loop'[l] = loop[l]
    <3>1. Named(c) /\ Settled
      BY <1>3, <2>1, SettledIs DEF Named
    <3> QED BY <1>2, <3>1 DEF Crowned
  <2>2. CASE loop'[l] # loop[l]
    <3>1. ReadChampion(l)
      BY SMTT(60), ZenonT(60), <1>3, <2>2, OnlyMine
    <3>2. Leads(c) /\ UNCHANGED <<match, battle>>
      BY ZenonT(60), SMTT(60), <1>3, <3>1, ChampionIsLeader DEF ReadChampion
    <3> QED BY <1>1, <3>2, LeadsStill
  <2> QED BY <2>1, <2>2
<1>4. ASSUME tournament'.state = "finished", tournament'.champion = c PROVE Leads(c)'
  <2>1. CASE tournament' = tournament
    <3>1. Named(c) /\ Settled
      BY SMTT(60), ZenonT(60), <1>4, <2>1, SettledIs DEF Named
    <3> QED BY <1>2, <3>1 DEF Crowned
  <2>2. CASE tournament' # tournament
    <3>1. PICK l \in Loop : FinishTournament(l)
      BY <1>4, <2>2, Finisher
    <3>2. loop[l].winner = c /\ loop[l].pc = "finish"
      BY <1>4, <3>1 DEF FinishTournament, At, Held, Typed, Tournaments
    <3>3. Named(c) /\ Settled
      BY <3>2, SettledIs DEF Named
    <3> QED BY <1>2, <3>3 DEF Crowned
  <2> QED BY <2>1, <2>2
<1> QED BY <1>3, <1>4 DEF Named

LEMMA CrownedInvariant ==
    ASSUME SingleGames
    PROVE  Spec => []CInv
<1>1. Init => CInv
  <2> SUFFICES ASSUME Init PROVE CInv
    OBVIOUS
  <2>1. PICK t \in Entered : Held(t)
    BY InitInvariant DEF TInv
  <2>2. tournament.state = "closed" /\ \A l \in Loop : loop[l].pc = "idle"
    BY IdleGood DEF Init
  <2> QED BY <2>1, <2>2 DEF CInv, Crowned, Named
<1>2. CInv /\ [Next]_vars => CInv'
  <2> SUFFICES ASSUME CInv, [Next]_vars PROVE CInv'
    OBVIOUS
  <2>1. PICK t \in Entered : Held(t) /\ Crowned(t)
    BY DEF CInv
  <2>2. WellDrawn(t) /\ t.format # "swiss" /\ t.games = 1
    BY DrawnWell DEF SingleGames
  <2>3. Held(t)'
    BY <2>1, <2>2, NextKeeps, StutterKeeps
  <2>4. Crowned(t)'
    BY <2>1, <2>2, <2>3, CrownedKept
  <2> QED BY <2>3, <2>4 DEF CInv
<1> QED BY <1>1, <1>2, PTL DEF Spec

(* Nobody has more points than the champion of a league or round robin,    *)
(* although sortTable's comparator may beat in a circle, and although      *)
(* computeChampion reads the table some statements after the matches were  *)
(* seen finished and before the tournament is.                             *)
THEOREM ChampionIsAhead ==
    ASSUME SingleGames
    PROVE  Spec => []ChampionLeads
<1>1. CInv => ChampionLeads
  <2> SUFFICES ASSUME CInv, Finished,
                      tournament.format \notin {"single_elimination", "double_elimination"}
               PROVE  Leads(tournament.champion)
    BY DEF ChampionLeads, Leads
  <2>1. PICK t \in Entered : Held(t) /\ Crowned(t)
    BY DEF CInv
  <2>2. Table(t)
    BY <2>1 DEF SingleGames, Table, Held, Typed, Tournaments
  <2> QED BY <2>1, <2>2 DEF Crowned, Named, Finished
<1> QED BY <1>1, CrownedInvariant, PTL

-----------------------------------------------------------------------------
(* What was entered stands, and its calendar with it *)

(* The row of a tournament that was entered as t. *)
IsRowOf(t) ==
    \E state, champion :
        tournament = [format |-> t.format, entries |-> t.entries, owner |-> t.owner,
                      games |-> t.games, state |-> state, champion |-> champion]

LEMMA RowKept ==
    ASSUME NEW t \in Entered, IsRowOf(t), [Next]_vars
    PROVE  IsRowOf(t)'
<1>1. PICK state, champion :
          tournament = [format |-> t.format, entries |-> t.entries, owner |-> t.owner,
                        games |-> t.games, state |-> state, champion |-> champion]
  BY DEF IsRowOf
<1>2. ASSUME tournament' = tournament PROVE IsRowOf(t)'
  BY ZenonT(60), SMTT(60), <1>1, <1>2 DEF IsRowOf
<1>3. ASSUME NEW l \in Loop, Statement(l) PROVE IsRowOf(t)'
  <2>1. CASE StartTournament(l)
    <3>1. tournament' = [tournament EXCEPT !.state = "running"]
      BY <2>1 DEF StartTournament
    <3>2. tournament' = [format |-> t.format, entries |-> t.entries, owner |-> t.owner,
                         games |-> t.games, state |-> "running", champion |-> champion]
      BY <1>1, <3>1
    <3> QED BY <3>2 DEF IsRowOf
  <2>2. CASE FinishTournament(l)
    <3>1. PICK c : tournament' = [tournament EXCEPT !.state = "finished", !.champion = c]
      BY <2>2 DEF FinishTournament
    <3>2. tournament' = [format |-> t.format, entries |-> t.entries, owner |-> t.owner,
                         games |-> t.games, state |-> "finished", champion |-> c]
      BY ZenonT(60), SMTT(60), <1>1, <3>1
    <3> QED BY <3>2 DEF IsRowOf
  <2>3. CASE BeginSchedule(l) \/ InsertMatch(l) \/ DecideBye(l) \/ MaterializeBattles(l)
    BY SMTT(60), ZenonT(60), <1>2, <2>3
       DEF BeginSchedule, InsertMatch, DecideBye, MaterializeBattles, InsertBattle, EnqueueBattle
  <2>4. CASE CloseSeries(l) \/ ResolveDependents(l)
    BY ZenonT(60), SMTT(60), <1>2, <2>4
       DEF CloseSeries, ReadMatch, ReadSeries, CloseMatch, ResolveDependents, ReadSource,
                      ReadCandidates, FeedDependent, CheckCondition, WalkOver, CheckExisting
  <2>5. CASE NextSwissRound(l) \/ CompleteJob(l) \/ FailJob(l)
    BY SMTT(60), ZenonT(60), <1>2, <2>5
       DEF NextSwissRound, CheckRound, ReadTable, InsertPairing, CompleteJob, FailJob, EndJob
  <2>6. CASE EnqueueStandings(l) \/ CheckMatches(l) \/ CheckBattles(l) \/ ReadChampion(l)
    BY ZenonT(60), SMTT(60), <1>2, <2>6 DEF EnqueueStandings, CheckMatches, CheckBattles, ReadChampion
  <2> QED BY <1>3, <2>1, <2>2, <2>3, <2>4, <2>5, <2>6 DEF Statement, GenerateSchedule, ConcludeResult
<1>4. CASE \E l \in Loop : Crash(l) \/ StatementFails(l)
  BY <1>2, <1>4 DEF Crash, StatementFails
<1>5. CASE \E l \in Loop, j \in DOMAIN jobs : Claim(l, j)
  BY <1>2, <1>5 DEF Claim
<1>6. CASE \E b \in DOMAIN battle : EngineEnds(b)
  BY <1>2, <1>6 DEF EngineEnds, PlayBattle, BattleFails
<1>7. CASE UNCHANGED vars
  BY <1>2, <1>7 DEF vars
<1> QED BY <1>3, <1>4, <1>5, <1>6, <1>7 DEF Next

LEMMA DrawnKept ==
    ASSUME NEW t \in Entered, IsRowOf(t), [Next]_vars
    PROVE  Schedule' = Schedule
<1>1. /\ tournament.format = t.format /\ tournament.entries = t.entries /\ tournament.owner = t.owner
      /\ tournament.games = t.games
  BY DEF IsRowOf
<1>2. /\ tournament'.format = t.format /\ tournament'.entries = t.entries /\ tournament'.owner = t.owner
      /\ tournament'.games = t.games
  <2>1. IsRowOf(t)'
    BY RowKept
  <2> QED BY <2>1 DEF IsRowOf
<1> QED BY <1>1, <1>2 DEF Schedule

LEMMA EntryIs ==
    ASSUME NEW t \in Entered, IsRowOf(t)
    PROVE  /\ Drawing(tournament) = Drawing(t)
           /\ Schedule = InitialSchedule(t.format, t.entries, t.owner)
<1>1. /\ tournament.format = t.format /\ tournament.entries = t.entries /\ tournament.owner = t.owner
      /\ tournament.games = t.games
  BY DEF IsRowOf
<1>2. [format |-> tournament.format, entries |-> tournament.entries,
       owner |-> tournament.owner, games |-> tournament.games] = t
  BY <1>1, TournamentAssumption
<1> QED BY <1>1, <1>2 DEF Drawing, Schedule, Calendars

LEMMA EntersField ==
    ASSUME NEW t \in Entered
    PROVE  IsEntry(t.entries)
  BY TournamentAssumption DEF IsEntry, IsField

-----------------------------------------------------------------------------
(* Knockouts: the calendar that is kept is played as a knockout *)

LEMMA SeatedSame ==
    ASSUME NEW x, NEW source, source # NoSource => source.take \in {"winner", "loser"}
    PROVE  C!Seated(x, source) = SeatedBy(Results, x, source)
<1>1. C!NoSource = NoSource
  BY DEF C!NoSource, NoSource
<1>2. NoSource.take = "none"
  BY DEF NoSource
<1>3. CASE source = NoSource
  <2>1. source.take # "winner" /\ source.take # "loser"
    BY <1>2, <1>3
  <2>2. C!Seated(x, source) = x
    BY <1>1, <1>3, <2>1 DEF C!Seated
  <2> QED BY <1>3, <2>2 DEF SeatedBy
<1>4. CASE source # NoSource /\ source.take = "winner"
  <2>1. C!Seated(x, source) = Results[source.slot].winner
    BY <1>1, <1>4 DEF C!Seated, Results
  <2> QED BY <1>4, <2>1 DEF SeatedBy
<1>5. CASE source # NoSource /\ source.take = "loser"
  <2>1. C!Seated(x, source) = C!Loser(Results[source.slot])
    BY <1>1, <1>5 DEF C!Seated, Results
  <2>2. \A r : C!Loser(r) = BeatenIn(r)
    BY DEF C!Loser, BeatenIn
  <2> QED BY <1>5, <2>1, <2>2 DEF SeatedBy
<1> QED BY <1>3, <1>4, <1>5

LEMMA FormalSame ==
    ASSUME NEW p, NEW home
    PROVE  C!Formality(p, home) <=> IsFormal(Results, p, home)
  BY DEF C!Formality, IsFormal, Results

LEMMA VerdictSame ==
    ASSUME NEW p, ~IsMain(p), NEW home, NEW away, NEW w \in C!Verdicts(p, home, away)
    PROVE  IsVerdict(Results, p, home, away, w)
<1>0. ~C!IsMain(p)
  BY DEF C!IsMain, IsMain
<1>1. C!Formality(p, home) <=> IsFormal(Results, p, home)
  BY FormalSame
<1>2. CASE home = NoOne \/ away = NoOne
  <2>1. C!Verdicts(p, home, away) = {IF home = NoOne THEN away ELSE home}
    BY <1>2 DEF C!Verdicts
  <2> QED BY <1>2, <2>1 DEF IsVerdict
<1>3. CASE home # NoOne /\ away # NoOne /\ C!Formality(p, home)
  <2>1. C!Verdicts(p, home, away) = {home}
    BY <1>3 DEF C!Verdicts
  <2> QED BY <1>3, <2>1 DEF IsVerdict
<1>4. CASE home # NoOne /\ away # NoOne /\ ~C!Formality(p, home)
  <2>1. C!Verdicts(p, home, away) = {home, away} \cup (IF C!IsMain(p) THEN {NoOne} ELSE {})
    BY <1>4 DEF C!Verdicts
  <2>2. w = home \/ w = away
    BY <1>0, <2>1
  <2> QED BY <1>1, <1>4, <2>2 DEF IsVerdict
<1> QED BY <1>2, <1>3, <1>4

LEMMA DecidingGrows ==
    ASSUME NEW p, NEW home, NEW away, NEW w, Deciding(p, home, away, w), NEW R, R = Results, NEW R2, R2 = Results'
    PROVE  Grows(R, R2, p.slot, home, away, w)
<1>1. PICK s, row : s = p.slot /\ row = [home |-> home, away |-> away, winner |-> w]
  OBVIOUS
<1>2. R2 = [m \in DOMAIN R \cup {s} |-> IF m = s THEN row ELSE R[m]]
  BY <1>1 DEF Deciding
<1>3. DOMAIN R2 = DOMAIN R \cup {s} /\ R2[s] = row /\ \A m \in DOMAIN R : m # s => R2[m] = R[m]
  BY <1>2
<1>4. row.home = home /\ row.away = away /\ row.winner = w
  BY <1>1
<1> QED BY <1>1, <1>3, <1>4 DEF Grows

LEMMA KeptIsPlayed ==
    ASSUME NEW X, NEW k, NEW A, A = Schedule, IsKnockout(A, X, k), C!CalendarNext, NEW R, R = Results, NEW R2, R2 = Results'
    PROVE  \E p, home, away, w : IsPlayed(A, R, p, home, away, w, R2)
<1>1. PICK p \in A : C!Decide(p)
  BY DEF C!CalendarNext
<1>2. C!Decide(p) <=>
        /\ C!Ready(p)
        /\ \E x \in C!Verdicts(p, C!Seated(p.home, p.homeSource), C!Seated(p.away, p.awaySource)) :
              Deciding(p, C!Seated(p.home, p.homeSource), C!Seated(p.away, p.awaySource), x)
        /\ UNCHANGED <<Drawing(tournament), Schedule>>
  BY Zenon DEF C!Decide, Deciding, Results
<1>3. IsKnown(p) \/ IsOpen(p)
  BY <1>1 DEF IsKnockout, Joined
<1>4. /\ p.homeSource # NoSource => p.homeSource.take \in {"winner", "loser"}
      /\ p.awaySource # NoSource => p.awaySource.take \in {"winner", "loser"}
  BY <1>3 DEF IsKnown, IsOpen
<1>5. PICK home, away : home = C!Seated(p.home, p.homeSource) /\ away = C!Seated(p.away, p.awaySource)
  OBVIOUS
<1>6. home = SeatedBy(R, p.home, p.homeSource) /\ away = SeatedBy(R, p.away, p.awaySource)
  BY <1>4, <1>5, SeatedSame
<1>7. PICK w \in C!Verdicts(p, home, away) : Deciding(p, home, away, w)
  BY <1>1, <1>2, <1>5
<1>8. ~IsMain(p)
  <2>1. IsStage(p, k)
    BY <1>1 DEF IsKnockout
  <2>2. p.slot[1] \in {"W", "L", "GF"}
    BY <2>1, StageSlot DEF IsStage
  <2> QED BY <2>2 DEF IsMain
<1>9. IsVerdict(R, p, home, away, w)
  BY <1>7, <1>8, VerdictSame
<1>10. Grows(R, R2, p.slot, home, away, w)
  BY <1>7, DecidingGrows
<1>11. /\ p.slot \notin DOMAIN R
       /\ p.homeSource # NoSource => p.homeSource.slot \in DOMAIN R
       /\ p.awaySource # NoSource => p.awaySource.slot \in DOMAIN R
  <2>1. C!NoSource = NoSource
    BY DEF C!NoSource, NoSource
  <2>2. C!Ready(p)
    BY <1>1, <1>2
  <2> QED BY <2>1, <2>2 DEF C!Ready, Results
<1>12. IsPlayed(A, R, p, home, away, w, R2)
  BY <1>1, <1>6, <1>9, <1>10, <1>11 DEF IsPlayed
<1> QED BY <1>12

-----------------------------------------------------------------------------
(* Knockouts: the rows themselves, when the tournament has finished *)

(* A match that is decided was played, or there was nothing to play. *)
WithoutGame(v) ==
    \/ v.home = NoOne \/ v.away = NoOne
    \/ /\ v.conditionalOn # <<>> /\ Ended(v.conditionalOn)
       /\ match[v.conditionalOn].winner = v.home

PlayedOut == \A s \in DOMAIN match : MatchDone(s) => Only(s) \in DOMAIN battle \/ WithoutGame(match[s].pairing)

(* The ended matches stay as they are. *)
EndedStay == \A s : Ended(s) => Ended(s)' /\ (match[s])' = match[s]

LEMMA WithoutGameStill ==
    ASSUME EndedStay, NEW v, WithoutGame(v)
    PROVE  WithoutGame(v)'
<1>1. PICK c : c = v.conditionalOn
  OBVIOUS
<1>2. Ended(c) => Ended(c)' /\ match'[c] = match[c]
  BY DEF EndedStay
<1> QED BY <1>1, <1>2 DEF WithoutGame

LEMMA BattlesRemain ==
    ASSUME NEW t \in Entered, WellDrawn(t), Held(t), [Next]_vars
    PROVE  DOMAIN battle \subseteq DOMAIN battle'
<1>1. CASE UNCHANGED battle
  BY <1>1
<1>2. ASSUME NEW b, NEW row, battle' = Extend(battle, b, row) PROVE DOMAIN battle \subseteq DOMAIN battle'
  BY <1>2 DEF Extend
<1>3. ASSUME NEW l \in Loop, Statement(l) PROVE DOMAIN battle \subseteq DOMAIN battle'
  <2>1. CASE InsertBattle(l)
    BY SMTT(60), ZenonT(60), <1>2, <2>1 DEF InsertBattle
  <2>2. CASE ~InsertBattle(l)
    BY ZenonT(60), SMTT(60), <1>1, <1>3, <2>2
       DEF Statement, GenerateSchedule, BeginSchedule, InsertMatch, DecideBye, StartTournament,
     MaterializeBattles, EnqueueBattle, CloseSeries, ReadMatch, ReadSeries, CloseMatch,
     ResolveDependents, ReadSource, ReadCandidates, FeedDependent, CheckCondition, WalkOver, CheckExisting,
     NextSwissRound, CheckRound, ReadTable, InsertPairing,
     ConcludeResult, EnqueueStandings, CheckMatches, CheckBattles, ReadChampion, FinishTournament,
     CompleteJob, FailJob, EndJob
  <2> QED BY <2>1, <2>2
<1>4. CASE \E l \in Loop : Crash(l) \/ StatementFails(l)
  BY <1>1, <1>4 DEF Crash, StatementFails
<1>5. CASE \E l \in Loop, j \in DOMAIN jobs : Claim(l, j)
  BY <1>1, <1>5 DEF Claim
<1>6. CASE \E b \in DOMAIN battle : EngineEnds(b)
  <2>1. battle \in [DOMAIN battle -> Battles]
    BY DEF Held, Typed
  <2>2. ASSUME NEW b, NEW row, battle' = [battle EXCEPT ![b] = row] PROVE DOMAIN battle \subseteq DOMAIN battle'
    BY <2>1, <2>2
  <2>3. PICK b \in DOMAIN battle : EngineEnds(b)
    BY <1>6
  <2>4. CASE BattleFails(b)
    <3>1. battle' = [battle EXCEPT ![b] = [battle[b] EXCEPT !.status = "failed"]]
      BY <2>4 DEF BattleFails
    <3> QED BY <2>2, <3>1
  <2>5. CASE \E o \in Outcomes : PlayBattle(b, o)
    BY <2>2, <2>5 DEF PlayBattle
  <2> QED BY <2>3, <2>4, <2>5 DEF EngineEnds
<1>7. CASE UNCHANGED vars
  BY <1>1, <1>7 DEF vars
<1> QED BY <1>3, <1>4, <1>5, <1>6, <1>7 DEF Next

LEMMA DecidedStays ==
    ASSUME NEW s, ~MatchDone(s), NEW w, DecidedRow(s, w)
    PROVE  EndedStay
<1> SUFFICES ASSUME NEW u, Ended(u) PROVE Ended(u)' /\ (match[u])' = match[u]
  BY DEF EndedStay
<1>1. u # s /\ u \in DOMAIN match
  BY DEF Ended
<1>2. u \in DOMAIN match' /\ match'[u] = match[u]
  BY <1>1 DEF DecidedRow
<1> QED BY <1>2 DEF Ended, MatchDone

LEMMA UndecidedStays ==
    ASSUME Undecided
    PROVE  EndedStay
  BY DEF Undecided, EndedStay, Ended, MatchDone

LEMMA SaidWithoutGame ==
    ASSUME NEW s, NEW w, MaySay(s, w), Only(s) \notin DOMAIN battle
    PROVE  WithoutGame(match[s].pairing)
  BY DEF MaySay, WithoutGame

LEMMA PlayedOutKept ==
    ASSUME NEW t \in Entered, WellDrawn(t), Held(t), PlayedOut, [Next]_vars
    PROVE  PlayedOut'
<1>1. DOMAIN battle \subseteq DOMAIN battle'
  BY BattlesRemain
<1>2. DecidesInTurn \/ Undecided
  BY NextPlays
<1>3. CASE DecidesInTurn
  <2>1. PICK s, w : s \in DOMAIN match /\
            ~MatchDone(s) /\ ~Pending(match[s].pairing) /\ MaySay(s, w) /\ DecidedRow(s, w)
    BY <1>3 DEF DecidesInTurn
  <2>2. EndedStay
    BY <2>1, DecidedStays
  <2>3. ASSUME NEW u \in DOMAIN match', MatchDone(u)', Only(u) \notin DOMAIN battle'
        PROVE  WithoutGame(match[u].pairing)'
    <3>1. PICK v : v = match[u].pairing
      OBVIOUS
    <3>2. u \in DOMAIN match /\ match'[u].pairing = v /\ Only(u) \notin DOMAIN battle
      BY <1>1, <2>1, <2>3, <3>1 DEF DecidedRow
    <3>3. CASE u = s
      <4>1. WithoutGame(v)
        BY <2>1, <3>1, <3>2, <3>3, SaidWithoutGame
      <4>2. WithoutGame(v)'
        BY <2>2, <4>1, WithoutGameStill
      <4> QED BY <3>2, <4>2 DEF WithoutGame
    <3>4. CASE u # s
      <4>1. MatchDone(u)
        BY <2>1, <2>3, <3>2, <3>4 DEF DecidedRow, MatchDone
      <4>2. WithoutGame(v)
        BY <3>1, <3>2, <4>1 DEF PlayedOut
      <4>3. WithoutGame(v)'
        BY <2>2, <4>2, WithoutGameStill
      <4> QED BY <3>2, <4>3 DEF WithoutGame
    <3> QED BY <3>3, <3>4
  <2> QED BY <2>3 DEF PlayedOut
<1>4. CASE Undecided
  <2>1. EndedStay
    BY <1>4, UndecidedStays
  <2>2. ASSUME NEW u \in DOMAIN match', MatchDone(u)', Only(u) \notin DOMAIN battle'
        PROVE  WithoutGame(match[u].pairing)'
    <3>1. u \in DOMAIN match /\ MatchDone(u) /\ match'[u] = match[u]
      BY <1>4, <2>2 DEF Undecided, MatchDone
    <3>2. WithoutGame(match[u].pairing)
      BY <1>1, <2>2, <3>1 DEF PlayedOut
    <3>3. WithoutGame(match[u].pairing)'
      <4>1. PICK v : v = match[u].pairing /\ v = match'[u].pairing
        BY <3>1
      <4>2. WithoutGame(v)'
        BY <2>1, <3>2, <4>1, WithoutGameStill
      <4> QED BY <4>1, <4>2 DEF WithoutGame
    <3> QED BY <3>3
  <2> QED BY <2>2 DEF PlayedOut
<1> QED BY <1>2, <1>3, <1>4

(* The champion of a knockout is who won its final. *)
FinalWins(t, c) == Inserted(t) /\ \E p \in ScheduleOf(t) : p.final /\ c = match[p.slot].winner

Knocked(t) == IsKnockoutFormat(t.format) => \A c : Named(c) => FinalWins(t, c)

LEMMA FinalIs ==
    ASSUME NEW t \in Entered, IsKnockoutFormat(t.format)
    PROVE  \E f \in ScheduleOf(t) : /\ f.final /\ f = CHOOSE p \in ScheduleOf(t) : p.final
                                    /\ \A p \in ScheduleOf(t) : p.final => p = f
<1>1. PICK A, X, k, lives : /\ A = ScheduleOf(t) /\ X = Range(t.entries)
                            /\ k = Log2Up(Len(t.entries)) /\ lives = LivesIn(t.format)
  OBVIOUS
<1>2. StartsWell(A, X, k, lives)
  BY <1>1, EntersField, DrawStartsWell
<1>3. PICK f : EndsAt(A, f, lives)
  BY <1>2 DEF StartsWell
<1> QED BY <1>1, <1>3 DEF EndsAt, EndsWith

LEMMA FinalWinsStill ==
    ASSUME NEW t, UNCHANGED match, NEW c, FinalWins(t, c)
    PROVE  FinalWins(t, c)'
  BY DEF FinalWins, Inserted

LEMMA ChampionOfFinal ==
    ASSUME NEW t \in Entered, WellDrawn(t), IsKnockoutFormat(t.format), Held(t),
           NEW l \in Loop, ReadChampion(l), NEW c, c = loop'[l].winner
    PROVE  FinalWins(t, c)
<1>1. loop[l].pc = "champion"
  BY DEF ReadChampion, At
<1>2. AllDecided /\ Inserted(t)
  <2>1. loop[l].job # ScheduleJob /\ loop[l].pc # "idle"
    BY <1>1, NotScheduling
  <2>2. AllDecided /\ DOMAIN battle # {}
    BY <1>1, <2>1, ResultGood1
  <2> QED BY <2>2 DEF Held, BattlesGood
<1>3. PICK f \in ScheduleOf(t) : f.final
  BY FinalIs
<1>4. ASSUME NEW m \in DOMAIN match
      PROVE  \E p \in ScheduleOf(t) : p.slot = m /\ (match[m].pairing.final <=> p.final)
  <2>1. IsVersion(t, match[m].pairing) /\ match[m].pairing.slot = m
    BY <1>4, RowIs DEF MatchGood
  <2> QED BY <2>1, OriginOf DEF IsVersion
<1>5. PICK finals : finals = {m \in DOMAIN match : match[m].pairing.final /\ MatchDone(m)}
  BY ZenonT(60), SMTT(60)
<1>6. finals # {}
  <2>1. f.slot \in DOMAIN match
    BY <1>2, <1>3 DEF Inserted, Slots, SlotsOf
  <2>2. PICK p \in ScheduleOf(t) : p.slot = f.slot /\ (match[f.slot].pairing.final <=> p.final)
    BY <1>4, <2>1
  <2>3. p = f
    BY <1>3, <2>2 DEF WellDrawn
  <2> QED BY <1>2, <1>3, <1>5, <2>1, <2>2, <2>3 DEF AllDecided
<1>7. PICK id \in {match[m].winner : m \in finals} :
          loop' = [loop EXCEPT ![l] = [loop[l] EXCEPT !.pc = "finish", !.winner = id]]
  BY ZenonT(60), SMTT(60), <1>5, <1>6 DEF ReadChampion, Continue
<1>8. c = id
  BY <1>7, LoopIs DEF Loops
<1>9. PICK m \in finals : c = match[m].winner
  BY <1>7, <1>8
<1>10. PICK p \in ScheduleOf(t) : p.slot = m /\ p.final
  BY <1>4, <1>5, <1>9
<1> QED BY <1>2, <1>9, <1>10 DEF FinalWins

LEMMA KnockedKept ==
    ASSUME NEW t \in Entered, WellDrawn(t), Held(t), Held(t)', Knocked(t), [Next]_vars
    PROVE  Knocked(t)'
<1> SUFFICES ASSUME IsKnockoutFormat(t.format), NEW c, Named(c)' PROVE FinalWins(t, c)'
  BY DEF Knocked, IsKnockoutFormat
<1>1. Settled /\ FinalWins(t, c) => FinalWins(t, c)'
  BY SettledNext, FinalWinsStill
<1>2. ASSUME NEW l \in Loop, loop'[l].pc = "finish", loop'[l].winner = c PROVE FinalWins(t, c)'
  <2>1. CASE loop'[l] = loop[l]
    <3>1. Named(c) /\ Settled
      BY <1>2, <2>1, SettledIs DEF Named
    <3> QED BY <1>1, <3>1 DEF Knocked
  <2>2. CASE loop'[l] # loop[l]
    <3>1. ReadChampion(l)
      BY <1>2, <2>2, OnlyMine
    <3>2. FinalWins(t, c) /\ UNCHANGED match
      BY ZenonT(60), SMTT(60), <1>2, <3>1, ChampionOfFinal DEF ReadChampion
    <3> QED BY <3>2, FinalWinsStill
  <2> QED BY <2>1, <2>2
<1>3. ASSUME tournament'.state = "finished", tournament'.champion = c PROVE FinalWins(t, c)'
  <2>1. CASE tournament' = tournament
    <3>1. Named(c) /\ Settled
      BY <1>3, <2>1, SettledIs DEF Named
    <3> QED BY <1>1, <3>1 DEF Knocked
  <2>2. CASE tournament' # tournament
    <3>1. PICK l \in Loop : FinishTournament(l)
      BY <1>3, <2>2, Finisher
    <3>2. loop[l].winner = c /\ loop[l].pc = "finish"
      BY <1>3, <3>1 DEF FinishTournament, At, Held, Typed, Tournaments
    <3>3. Named(c) /\ Settled
      BY <3>2, SettledIs DEF Named
    <3> QED BY <1>1, <3>3 DEF Knocked
  <2> QED BY <2>1, <2>2
<1> QED BY <1>2, <1>3 DEF Named

(* The defeats that the rows show are the defeats in the calendar. *)
LEMMA GamesAre ==
    ASSUME NEW t \in Entered, Held(t), NEW m
    PROVE  GamesOf(m) # {} <=> Only(m) \in DOMAIN battle
<1>1. ASSUME NEW b \in GamesOf(m) PROVE b = Only(m) /\ b \in DOMAIN battle
  <2>1. b \in DOMAIN battle /\ b[1] = m
    BY DEF GamesOf
  <2>2. b = Only(b[1])
    BY <2>1, BattleIs
  <2> QED BY <2>1, <2>2
<1>2. Only(m)[1] = m
  BY DEF Only
<1>3. ASSUME Only(m) \in DOMAIN battle PROVE Only(m) \in GamesOf(m)
  BY <1>2, <1>3 DEF GamesOf
<1> QED BY <1>1, <1>3

(* A match has a game if and only if its defeat counts. *)
LEMMA PlayedCounts ==
    ASSUME NEW t \in Entered, WellDrawn(t), Held(t), PlayedOut, NEW A, A = ScheduleOf(t),
           NEW R, R = Results, NEW m \in DOMAIN R
    PROVE  Only(m) \in DOMAIN battle <=> Counts(A, R, m)
<1>1. /\ m \in DOMAIN match /\ MatchDone(m)
      /\ \A c : Ended(c) <=> c \in DOMAIN R
      /\ \A c \in DOMAIN R : R[c] = Score(match[c])
  <2>1. DOMAIN Results = {s \in DOMAIN match : MatchDone(s)} /\ \A c \in DOMAIN Results : Results[c] = Score(match[c])
    BY ResultsAre DEF Held
  <2> QED BY <2>1 DEF Ended
<1>2. PICK v, p : v = match[m].pairing /\ p = Origin(t, m)
  OBVIOUS
<1>3. v.slot = m /\ IsVersion(t, v) /\ m \in Slots(t)
  BY <1>1, <1>2, RowIs DEF MatchGood
<1>4. p \in A /\ p.slot = m /\ v.conditionalOn = p.conditionalOn
  BY <1>2, <1>3, OriginOf DEF IsVersion
<1>5. \A q \in A : q.slot = m => q = p
  BY <1>4 DEF WellDrawn
<1>6. R[m].home = v.home /\ R[m].away = v.away
  BY <1>1, <1>2 DEF Score
<1>7. \A c \in DOMAIN R : R[c].winner = match[c].winner
  BY <1>1 DEF Score
<1>8. Counts(A, R, m) <=> v.home # NoOne /\ v.away # NoOne /\ ~IsFormal(R, p, v.home)
  BY <1>4, <1>5, <1>6 DEF Counts
<1>9. ASSUME Only(m) \in DOMAIN battle PROVE Counts(A, R, m)
  <2>1. Playable(v)
    BY <1>1, <1>2, <1>9 DEF Held, BattlesGood
  <2>2. v.home # NoOne /\ v.away # NoOne
    BY <2>1 DEF Playable
  <2>3. ~IsFormal(R, p, v.home)
    BY <1>1, <1>4, <1>7, <2>1 DEF Playable, NotFormal, IsFormal
  <2> QED BY <1>8, <2>2, <2>3
<1>10. ASSUME Only(m) \notin DOMAIN battle PROVE ~Counts(A, R, m)
  <2>1. WithoutGame(v)
    BY <1>1, <1>2, <1>10 DEF PlayedOut
  <2> QED BY <1>1, <1>4, <1>7, <1>8, <2>1 DEF WithoutGame, IsFormal
<1> QED BY <1>9, <1>10

LEMMA LossesAre ==
    ASSUME NEW t \in Entered, WellDrawn(t), Held(t), PlayedOut, NEW A, A = ScheduleOf(t),
           NEW R, R = Results, NEW X, Sound(X, R), SidesDiffer(R), NEW id, id # NoOne
    PROVE  Losses(id) = LostBy(A, R, id)
<1>1. DOMAIN R = {s \in DOMAIN match : MatchDone(s)} /\ \A m \in DOMAIN R : R[m] = Score(match[m])
  <2>1. DOMAIN Results = {s \in DOMAIN match : MatchDone(s)} /\ \A c \in DOMAIN Results : Results[c] = Score(match[c])
    BY ResultsAre DEF Held
  <2> QED BY <2>1
<1>2. ASSUME NEW m \in DOMAIN R
      PROVE  m \in Losses(id) <=> m \in LostBy(A, R, id)
  <2>1. m \in DOMAIN match /\ MatchDone(m)
    BY SMTT(60), ZenonT(60), <1>1, <1>2
  <2>2. GamesOf(m) # {} <=> Counts(A, R, m)
    BY <1>2, GamesAre, PlayedCounts
  <2>3. PICK home, away, w : home = R[m].home /\ away = R[m].away /\ w = R[m].winner
    OBVIOUS
  <2>4. match[m].pairing.home = home /\ match[m].pairing.away = away /\ match[m].winner = w
    BY <1>1, <1>2, <2>3 DEF Score
  <2>5. w \in {home, away} /\ (home = away => home = NoOne)
    BY <1>2, <2>3 DEF Sound, SoundMatch, SidesDiffer
  <2>6. id \in Sides(m) <=> id = home \/ id = away
    BY <2>4 DEF Sides
  <2>7. BeatenIn(R[m]) = IF home = w THEN away ELSE home
    BY <2>3 DEF BeatenIn
  <2>8. Counts(A, R, m) => home # NoOne /\ away # NoOne
    BY <2>3 DEF Counts
  <2>9. Counts(A, R, m) => (id \in Sides(m) /\ w # id <=> BeatenIn(R[m]) = id)
    BY <2>5, <2>6, <2>7, <2>8
  <2>10. m \in Losses(id) <=> GamesOf(m) # {} /\ id \in Sides(m) /\ w # id
    BY <2>1, <2>4 DEF Losses
  <2>11. m \in LostBy(A, R, id) <=> Counts(A, R, m) /\ BeatenIn(R[m]) = id
    BY <1>2 DEF LostBy
  <2> QED BY <2>2, <2>9, <2>10, <2>11
<1>3. Losses(id) \subseteq DOMAIN R
  BY <1>1 DEF Losses
<1>4. LostBy(A, R, id) \subseteq DOMAIN R
  BY DEF LostBy
<1> QED BY <1>2, <1>3, <1>4

(* What the theorem rests on. *)
Beaten(t) ==
    /\ IsRowOf(t) /\ Held(t) /\ Knocked(t) /\ PlayedOut
    /\ SidesPlay(t, Schedule, Results)

EInv == \E t \in Entered : Beaten(t)

LEMMA FairlyEliminated ==
    ASSUME SingleGames, NEW t \in Entered, Beaten(t)
    PROVE  EliminatedFairly
<1>1. WellDrawn(t)
  BY DrawnWell DEF SingleGames
<1>2. Held(t) /\ Knocked(t) /\ PlayedOut
  BY DEF Beaten
<1>3. tournament.format = t.format /\ tournament.entries = t.entries
  BY <1>2 DEF Held, Typed, Tournaments
<1>4. PICK c, lives, X : c = tournament.champion /\ lives = LivesIn(t.format) /\ X = Range(t.entries)
  OBVIOUS
<1>5. Ids = X /\ (IF tournament.format = "single_elimination" THEN 1 ELSE 2) = lives
  BY <1>3, <1>4 DEF Ids, LivesIn
<1> SUFFICES ASSUME Finished, IsKnockoutFormat(t.format), NEW id \in X
             PROVE  IF id = c THEN Cardinality(Losses(id)) < lives ELSE Cardinality(Losses(id)) = lives
  BY <1>3, <1>4, <1>5 DEF EliminatedFairly, IsKnockoutFormat
<1>6. PICK A, R : A = ScheduleOf(t) /\ R = Results
  OBVIOUS
<1>7. SidesPlay(t, A, R)
  <2>1. Schedule = A
    BY <1>2, <1>6, ScheduleIs DEF Held
  <2> QED BY <1>6, <2>1 DEF Beaten
<1>8. FinalWins(t, c)
  BY <1>2, <1>4 DEF Knocked, Named, Finished
<1>9. AllDecided
  BY <1>2 DEF Held, FinishedGood, Finished
<1>10. DOMAIN R = {s \in DOMAIN match : MatchDone(s)} /\ \A m \in DOMAIN R : R[m] = Score(match[m])
  <2>1. DOMAIN Results = {s \in DOMAIN match : MatchDone(s)} /\ \A m \in DOMAIN Results : Results[m] = Score(match[m])
    BY ZenonT(60), SMTT(60), <1>2, ResultsAre DEF Held
  <2> QED BY <1>6, <2>1
<1>11. \A p \in A : p.slot \in DOMAIN R
  BY <1>6, <1>8, <1>9, <1>10 DEF FinalWins, Inserted, Slots, SlotsOf, AllDecided
<1>12. AllOut(A, X, R, lives)
  <2>1. PlaysKnockout(t, A, R)
    BY <1>7 DEF SidesPlay
  <2> QED BY <1>4, <1>6, <1>11, <2>1, EntersField, KnockoutEnds
<1>13. R[(CHOOSE p \in A : p.final).slot].winner = c
  <2>1. PICK f \in A : f = (CHOOSE p \in A : p.final) /\ \A p \in A : p.final => p = f
    BY <1>6, FinalIs
  <2>2. c = match[f.slot].winner
    BY <1>6, <1>8, <2>1 DEF FinalWins
  <2>3. R[f.slot].winner = c
    BY <1>10, <1>11, <2>1, <2>2 DEF Score
  <2> QED BY <2>1, <2>3
<1>14. Losses(id) = LostBy(A, R, id)
  <2>1. InPlay(A, X, R, Log2Up(Len(t.entries))) /\ SidesDiffer(R)
    BY <1>4, <1>7 DEF SidesPlay, PlaysKnockout
  <2>2. Sound(X, R)
    BY <2>1 DEF InPlay
  <2>3. id # NoOne
    BY <1>4, EntersField DEF IsEntry, IsField
  <2> QED BY <1>1, <1>2, <1>6, <2>1, <2>2, <2>3, LossesAre
<1> QED BY <1>12, <1>13, <1>14 DEF AllOut

(* In the rows of a tournament that has finished everybody but the         *)
(* champion of a single elimination has lost one match that was played,    *)
(* of a double elimination two, and the champion less: no walkover, no     *)
(* formality of the bracket reset and no second handler of the same result *)
(* costs or saves anybody a life (formats.ts, results.ts).                 *)
THEOREM EliminatesFairly ==
    ASSUME SingleGames
    PROVE  Spec => []EliminatedFairly
<1>1. Init => EInv
  <2> SUFFICES ASSUME Init PROVE EInv
    OBVIOUS
  <2>1. PICK t \in Entered : IsRowOf(t) /\ tournament = [format |-> t.format, entries |-> t.entries, owner |-> t.owner,
                                games |-> t.games, state |-> "closed", champion |-> NoOne]
    BY DEF Init, IsRowOf
  <2>2. WellDrawn(t)
    BY DrawnWell DEF SingleGames
  <2>3. Held(t)
    BY <2>1, <2>2, InitHolds DEF Init
  <2>4. DOMAIN match = {} /\ tournament.state = "closed" /\ \A l \in Loop : loop[l].pc = "idle"
    BY <2>1, IdleGood DEF Init
  <2>5. Knocked(t) /\ PlayedOut
    BY <2>4 DEF Knocked, Named, PlayedOut
  <2>6. PICK A, R : A = Schedule /\ R = Results
    OBVIOUS
  <2>7. A = ScheduleOf(t) /\ DOMAIN R = {}
    BY <2>1, <2>4, <2>6, EntryIs DEF ScheduleOf, Results
  <2>8. PlaysKnockout(t, A, R)
    BY <2>7, EntersField, KnockoutStarts
  <2>9. SidesPlay(t, A, R)
    BY <2>7, <2>8 DEF SidesPlay, SidesDiffer
  <2> QED BY <2>1, <2>3, <2>5, <2>6, <2>9 DEF EInv, Beaten
<1>2. EInv /\ [Next]_vars => EInv'
  <2> SUFFICES ASSUME EInv, [Next]_vars PROVE EInv'
    OBVIOUS
  <2>1. PICK t \in Entered : Beaten(t)
    BY DEF EInv
  <2>2. WellDrawn(t) /\ t.format # "swiss" /\ t.games = 1
    BY DrawnWell DEF SingleGames
  <2>3. IsRowOf(t) /\ Held(t) /\ Knocked(t) /\ PlayedOut
    BY <2>1 DEF Beaten
  <2>4. Held(t)'
    BY <2>2, <2>3, NextKeeps, StutterKeeps
  <2>5. Knocked(t)' /\ PlayedOut'
    BY <2>2, <2>3, <2>4, KnockedKept, PlayedOutKept
  <2>6. Schedule = ScheduleOf(t)
    BY <2>3, EntryIs DEF ScheduleOf
  <2>7. IsRowOf(t)' /\ Schedule' = Schedule
    BY <2>3, RowKept, DrawnKept
  <2>8. PICK A, R, R2 : A = Schedule /\ R = Results /\ R2 = Results'
    OBVIOUS
  <2>9. SidesPlay(t, A, R)
    BY <2>1, <2>8 DEF Beaten
  <2>10. [C!CalendarNext]_<<Drawing(tournament), Schedule, Results>>
    <3>1. TInv
      BY <2>3 DEF TInv
    <3> QED BY <3>1, StepKeepsCalendar
  <2>11. SidesPlay(t, A, R2)
    <3>1. CASE C!CalendarNext
      <4>1. IsEntry(t.entries)
        BY EntersField
      <4>2. ASSUME IsKnockoutFormat(t.format) PROVE \E p, home, away, w : IsPlayed(A, R, p, home, away, w, R2)
        <5>1. IsKnockout(A, Range(t.entries), Log2Up(Len(t.entries)))
          BY <2>6, <2>8, <4>1, <4>2, DrawStartsWell DEF StartsWell
        <5> QED BY <2>8, <3>1, <5>1, KeptIsPlayed
      <4> QED BY <2>6, <2>8, <2>9, <4>1, <4>2, SidesGoOn
    <3>2. CASE Results' = Results
      BY <2>8, <2>9, <3>2
    <3> QED BY <2>10, <3>1, <3>2
  <2>12. SidesPlay(t, Schedule', Results')
    BY <2>7, <2>8, <2>11
  <2>13. SidesPlay(t, Schedule, Results)'
    BY <2>12 DEF SidesPlay, PlaysKnockout
  <2> QED BY <2>4, <2>5, <2>7, <2>13 DEF EInv, Beaten
<1>3. EInv => EliminatedFairly
  BY FairlyEliminated DEF EInv
<1> QED BY <1>1, <1>2, <1>3, PTL DEF Spec
=============================================================================
