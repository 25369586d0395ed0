--------------------------- MODULE SpectateGateway ---------------------------
(***************************************************************************)
(* The live feed of one battle (spectate/gateway.ts) and the executor that *)
(* attaches and detaches it (engine-executor.ts), in one process: each     *)
(* callback of the event loop is an action.                                *)
(*                                                                         *)
(* Time counts polls of the feed.  Timers fire in their unit, in the order *)
(* of their deadlines; those set for a backlog have durations of their own *)
(* (the clock moves while they are set), so messages of one poll may swap. *)
(*                                                                         *)
(* A message is its place in the log of its feed; the history of the code  *)
(* is the end of the log that is not due.  Layers for debugging are left   *)
(* out: nobody provides them.                                              *)
(***************************************************************************)
EXTENDS Integers, Sequences, FiniteSets, FiniteSetsExt

CONSTANTS
    Delays,             \* spectator.delaySeconds: of the rules, or visible
    DetachBase,         \* SPECTATE_DETACH_BASE_MS
    MaxClients,         \* maxClientsPerBattle
    Ticket,
    Expiry,             \* when each ticket expires
    PurgeAfter,         \* how long a used ticket is remembered after that
    Spectator,          \* connections
    MaxRuns,            \* executions of the battle in this process
    MaxSnapshots,       \* bounds the snapshots of all runs
    MaxEvents,          \* bounds their events
    MaxTime             \* bounds the clock

ASSUME SpectateAssumption ==
    /\ Delays \subseteq Nat
    /\ DetachBase \in Nat \ {0, 1}
    /\ {MaxClients, PurgeAfter, MaxRuns, MaxSnapshots, MaxEvents, MaxTime} \subseteq Nat
    /\ Expiry \in [Ticket -> Nat]

Run == 1..MaxRuns

VARIABLES
    now,
    delay,      \* delayMs of this battle
    battle,     \* of each run: [snapshots, events, result], when they were made
    phase,      \* the last run: idle, playing, over
    runs,       \* how many there were
    feed,       \* of each run: [pumping, polled, snapshots, events, finished, log]
    attached,   \* feeds: the run that has the battle's entry, or 0
    detach,     \* the deadline of each run's detach, or 0
    conn,       \* the connections
    used        \* usedTickets

vars == <<now, delay, battle, phase, runs, feed, attached, detach, conn, used>>

Never == -1
NoBattle == [snapshots |-> <<>>, events |-> <<>>, result |-> Never]
NoFeed == [pumping |-> FALSE, polled |-> 0, snapshots |-> 0, events |-> 0,
           finished |-> FALSE, log |-> <<>>]
NoConn == [open |-> FALSE, run |-> 0, snapshot |-> 0, finished |-> FALSE,
           from |-> 0, inbox |-> <<>>, timers |-> {}]

Init ==
    /\ now = 0
    /\ delay \in Delays
    /\ battle = [r \in Run |-> NoBattle]
    /\ phase = "idle"
    /\ runs = 0
    /\ feed = [r \in Run |-> NoFeed]
    /\ attached = 0
    /\ detach = [r \in Run |-> 0]
    /\ conn = [s \in Spectator |-> NoConn]
    /\ used = {}

-----------------------------------------------------------------------------
(* The executor *)

Entry(kind, n) == [at |-> now, kind |-> kind, n |-> n]

Produced(what) == MapThenSumSet(LAMBDA r : Len(battle[r][what]), Run)

(* attachBattle at the start of a run, over whatever feed the battle has:   *)
(* what was there before is sent by nobody, and with a delay its last      *)
(* snapshot is dated now.                                                  *)
Attach(before) ==
    LET r == runs + 1 IN
    /\ phase # "playing" /\ runs < MaxRuns
    /\ Produced("snapshots") + before <= MaxSnapshots
    /\ runs' = r /\ phase' = "playing" /\ attached' = r
    /\ battle' = [battle EXCEPT ![r].snapshots = [i \in 1..before |-> now]]
    /\ feed' = [feed EXCEPT ![r] =
                   [NoFeed EXCEPT !.pumping = TRUE, !.polled = now, !.snapshots = before,
                       !.log = IF delay > 0 /\ before > 0 THEN <<Entry("snapshot", before)>>
                                                          ELSE <<>>]]
    /\ UNCHANGED <<now, delay, detach, conn, used>>

Produce ==
    /\ phase = "playing" /\ battle[runs].result = Never
    /\ \/ /\ Produced("snapshots") < MaxSnapshots
          /\ battle' = [battle EXCEPT ![runs].snapshots = Append(@, now)]
       \/ /\ Produced("events") < MaxEvents
          /\ battle' = [battle EXCEPT ![runs].events = Append(@, now)]
       \/ battle' = [battle EXCEPT ![runs].result = now]
    /\ UNCHANGED <<now, delay, phase, runs, feed, attached, detach, conn, used>>

(* Mutant: the delay of the spectators is not waited for. *)
DetachAtOnce == now + DetachBase

(* spectateDetachDelayMs. *)
DetachAt == now + DetachBase + delay

(* driver.run returns, or throws before the battle has a result; either way *)
(* the feed will be detached.                                              *)
EndRun ==
    /\ phase = "playing"
    /\ phase' = "over"
    /\ detach' = [detach EXCEPT ![runs] = DetachAt]
    /\ UNCHANGED <<now, delay, battle, runs, feed, attached, conn, used>>

-----------------------------------------------------------------------------
(* Connections *)

Open(s) == conn[s].open
Clients(r) == {s \in Spectator : Open(s) /\ conn[s].run = r}

(* trimHistory: how much of the log is due. *)
Due(r) == Cardinality({n \in DOMAIN feed[r].log : feed[r].log[n].at + delay <= now})

Upto(r, k, kind) == {n \in 1..k : feed[r].log[n].kind = kind}

(* dueSnapshot. *)
DueSnapshot(r) ==
    LET ns == Upto(r, Due(r), "snapshot") IN IF ns = {} THEN 0 ELSE feed[r].log[Max(ns)].n

DueResult(r) == Upto(r, Due(r), "result") # {}

(* Mutant: the delay is counted from the connection. *)
BacklogFromNow(r) ==
    {[due |-> now + delay, n |-> n, late |-> TRUE] : n \in (Due(r) + 1)..Len(feed[r].log)}

(* What is in the window of the delay, each message at its time. *)
Backlog(r) ==
    {[due |-> feed[r].log[n].at + delay, n |-> n, late |-> TRUE] :
        n \in (Due(r) + 1)..Len(feed[r].log)}

(* Mutant: the state of the battle now, whatever the delay. *)
WelcomeLive(r) ==
    [NoConn EXCEPT !.open = TRUE, !.run = r,
        !.snapshot = Len(battle[r].snapshots),
        !.finished = battle[r].result # Never,
        !.from = Due(r), !.timers = Backlog(r)]

(* init, and the backlog. *)
Welcome(r) ==
    LET new == [NoConn EXCEPT !.open = TRUE, !.run = r] IN
    IF delay > 0
    THEN [new EXCEPT !.snapshot = DueSnapshot(r), !.finished = DueResult(r),
                     !.from = Due(r), !.timers = Backlog(r)]
    ELSE [new EXCEPT !.snapshot = Len(battle[r].snapshots),
                     !.finished = battle[r].result # Never,
                     !.from = Len(feed[r].log)]

(* purgeUsedTickets. *)
Remembered == {t \in used : Expiry[t] + PurgeAfter >= now}

(* handleConnection with a ticket that is valid: it is used up even if the  *)
(* battle is not live or has too many spectators.                          *)
Connect(s, t) ==
    /\ ~Open(s)
    /\ now < Expiry[t]
    /\ t \notin Remembered
    /\ used' = Remembered \cup {t}
    /\ conn' = IF attached = 0 \/ Cardinality(Clients(attached)) >= MaxClients
               THEN conn
               ELSE [conn EXCEPT ![s] = Welcome(attached)]
    /\ UNCHANGED <<now, delay, battle, phase, runs, feed, attached, detach>>

(* Mutant: its timers go on. *)
LeaveTimers(s) ==
    /\ Open(s)
    /\ conn' = [conn EXCEPT ![s].open = FALSE]
    /\ UNCHANGED <<now, delay, battle, phase, runs, feed, attached, detach, used>>

(* dropClient: the timers are cleared; the viewer may come back. *)
Leave(s) ==
    /\ Open(s)
    /\ conn' = [conn EXCEPT ![s] = NoConn]
    /\ UNCHANGED <<now, delay, battle, phase, runs, feed, attached, detach, used>>

-----------------------------------------------------------------------------
(* The feed *)

(* What one poll finds: snapshots, events, and the result once. *)
New(r) ==
    LET b == battle[r]
        f == feed[r]
    IN   [i \in 1..(Len(b.snapshots) - f.snapshots) |-> Entry("snapshot", f.snapshots + i)]
      \o [i \in 1..(Len(b.events) - f.events) |-> Entry("event", f.events + i)]
      \o (IF b.result # Never /\ ~f.finished THEN <<Entry("result", 1)>> ELSE <<>>)

(* broadcast and sendTo: at once, or after the delay. *)
Sent(c, from, to) ==
    IF delay = 0
    THEN [c EXCEPT !.inbox = @ \o [i \in 1..(to - from) |-> from + i]]
    ELSE [c EXCEPT !.timers = @ \cup {[due |-> now + delay, n |-> n, late |-> FALSE] :
                                         n \in (from + 1)..to}]

Pump(r) ==
    LET log == feed[r].log \o New(r)
        over == battle[r].result # Never
    IN /\ feed[r].pumping /\ feed[r].polled < now
       /\ feed' = [feed EXCEPT ![r] =
                      [pumping |-> ~over, polled |-> now, finished |-> over, log |-> log,
                       snapshots |-> Len(battle[r].snapshots), events |-> Len(battle[r].events)]]
       /\ conn' = [s \in Spectator |-> IF s \in Clients(r)
                                       THEN Sent(conn[s], Len(feed[r].log), Len(log))
                                       ELSE conn[s]]
       /\ UNCHANGED <<now, delay, battle, phase, runs, attached, detach, used>>

(* The next timer of a connection; those of one poll are in order unless   *)
(* they are of a backlog.                                                  *)
Deliver(s, t) ==
    /\ t \in conn[s].timers /\ t.due <= now
    /\ \A u \in conn[s].timers : \/ t.due < u.due
                                 \/ t.due = u.due /\ (t.late \/ t.n <= u.n)
    /\ conn' = [conn EXCEPT ![s].timers = @ \ {t}, ![s].inbox = Append(@, t.n)]
    /\ UNCHANGED <<now, delay, battle, phase, runs, feed, attached, detach, used>>

(* detachBattle, for whatever feed the battle has by now. *)
Detach(r) ==
    /\ detach[r] # 0 /\ detach[r] <= now
    /\ detach' = [detach EXCEPT ![r] = 0]
    /\ attached' = 0
    /\ feed' = [q \in Run |-> IF q = attached THEN [feed[q] EXCEPT !.pumping = FALSE] ELSE feed[q]]
    /\ conn' = [s \in Spectator |-> IF attached # 0 /\ s \in Clients(attached)
                                    THEN NoConn ELSE conn[s]]
    /\ UNCHANGED <<now, delay, battle, phase, runs, used>>

(* Time counts from the first run, and passes when all that is due has     *)
(* fired.                                                                  *)
Tick ==
    /\ now < MaxTime /\ phase # "idle"
    /\ \A r \in Run : /\ feed[r].pumping => feed[r].polled = now
                      /\ detach[r] = 0 \/ detach[r] > now
    /\ \A s \in Spectator : \A t \in conn[s].timers : t.due > now
    /\ now' = now + 1
    /\ UNCHANGED <<delay, battle, phase, runs, feed, attached, detach, conn, used>>

-----------------------------------------------------------------------------

Next ==
    \/ \E before \in 0..1 : Attach(before)
    \/ Produce \/ EndRun
    \/ \E s \in Spectator, t \in Ticket : Connect(s, t)
    \/ \E s \in Spectator : Leave(s) \/ \E t \in conn[s].timers : Deliver(s, t)
    \/ \E r \in Run : Pump(r) \/ Detach(r)
    \/ Tick

Spec == Init /\ [][Next]_vars

-----------------------------------------------------------------------------
(* Properties *)

(* The shape of the state; only who is connected has timers. *)
TypeOK ==
    /\ now \in 0..MaxTime /\ delay \in Delays
    /\ phase \in {"idle", "playing", "over"} /\ runs \in 0..MaxRuns /\ attached \in 0..runs
    /\ \A r \in Run : /\ feed[r].snapshots <= Len(battle[r].snapshots)
                      /\ feed[r].events <= Len(battle[r].events)
    /\ \A s \in Spectator : conn[s].timers # {} => Open(s)
    /\ used \subseteq Ticket

Inbox(s) == {conn[s].inbox[i] : i \in DOMAIN conn[s].inbox}
ToCome(s) == {t.n : t \in conn[s].timers}

(* What init has already told of an entry of the log. *)
Told(s, n) ==
    LET entry == feed[conn[s].run].log[n] IN
    CASE entry.kind = "snapshot" -> entry.n <= conn[s].snapshot
      [] entry.kind = "event"    -> n <= conn[s].from
      [] entry.kind = "result"   -> conn[s].finished

(* delay-init.test.ts:13: without gaps.  Whenever a spectator joins, each   *)
(* message of the battle is in the init, has come, or is scheduled;        *)
(* nothing comes twice, and the polls come in their order, also where the  *)
(* backlog of a latecomer meets what is broadcast since.                   *)
NothingMissing ==
    \A s \in Spectator : Open(s) =>
       /\ \A n \in DOMAIN feed[conn[s].run].log :
             Told(s, n) \/ n \in Inbox(s) \/ n \in ToCome(s)
       /\ Inbox(s) \cap ToCome(s) = {}
       /\ Cardinality(Inbox(s)) = Len(conn[s].inbox)
       /\ \A i, j \in DOMAIN conn[s].inbox :
             i < j => LET log == feed[conn[s].run].log
                      IN log[conn[s].inbox[i]].at <= log[conn[s].inbox[j]].at

MadeAt(r, entry) ==
    CASE entry.kind = "snapshot" -> battle[r].snapshots[entry.n]
      [] entry.kind = "event"    -> battle[r].events[entry.n]
      [] entry.kind = "result"   -> battle[r].result

(* gateway.ts:287: nobody sees the battle before its delay, neither by      *)
(* connecting nor in the stream.                                           *)
NeverEarly ==
    [][\A s \in Spectator :
          /\ ~Open(s) /\ conn'[s].open =>
                LET r == conn'[s].run IN
                /\ conn'[s].snapshot # 0 =>
                      battle[r].snapshots[conn'[s].snapshot] + delay <= now
                /\ conn'[s].finished => battle[r].result + delay <= now
          /\ \A i \in (Len(conn[s].inbox) + 1)..Len(conn'[s].inbox) :
                LET r == conn[s].run IN
                MadeAt(r, feed'[r].log[conn'[s].inbox[i]]) + delay <= now]_vars

(* engine-executor.ts:83: the detach waits for the delay of the spectators. *)
(* A detach that finds the battle over finds all that it made, up to its    *)
(* result, logged and delivered to whoever it drops; the only one that cuts *)
(* something off is what an earlier execution has left behind and a retry   *)
(* was too fast for (RunningIsLive has the reason).                        *)
EndDelivered ==
    [][\A r \in Run, s \in Spectator :
          detach[r] # 0 /\ detach'[r] = 0 /\ attached # 0 /\ s \in Clients(attached)
             /\ battle[attached].result # Never
          => \/ r < attached
             \/ /\ New(attached) = <<>>
                /\ conn[s].timers = {}
                /\ \/ conn[s].finished
                   \/ \E n \in Inbox(s) : feed[attached].log[n].kind = "result"]_vars

(* engine-executor.ts:139: while a run is on, its battle is live. *)
RunningIsLive == phase = "playing" => attached = runs
=============================================================================
