----------------------- MODULE SpectateGatewayProofs -----------------------
(***************************************************************************)
(* Proofs about SpectateGateway, for any delay, number of runs, spectators,*)
(* tickets and messages, and any length of time: what a feed has logged of *)
(* its battle, and when (GoodFeed); which of it a connection has been told,*)
(* has received and has timers for (GoodConn).  From these: nothing is     *)
(* missing or comes early, and a detach drops nobody before the end of the *)
(* battle has come, unless an earlier execution has left it behind.        *)
(***************************************************************************)
EXTENDS SpectateGateway, FiniteSetTheorems, TLAPS

-----------------------------------------------------------------------------
(* The greatest element of a finite set *)

Minimal(T, C) == \A U \in C : U \subseteq T => U = T

(* A collection of subsets of a finite set has a smallest one. *)
LEMMA Smallest ==
    ASSUME NEW S, IsFiniteSet(S), NEW C, C \subseteq SUBSET S, C # {}
    PROVE  \E T \in C : Minimal(T, C)
<1>1. IsWellFoundedOn(StrictSubsetOrdering(S), SUBSET S)
  BY FS_StrictSubsetOrderingWellFounded, FS_FiniteSubsetsOfFinite
<1>2. PICK T \in C : \A U \in C : ~(<<U, T>> \in StrictSubsetOrdering(S))
  BY <1>1, WFMin
<1>3. \A U \in C : U \subseteq T /\ U # T => <<U, T>> \in StrictSubsetOrdering(S)
  BY DEF StrictSubsetOrdering
<1>4. Minimal(T, C)
  BY <1>2, <1>3 DEF Minimal
<1> QED BY <1>4

(* A finite set of numbers that is not empty has a last one. *)
LEMMA Greatest ==
    ASSUME NEW S, IsFiniteSet(S), S \subseteq Nat, S # {}
    PROVE  \E n \in S : \A m \in S : m <= n
<1> DEFINE Above(n) == {m \in S : m > n}
<1>1. PICK C : C = {T \in SUBSET S : \E n \in S : T = Above(n)}
  OBVIOUS
<1>2. PICK T \in C : Minimal(T, C)
  <2>1. C \subseteq SUBSET S
    BY <1>1
  <2>2. C # {}
    BY <1>1
  <2> QED BY <2>1, <2>2, Smallest
<1>3. PICK n \in S : T = Above(n)
  BY <1>1
<1>4. ASSUME NEW m \in S PROVE m <= n
  <2>1. SUFFICES ASSUME m > n PROVE FALSE
    OBVIOUS
  <2>2. Above(m) \in C /\ Above(m) \subseteq Above(n)
    <3>1. \A k \in S : k > m => k > n
      BY <2>1
    <3> QED BY <1>1, <3>1
  <2>3. Above(m) = Above(n)
    BY <1>2, <1>3, <2>2 DEF Minimal
  <2>4. m \in Above(n) /\ m \notin Above(m)
    BY <2>1
  <2> QED BY <2>3, <2>4
<1> QED BY <1>4

-----------------------------------------------------------------------------
(* The inductive invariant *)

Kinds == {"snapshot", "event", "result"}

Item == [at : Nat, kind : Kinds, n : Nat]

BattleRecord(snapshots, events, result) ==
    [snapshots |-> snapshots, events |-> events, result |-> result]

FeedRecord(pumping, polled, snapshots, events, finished, log) ==
    [pumping |-> pumping, polled |-> polled, snapshots |-> snapshots, events |-> events,
     finished |-> finished, log |-> log]

ConnRecord(open, run, snapshot, finished, from, inbox, timers) ==
    [open |-> open, run |-> run, snapshot |-> snapshot, finished |-> finished,
     from |-> from, inbox |-> inbox, timers |-> timers]

(* What was made, and up to now. *)
GoodBattle(b, t) ==
    /\ \E sn \in Seq(Nat), ev \in Seq(Nat), res \in Nat \cup {Never} :
           b = BattleRecord(sn, ev, res)
    /\ \A i \in 1..Len(b.snapshots) : b.snapshots[i] <= t
    /\ \A i \in 1..Len(b.events) : b.events[i] <= t
    /\ b.result <= t

(* An entry of the log is of something that had been made by then; the      *)
(* result is logged by the first poll after it.                            *)
GoodItem(b, f, e) ==
    /\ e.kind = "snapshot" => e.n \in 1..f.snapshots /\ b.snapshots[e.n] <= e.at
    /\ e.kind = "event" => e.n \in 1..f.events /\ b.events[e.n] <= e.at
    /\ e.kind = "result" => f.finished /\ b.result <= e.at /\ e.at <= b.result + 1

Sorted(log) ==
    \A i, j \in 1..Len(log) : i < j =>
        /\ log[i].at <= log[j].at
        /\ log[i].kind = "snapshot" /\ log[j].kind = "snapshot" => log[i].n <= log[j].n

GoodLog(b, f, t) ==
    /\ f.log \in Seq(Item)
    /\ \A n \in 1..Len(f.log) : f.log[n].at <= t /\ GoodItem(b, f, f.log[n])
    /\ Sorted(f.log)
    /\ f.finished => \E n \in 1..Len(f.log) : f.log[n].kind = "result"

IsFeed(f) ==
    \E pu \in BOOLEAN, fi \in BOOLEAN, po \in Nat, sn \in Nat, ev \in Nat, log \in Seq(Item) :
        f = FeedRecord(pu, po, sn, ev, fi, log)

(* The feed has logged what the battle had when it was polled, which was    *)
(* just now if it still pumps.                                             *)
GoodFeed(b, f, t) ==
    /\ IsFeed(f)
    /\ f.polled <= t
    /\ f.snapshots <= Len(b.snapshots) /\ f.events <= Len(b.events)
    /\ f.finished => b.result # Never
    /\ f.pumping => ~f.finished /\ t <= f.polled + 1
    /\ f.pumping /\ b.result # Never => f.polled <= b.result

(* A connection with the log of its feed, at a time t and with a delay w. *)
Sees(c, log, n) ==
    /\ log[n].kind = "snapshot" => log[n].n <= c.snapshot
    /\ log[n].kind = "event" => n <= c.from
    /\ log[n].kind = "result" => c.finished

Has(c, n) == \E i \in 1..Len(c.inbox) : c.inbox[i] = n
Awaits(c, n) == \E u \in c.timers : u.n = n

(* Every entry is told, received or awaited; each but once, in order.       *)
Whole(c, log) ==
    /\ \A n \in 1..Len(log) : Sees(c, log, n) \/ Has(c, n) \/ Awaits(c, n)
    /\ \A n \in 1..Len(log) : ~(Has(c, n) /\ Awaits(c, n))
    /\ \A i, j \in 1..Len(c.inbox) : c.inbox[i] = c.inbox[j] => i = j
    /\ \A i, j \in 1..Len(c.inbox) : i < j => log[c.inbox[i]].at <= log[c.inbox[j]].at
    /\ \A i \in 1..Len(c.inbox), u \in c.timers : log[c.inbox[i]].at <= log[u.n].at

Timer == [due : Nat, n : Nat, late : BOOLEAN]

GoodTimers(c, log, t, w) ==
    /\ \A u \in c.timers : /\ u.n \in 1..Len(log)
                           /\ u.due = log[u.n].at + w /\ t <= u.due
    /\ \A u, v \in c.timers : u.n = v.n => u = v
    /\ w = 0 => c.timers = {}

IsConn(c) ==
    \E op \in BOOLEAN, fi \in BOOLEAN, run \in Nat, sn \in Nat, from \in Nat,
       inbox \in Seq(Nat), timers \in SUBSET Timer :
           c = ConnRecord(op, run, sn, fi, from, inbox, timers)

GoodConn(c, log, t, w) ==
    /\ \A i \in 1..Len(c.inbox) : c.inbox[i] \in 1..Len(log)
    /\ Whole(c, log)
    /\ GoodTimers(c, log, t, w)

(* The detach waits for the result, a poll and the delay. *)
GoodDetach(b, d, w) ==
    d \in Nat /\ (d # 0 /\ b.result # Never => b.result + DetachBase + w <= d)

GoodRuns ==
    /\ battle = [r \in Run |-> battle[r]] /\ feed = [r \in Run |-> feed[r]]
    /\ detach = [r \in Run |-> detach[r]]
    /\ \A r \in Run :
        /\ GoodBattle(battle[r], now)
        /\ GoodFeed(battle[r], feed[r], now)
        /\ GoodLog(battle[r], feed[r], now)
        /\ GoodDetach(battle[r], detach[r], delay)
        /\ r > runs => battle[r] = NoBattle /\ feed[r] = NoFeed
        /\ r > runs \/ (phase = "playing" /\ r = runs) => detach[r] = 0

GoodConns ==
    /\ conn = [s \in Spectator |-> conn[s]]
    /\ \A s \in Spectator :
        /\ IsConn(conn[s])
        /\ ~Open(s) => conn[s] = NoConn
        /\ Open(s) => /\ conn[s].run \in 1..runs
                      /\ GoodConn(conn[s], feed[conn[s].run].log, now, delay)

Shape ==
    /\ now \in 0..MaxTime /\ delay \in Delays
    /\ phase \in {"idle", "playing", "over"} /\ runs \in 0..MaxRuns /\ attached \in 0..runs
    /\ phase = "playing" => runs # 0
    /\ used \subseteq Ticket
    /\ attached # 0 => feed[attached].pumping \/ feed[attached].finished

SInv == Shape /\ GoodRuns /\ GoodConns

-----------------------------------------------------------------------------
(* Logs *)

ItemOf(at, kind, n) == [at |-> at, kind |-> kind, n |-> n]

LEMMA ItemIs ==
    ASSUME NEW at, NEW kind, NEW n
    PROVE  LET e == ItemOf(at, kind, n) IN
             /\ e.at = at /\ e.kind = kind /\ e.n = n
             /\ at \in Nat /\ kind \in Kinds /\ n \in Nat => e \in Item
  BY DEF ItemOf, Item

LEMMA LogEntry ==
    ASSUME NEW log \in Seq(Item), NEW n \in 1..Len(log)
    PROVE  log[n].at \in Nat /\ log[n].kind \in Kinds /\ log[n].n \in Nat
<1>1. log[n] \in Item
  OBVIOUS
<1> QED BY <1>1 DEF Item

(* Time only adds to the end of what is due.                                *)
LEMMA DueIs ==
    ASSUME NEW log \in Seq(Item), Sorted(log), NEW w \in Nat, NEW t \in Nat,
           NEW k, k = Cardinality({n \in DOMAIN log : log[n].at + w <= t})
    PROVE  /\ k \in 0..Len(log)
           /\ \A n \in 1..Len(log) : log[n].at + w <= t <=> n <= k
<1> DEFINE D == {n \in DOMAIN log : log[n].at + w <= t}
<1>1. D \subseteq 1..Len(log) /\ Len(log) \in Nat /\ D \subseteq Nat
  OBVIOUS
<1>2. IsFiniteSet(D)
  BY <1>1, FS_Interval, FS_Subset
<1>3. CASE D = {}
  <2>1. k = 0
    BY <1>3, FS_EmptySet
  <2>2. \A n \in 1..Len(log) : ~(log[n].at + w <= t)
    BY <1>3
  <2>3. \A n \in 1..Len(log) : ~(n <= k)
    BY <2>1, <1>1
  <2> HIDE DEF D
  <2> QED BY <2>1, <2>2, <2>3, <1>1
<1>4. CASE D # {}
  <2> HIDE DEF D
  <2>1. PICK g \in D : \A m \in D : m <= g
    BY <1>1, <1>2, <1>4, Greatest
  <2>2. g \in 1..Len(log) /\ log[g].at + w <= t
    BY <2>1, <1>1 DEF D
  <2>3. ASSUME NEW n \in 1..Len(log), n <= g PROVE log[n].at + w <= t
    <3>1. log[n].at \in Nat /\ log[g].at \in Nat
      BY <2>2, LogEntry
    <3>2. log[n].at <= log[g].at
      <4>1. CASE n < g
        BY <4>1, <2>2 DEF Sorted
      <4>2. CASE n = g
        BY <4>2, <3>1
      <4> QED BY <2>3, <2>2, <4>1, <4>2
    <3> QED BY <3>1, <3>2, <2>2
  <2>4. \A n \in 1..Len(log) : log[n].at + w <= t => n <= g
    BY <2>1 DEF D
  <2>5. D = 1..g
    BY <2>2, <2>3, <2>4, <1>1 DEF D
  <2>6. k = Cardinality(D)
    BY DEF D
  <2>7. k = g
    <3>1. g \in Int /\ ~(1 > g)
      BY <2>2, <1>1
    <3>2. Cardinality(1..g) = g - 1 + 1
      BY <3>1, FS_Interval
    <3> QED BY <2>5, <2>6, <3>1, <3>2
  <2>8. ASSUME NEW n \in 1..Len(log) PROVE log[n].at + w <= t <=> n <= g
    BY <2>3, <2>4
  <2>9. g \in 0..Len(log)
    BY <1>1, <2>2
  <2> QED BY <2>7, <2>8, <2>9
<1> QED BY <1>3, <1>4

LEMMA LastIs ==
    ASSUME NEW S, S \subseteq Nat, IsFiniteSet(S), S # {}
    PROVE  Max(S) \in S /\ \A m \in S : m <= Max(S)
<1>1. PICK g \in S : \A m \in S : m <= g
  BY Greatest
<1>2. \A m \in S : g >= m
  BY <1>1
<1>3. Max(S) \in S /\ \A m \in S : Max(S) >= m
  BY <1>2 DEF Max
<1> QED BY <1>3

(* What a poll at t adds to the log.                                        *)
Added(b, f, t) ==
       [i \in 1..(Len(b.snapshots) - f.snapshots) |-> ItemOf(t, "snapshot", f.snapshots + i)]
    \o [i \in 1..(Len(b.events) - f.events) |-> ItemOf(t, "event", f.events + i)]
    \o (IF b.result # Never /\ ~f.finished THEN <<ItemOf(t, "result", 1)>> ELSE <<>>)

LEMMA ManyIs ==
    ASSUME NEW k \in Nat, NEW from \in Nat, NEW t \in Nat, NEW kind \in Kinds,
           NEW many, many = [i \in 1..k |-> ItemOf(t, kind, from + i)]
    PROVE  /\ many \in Seq(Item) /\ Len(many) = k
           /\ \A i \in 1..k : many[i] = ItemOf(t, kind, from + i)
<1>1. \A i \in 1..k : ItemOf(t, kind, from + i) \in Item
  BY ItemIs
<1>2. many \in Seq(Item)
  BY <1>1
<1> QED BY <1>2

LEMMA JoinIs ==
    ASSUME NEW S, NEW x \in Seq(S), NEW y \in Seq(S)
    PROVE  /\ x \o y \in Seq(S) /\ Len(x \o y) = Len(x) + Len(y)
           /\ \A n \in 1..Len(x) : (x \o y)[n] = x[n]
           /\ \A n \in 1..Len(x \o y) : n > Len(x) =>
                 /\ n - Len(x) \in 1..Len(y)
                 /\ (x \o y)[n] = y[n - Len(x)]
           /\ \A n \in 1..Len(y) : /\ Len(x) + n \in 1..Len(x \o y)
                                   /\ (x \o y)[Len(x) + n] = y[n]
  OBVIOUS

(* The parts of a battle and of a feed. *)
LEMMA BattleIs ==
    ASSUME NEW b, NEW t \in Nat, GoodBattle(b, t)
    PROVE  /\ b.snapshots \in Seq(Nat) /\ b.events \in Seq(Nat) /\ b.result \in Nat \cup {Never}
           /\ Len(b.snapshots) \in Nat /\ Len(b.events) \in Nat
           /\ b = BattleRecord(b.snapshots, b.events, b.result)
<1>1. PICK sn \in Seq(Nat), ev \in Seq(Nat), res \in Nat \cup {Never} : b = BattleRecord(sn, ev, res)
  BY DEF GoodBattle
<1>2. b.snapshots = sn /\ b.events = ev /\ b.result = res
  BY <1>1 DEF BattleRecord
<1> QED BY <1>1, <1>2

LEMMA FeedIs ==
    ASSUME NEW b, NEW f, NEW t, GoodFeed(b, f, t)
    PROVE  /\ f.pumping \in BOOLEAN /\ f.finished \in BOOLEAN /\ f.polled \in Nat
           /\ f.snapshots \in Nat /\ f.events \in Nat /\ f.log \in Seq(Item) /\ Len(f.log) \in Nat
           /\ f = FeedRecord(f.pumping, f.polled, f.snapshots, f.events, f.finished, f.log)
<1>1. PICK pu \in BOOLEAN, fi \in BOOLEAN, po \in Nat, sn \in Nat, ev \in Nat, log \in Seq(Item) :
          f = FeedRecord(pu, po, sn, ev, fi, log)
  BY DEF GoodFeed, IsFeed
<1>2. /\ f.pumping = pu /\ f.polled = po /\ f.snapshots = sn /\ f.events = ev
      /\ f.finished = fi /\ f.log = log
  BY <1>1 DEF FeedRecord
<1> QED BY <1>1, <1>2

LEMMA FeedRecordIs ==
    ASSUME NEW pu, NEW po, NEW sn, NEW ev, NEW fi, NEW log
    PROVE  LET f == FeedRecord(pu, po, sn, ev, fi, log) IN
             /\ f.pumping = pu /\ f.polled = po /\ f.snapshots = sn /\ f.events = ev
             /\ f.finished = fi /\ f.log = log
  BY DEF FeedRecord

LEMMA FeedRecordTyped ==
    ASSUME NEW po \in Nat, NEW sn \in Nat, NEW ev \in Nat, NEW log \in Seq(Item)
    PROVE  \A pu, fi \in BOOLEAN : IsFeed(FeedRecord(pu, po, sn, ev, fi, log))
  BY DEF IsFeed

AddedItem(b, f, t, e) ==
    /\ e.at = t
    /\ e.kind = "snapshot" => e.n \in (f.snapshots + 1)..Len(b.snapshots)
    /\ e.kind = "event" => e.n \in (f.events + 1)..Len(b.events)
    /\ e.kind = "result" => b.result # Never

LEMMA AddedIs ==
    ASSUME NEW t \in Nat, NEW b, GoodBattle(b, t), NEW f, GoodFeed(b, f, t),
           NEW a, a = Added(b, f, t)
    PROVE  /\ a \in Seq(Item)
           /\ \A n \in 1..Len(a) : AddedItem(b, f, t, a[n])
           /\ \A i, j \in 1..Len(a) :
                 i < j /\ a[i].kind = "snapshot" /\ a[j].kind = "snapshot" => a[i].n <= a[j].n
           /\ b.result # Never /\ ~f.finished => \E n \in 1..Len(a) : a[n].kind = "result"
<1> DEFINE x == [i \in 1..(Len(b.snapshots) - f.snapshots) |-> ItemOf(t, "snapshot", f.snapshots + i)]
           y == [i \in 1..(Len(b.events) - f.events) |-> ItemOf(t, "event", f.events + i)]
           z == IF b.result # Never /\ ~f.finished THEN <<ItemOf(t, "result", 1)>> ELSE <<>>
<1>1. /\ Len(b.snapshots) \in Nat /\ f.snapshots \in Nat /\ f.snapshots <= Len(b.snapshots)
      /\ Len(b.events) \in Nat /\ f.events \in Nat /\ f.events <= Len(b.events)
  BY BattleIs, FeedIs DEF GoodFeed
<1>2. PICK k \in Nat : k = Len(b.snapshots) - f.snapshots
  BY <1>1
<1>3. PICK m \in Nat : m = Len(b.events) - f.events
  BY <1>1
<1>4. {"snapshot", "event", "result"} = Kinds
  BY DEF Kinds
<1>5. x = [i \in 1..k |-> ItemOf(t, "snapshot", f.snapshots + i)]
  BY <1>2
<1>6. x \in Seq(Item) /\ Len(x) = k /\ \A i \in 1..k : x[i] = ItemOf(t, "snapshot", f.snapshots + i)
  <2> HIDE DEF x
  <2> QED BY SMTT(60), ZenonT(60), <1>1, <1>4, <1>5, ManyIs
<1>7. y = [i \in 1..m |-> ItemOf(t, "event", f.events + i)]
  BY <1>3
<1>8. y \in Seq(Item) /\ Len(y) = m /\ \A i \in 1..m : y[i] = ItemOf(t, "event", f.events + i)
  <2>1. PICK fe \in Nat : fe = f.events
    BY <1>1
  <2>2. "event" \in Kinds /\ y = [i \in 1..m |-> ItemOf(t, "event", fe + i)]
    BY <1>4, <1>7, <2>1
  <2> HIDE DEF x, y, z
  <2>3. y \in Seq(Item) /\ Len(y) = m /\ \A i \in 1..m : y[i] = ItemOf(t, "event", fe + i)
    BY <2>2, ManyIs
  <2> QED BY <2>1, <2>3
<1>9. ItemOf(t, "result", 1) \in Item
  BY <1>4, ItemIs
<1>10. /\ z \in Seq(Item)
       /\ \A i \in 1..Len(z) : z[i] = ItemOf(t, "result", 1) /\ b.result # Never
       /\ b.result # Never /\ ~f.finished => Len(z) = 1
  BY <1>9
<1>11. a = (x \o y) \o z
  BY DEF Added
<1> HIDE DEF x, y, z
<1>12. \A i \in 1..k : /\ x[i].at = t /\ x[i].kind = "snapshot" /\ x[i].n = f.snapshots + i
  BY <1>6, ItemIs
<1>13. \A i \in 1..m : y[i].at = t /\ y[i].kind = "event" /\ y[i].n = f.events + i
  BY <1>8, ItemIs
<1>14. \A i \in 1..Len(z) : z[i].at = t /\ z[i].kind = "result" /\ b.result # Never
  BY <1>10, ItemIs
<1> DEFINE u == x \o y
<1>15. u \in Seq(Item) /\ Len(u) = k + m
  BY <1>6, <1>8, JoinIs
<1>16. \A n \in 1..k : u[n] = x[n]
  BY <1>6, <1>8, JoinIs
<1>17. \A n \in 1..Len(u) : n > k => n - k \in 1..m /\ u[n] = y[n - k]
  BY <1>6, <1>8, JoinIs
<1> HIDE DEF u
<1>27. a = u \o z
  BY <1>11 DEF u
<1>28. z \in Seq(Item) /\ Len(z) \in Nat
  BY <1>10
<1>29. /\ a \in Seq(Item) /\ Len(a) = Len(u) + Len(z)
       /\ \A n \in 1..Len(u) : a[n] = u[n]
       /\ \A n \in 1..Len(a) : n > Len(u) =>
             n - Len(u) \in 1..Len(z) /\ a[n] = z[n - Len(u)]
       /\ \A n \in 1..Len(z) : Len(u) + n \in 1..Len(a) /\ a[Len(u) + n] = z[n]
  <2>1. u \in Seq(Item)
    BY <1>15
  <2> QED BY SMTT(60), ZenonT(60), <1>27, <1>28, <2>1, JoinIs
<1>18. a \in Seq(Item) /\ Len(a) = k + m + Len(z)
  BY <1>29, <1>15
<1>19. \A n \in 1..(k + m) : a[n] = u[n]
  BY <1>29, <1>15
<1>20. \A n \in 1..Len(a) : n > k + m => n - (k + m) \in 1..Len(z) /\ a[n] = z[n - (k + m)]
  BY <1>29, <1>15
<1>21. \A n \in 1..Len(z) : (k + m) + n \in 1..Len(a) /\ a[(k + m) + n] = z[n]
  BY <1>29, <1>15
<1>22. ASSUME NEW n \in 1..Len(a)
       PROVE  \/ n <= k /\ a[n] = x[n]
              \/ n > k /\ n <= k + m /\ n - k \in 1..m /\ a[n] = y[n - k]
              \/ n > k + m /\ n - (k + m) \in 1..Len(z) /\ a[n] = z[n - (k + m)]
  <2>1. CASE n <= k
    <3>1. n \in 1..k /\ n \in 1..(k + m)
      BY <2>1, <1>18
    <3> QED BY <2>1, <3>1, <1>16, <1>19
  <2>2. CASE n > k /\ n <= k + m
    <3>1. n \in 1..(k + m) /\ n \in 1..Len(u)
      BY <2>2, <1>15, <1>18
    <3> QED BY <2>2, <3>1, <1>17, <1>19
  <2>3. CASE n > k + m
    BY <2>3, <1>20
  <2> QED BY <2>1, <2>2, <2>3, <1>18
<1>23. ASSUME NEW n \in 1..Len(a)
       PROVE  /\ a[n].at = t
              /\ a[n].kind = "snapshot" => n <= k /\ a[n].n = f.snapshots + n
              /\ a[n].kind = "event" => \E i \in 1..m : a[n].n = f.events + i
              /\ a[n].kind = "result" => b.result # Never
  <2>1. CASE n <= k /\ a[n] = x[n]
    <3>1. n \in 1..k
      BY <2>1, <1>18
    <3> QED BY <2>1, <3>1, <1>12
  <2>2. CASE n > k /\ n <= k + m /\ n - k \in 1..m /\ a[n] = y[n - k]
    BY <2>2, <1>13
  <2>3. CASE n > k + m /\ n - (k + m) \in 1..Len(z) /\ a[n] = z[n - (k + m)]
    BY <2>3, <1>14
  <2> QED BY <1>22, <2>1, <2>2, <2>3
<1>24. \A n \in 1..Len(a) : AddedItem(b, f, t, a[n])
  <2> SUFFICES ASSUME NEW n \in 1..Len(a) PROVE AddedItem(b, f, t, a[n])
    OBVIOUS
  <2>1. a[n].kind = "snapshot" => a[n].n \in (f.snapshots + 1)..Len(b.snapshots)
    <3> SUFFICES ASSUME a[n].kind = "snapshot" PROVE a[n].n \in (f.snapshots + 1)..Len(b.snapshots)
      OBVIOUS
    <3>1. n \in Nat /\ n >= 1
      BY <1>18
    <3>2. n <= k /\ a[n].n = f.snapshots + n
      BY <1>23
    <3>3. \A q, hi, o \in Nat : o >= 1 /\ o <= hi - q => q + o \in (q + 1)..hi
      OBVIOUS
    <3> QED BY SMTT(60), ZenonT(60), <3>1, <3>2, <3>3, <1>1, <1>2
  <2>2. a[n].kind = "event" => a[n].n \in (f.events + 1)..Len(b.events)
    BY SMTT(60), ZenonT(60), <1>1, <1>3, <1>23
  <2> QED BY <1>23, <2>1, <2>2 DEF AddedItem
<1>25. ASSUME NEW i \in 1..Len(a), NEW j \in 1..Len(a),
              i < j, a[i].kind = "snapshot", a[j].kind = "snapshot"
       PROVE  a[i].n <= a[j].n
  <2>1. a[i].n = f.snapshots + i /\ a[j].n = f.snapshots + j
    BY <1>23, <1>25
  <2> QED BY <1>1, <1>18, <1>25, <2>1
<1>26. b.result # Never /\ ~f.finished => \E n \in 1..Len(a) : a[n].kind = "result"
  <2> SUFFICES ASSUME b.result # Never /\ ~f.finished PROVE \E n \in 1..Len(a) : a[n].kind = "result"
    OBVIOUS
  <2>1. Len(z) = 1
    BY <1>10, Zenon
  <2>2. 1 \in 1..Len(z)
    BY <2>1
  <2> QED BY <2>2, <1>14, <1>21
<1> QED BY <1>18, <1>24, <1>25, <1>26

-----------------------------------------------------------------------------
(* A battle and its feed *)

(* A log is longer by what is of now. *)
Grown(old, log, t) ==
    /\ Len(old) <= Len(log)
    /\ \A n \in 1..Len(old) : n \in 1..Len(log) /\ log[n] = old[n]
    /\ \A n \in 1..Len(log) : n > Len(old) => log[n].at = t
    /\ \A n \in 1..Len(old) : old[n].at <= t

(* What a poll makes of a feed. *)
Polls(b, f, t, log, g) ==
    /\ log = f.log \o Added(b, f, t)
    /\ \E on, over \in BOOLEAN :
          /\ over <=> b.result # Never
          /\ on <=> ~over
          /\ g = FeedRecord(on, t, Len(b.snapshots), Len(b.events), over, log)

(* A poll: the log is longer, and what is new in it is of now. *)
LEMMA PollKeeps ==
    ASSUME NEW t \in Nat, NEW b, GoodBattle(b, t), NEW f, GoodFeed(b, f, t), GoodLog(b, f, t),
           f.pumping, NEW log, NEW g, Polls(b, f, t, log, g)
    PROVE  /\ GoodFeed(b, g, t) /\ GoodLog(b, g, t)
           /\ g.log = log /\ log \in Seq(Item)
           /\ g.finished \/ g.pumping
           /\ Grown(f.log, log, t)
<1>0. log = f.log \o Added(b, f, t)
  BY DEF Polls
<1>24. PICK on \in BOOLEAN, over \in BOOLEAN :
          /\ over <=> b.result # Never
          /\ on <=> ~over
          /\ g = FeedRecord(on, t, Len(b.snapshots), Len(b.events), over, log)
  BY DEF Polls
<1> USE <1>0, <1>24
<1>1. /\ g.pumping = on /\ g.polled = t /\ g.snapshots = Len(b.snapshots)
      /\ g.events = Len(b.events) /\ g.finished = over /\ g.log = log
  BY DEF FeedRecord
<1> DEFINE a == Added(b, f, t)
<1>2. /\ a \in Seq(Item)
      /\ \A n \in 1..Len(a) : AddedItem(b, f, t, a[n])
      /\ \A i, j \in 1..Len(a) :
            i < j /\ a[i].kind = "snapshot" /\ a[j].kind = "snapshot" => a[i].n <= a[j].n
      /\ b.result # Never /\ ~f.finished => \E n \in 1..Len(a) : a[n].kind = "result"
  BY AddedIs
<1> HIDE DEF a
<1>3. f.log \in Seq(Item) /\ Len(f.log) \in Nat /\ Len(a) \in Nat
  BY <1>2, FeedIs
<1>4. log = f.log \o a
  BY DEF a
<1>5. /\ log \in Seq(Item) /\ Len(log) = Len(f.log) + Len(a)
      /\ \A n \in 1..Len(f.log) : log[n] = f.log[n]
  BY <1>2, <1>3, <1>4, JoinIs
<1>6. \A n \in 1..Len(log) : n > Len(f.log) =>
         n - Len(f.log) \in 1..Len(a) /\ log[n] = a[n - Len(f.log)]
  BY SMTT(60), ZenonT(60), <1>2, <1>3, <1>4, JoinIs
<1>7. \A n \in 1..Len(a) : Len(f.log) + n \in 1..Len(log) /\ log[Len(f.log) + n] = a[n]
  BY <1>2, <1>3, <1>4, JoinIs
<1>8. \A n \in 1..Len(log) : n > Len(f.log) => log[n].at = t
  BY <1>2, <1>6 DEF AddedItem
<1>9. Len(f.log) <= Len(log) /\ \A n \in 1..Len(f.log) : n \in 1..Len(log)
  BY <1>3, <1>5
<1>10. ~f.finished /\ t <= f.polled + 1 /\ f.polled \in Nat
  BY FeedIs DEF GoodFeed
<1>11. /\ b.result \in Nat \cup {Never} /\ b.result <= t
       /\ Len(b.snapshots) \in Nat /\ Len(b.events) \in Nat
       /\ b.snapshots \in Seq(Nat) /\ b.events \in Seq(Nat)
  BY BattleIs DEF GoodBattle
<1>12. /\ f.snapshots \in Nat /\ f.snapshots <= Len(b.snapshots)
       /\ f.events \in Nat /\ f.events <= Len(b.events)
  BY FeedIs DEF GoodFeed
<1>20. PICK fs \in Nat, bs \in Nat, fe \in Nat, be \in Nat :
          /\ fs = f.snapshots /\ bs = Len(b.snapshots) /\ fs <= bs
          /\ fe = f.events /\ be = Len(b.events) /\ fe <= be
  BY <1>11, <1>12
<1>21. /\ \A m \in 1..f.snapshots : m \in 1..Len(b.snapshots)
       /\ \A m \in (f.snapshots + 1)..Len(b.snapshots) : m \in 1..Len(b.snapshots)
       /\ \A m \in 1..f.events : m \in 1..Len(b.events)
       /\ \A m \in (f.events + 1)..Len(b.events) : m \in 1..Len(b.events)
       /\ \A m \in 1..f.snapshots, k \in (f.snapshots + 1)..Len(b.snapshots) : m <= k
  BY SMTT(60), ZenonT(60), <1>20
<1>13. b.result # Never => f.polled <= b.result
  BY DEF GoodFeed
<1>14. GoodFeed(b, g, t)
  <2>1. IsFeed(g)
    BY <1>5, <1>11, FeedRecordTyped
  <2>2. g.pumping => ~g.finished /\ t <= g.polled + 1
    <3>1. t <= g.polled + 1
      BY <1>1
    <3> QED BY <1>1, <3>1
  <2>3. ~(g.pumping /\ b.result # Never)
    BY <1>1
  <2>4. g.finished => b.result # Never
    BY <1>1
  <2>5. g.polled <= t /\ g.snapshots <= Len(b.snapshots) /\ g.events <= Len(b.events)
    BY <1>1, <1>11
  <2> QED BY <2>1, <2>2, <2>3, <2>4, <2>5 DEF GoodFeed
<1>15. ASSUME NEW n \in 1..Len(log) PROVE log[n].at <= t /\ GoodItem(b, g, log[n])
  <2>1. CASE n \in 1..Len(f.log)
    <3>1. log[n] = f.log[n] /\ f.log[n].at <= t /\ GoodItem(b, f, f.log[n])
      BY <2>1, <1>5 DEF GoodLog
    <3>2. log[n].kind # "result"
      BY SMTT(60), ZenonT(60), <3>1, <1>10 DEF GoodItem
    <3>4. \A m \in 1..f.snapshots : m \in 1..g.snapshots
      BY <1>1, <1>21
    <3>5. \A m \in 1..f.events : m \in 1..g.events
      BY SMTT(60), ZenonT(60), <1>1, <1>21
    <3> QED BY SMTT(60), ZenonT(60), <3>1, <3>2, <3>4, <3>5 DEF GoodItem
  <2>2. CASE n > Len(f.log)
    <3>1. PICK m \in 1..Len(a) : log[n] = a[m]
      BY <2>2, <1>6
    <3>2. AddedItem(b, f, t, log[n])
      BY <3>1, <1>2
    <3>3. log[n].at = t
      BY <3>2 DEF AddedItem
    <3>4. ASSUME log[n].kind = "snapshot"
          PROVE  log[n].n \in 1..g.snapshots /\ b.snapshots[log[n].n] <= log[n].at
      <4>1. log[n].n \in (f.snapshots + 1)..Len(b.snapshots)
        BY SMTT(60), ZenonT(60), <3>2, <3>4 DEF AddedItem
      <4>2. log[n].n \in 1..Len(b.snapshots)
        BY <4>1, <1>21
      <4> QED BY <4>2, <3>3, <1>1 DEF GoodBattle
    <3>5. ASSUME log[n].kind = "event"
          PROVE  log[n].n \in 1..g.events /\ b.events[log[n].n] <= log[n].at
      <4>1. log[n].n \in (f.events + 1)..Len(b.events)
        BY <3>2, <3>5 DEF AddedItem
      <4>2. log[n].n \in 1..Len(b.events)
        BY <4>1, <1>21
      <4> QED BY <4>2, <3>3, <1>1 DEF GoodBattle
    <3>6. ASSUME log[n].kind = "result"
          PROVE  g.finished /\ b.result <= log[n].at /\ log[n].at <= b.result + 1
      <4>1. b.result # Never
        BY <3>2, <3>6 DEF AddedItem
      <4>2. g.finished
        BY <4>1, <1>1
      <4> QED BY <4>1, <4>2, <3>3, <1>10, <1>11, <1>13 DEF Never
    <3> QED BY SMTT(60), ZenonT(60), <3>3, <3>4, <3>5, <3>6 DEF GoodItem
  <2> QED BY <1>3, <1>5, <2>1, <2>2
<1>16. Sorted(log)
  <2> SUFFICES ASSUME NEW i \in 1..Len(log), NEW j \in 1..Len(log), i < j
               PROVE  /\ log[i].at <= log[j].at
                      /\ log[i].kind = "snapshot" /\ log[j].kind = "snapshot" => log[i].n <= log[j].n
    BY DEF Sorted
  <2>1. CASE j <= Len(f.log)
    <3>1. i \in 1..Len(f.log) /\ j \in 1..Len(f.log)
      BY <2>1, <1>3
    <3> QED BY <3>1, <1>5 DEF GoodLog, Sorted
  <2>2. CASE j > Len(f.log) /\ i <= Len(f.log)
    <3>6. i \in 1..Len(f.log)
      BY <2>2, <1>3
    <3>7. log[j].at = t
      BY <2>2, <1>8
    <3>1. i \in 1..Len(f.log) /\ log[j].at = t /\ log[i].at <= t
      BY <3>6, <3>7, <1>15
    <3>2. log[i].kind = "snapshot" => log[i].n \in 1..f.snapshots
      BY <3>1, <1>5 DEF GoodLog, GoodItem
    <3>3. PICK m \in 1..Len(a) : log[j] = a[m]
      BY <2>2, <1>6
    <3>4. log[j].kind = "snapshot" => log[j].n \in (f.snapshots + 1)..Len(b.snapshots)
      BY <3>3, <1>2 DEF AddedItem
    <3>5. log[i].kind = "snapshot" /\ log[j].kind = "snapshot" => log[i].n <= log[j].n
      BY <3>2, <3>4, <1>21
    <3> QED BY <3>1, <3>5
  <2>3. CASE i > Len(f.log)
    <3>4. j > Len(f.log)
      BY <2>3, <1>3, <1>5
    <3>5. PICK k \in 1..Len(a) : k = i - Len(f.log) /\ log[i] = a[k]
      BY <2>3, <1>6
    <3>6. PICK m \in 1..Len(a) : m = j - Len(f.log) /\ log[j] = a[m]
      BY <3>4, <1>6
    <3>2. k < m
      BY <1>3, <1>5, <3>5, <3>6
    <3>3. log[i].at <= log[j].at
      BY SMTT(60), ZenonT(60), <2>3, <3>4, <1>8
    <3>7. a[k].kind = "snapshot" /\ a[m].kind = "snapshot" => a[k].n <= a[m].n
      BY <3>2, <1>2
    <3> QED BY <3>5, <3>6, <3>3, <3>7
  <2> QED BY SMTT(60), ZenonT(60), <1>3, <2>1, <2>2, <2>3
<1>17. g.finished => \E n \in 1..Len(log) : log[n].kind = "result"
  <2> SUFFICES ASSUME g.finished PROVE \E n \in 1..Len(log) : log[n].kind = "result"
    OBVIOUS
  <2>1. b.result # Never
    BY <1>1
  <2>2. PICK m \in 1..Len(a) : a[m].kind = "result"
    BY <2>1, <1>2, <1>10
  <2> QED BY <2>2, <1>7
<1>18. GoodLog(b, g, t)
  <2>1. g.log \in Seq(Item) /\ Sorted(g.log)
    BY <1>1, <1>5, <1>16
  <2>2. \A n \in 1..Len(g.log) : g.log[n].at <= t /\ GoodItem(b, g, g.log[n])
    BY <1>1, <1>15
  <2>3. g.finished => \E n \in 1..Len(g.log) : g.log[n].kind = "result"
    BY <1>1, <1>17
  <2> QED BY <2>1, <2>2, <2>3 DEF GoodLog
<1>19. g.finished \/ g.pumping
  BY <1>1
<1>22. \A n \in 1..Len(f.log) : f.log[n].at <= t
  BY DEF GoodLog
<1>23. Grown(f.log, log, t)
  BY <1>5, <1>8, <1>9, <1>22 DEF Grown
<1> QED BY <1>1, <1>5, <1>14, <1>18, <1>19, <1>23

(* Time passes: who pumps has polled by then. *)
LEMMA TimePasses ==
    ASSUME NEW t \in Nat, NEW b, GoodBattle(b, t), NEW f, GoodFeed(b, f, t), GoodLog(b, f, t),
           f.pumping => f.polled = t
    PROVE  GoodBattle(b, t + 1) /\ GoodFeed(b, f, t + 1) /\ GoodLog(b, f, t + 1)
<1>1. /\ b.snapshots \in Seq(Nat) /\ b.events \in Seq(Nat) /\ b.result \in Nat \cup {Never}
      /\ b = BattleRecord(b.snapshots, b.events, b.result)
  BY BattleIs
<1>2. /\ f.polled \in Nat /\ f.log \in Seq(Item)
  BY FeedIs
<1>3. /\ \A i \in 1..Len(b.snapshots) : b.snapshots[i] \in Nat /\ b.snapshots[i] <= t
      /\ \A i \in 1..Len(b.events) : b.events[i] \in Nat /\ b.events[i] <= t
  <2>1. \A q \in Seq(Nat) : \A i \in 1..Len(q) : q[i] \in Nat
    OBVIOUS
  <2>2. /\ \A i \in 1..Len(b.snapshots) : b.snapshots[i] <= t
        /\ \A i \in 1..Len(b.events) : b.events[i] <= t
    BY DEF GoodBattle
  <2> QED BY <1>1, <2>1, <2>2
<1>4. \A x \in Nat \cup {Never} : x <= t => x <= t + 1
  BY DEF Never
<1>5. GoodBattle(b, t + 1)
  <2>1. b.result <= t + 1
    BY <1>1, <1>4 DEF GoodBattle
  <2>2. /\ \A i \in 1..Len(b.snapshots) : b.snapshots[i] <= t + 1
        /\ \A i \in 1..Len(b.events) : b.events[i] <= t + 1
    BY <1>3, <1>4
  <2>3. \E sn \in Seq(Nat), ev \in Seq(Nat), res \in Nat \cup {Never} :
           b = BattleRecord(sn, ev, res)
    BY <1>1
  <2> QED BY <2>1, <2>2, <2>3 DEF GoodBattle
<1>6. GoodFeed(b, f, t + 1)
  <2>1. f.polled <= t + 1 /\ (f.pumping => t + 1 <= f.polled + 1)
    BY <1>2 DEF GoodFeed
  <2> QED BY <2>1 DEF GoodFeed
<1>7. GoodLog(b, f, t + 1)
  <2>1. \A n \in 1..Len(f.log) : f.log[n].at <= t + 1
    BY <1>2, <1>4, LogEntry DEF GoodLog
  <2> QED BY <2>1 DEF GoodLog
<1> QED BY <1>5, <1>6, <1>7

Longer(old, new, t) ==
    /\ Len(old) <= Len(new)
    /\ \A i \in 1..Len(old) : new[i] = old[i]
    /\ \A i \in 1..Len(new) : new[i] <= t

(* The battle goes on: what was made stays, the result is of now. *)
LEMMA BattleGoesOn ==
    ASSUME NEW t \in Nat, NEW b, GoodBattle(b, t), NEW f, GoodFeed(b, f, t), GoodLog(b, f, t),
           NEW sn \in Seq(Nat), NEW ev \in Seq(Nat), NEW res \in Nat \cup {Never},
           NEW c, c = BattleRecord(sn, ev, res),
           Longer(b.snapshots, sn, t), Longer(b.events, ev, t),
           res = b.result \/ (b.result = Never /\ res = t)
    PROVE  GoodBattle(c, t) /\ GoodFeed(c, f, t) /\ GoodLog(c, f, t)
<1> USE DEF Longer
<1>1. c.snapshots = sn /\ c.events = ev /\ c.result = res
  BY DEF BattleRecord
<1>2. /\ b.result \in Nat \cup {Never} /\ b.result <= t
      /\ Len(b.snapshots) \in Nat /\ Len(b.events) \in Nat
  BY BattleIs DEF GoodBattle
<1>3. /\ f.polled \in Nat /\ f.snapshots \in Nat /\ f.events \in Nat
      /\ f.snapshots <= Len(b.snapshots) /\ f.events <= Len(b.events)
      /\ f.polled <= t
  BY FeedIs DEF GoodFeed
<1>4. GoodBattle(c, t)
  <2>1. res <= t
    BY <1>2
  <2> QED BY <1>1, <2>1 DEF GoodBattle
<1>5. GoodFeed(c, f, t)
  <2>1. f.snapshots <= Len(sn) /\ f.events <= Len(ev)
    BY SMTT(60), ZenonT(60), <1>2, <1>3
  <2>2. f.finished => res # Never
    BY DEF GoodFeed, Never
  <2>3. f.pumping /\ res # Never => f.polled <= res
    BY <1>3 DEF GoodFeed
  <2> QED BY <1>1, <1>3, <2>1, <2>2, <2>3 DEF GoodFeed
<1>6. ASSUME NEW n \in 1..Len(f.log) PROVE GoodItem(c, f, f.log[n])
  <2>1. GoodItem(b, f, f.log[n])
    BY DEF GoodLog
  <2>2. \A k \in 1..f.snapshots : k \in 1..Len(b.snapshots) /\ sn[k] = b.snapshots[k]
    <3> SUFFICES ASSUME NEW k \in 1..f.snapshots PROVE k \in 1..Len(b.snapshots)
      OBVIOUS
    <3> QED BY <1>2, <1>3
  <2>3. \A k \in 1..f.events : k \in 1..Len(b.events) /\ ev[k] = b.events[k]
    <3> SUFFICES ASSUME NEW k \in 1..f.events PROVE k \in 1..Len(b.events)
      OBVIOUS
    <3> QED BY <1>2, <1>3
  <2>4. f.finished => res = b.result
    BY DEF GoodFeed
  <2> QED BY ZenonT(60), SMTT(60), <1>1, <2>1, <2>2, <2>3, <2>4 DEF GoodItem
<1>7. GoodLog(c, f, t)
  BY <1>6 DEF GoodLog
<1> QED BY <1>4, <1>5, <1>7

(* The detach of its battle stops a feed. *)
LEMMA Stopped ==
    ASSUME NEW t \in Nat, NEW b, NEW f, GoodFeed(b, f, t), GoodLog(b, f, t),
           NEW g, g = [f EXCEPT !.pumping = FALSE]
    PROVE  /\ GoodFeed(b, g, t) /\ GoodLog(b, g, t)
           /\ g.log = f.log /\ g.finished = f.finished /\ ~g.pumping
<1>1. PICK pu, fi, po, sn, ev, log :
          /\ f = FeedRecord(pu, po, sn, ev, fi, log)
          /\ pu \in BOOLEAN /\ fi \in BOOLEAN /\ po \in Nat /\ sn \in Nat /\ ev \in Nat
          /\ log \in Seq(Item)
  BY DEF GoodFeed, IsFeed
<1>2. \A v : [f EXCEPT !.pumping = v] = FeedRecord(v, po, sn, ev, fi, log)
  BY <1>1 DEF FeedRecord
<1>3. g = FeedRecord(FALSE, po, sn, ev, fi, log)
  BY <1>2
<1>4. /\ f.polled = po /\ f.snapshots = sn /\ f.events = ev /\ f.finished = fi /\ f.log = log
  BY <1>1 DEF FeedRecord
<1>5. /\ g.polled = po /\ g.snapshots = sn /\ g.events = ev /\ g.finished = fi /\ g.log = log
      /\ ~g.pumping
  BY <1>3 DEF FeedRecord
<1>6. IsFeed(g)
  <2>1. \A v \in BOOLEAN : IsFeed(FeedRecord(v, po, sn, ev, fi, log))
    BY <1>1, FeedRecordTyped
  <2> QED BY <1>3, <2>1
<1>7. GoodFeed(b, g, t)
  BY <1>4, <1>5, <1>6 DEF GoodFeed
<1>8. \A e : GoodItem(b, f, e) => GoodItem(b, g, e)
  BY <1>4, <1>5 DEF GoodItem
<1>9. GoodLog(b, g, t)
  BY <1>4, <1>5, <1>8 DEF GoodLog
<1> QED BY <1>4, <1>5, <1>7, <1>9

(* A run starts, with a snapshot or without. *)
Starts(b, f, sn, log, t) ==
    /\ b = BattleRecord(sn, <<>>, Never)
    /\ f = FeedRecord(TRUE, t, Len(sn), 0, FALSE, log)
    /\ log = <<>> \/ (Len(sn) = 1 /\ log = <<ItemOf(t, "snapshot", 1)>>)

LEMMA Started ==
    ASSUME NEW t \in Nat, NEW sn \in Seq(Nat), Len(sn) \in 0..1,
           \A i \in 1..Len(sn) : sn[i] = t,
           NEW b, NEW f, NEW log, Starts(b, f, sn, log, t)
    PROVE  GoodBattle(b, t) /\ GoodFeed(b, f, t) /\ GoodLog(b, f, t) /\ f.pumping
<1>1. b.snapshots = sn /\ b.events = <<>> /\ b.result = Never
  BY DEF Starts, BattleRecord
<1>2. /\ f.pumping /\ ~f.finished /\ f.polled = t /\ f.snapshots = Len(sn) /\ f.events = 0
      /\ f.log = log
  BY DEF Starts, FeedRecord
<1>3. log \in Seq(Item) /\ Len(log) \in 0..1
  <2>1. ItemOf(t, "snapshot", 1) \in Item
    BY ItemIs DEF Kinds
  <2>2. CASE log = <<>>
    BY <2>2
  <2>3. CASE log = <<ItemOf(t, "snapshot", 1)>>
    <3> DEFINE e == ItemOf(t, "snapshot", 1)
    <3>1. e \in Item /\ log = <<e>>
      BY <2>1, <2>3
    <3> HIDE DEF e
    <3> QED BY <3>1
  <2> QED BY <2>2, <2>3 DEF Starts
<1>4. ASSUME NEW n \in 1..Len(log)
      PROVE  Len(sn) = 1 /\ n = 1 /\ log[n] = ItemOf(t, "snapshot", 1)
  BY DEF Starts
<1>5. GoodBattle(b, t)
  <2>1. Never <= t /\ Never \in Nat \cup {Never} /\ <<>> \in Seq(Nat)
    BY DEF Never
  <2>2. \E sn1 \in Seq(Nat), ev1 \in Seq(Nat), res \in Nat \cup {Never} :
           b = BattleRecord(sn1, ev1, res)
    BY <2>1 DEF Starts
  <2>3. \A i \in 1..Len(b.snapshots) : b.snapshots[i] <= t
    BY <1>1
  <2>4. 1..Len(b.events) = {}
    BY <1>1
  <2> QED BY <1>1, <2>1, <2>2, <2>3, <2>4 DEF GoodBattle
<1>6. GoodFeed(b, f, t)
  <2>1. IsFeed(f)
    <3>1. Len(sn) \in Nat
      OBVIOUS
    <3> QED BY <3>1, <1>3, FeedRecordTyped DEF Starts
  <2>2. f.polled <= t /\ f.snapshots <= Len(b.snapshots)
    BY <1>1, <1>2
  <2>3. f.events <= Len(b.events)
    BY <1>1, <1>2
  <2>4. t <= f.polled + 1 /\ b.result = Never
    BY <1>1, <1>2
  <2> QED BY <1>2, <2>1, <2>2, <2>3, <2>4 DEF GoodFeed
<1>7. GoodLog(b, f, t)
  <2>1. ASSUME NEW n \in 1..Len(log) PROVE log[n].at <= t /\ GoodItem(b, f, log[n])
    <3>1. log[n].at = t /\ log[n].kind = "snapshot" /\ log[n].n = 1
      BY <1>4, ItemIs
    <3>2. Len(sn) = 1 /\ 1 \in 1..Len(sn)
      BY <1>4
    <3>3. 1 \in 1..f.snapshots /\ b.snapshots[1] = t
      BY <1>1, <1>2, <3>2
    <3> QED BY <3>1, <3>3 DEF GoodItem
  <2>2. Sorted(log)
    BY <1>4 DEF Sorted
  <2>3. f.log \in Seq(Item) /\ Sorted(f.log) /\ ~f.finished
    BY <1>2, <1>3, <2>2
  <2>4. \A n \in 1..Len(f.log) : f.log[n].at <= t /\ GoodItem(b, f, f.log[n])
    BY <1>2, <2>1
  <2> QED BY <2>3, <2>4 DEF GoodLog
<1> QED BY <1>2, <1>5, <1>6, <1>7

-----------------------------------------------------------------------------
(* A connection and the log of its feed *)

LEMMA ConnRecordIs ==
    ASSUME NEW run \in Nat, NEW sn \in Nat, NEW from \in Nat, NEW inbox \in Seq(Nat),
           NEW timers, timers \subseteq Timer
    PROVE  \A op, fi \in BOOLEAN :
             LET c == ConnRecord(op, run, sn, fi, from, inbox, timers) IN
             /\ IsConn(c)
             /\ c.open = op /\ c.run = run /\ c.snapshot = sn /\ c.finished = fi
             /\ c.from = from /\ c.inbox = inbox /\ c.timers = timers
<1> SUFFICES ASSUME NEW op \in BOOLEAN, NEW fi \in BOOLEAN
             PROVE  LET c == ConnRecord(op, run, sn, fi, from, inbox, timers) IN
                     /\ IsConn(c)
                     /\ c.open = op /\ c.run = run /\ c.snapshot = sn /\ c.finished = fi
                     /\ c.from = from /\ c.inbox = inbox /\ c.timers = timers
  OBVIOUS
<1>1. IsConn(ConnRecord(op, run, sn, fi, from, inbox, timers))
  BY DEF IsConn
<1> QED BY <1>1 DEF ConnRecord

LEMMA ConnIs ==
    ASSUME NEW c, IsConn(c)
    PROVE  /\ c.open \in BOOLEAN /\ c.finished \in BOOLEAN
           /\ c.run \in Nat /\ c.snapshot \in Nat /\ c.from \in Nat
           /\ c.inbox \in Seq(Nat) /\ c.timers \subseteq Timer /\ Len(c.inbox) \in Nat
           /\ c = ConnRecord(c.open, c.run, c.snapshot, c.finished, c.from, c.inbox, c.timers)
<1>1. PICK op \in BOOLEAN, fi \in BOOLEAN, run \in Nat, sn \in Nat, from \in Nat,
           inbox \in Seq(Nat), timers \in SUBSET Timer :
              c = ConnRecord(op, run, sn, fi, from, inbox, timers)
  BY DEF IsConn
<1>2. /\ c.open = op /\ c.finished = fi /\ c.run = run /\ c.snapshot = sn /\ c.from = from
      /\ c.inbox = inbox /\ c.timers = timers
  BY <1>1 DEF ConnRecord
<1> QED BY <1>1, <1>2

(* One field at a time. *)
WithOpen(c, v) == [c EXCEPT !.open = v]
WithRun(c, v) == [c EXCEPT !.run = v]
WithSnapshot(c, v) == [c EXCEPT !.snapshot = v]
WithFinished(c, v) == [c EXCEPT !.finished = v]
WithFrom(c, v) == [c EXCEPT !.from = v]
WithInbox(c, v) == [c EXCEPT !.inbox = v]
WithTimers(c, v) == [c EXCEPT !.timers = v]

LEMMA FieldIs ==
    ASSUME NEW op, NEW run, NEW sn, NEW fi, NEW from, NEW inbox, NEW timers, NEW v
    PROVE  LET c == ConnRecord(op, run, sn, fi, from, inbox, timers) IN
           /\ WithOpen(c, v) = ConnRecord(v, run, sn, fi, from, inbox, timers)
           /\ WithRun(c, v) = ConnRecord(op, v, sn, fi, from, inbox, timers)
           /\ WithSnapshot(c, v) = ConnRecord(op, run, v, fi, from, inbox, timers)
           /\ WithFinished(c, v) = ConnRecord(op, run, sn, v, from, inbox, timers)
           /\ WithFrom(c, v) = ConnRecord(op, run, sn, fi, v, inbox, timers)
           /\ WithInbox(c, v) = ConnRecord(op, run, sn, fi, from, v, timers)
           /\ WithTimers(c, v) = ConnRecord(op, run, sn, fi, from, inbox, v)
  BY DEF ConnRecord, WithOpen, WithRun, WithSnapshot, WithFinished, WithFrom, WithInbox,
         WithTimers

(* The two fields that change while it is open. *)
With(c, inbox, timers) == [c EXCEPT !.inbox = inbox, !.timers = timers]

LEMMA WithIs ==
    ASSUME NEW c, IsConn(c), NEW inbox \in Seq(Nat), NEW timers, timers \subseteq Timer,
           NEW d, d = With(c, inbox, timers)
    PROVE  /\ IsConn(d) /\ d.inbox = inbox /\ d.timers = timers
           /\ d.open = c.open /\ d.run = c.run /\ d.snapshot = c.snapshot
           /\ d.finished = c.finished /\ d.from = c.from
<1>1. PICK op \in BOOLEAN, fi \in BOOLEAN, run \in Nat, sn \in Nat, from \in Nat,
           x \in Seq(Nat), y \in SUBSET Timer : c = ConnRecord(op, run, sn, fi, from, x, y)
  BY DEF IsConn
<1>2. d = ConnRecord(op, run, sn, fi, from, inbox, timers)
  BY <1>1 DEF With, ConnRecord
<1>3. /\ c.open = op /\ c.finished = fi /\ c.run = run /\ c.snapshot = sn /\ c.from = from
  BY <1>1 DEF ConnRecord
<1>4. /\ d.open = op /\ d.finished = fi /\ d.run = run /\ d.snapshot = sn /\ d.from = from
      /\ d.inbox = inbox /\ d.timers = timers
  BY <1>2 DEF ConnRecord
<1>5. IsConn(d)
  BY SMTT(60), ZenonT(60), <1>2 DEF IsConn
<1> QED BY <1>3, <1>4, <1>5

LEMMA NoConnIs ==
    /\ IsConn(NoConn) /\ ~NoConn.open /\ NoConn.timers = {} /\ NoConn.inbox = <<>>
    /\ \A no \in BOOLEAN : ~no => NoConn = ConnRecord(no, 0, 0, no, 0, <<>>, {})
<1>1. /\ ~NoConn.open /\ NoConn.timers = {} /\ NoConn.inbox = <<>>
      /\ \A no \in BOOLEAN : ~no => NoConn = ConnRecord(no, 0, 0, no, 0, <<>>, {})
  BY DEF NoConn, ConnRecord
<1>2. PICK no \in BOOLEAN : ~no
  OBVIOUS
<1>3. 0 \in Nat /\ <<>> \in Seq(Nat) /\ {} \subseteq Timer
  OBVIOUS
<1>4. IsConn(ConnRecord(no, 0, 0, no, 0, <<>>, {}))
  BY ZenonT(60), SMTT(60), <1>3, ConnRecordIs
<1> QED BY <1>1, <1>2, <1>4

(* A connection that is welcomed. *)
Opened(op, run, sn, fi, from, timers) ==
    WithTimers(WithFrom(WithFinished(WithSnapshot(
        WithRun(WithOpen(NoConn, op), run), sn), fi), from), timers)

LEMMA OpenedIs ==
    ASSUME NEW run \in Nat, NEW op \in BOOLEAN, NEW sn \in Nat, NEW fi \in BOOLEAN,
           NEW from \in Nat, NEW timers, timers \subseteq Timer,
           NEW c, c = Opened(op, run, sn, fi, from, timers)
    PROVE  /\ IsConn(c) /\ c.open = op /\ c.run = run /\ c.snapshot = sn
           /\ c.finished = fi /\ c.from = from /\ c.inbox = <<>> /\ c.timers = timers
<1>1. PICK no \in BOOLEAN : NoConn = ConnRecord(no, 0, 0, no, 0, <<>>, {})
  BY NoConnIs
<1>2. PICK c1 : c1 = WithOpen(NoConn, op)
  OBVIOUS
<1>3. PICK c2 : c2 = WithRun(c1, run)
  OBVIOUS
<1>4. PICK c3 : c3 = WithSnapshot(c2, sn)
  OBVIOUS
<1>5. PICK c4 : c4 = WithFinished(c3, fi)
  OBVIOUS
<1>6. PICK c5 : c5 = WithFrom(c4, from)
  OBVIOUS
<1>7. c = WithTimers(c5, timers)
  BY <1>2, <1>3, <1>4, <1>5, <1>6 DEF Opened
<1>8. c1 = ConnRecord(op, 0, 0, no, 0, <<>>, {})
  BY <1>1, <1>2, FieldIs
<1>9. c2 = ConnRecord(op, run, 0, no, 0, <<>>, {})
  BY <1>3, <1>8, FieldIs
<1>10. c3 = ConnRecord(op, run, sn, no, 0, <<>>, {})
  BY <1>4, <1>9, FieldIs
<1>11. c4 = ConnRecord(op, run, sn, fi, 0, <<>>, {})
  BY <1>5, <1>10, FieldIs
<1>12. c5 = ConnRecord(op, run, sn, fi, from, <<>>, {})
  BY <1>6, <1>11, FieldIs
<1>13. c = ConnRecord(op, run, sn, fi, from, <<>>, timers)
  BY <1>7, <1>12, FieldIs
<1>14. <<>> \in Seq(Nat)
  OBVIOUS
<1>15. IsConn(c)
  BY <1>13, <1>14 DEF IsConn
<1> QED BY <1>13, <1>15 DEF ConnRecord

SendsNow(c, d, from, to) ==
    d = With(c, c.inbox \o [i \in 1..(to - from) |-> from + i], c.timers)

(* The log grows, and what is new is sent: at once without a delay.         *)
LEMMA SentNow ==
    ASSUME NEW t \in Nat, NEW old \in Seq(Item), NEW log \in Seq(Item), Grown(old, log, t),
           NEW c, IsConn(c), GoodConn(c, old, t, 0),
           NEW d, SendsNow(c, d, Len(old), Len(log))
    PROVE  /\ IsConn(d) /\ d.open = c.open /\ d.run = c.run
           /\ GoodConn(d, log, t, 0)
           /\ \A i \in 1..Len(d.inbox) : i > Len(c.inbox) =>
                  d.inbox[i] \in 1..Len(log) /\ log[d.inbox[i]].at = t
<1>1. /\ c.inbox \in Seq(Nat) /\ c.timers \subseteq Timer /\ Len(c.inbox) \in Nat
      /\ Len(old) \in Nat /\ Len(log) \in Nat
  <2>1. c.inbox \in Seq(Nat) /\ c.timers \subseteq Timer /\ Len(c.inbox) \in Nat
    BY ConnIs
  <2> QED BY <2>1
<1> USE DEF Grown, SendsNow
<1>2. PICK m \in Nat : m = Len(old)
  BY <1>1
<1>3. PICK k \in Nat : k = Len(log) - m
  BY <1>1, <1>2
<1>4. PICK x : x = [i \in 1..(Len(log) - Len(old)) |-> Len(old) + i]
  OBVIOUS
<1>5. x = [i \in 1..k |-> m + i]
  BY <1>2, <1>3, <1>4
<1>6. x \in Seq(Nat) /\ Len(x) = k /\ \A i \in 1..k : x[i] = m + i
  <2>1. \A i \in 1..k : m + i \in Nat
    OBVIOUS
  <2> QED BY <1>5, <2>1
<1>7. PICK y : y = c.inbox \o x
  OBVIOUS
<1>8. PICK j0 \in Nat : j0 = Len(c.inbox)
  BY <1>1
<1>9. y \in Seq(Nat) /\ Len(y) = j0 + k
  <2>1. c.inbox \o x \in Seq(Nat) /\ Len(c.inbox \o x) = Len(c.inbox) + Len(x)
    BY ZenonT(60), SMTT(60), <1>1, <1>6, JoinIs
  <2> QED BY <2>1, <1>6, <1>7, <1>8
<1>10. \A i \in 1..Len(y) : IF i <= j0 THEN i \in 1..j0 /\ y[i] = c.inbox[i]
                                       ELSE y[i] = m + (i - j0) /\ y[i] \in 1..Len(log) /\ y[i] > m
  <2> SUFFICES ASSUME NEW i \in 1..Len(y)
               PROVE  IF i <= j0 THEN i \in 1..j0 /\ y[i] = c.inbox[i]
                                 ELSE y[i] = m + (i - j0) /\ y[i] \in 1..Len(log) /\ y[i] > m
    OBVIOUS
  <2>1. i \in Nat /\ i >= 1 /\ i <= j0 + k
    BY <1>9
  <2>2. CASE i <= j0
    BY <2>1, <2>2, <1>1, <1>6, <1>7, <1>8
  <2>3. CASE ~(i <= j0)
    <3>1. i - j0 \in 1..k
      BY <2>1, <2>3
    <3>2. y[i] = x[i - j0]
      BY <2>1, <2>3, <1>1, <1>6, <1>7, <1>8
    <3>3. y[i] = m + (i - j0)
      BY <3>1, <3>2, <1>6
    <3>4. m + (i - j0) \in 1..Len(log) /\ m + (i - j0) > m
      BY SMTT(60), ZenonT(60), <3>1, <1>3, <1>1
    <3> QED BY <2>3, <3>3, <3>4
  <2> QED BY <2>2, <2>3
<1>11. /\ IsConn(d) /\ d.inbox = y /\ d.timers = c.timers
       /\ d.open = c.open /\ d.run = c.run /\ d.snapshot = c.snapshot
       /\ d.finished = c.finished /\ d.from = c.from
  <2>1. d = With(c, y, c.timers)
    BY <1>4, <1>7
  <2> QED BY SMTT(60), ZenonT(60), <2>1, <1>1, <1>9, WithIs
<1>12. c.timers = {} /\ \A i \in 1..j0 : c.inbox[i] \in 1..m
  BY <1>2, <1>8 DEF GoodConn, GoodTimers
<1>13. \A n \in 1..Len(log) : n > m => log[n].at = t
  BY <1>2
<1>14. \A n \in 1..m : n \in 1..Len(log) /\ log[n] = old[n] /\ old[n].at <= t /\ old[n].at \in Nat
  BY <1>2, LogEntry
<1>23. ASSUME NEW i \in 1..Len(y)
       PROVE  /\ i <= j0 => y[i] \in 1..m
              /\ ~(i <= j0) => y[i] \in 1..Len(log) /\ y[i] > m
  BY <1>10, <1>12
<1>15. ASSUME NEW i \in 1..Len(y) PROVE y[i] \in 1..Len(log)
  BY <1>10, <1>12, <1>14
<1>16. GoodTimers(d, log, t, 0)
  BY <1>11, <1>12 DEF GoodTimers
<1>17. ASSUME NEW n \in 1..Len(log) PROVE Sees(d, log, n) \/ Has(d, n)
  <2>1. CASE n <= m
    <3>1. n \in 1..m
      BY <2>1, <1>1
    <3>2. Sees(c, old, n) \/ Has(c, n)
      BY <3>1, <1>2, <1>12 DEF GoodConn, Whole, Awaits
    <3>3. Sees(c, old, n) => Sees(d, log, n)
      BY <3>1, <1>11, <1>14 DEF Sees
    <3>4. ASSUME Has(c, n) PROVE Has(d, n)
      <4>1. PICK i \in 1..j0 : c.inbox[i] = n
        BY <3>4, <1>8 DEF Has
      <4>2. i \in 1..Len(y) /\ i <= j0
        BY <1>9
      <4> QED BY <4>1, <4>2, <1>10, <1>11 DEF Has
    <3> QED BY <3>2, <3>3, <3>4
  <2>2. CASE ~(n <= m)
    <3>1. PICK i \in 1..k : i = n - m
      BY <2>2, <1>1, <1>3
    <3>2. j0 + i \in 1..Len(y) /\ ~(j0 + i <= j0)
      BY <1>9
    <3>3. y[j0 + i] = m + ((j0 + i) - j0)
      BY <3>2, <1>10
    <3>4. y[j0 + i] = n
      BY <3>1, <3>3
    <3> QED BY <3>2, <3>4, <1>11 DEF Has
  <2> QED BY <2>1, <2>2
<1>18. ASSUME NEW i \in 1..Len(y), NEW j \in 1..Len(y), y[i] = y[j] PROVE i = j
  <2>1. i \in Nat /\ j \in Nat
    BY <1>9
  <2>2. CASE i <= j0 /\ j <= j0
    BY <2>2, <1>8, <1>10, <1>18 DEF GoodConn, Whole
  <2>3. CASE i <= j0 /\ ~(j <= j0)
    <3>1. y[i] \in 1..m /\ y[j] > m
      BY <2>3, <1>23
    <3> QED BY <3>1, <1>18
  <2>4. CASE ~(i <= j0) /\ j <= j0
    <3>1. y[j] \in 1..m /\ y[i] > m
      BY <2>4, <1>23
    <3> QED BY <3>1, <1>18
  <2>5. CASE ~(i <= j0) /\ ~(j <= j0)
    <3>1. m + (i - j0) = m + (j - j0)
      BY <2>5, <1>10, <1>18
    <3> QED BY <2>1, <3>1
  <2> QED BY <2>2, <2>3, <2>4, <2>5
<1>19. ASSUME NEW i \in 1..Len(y), NEW j \in 1..Len(y), i < j PROVE log[y[i]].at <= log[y[j]].at
  <2>1. i \in Nat /\ j \in Nat
    BY <1>9
  <2>2. CASE j <= j0
    <3>1. i \in 1..j0 /\ j \in 1..j0 /\ y[i] = c.inbox[i] /\ y[j] = c.inbox[j]
      BY <2>1, <2>2, <1>10, <1>19
    <3>2. old[c.inbox[i]].at <= old[c.inbox[j]].at
      BY <3>1, <1>8, <1>19 DEF GoodConn, Whole
    <3> QED BY <3>1, <3>2, <1>12, <1>14
  <2>3. CASE ~(j <= j0)
    <3>1. log[y[j]].at = t
      BY <2>3, <1>10, <1>13
    <3>2. log[y[i]].at <= t
      <4>1. CASE i <= j0
        <5>1. y[i] \in 1..m
          BY <4>1, <1>23
        <5> QED BY <5>1, <1>14
      <4>2. CASE ~(i <= j0)
        <5>1. log[y[i]].at = t
          BY <4>2, <1>13, <1>23
        <5> QED BY <5>1
      <4> QED BY <4>1, <4>2
    <3> QED BY <3>1, <3>2
  <2> QED BY <2>2, <2>3
<1>20. Whole(d, log)
  BY ZenonT(60), SMTT(60), <1>11, <1>12, <1>17, <1>18, <1>19 DEF Whole, Awaits
<1>21. GoodConn(d, log, t, 0)
  BY <1>11, <1>15, <1>16, <1>20 DEF GoodConn
<1>22. ASSUME NEW i \in 1..Len(y), i > j0 PROVE y[i] \in 1..Len(log) /\ log[y[i]].at = t
  BY SMTT(60), ZenonT(60), <1>9, <1>10, <1>13, <1>22
<1> QED BY <1>8, <1>11, <1>21, <1>22

TimersFor(from, to, due) == {[due |-> due, n |-> n, late |-> FALSE] : n \in (from + 1)..to}

SendsLater(c, d, from, to, due) ==
    \E new : new = TimersFor(from, to, due) /\ d = With(c, c.inbox, c.timers \cup new)

(* With a delay, a timer is set for each. *)
LEMMA SentLater ==
    ASSUME NEW t \in Nat, NEW w \in Nat, w > 0,
           NEW old \in Seq(Item), NEW log \in Seq(Item), Grown(old, log, t),
           NEW c, IsConn(c), GoodConn(c, old, t, w),
           NEW d, SendsLater(c, d, Len(old), Len(log), t + w)
    PROVE  /\ IsConn(d) /\ d.open = c.open /\ d.run = c.run /\ d.inbox = c.inbox
           /\ GoodConn(d, log, t, w)
<1>0. PICK new : /\ new = TimersFor(Len(old), Len(log), t + w)
                 /\ d = With(c, c.inbox, c.timers \cup new)
  BY DEF SendsLater
<1>1. /\ c.inbox \in Seq(Nat) /\ c.timers \subseteq Timer /\ Len(c.inbox) \in Nat
      /\ Len(old) \in Nat /\ Len(log) \in Nat
  <2>1. c.inbox \in Seq(Nat) /\ c.timers \subseteq Timer /\ Len(c.inbox) \in Nat
    BY ConnIs
  <2> QED BY <2>1
<1> USE <1>0 DEF Grown
<1>2. PICK m \in Nat : m = Len(old)
  BY <1>1
<1>3. ASSUME NEW u \in new
      PROVE  /\ u.due = t + w /\ u.n \in 1..Len(log) /\ u.n > m
             /\ u \in Timer /\ u = [due |-> t + w, n |-> u.n, late |-> FALSE]
  <2>1. PICK n \in (m + 1)..Len(log) : u = [due |-> t + w, n |-> n, late |-> FALSE]
    BY <1>2 DEF TimersFor
  <2>2. n \in 1..Len(log) /\ n > m /\ n \in Nat /\ t + w \in Nat
    BY <1>1
  <2>3. u.due = t + w /\ u.n = n
    BY <2>1
  <2>4. u \in Timer
    BY <2>1, <2>2 DEF Timer
  <2> QED BY <2>1, <2>2, <2>3, <2>4
<1>4. ASSUME NEW n \in 1..Len(log), n > m PROVE \E u \in new : u.n = n
  <2>1. n \in (m + 1)..Len(log)
    BY <1>1, <1>4
  <2>2. PICK u : u = [due |-> t + w, n |-> n, late |-> FALSE]
    OBVIOUS
  <2>3. u \in new /\ u.n = n
    BY <1>2, <2>1, <2>2 DEF TimersFor
  <2> QED BY <2>3
<1>5. c.timers \cup new \subseteq Timer
  BY <1>1, <1>3
<1>6. /\ IsConn(d) /\ d.inbox = c.inbox /\ d.timers = c.timers \cup new
      /\ d.open = c.open /\ d.run = c.run /\ d.snapshot = c.snapshot
      /\ d.finished = c.finished /\ d.from = c.from
  BY SMTT(60), ZenonT(60), <1>1, <1>5, WithIs
<1>7. /\ \A n \in 1..m : n \in 1..Len(log) /\ log[n] = old[n] /\ old[n].at <= t
      /\ \A n \in 1..Len(log) : n > m => log[n].at = t
  BY <1>2
<1>8. /\ \A i \in 1..Len(c.inbox) : c.inbox[i] \in 1..m
      /\ \A u \in c.timers : u.n \in 1..m /\ u.due = old[u.n].at + w /\ t <= u.due
      /\ \A u, v \in c.timers : u.n = v.n => u = v
  BY <1>2 DEF GoodConn, GoodTimers
<1>9. \A k \in 1..m : k <= m /\ ~(k > m)
  OBVIOUS
<1>10. GoodTimers(d, log, t, w)
  <2>1. ASSUME NEW u \in d.timers
        PROVE  u.n \in 1..Len(log) /\ u.due = log[u.n].at + w /\ t <= u.due
    <3>1. CASE u \in c.timers
      BY <3>1, <1>7, <1>8
    <3>2. CASE u \in new
      <4>1. log[u.n].at = t /\ u.due = t + w /\ u.n \in 1..Len(log)
        BY <3>2, <1>3, <1>7
      <4> QED BY <4>1
    <3> QED BY <2>1, <3>1, <3>2, <1>6
  <2>2. ASSUME NEW u \in d.timers, NEW v \in d.timers, u.n = v.n PROVE u = v
    <3>1. CASE u \in c.timers /\ v \in c.timers
      BY <3>1, <2>2, <1>8
    <3>2. CASE u \in new /\ v \in new
      BY <3>2, <2>2, <1>3
    <3>3. CASE u \in c.timers /\ v \in new
      BY <3>3, <2>2, <1>3, <1>8, <1>9
    <3>4. CASE u \in new /\ v \in c.timers
      BY <3>4, <2>2, <1>3, <1>8, <1>9
    <3> QED BY <2>2, <3>1, <3>2, <3>3, <3>4, <1>6
  <2>3. ~(w = 0)
    OBVIOUS
  <2>4. \A u \in d.timers : u.n \in 1..Len(log) /\ u.due = log[u.n].at + w /\ t <= u.due
    BY <2>1
  <2>5. \A u, v \in d.timers : u.n = v.n => u = v
    BY <2>2
  <2> QED BY <2>3, <2>4, <2>5 DEF GoodTimers
<1>11. Whole(d, log)
  <2>1. ASSUME NEW n \in 1..Len(log) PROVE Sees(d, log, n) \/ Has(d, n) \/ Awaits(d, n)
    <3>1. CASE n <= m
      <4>1. n \in 1..m
        BY <3>1, <1>1
      <4>2. Sees(c, old, n) \/ Has(c, n) \/ Awaits(c, n)
        BY <4>1, <1>2 DEF GoodConn, Whole
      <4>3. Sees(c, old, n) => Sees(d, log, n)
        BY <4>1, <1>6, <1>7 DEF Sees
      <4>4. Has(c, n) => Has(d, n)
        BY <1>6 DEF Has
      <4>5. Awaits(c, n) => Awaits(d, n)
        BY <1>6 DEF Awaits
      <4> QED BY <4>2, <4>3, <4>4, <4>5
    <3>2. CASE ~(n <= m)
      <4>1. n > m
        BY <3>2, <1>1
      <4> QED BY <4>1, <1>4, <1>6 DEF Awaits
    <3> QED BY <3>1, <3>2
  <2>2. ASSUME NEW n \in 1..Len(log), Has(d, n), Awaits(d, n) PROVE FALSE
    <3>1. PICK i \in 1..Len(c.inbox) : c.inbox[i] = n
      BY <2>2, <1>6 DEF Has
    <3>2. n \in 1..m
      BY <3>1, <1>8
    <3>3. PICK u \in d.timers : u.n = n
      BY <2>2 DEF Awaits
    <3>4. u \in c.timers
      BY <3>2, <3>3, <1>3, <1>6, <1>9
    <3>5. Has(c, n) /\ Awaits(c, n)
      BY <3>1, <3>3, <3>4 DEF Has, Awaits
    <3> QED BY <3>2, <3>5, <1>2 DEF GoodConn, Whole
  <2>3. ASSUME NEW i \in 1..Len(c.inbox), NEW j \in 1..Len(c.inbox)
        PROVE  /\ c.inbox[i] = c.inbox[j] => i = j
               /\ i < j => log[c.inbox[i]].at <= log[c.inbox[j]].at
    <3>1. log[c.inbox[i]] = old[c.inbox[i]] /\ log[c.inbox[j]] = old[c.inbox[j]]
      BY <1>7, <1>8
    <3> QED BY <3>1 DEF GoodConn, Whole
  <2>4. ASSUME NEW i \in 1..Len(c.inbox), NEW u \in d.timers
        PROVE  log[c.inbox[i]].at <= log[u.n].at
    <3>1. log[c.inbox[i]] = old[c.inbox[i]] /\ old[c.inbox[i]].at <= t
      BY <1>7, <1>8
    <3>2. CASE u \in c.timers
      BY <3>1, <3>2, <1>7, <1>8 DEF GoodConn, Whole
    <3>3. CASE u \in new
      <4>1. log[u.n].at = t
        BY <3>3, <1>3, <1>7
      <4> QED BY <3>1, <4>1
    <3> QED BY <2>4, <3>2, <3>3, <1>6
  <2>5. /\ \A n \in 1..Len(log) : Sees(d, log, n) \/ Has(d, n) \/ Awaits(d, n)
        /\ \A n \in 1..Len(log) : ~(Has(d, n) /\ Awaits(d, n))
    BY <2>1, <2>2
  <2>8. \A i, j \in 1..Len(d.inbox) : d.inbox[i] = d.inbox[j] => i = j
    BY <2>3, <1>6
  <2>6. \A i, j \in 1..Len(d.inbox) : i < j => log[d.inbox[i]].at <= log[d.inbox[j]].at
    <3>1. \A i, j \in 1..Len(c.inbox) : i < j => log[c.inbox[i]].at <= log[c.inbox[j]].at
      BY <2>3
    <3> QED BY <3>1, <1>6
  <2>7. \A i \in 1..Len(d.inbox), u \in d.timers : log[d.inbox[i]].at <= log[u.n].at
    BY <2>4, <1>6
  <2> QED BY <2>5, <2>6, <2>7, <2>8 DEF Whole
<1>12. GoodConn(d, log, t, w)
  BY <1>6, <1>7, <1>8, <1>10, <1>11 DEF GoodConn
<1> QED BY <1>6, <1>12

(* The next timer of a connection fires. *)
Delivers(c, d, u) ==
    /\ \A v \in c.timers : u.due <= v.due
    /\ d = With(c, Append(c.inbox, u.n), c.timers \ {u})

(* A timer fires: what it was for has come instead. *)
LEMMA Delivered ==
    ASSUME NEW t \in Nat, NEW w \in Nat, NEW log \in Seq(Item),
           NEW c, IsConn(c), GoodConn(c, log, t, w),
           NEW u \in c.timers, NEW d, Delivers(c, d, u)
    PROVE  /\ IsConn(d) /\ d.open = c.open /\ d.run = c.run
           /\ GoodConn(d, log, t, w)
           /\ \A i \in 1..Len(d.inbox) : i > Len(c.inbox) => d.inbox[i] = u.n
<1> USE DEF Delivers
<1>1. c.inbox \in Seq(Nat) /\ c.timers \subseteq Timer
  BY ConnIs
<1>2. PICK k \in Nat : k = Len(c.inbox)
  BY <1>1
<1>3. u.n \in Nat
  BY <1>1 DEF Timer
<1>4. PICK y : y = Append(c.inbox, u.n)
  OBVIOUS
<1>5. /\ y \in Seq(Nat) /\ Len(y) = k + 1 /\ y[k + 1] = u.n
      /\ \A i \in 1..k : y[i] = c.inbox[i]
  BY <1>1, <1>2, <1>3, <1>4
<1>6. /\ IsConn(d) /\ d.inbox = y /\ d.timers = c.timers \ {u}
      /\ d.open = c.open /\ d.run = c.run /\ d.snapshot = c.snapshot
      /\ d.finished = c.finished /\ d.from = c.from
  <2>1. PICK ts : ts = c.timers \ {u}
    OBVIOUS
  <2>2. d = With(c, y, ts) /\ ts \subseteq Timer
    BY <1>1, <1>4, <2>1
  <2>3. /\ IsConn(d) /\ d.inbox = y /\ d.timers = ts
        /\ d.open = c.open /\ d.run = c.run /\ d.snapshot = c.snapshot
        /\ d.finished = c.finished /\ d.from = c.from
    BY <2>2, <1>5, WithIs
  <2> QED BY <2>1, <2>3
<1>7. \A i \in 1..Len(y) : i = k + 1 \/ i \in 1..k
  BY <1>5
<1>8. /\ \A v \in c.timers : v.n \in 1..Len(log) /\ v.due = log[v.n].at + w
      /\ \A v, x \in c.timers : v.n = x.n => v = x
  BY DEF GoodConn, GoodTimers
<1>9. \A v \in c.timers : log[v.n].at \in Nat /\ log[u.n].at <= log[v.n].at
  <2> SUFFICES ASSUME NEW v \in c.timers PROVE log[v.n].at \in Nat /\ log[u.n].at <= log[v.n].at
    OBVIOUS
  <2>1. PICK x \in Nat, z \in Nat : x = log[u.n].at /\ z = log[v.n].at
    BY <1>8, LogEntry
  <2>2. u.due = x + w /\ v.due = z + w
    BY <2>1, <1>8
  <2>3. x + w <= z + w
    BY <2>2
  <2>4. x <= z
    BY <2>3
  <2> QED BY <2>1, <2>4
<1>10. \A i \in 1..k : /\ c.inbox[i] \in 1..Len(log) /\ c.inbox[i] # u.n
                       /\ \A v \in c.timers : log[c.inbox[i]].at <= log[v.n].at
  <2> SUFFICES ASSUME NEW i \in 1..k
               PROVE  /\ c.inbox[i] \in 1..Len(log) /\ c.inbox[i] # u.n
                      /\ \A v \in c.timers : log[c.inbox[i]].at <= log[v.n].at
    OBVIOUS
  <2>1. Has(c, c.inbox[i]) /\ Awaits(c, u.n)
    BY <1>2 DEF Has, Awaits
  <2> QED BY <2>1, <1>2, <1>8 DEF GoodConn, Whole
<1>11. \A n : Has(d, n) <=> Has(c, n) \/ n = u.n
  <2> SUFFICES ASSUME NEW n PROVE Has(d, n) <=> Has(c, n) \/ n = u.n
    OBVIOUS
  <2>1. ASSUME Has(d, n) PROVE Has(c, n) \/ n = u.n
    BY <2>1, <1>2, <1>5, <1>6, <1>7 DEF Has
  <2>2. ASSUME Has(c, n) PROVE Has(d, n)
    <3>1. PICK i \in 1..k : c.inbox[i] = n
      BY <2>2, <1>2 DEF Has
    <3>2. i \in 1..Len(y) /\ y[i] = n
      BY <3>1, <1>5
    <3> QED BY <3>2, <1>6 DEF Has
  <2>3. ASSUME n = u.n PROVE Has(d, n)
    <3>1. k + 1 \in 1..Len(y)
      BY <1>5
    <3> QED BY <2>3, <3>1, <1>5, <1>6 DEF Has
  <2> QED BY <2>1, <2>2, <2>3
<1>12. \A n : Awaits(d, n) <=> Awaits(c, n) /\ n # u.n
  BY <1>6, <1>8 DEF Awaits
<1>13. Whole(d, log)
  <2>1. ASSUME NEW n \in 1..Len(log)
        PROVE  (Sees(d, log, n) \/ Has(d, n) \/ Awaits(d, n)) /\ ~(Has(d, n) /\ Awaits(d, n))
    <3>1. (Sees(c, log, n) \/ Has(c, n) \/ Awaits(c, n)) /\ ~(Has(c, n) /\ Awaits(c, n))
      BY DEF GoodConn, Whole
    <3>2. Sees(c, log, n) => Sees(d, log, n)
      BY <1>6 DEF Sees
    <3> QED BY <3>1, <3>2, <1>11, <1>12
  <2>2. ASSUME NEW i \in 1..Len(y), NEW j \in 1..Len(y), y[i] = y[j] PROVE i = j
    <3>1. CASE i \in 1..k /\ j \in 1..k
      BY <3>1, <2>2, <1>2, <1>5 DEF GoodConn, Whole
    <3>2. CASE i = k + 1 /\ j \in 1..k
      BY <3>2, <2>2, <1>5, <1>10
    <3>3. CASE i \in 1..k /\ j = k + 1
      BY <3>3, <2>2, <1>5, <1>10
    <3>4. CASE i = k + 1 /\ j = k + 1
      BY <3>4
    <3> QED BY <3>1, <3>2, <3>3, <3>4, <1>7
  <2>3. ASSUME NEW i \in 1..Len(y), NEW j \in 1..Len(y), i < j PROVE log[y[i]].at <= log[y[j]].at
    <3>1. i \in 1..k
      BY <2>3, <1>5
    <3>2. CASE j \in 1..k
      BY <3>1, <3>2, <2>3, <1>2, <1>5 DEF GoodConn, Whole
    <3>3. CASE j = k + 1
      BY <3>1, <3>3, <1>5, <1>10
    <3> QED BY <3>2, <3>3, <1>7
  <2>4. ASSUME NEW i \in 1..Len(y), NEW v \in d.timers PROVE log[y[i]].at <= log[v.n].at
    <3>1. v \in c.timers
      BY <1>6
    <3>2. CASE i \in 1..k
      BY <3>1, <3>2, <1>5, <1>10
    <3>3. CASE i = k + 1
      BY <3>1, <3>3, <1>5, <1>9
    <3> QED BY <3>2, <3>3, <1>7
  <2> QED BY ZenonT(60), SMTT(60), <2>1, <2>2, <2>3, <2>4, <1>6 DEF Whole
<1>14. GoodTimers(d, log, t, w)
  BY <1>6 DEF GoodConn, GoodTimers
<1>15. \A i \in 1..Len(y) : y[i] \in 1..Len(log)
  BY <1>5, <1>7, <1>8, <1>10
<1>16. GoodConn(d, log, t, w)
  BY <1>6, <1>13, <1>14, <1>15 DEF GoodConn
<1>17. \A i \in 1..Len(y) : i > k => y[i] = u.n
  BY <1>5, <1>7
<1> QED BY <1>2, <1>6, <1>16, <1>17

(* Time passes when no timer is due. *)
LEMMA Waits ==
    ASSUME NEW t \in Nat, NEW w \in Nat, NEW log \in Seq(Item), NEW c, IsConn(c),
           GoodConn(c, log, t, w), \A u \in c.timers : u.due > t
    PROVE  GoodConn(c, log, t + 1, w)
<1>1. \A u \in c.timers : u.due \in Nat
  BY ConnIs DEF Timer
<1>2. \A u \in c.timers : t + 1 <= u.due
  BY <1>1
<1> QED BY <1>2 DEF GoodConn, GoodTimers

(* Who connects is told what is due, and no more, and awaits the rest. *)
LEMMA Welcomed ==
    ASSUME GoodRuns, now \in Nat, delay \in Nat, NEW r \in Run, NEW c, c = Welcome(r)
    PROVE  /\ IsConn(c) /\ c.open /\ c.run = r /\ c.inbox = <<>>
           /\ GoodConn(c, feed[r].log, now, delay)
           /\ c.snapshot # 0 => battle[r].snapshots[c.snapshot] + delay <= now
           /\ c.finished => battle[r].result + delay <= now
<1>1. PICK t \in Nat, w \in Nat : t = now /\ w = delay
  OBVIOUS
<1>2. PICK b, f : b = battle[r] /\ f = feed[r]
  OBVIOUS
<1>3. GoodBattle(b, t) /\ GoodFeed(b, f, t) /\ GoodLog(b, f, t)
  BY <1>1, <1>2 DEF GoodRuns
<1>4. PICK log \in Seq(Item) : log = f.log
  BY <1>3, FeedIs
<1>5. /\ b.snapshots \in Seq(Nat) /\ b.result \in Nat \cup {Never} /\ Len(b.snapshots) \in Nat
      /\ f.snapshots \in Nat /\ f.snapshots <= Len(b.snapshots) /\ Len(log) \in Nat
  BY <1>3, <1>4, BattleIs, FeedIs DEF GoodFeed
<1>6. r \in Nat /\ <<>> \in Seq(Nat) /\ {} \subseteq Timer
  BY SpectateAssumption DEF Run
<1>7. Sorted(log) /\ \A n \in 1..Len(log) : GoodItem(b, f, log[n])
  BY <1>3, <1>4 DEF GoodLog
<1>8. f.finished => b.result # Never
  BY <1>3 DEF GoodFeed
<1>9. CASE w = 0
  <2>1. PICK fi \in BOOLEAN : fi <=> b.result # Never
    OBVIOUS
  <2>2. PICK op \in BOOLEAN : op = TRUE
    OBVIOUS
  <2>3. c = Opened(op, r, Len(b.snapshots), fi, Len(log), {})
    <3>1. ~(delay > 0) /\ fi = (battle[r].result # Never)
      BY <1>1, <1>2, <1>9, <2>1
    <3>2. PICK d : d = WithFrom(WithFinished(WithSnapshot(
                WithRun(WithOpen(NoConn, op), r), Len(b.snapshots)), fi), Len(log))
      OBVIOUS
    <3>3. c = d
      BY <1>2, <1>4, <3>1, <3>2, <2>2
         DEF Welcome, WithOpen, WithRun, WithSnapshot, WithFinished, WithFrom
    <3>4. d.timers = {}
      BY <3>2 DEF NoConn, WithOpen, WithRun, WithSnapshot, WithFinished, WithFrom
    <3>5. d = WithTimers(d, {})
      BY <3>2, <3>4 DEF NoConn, WithOpen, WithRun, WithSnapshot, WithFinished, WithFrom, WithTimers
    <3> QED BY <3>2, <3>3, <3>5 DEF Opened
  <2>4. /\ IsConn(c) /\ c.open /\ c.run = r /\ c.snapshot = Len(b.snapshots)
        /\ c.finished = fi /\ c.from = Len(log) /\ c.inbox = <<>> /\ c.timers = {}
    <3>1. PICK sn \in Nat, from \in Nat, ts \in SUBSET Timer :
              sn = Len(b.snapshots) /\ from = Len(log) /\ ts = {}
      BY <1>5
    <3>2. c = Opened(op, r, sn, fi, from, ts)
      BY <2>3, <3>1
    <3>3. /\ IsConn(c) /\ c.open = op /\ c.run = r /\ c.snapshot = sn
          /\ c.finished = fi /\ c.from = from /\ c.inbox = <<>> /\ c.timers = ts
      BY <1>6, <3>2, OpenedIs
    <3> QED BY <2>2, <3>1, <3>3
  <2>5. ASSUME NEW n \in 1..Len(log) PROVE Sees(c, log, n)
    <3>1. GoodItem(b, f, log[n])
      BY <1>7
    <3>2. \A k \in 1..f.snapshots : k <= Len(b.snapshots)
      BY <1>5
    <3>3. n <= Len(log)
      BY <1>5
    <3> QED BY <1>8, <2>1, <2>4, <3>1, <3>2, <3>3 DEF GoodItem, Sees
  <2>6. Whole(c, log) /\ GoodTimers(c, log, t, w)
    BY <2>4, <2>5 DEF Whole, GoodTimers, Has, Awaits
  <2>7. GoodConn(c, log, t, w)
    BY <2>4, <2>6 DEF GoodConn
  <2>8. c.snapshot # 0 => b.snapshots[c.snapshot] + w <= t
    BY SMTT(60), ZenonT(60), <1>3, <1>5, <1>9, <2>4 DEF GoodBattle
  <2>9. b.result + w <= t
    BY <1>3, <1>5, <1>9 DEF GoodBattle, Never
  <2> QED BY <1>1, <1>2, <1>4, <2>4, <2>7, <2>8, <2>9
<1>10. CASE w > 0
  <2>1. PICK k : k = Due(r)
    OBVIOUS
  <2>2. k = Cardinality({n \in DOMAIN log : log[n].at + w <= t})
    BY <1>1, <1>2, <1>4, <2>1 DEF Due
  <2>3. k \in 0..Len(log) /\ \A n \in 1..Len(log) : log[n].at + w <= t <=> n <= k
    BY <1>7, <2>2, DueIs
  <2>4. k \in Nat /\ \A n \in 1..k : n \in 1..Len(log) /\ n \in Nat /\ log[n].at + w <= t
    BY <1>5, <2>3
  <2>5. PICK sn : sn = DueSnapshot(r)
    OBVIOUS
  <2>6. PICK ns : ns = {n \in 1..k : log[n].kind = "snapshot"}
    OBVIOUS
  <2>7. sn = IF ns = {} THEN 0 ELSE log[Max(ns)].n
    BY <1>2, <1>4, <2>1, <2>5, <2>6 DEF DueSnapshot, Upto
  <2>8. IsFiniteSet(ns) /\ ns \subseteq Nat
    BY <2>4, <2>6, FS_Interval, FS_Subset
  <2>9. ns # {} => Max(ns) \in 1..k /\ log[Max(ns)].kind = "snapshot" /\ \A n \in ns : n <= Max(ns)
    <3> SUFFICES ASSUME ns # {}
                 PROVE  Max(ns) \in 1..k /\ log[Max(ns)].kind = "snapshot"
                        /\ \A n \in ns : n <= Max(ns)
      OBVIOUS
    <3>1. PICK m : m = Max(ns)
      OBVIOUS
    <3>2. m \in ns /\ \A n \in ns : n <= m
      BY <2>8, <3>1, LastIs
    <3> QED BY <2>6, <3>1, <3>2
  <2>10. ASSUME NEW n \in 1..k, log[n].kind = "snapshot" PROVE log[n].n <= sn
    <3>1. n \in ns /\ n <= Max(ns) /\ Max(ns) \in 1..k /\ log[Max(ns)].kind = "snapshot"
      BY <2>6, <2>9, <2>10
    <3>2. PICK m \in 1..k : m = Max(ns)
      BY <3>1
    <3>3. sn = log[m].n /\ n <= m /\ log[m].kind = "snapshot"
      BY <3>1, <3>2, <2>7
    <3>4. CASE n = m
      <4>1. log[n].n \in Nat
        BY <2>4, LogEntry
      <4> QED BY <4>1, <3>3, <3>4
    <3>5. CASE n < m
      <4>1. n \in 1..Len(log) /\ m \in 1..Len(log)
        BY <2>4
      <4> QED BY <4>1, <3>3, <3>5, <2>10, <1>7 DEF Sorted
    <3> QED BY <3>2, <3>3, <3>4, <3>5, <2>4
  <2>11. sn \in Nat /\ (sn # 0 => b.snapshots[sn] + w <= t)
    <3>1. CASE ns = {}
      BY <3>1, <2>7
    <3>2. CASE ns # {}
      <4>1. PICK m \in 1..k : m = Max(ns)
        BY <2>9, <3>2
      <4>2. sn = log[m].n /\ log[m].kind = "snapshot"
        BY <2>7, <2>9, <3>2, <4>1
      <4>3. m \in 1..Len(log) /\ log[m].at + w <= t
        BY <2>4
      <4>4. sn \in 1..f.snapshots /\ b.snapshots[sn] <= log[m].at
        BY <4>2, <4>3, <1>7 DEF GoodItem
      <4>5. sn \in Nat /\ sn \in 1..Len(b.snapshots)
        BY <4>4, <1>5
      <4>8. PICK x \in Nat : x = b.snapshots[sn]
        BY <4>5, <1>5
      <4>9. PICK y \in Nat : y = log[m].at
        BY <4>3, LogEntry
      <4>6. x = b.snapshots[sn] /\ y = log[m].at
        BY <4>8, <4>9
      <4>7. x + w <= t
        BY SMTT(60), ZenonT(60), <4>3, <4>4, <4>6
      <4> QED BY <4>5, <4>6, <4>7
    <3> QED BY <3>1, <3>2
  <2>12. PICK fi \in BOOLEAN : fi <=> \E n \in 1..k : log[n].kind = "result"
    OBVIOUS
  <2>13. fi = DueResult(r)
    BY <1>2, <1>4, <2>1, <2>12 DEF DueResult, Upto
  <2>14. fi => b.result + w <= t
    <3> SUFFICES ASSUME fi PROVE b.result + w <= t
      OBVIOUS
    <3>1. PICK n \in 1..k : log[n].kind = "result"
      BY <2>12
    <3>2. n \in 1..Len(log) /\ log[n].at + w <= t
      BY <2>4
    <3>3. b.result <= log[n].at
      BY <1>7, <3>1, <3>2 DEF GoodItem
    <3>4. PICK x \in Nat, y \in Int : x = log[n].at /\ y = b.result
      BY SMTT(60), ZenonT(60), <1>5, <3>2, LogEntry DEF Never
    <3>5. y + w <= t
      BY SMTT(60), ZenonT(60), <3>2, <3>3, <3>4
    <3> QED BY <3>4, <3>5
  <2>15. PICK ts : ts = Backlog(r)
    OBVIOUS
  <2>16. ts = {[due |-> log[n].at + w, n |-> n, late |-> TRUE] : n \in (k + 1)..Len(log)}
    BY <1>1, <1>2, <1>4, <2>1, <2>15 DEF Backlog
  <2>17. \A n \in (k + 1)..Len(log) : n \in 1..Len(log) /\ ~(n <= k) /\ n \in Nat
    BY <1>5, <2>4
  <2>18. ASSUME NEW u \in ts
         PROVE  /\ u.n \in 1..Len(log) /\ u.due = log[u.n].at + w /\ t <= u.due
                /\ u \in Timer
                /\ \A lt \in BOOLEAN : lt => u = [due |-> log[u.n].at + w, n |-> u.n, late |-> lt]
    <3>1. PICK n \in (k + 1)..Len(log) : u = [due |-> log[n].at + w, n |-> n, late |-> TRUE]
      BY <2>16
    <3>2. n \in 1..Len(log) /\ ~(log[n].at + w <= t) /\ n \in Nat
      BY <2>3, <2>17
    <3>3. PICK x \in Nat : x = log[n].at
      BY <3>2, LogEntry
    <3>4. u.n = n /\ u.due = x + w
      BY <3>1, <3>3
    <3>5. t <= x + w /\ x + w \in Nat
      BY <3>2, <3>3
    <3>6. u \in Timer
      <4>1. \A lt \in BOOLEAN : [due |-> x + w, n |-> n, late |-> lt] \in Timer
        BY <3>2, <3>5 DEF Timer
      <4> QED BY <4>1, <3>1, <3>3
    <3>7. ASSUME NEW lt \in BOOLEAN, lt PROVE u = [due |-> log[u.n].at + w, n |-> u.n, late |-> lt]
      <4>1. lt = TRUE
        BY <3>7
      <4> QED BY <4>1, <3>1, <3>4
    <3> QED BY <3>2, <3>3, <3>4, <3>5, <3>6, <3>7
  <2>19. \A u, v \in ts : u.n = v.n => u = v
    <3>1. PICK lt \in BOOLEAN : lt
      OBVIOUS
    <3>2. \A u \in ts : u = [due |-> log[u.n].at + w, n |-> u.n, late |-> lt]
      BY <2>18, <3>1
    <3> QED BY <3>2
  <2>20. ASSUME NEW n \in 1..Len(log), n > k PROVE \E u \in ts : u.n = n
    <3>1. n \in (k + 1)..Len(log)
      BY <1>5, <2>4, <2>20
    <3>2. PICK u : u = [due |-> log[n].at + w, n |-> n, late |-> TRUE]
      OBVIOUS
    <3>3. u \in ts /\ u.n = n
      BY <2>16, <3>1, <3>2
    <3> QED BY <3>3
  <2>28. PICK op \in BOOLEAN : op = TRUE
    OBVIOUS
  <2>21. c = Opened(op, r, sn, fi, k, ts)
    <3>1. delay > 0
      BY <1>1, <1>10
    <3> QED BY <3>1, <2>1, <2>5, <2>13, <2>15, <2>28
            DEF Welcome, Opened, WithOpen, WithRun, WithSnapshot, WithFinished, WithFrom, WithTimers
  <2>22. ts \subseteq Timer
    BY <2>18
  <2>23. /\ IsConn(c) /\ c.open /\ c.run = r /\ c.snapshot = sn
         /\ c.finished = fi /\ c.from = k /\ c.inbox = <<>> /\ c.timers = ts
    <3>1. sn \in Nat /\ k \in Nat
      BY <2>4, <2>11
    <3>2. /\ IsConn(c) /\ c.open = op /\ c.run = r /\ c.snapshot = sn
          /\ c.finished = fi /\ c.from = k /\ c.inbox = <<>> /\ c.timers = ts
      BY <3>1, <1>6, <2>21, <2>22, OpenedIs
    <3> QED BY <2>28, <3>2
  <2>24. ASSUME NEW n \in 1..Len(log) PROVE Sees(c, log, n) \/ Awaits(c, n)
    <3>1. CASE n <= k
      <4>1. n \in 1..k
        BY <1>5, <3>1
      <4>2. log[n].kind = "snapshot" => log[n].n <= sn
        BY <4>1, <2>10
      <4>3. log[n].kind = "result" => fi
        BY <4>1, <2>12
      <4> QED BY <4>2, <4>3, <3>1, <2>23 DEF Sees
    <3>2. CASE n > k
      BY <3>2, <2>20, <2>23 DEF Awaits
    <3> QED BY <3>1, <3>2, <1>5, <2>4
  <2>25. Whole(c, log)
    BY <2>23, <2>24 DEF Whole, Has
  <2>26. GoodTimers(c, log, t, w)
    BY <1>10, <2>18, <2>19, <2>23 DEF GoodTimers
  <2>27. GoodConn(c, log, t, w)
    BY <2>23, <2>25, <2>26 DEF GoodConn
  <2> QED BY <1>1, <1>2, <1>4, <2>11, <2>14, <2>23, <2>27
<1> QED BY <1>9, <1>10

-----------------------------------------------------------------------------
(* The invariant holds at first, and every step keeps it *)

LEMMA Basics ==
    ASSUME SInv
    PROVE  /\ now \in Nat /\ delay \in Nat /\ MaxRuns \in Nat /\ runs \in Nat /\ runs <= MaxRuns
           /\ DetachBase \in Nat /\ DetachBase >= 2 /\ MaxTime \in Nat
           /\ \A r \in 1..runs : r \in Run /\ r \in Nat /\ ~(r > runs)
           /\ \A r \in Run : r \in Nat /\ r # 0
           /\ attached # 0 => attached \in 1..runs
<1>1. /\ Delays \subseteq Nat /\ DetachBase \in Nat \ {0, 1}
      /\ MaxRuns \in Nat /\ MaxTime \in Nat
  BY SpectateAssumption
<1>2. now \in 0..MaxTime /\ delay \in Delays /\ runs \in 0..MaxRuns /\ attached \in 0..runs
  BY DEF SInv, Shape
<1>3. \A r \in 1..runs : r \in Run /\ r \in Nat /\ ~(r > runs)
  BY <1>1, <1>2 DEF Run
<1>4. \A r \in Run : r \in Nat /\ r # 0
  BY <1>1 DEF Run
<1> QED BY <1>1, <1>2, <1>3, <1>4

LEMMA Initially == Init => SInv
<1> SUFFICES ASSUME Init PROVE SInv
  OBVIOUS
<1>1. /\ MaxRuns \in Nat /\ MaxTime \in Nat /\ Delays \subseteq Nat
  BY SpectateAssumption
<1>2. Shape
  BY <1>1 DEF Init, Shape
<1>3. NoBattle = BattleRecord(<<>>, <<>>, Never)
  BY DEF NoBattle, BattleRecord
<1>4. NoBattle.snapshots = <<>> /\ NoBattle.events = <<>> /\ NoBattle.result = Never
  BY DEF NoBattle
<1>5. <<>> \in Seq(Nat) /\ <<>> \in Seq(Item) /\ Never \in Nat \cup {Never} /\ Never <= 0
  BY DEF Never
<1>6. GoodBattle(NoBattle, 0)
  <2>1. \E sn \in Seq(Nat), ev \in Seq(Nat), res \in Nat \cup {Never} :
            NoBattle = BattleRecord(sn, ev, res)
    BY <1>3, <1>5
  <2>2. 1..Len(NoBattle.snapshots) = {} /\ 1..Len(NoBattle.events) = {}
    BY <1>4
  <2> QED BY <2>1, <2>2, <1>4, <1>5 DEF GoodBattle
<1>7. \A no \in BOOLEAN : ~no => NoFeed = FeedRecord(no, 0, 0, 0, no, <<>>)
  BY DEF NoFeed, FeedRecord
<1>8. /\ ~NoFeed.pumping /\ ~NoFeed.finished /\ NoFeed.polled = 0 /\ NoFeed.snapshots = 0
      /\ NoFeed.events = 0 /\ NoFeed.log = <<>>
  BY DEF NoFeed
<1>9. IsFeed(NoFeed)
  <2>1. PICK no \in BOOLEAN : ~no
    OBVIOUS
  <2>2. NoFeed = FeedRecord(no, 0, 0, 0, no, <<>>)
    BY <1>7, <2>1
  <2>3. IsFeed(FeedRecord(no, 0, 0, 0, no, <<>>))
    BY <1>5, FeedRecordTyped
  <2> QED BY <2>2, <2>3
<1>10. GoodFeed(NoBattle, NoFeed, 0)
  BY <1>4, <1>8, <1>9 DEF GoodFeed
<1>11. GoodLog(NoBattle, NoFeed, 0)
  BY <1>5, <1>8 DEF GoodLog, Sorted
<1>12. GoodDetach(NoBattle, 0, delay)
  BY DEF GoodDetach
<1>13. GoodRuns
  BY <1>6, <1>10, <1>11, <1>12 DEF Init, GoodRuns
<1>14. GoodConns
  BY NoConnIs DEF Init, GoodConns, Open
<1> QED BY <1>2, <1>13, <1>14 DEF SInv

LEMMA AttachStep ==
    ASSUME SInv, NEW before \in 0..1, Attach(before)
    PROVE  SInv'
<1> DEFINE r == runs + 1
<1>1. /\ r \in Run /\ r > runs /\ runs' = r /\ phase' = "playing" /\ attached' = r
      /\ r \in Nat /\ r # 0 /\ r <= MaxRuns /\ r \in 1..r
  BY Basics DEF Attach, Run
<1>2. battle[r] = NoBattle /\ feed[r] = NoFeed /\ detach[r] = 0
  BY <1>1 DEF SInv, GoodRuns
<1>3. UNCHANGED <<now, delay, detach, conn, used>>
  BY DEF Attach
<1>4. PICK sn : sn = [i \in 1..before |-> now]
  OBVIOUS
<1>5. sn \in Seq(Nat) /\ Len(sn) = before /\ \A i \in 1..Len(sn) : sn[i] = now
  <2>1. now \in Nat /\ before \in Nat
    BY Basics
  <2> QED BY <1>4, <2>1
<1>6. PICK log : log = IF delay > 0 /\ before > 0 THEN <<Entry("snapshot", before)>> ELSE <<>>
  OBVIOUS
<1>7. /\ battle' = [battle EXCEPT ![r] = [battle[r] EXCEPT !.snapshots = sn]]
      /\ feed' = [feed EXCEPT ![r] = [NoFeed EXCEPT !.pumping = TRUE, !.polled = now,
                                          !.snapshots = before, !.log = log]]
  BY <1>4, <1>6 DEF Attach
<1>8. /\ battle = [q \in Run |-> battle[q]] /\ feed = [q \in Run |-> feed[q]]
  BY DEF SInv, GoodRuns
<1>9. /\ battle'[r] = [NoBattle EXCEPT !.snapshots = sn]
      /\ feed'[r] = [NoFeed EXCEPT !.pumping = TRUE, !.polled = now, !.snapshots = before,
                         !.log = log]
  BY <1>1, <1>2, <1>7, <1>8
<1>10. /\ battle' = [q \in Run |-> battle'[q]] /\ feed' = [q \in Run |-> feed'[q]]
       /\ \A q \in Run : q # r => battle'[q] = battle[q] /\ feed'[q] = feed[q]
  BY <1>7, <1>8
<1>11. battle'[r] = BattleRecord(sn, <<>>, Never)
  BY <1>9 DEF NoBattle, BattleRecord
<1>12. feed'[r] = FeedRecord(TRUE, now, Len(sn), 0, FALSE, log)
  <2>1. feed'[r] = FeedRecord(TRUE, now, before, 0, FALSE, log)
    BY <1>9 DEF NoFeed, FeedRecord
  <2> QED BY <1>5, <2>1
<1>13. Starts(battle'[r], feed'[r], sn, log, now)
  <2>1. log = <<>> \/ (Len(sn) = 1 /\ log = <<ItemOf(now, "snapshot", 1)>>)
    <3>1. CASE before = 0
      BY <3>1, <1>6
    <3>2. CASE before = 1
      <4>1. Entry("snapshot", before) = ItemOf(now, "snapshot", 1)
        BY <3>2 DEF Entry, ItemOf
      <4> QED BY <3>2, <4>1, <1>5, <1>6
    <3> QED BY <3>1, <3>2
  <2> QED BY <1>11, <1>12, <2>1 DEF Starts
<1>14. /\ GoodBattle(battle'[r], now) /\ GoodFeed(battle'[r], feed'[r], now)
       /\ GoodLog(battle'[r], feed'[r], now) /\ feed'[r].pumping
  BY <1>5, <1>13, Basics, Started
<1> HIDE DEF r
<1>15. ASSUME NEW q \in Run
       PROVE  /\ GoodBattle(battle'[q], now') /\ GoodFeed(battle'[q], feed'[q], now')
              /\ GoodLog(battle'[q], feed'[q], now') /\ GoodDetach(battle'[q], detach'[q], delay')
              /\ q > runs' => battle'[q] = NoBattle /\ feed'[q] = NoFeed
              /\ q > runs' \/ (phase' = "playing" /\ q = runs') => detach'[q] = 0
  <2>1. CASE q = r
    <3>1. GoodDetach(battle'[r], detach[r], delay)
      BY <1>2 DEF GoodDetach
    <3> QED BY <2>1, <3>1, <1>1, <1>2, <1>3, <1>14
  <2>2. CASE q # r
    <3>1. q > r => q > runs
      BY <1>1, Basics
    <3> QED BY <2>2, <3>1, <1>1, <1>3, <1>10 DEF SInv, GoodRuns
  <2> QED BY <2>1, <2>2
<1>16. detach' = [q \in Run |-> detach'[q]]
  BY <1>3 DEF SInv, GoodRuns
<1>17. GoodRuns'
  BY <1>10, <1>15, <1>16 DEF GoodRuns
<1>18. GoodConns'
  <2>1. \A q \in 1..runs : q \in 1..r /\ q \in Run /\ q # r
    BY <1>1, Basics
  <2> QED BY <2>1, <1>1, <1>3, <1>10 DEF SInv, GoodConns, Open
<1>19. Shape'
  BY <1>1, <1>3, <1>14, Basics DEF SInv, Shape
<1> QED BY <1>17, <1>18, <1>19 DEF SInv

LEMMA ProduceStep == ASSUME SInv, Produce PROVE SInv'
<1>1. /\ UNCHANGED <<now, delay, phase, runs, feed, attached, detach, conn, used>>
      /\ runs \in Run /\ phase = "playing" /\ runs # 0
  BY Basics DEF Produce, SInv, Shape
<1>2. PICK b : b = battle[runs]
  OBVIOUS
<1>3. GoodBattle(b, now) /\ GoodFeed(b, feed[runs], now) /\ GoodLog(b, feed[runs], now)
  BY <1>1, <1>2 DEF SInv, GoodRuns
<1>4. now \in Nat
  BY Basics
<1>5. /\ b.snapshots \in Seq(Nat) /\ b.events \in Seq(Nat) /\ b.result \in Nat \cup {Never}
      /\ b = BattleRecord(b.snapshots, b.events, b.result)
  BY <1>3, <1>4, BattleIs
<1>6. \A q \in Seq(Nat) : Append(q, now) \in Seq(Nat) /\ Len(q) <= Len(Append(q, now))
  BY <1>4
<1>7. /\ \A i \in 1..Len(b.snapshots) : b.snapshots[i] <= now
      /\ \A i \in 1..Len(b.events) : b.events[i] <= now
      /\ Len(b.snapshots) <= Len(b.snapshots) /\ Len(b.events) <= Len(b.events)
  BY SMTT(60), ZenonT(60), <1>3, <1>5 DEF GoodBattle
<1>13. Longer(b.snapshots, b.snapshots, now) /\ Longer(b.events, b.events, now)
  BY <1>7 DEF Longer
<1>8. battle = [q \in Run |-> battle[q]]
  BY DEF SInv, GoodRuns
<1>9. PICK c : c = battle'[runs]
  OBVIOUS
<1>10. /\ battle' = [q \in Run |-> battle'[q]] /\ \A q \in Run : q # runs => battle'[q] = battle[q]
       /\ \/ c = [b EXCEPT !.snapshots = Append(b.snapshots, now)]
          \/ c = [b EXCEPT !.events = Append(b.events, now)]
          \/ b.result = Never /\ c = [b EXCEPT !.result = now]
  BY <1>1, <1>2, <1>8, <1>9 DEF Produce
<1>11. GoodBattle(c, now) /\ GoodFeed(c, feed[runs], now) /\ GoodLog(c, feed[runs], now)
  <2>1. CASE c = [b EXCEPT !.snapshots = Append(b.snapshots, now)]
    <3>1. PICK sn \in Seq(Nat) : sn = Append(b.snapshots, now)
      BY <1>5, <1>6
    <3>2. c = BattleRecord(sn, b.events, b.result)
      BY <2>1, <3>1, <1>5 DEF BattleRecord
    <3>3. /\ Len(b.snapshots) <= Len(sn) /\ \A i \in 1..Len(b.snapshots) : sn[i] = b.snapshots[i]
          /\ \A i \in 1..Len(sn) : i \in 1..Len(b.snapshots) \/ sn[i] = now
      BY <3>1, <1>4, <1>5
    <3>4. \A i \in 1..Len(sn) : sn[i] <= now
      BY SMTT(60), ZenonT(60), <3>3, <1>4, <1>7
    <3>5. Longer(b.snapshots, sn, now)
      BY <3>3, <3>4 DEF Longer
    <3> QED BY <3>2, <3>5, <1>3, <1>4, <1>5, <1>13, BattleGoesOn
  <2>2. CASE c = [b EXCEPT !.events = Append(b.events, now)]
    <3>1. PICK ev \in Seq(Nat) : ev = Append(b.events, now)
      BY <1>5, <1>6
    <3>2. c = BattleRecord(b.snapshots, ev, b.result)
      BY <2>2, <3>1, <1>5 DEF BattleRecord
    <3>3. /\ Len(b.events) <= Len(ev) /\ \A i \in 1..Len(b.events) : ev[i] = b.events[i]
          /\ \A i \in 1..Len(ev) : i \in 1..Len(b.events) \/ ev[i] = now
      BY <3>1, <1>4, <1>5
    <3>4. \A i \in 1..Len(ev) : ev[i] <= now
      BY SMTT(60), ZenonT(60), <3>3, <1>4, <1>7
    <3>5. Longer(b.events, ev, now)
      BY <3>3, <3>4 DEF Longer
    <3> QED BY <3>2, <3>5, <1>3, <1>4, <1>5, <1>13, BattleGoesOn
  <2>3. CASE b.result = Never /\ c = [b EXCEPT !.result = now]
    <3>1. c = BattleRecord(b.snapshots, b.events, now)
      BY <2>3, <1>5 DEF BattleRecord
    <3> QED BY <2>3, <3>1, <1>3, <1>4, <1>5, <1>13, BattleGoesOn
  <2> QED BY <2>1, <2>2, <2>3, <1>10
<1>12. ASSUME NEW q \in Run
       PROVE  /\ GoodBattle(battle'[q], now') /\ GoodFeed(battle'[q], feed'[q], now')
              /\ GoodLog(battle'[q], feed'[q], now') /\ GoodDetach(battle'[q], detach'[q], delay')
              /\ q > runs' => battle'[q] = NoBattle /\ feed'[q] = NoFeed
              /\ q > runs' \/ (phase' = "playing" /\ q = runs') => detach'[q] = 0
  <2>1. CASE q = runs
    <3>1. detach[runs] = 0 /\ ~(runs > runs)
      BY <1>1, Basics DEF SInv, GoodRuns
    <3>2. GoodDetach(c, 0, delay)
      BY DEF GoodDetach
    <3> QED BY <2>1, <3>1, <3>2, <1>1, <1>9, <1>11
  <2>2. CASE q # runs
    BY <2>2, <1>1, <1>10 DEF SInv, GoodRuns
  <2> QED BY <2>1, <2>2
<1>14. GoodRuns'
  BY <1>1, <1>10, <1>12 DEF SInv, GoodRuns
<1>15. GoodConns' /\ Shape'
  BY <1>1 DEF SInv, GoodConns, Open, Shape
<1> QED BY <1>14, <1>15 DEF SInv

(* The runs are as they were. *)
LEMMA RunsKept ==
    ASSUME SInv, UNCHANGED <<now, delay, battle, phase, runs, feed, detach>>
    PROVE  GoodRuns'
  BY DEF SInv, GoodRuns

(* Every connection is gone, is as it was while its log is too, or is good. *)
LEMMA ConnsKept ==
    ASSUME SInv, UNCHANGED <<now, delay, runs>>, conn' = [s \in Spectator |-> conn'[s]],
           \A s \in Spectator :
              \/ conn'[s] = NoConn
              \/ conn'[s] = conn[s] /\ (Open(s) => feed'[conn[s].run].log = feed[conn[s].run].log)
              \/ /\ IsConn(conn'[s]) /\ conn'[s].open /\ conn'[s].run \in 1..runs
                 /\ GoodConn(conn'[s], feed'[conn'[s].run].log, now, delay)
    PROVE  GoodConns'
<1>1. ASSUME NEW s \in Spectator
      PROVE  /\ IsConn(conn'[s])
             /\ ~conn'[s].open => conn'[s] = NoConn
             /\ conn'[s].open => /\ conn'[s].run \in 1..runs
                                 /\ GoodConn(conn'[s], feed'[conn'[s].run].log, now, delay)
  <2>1. CASE conn'[s] = NoConn
    BY <2>1, NoConnIs
  <2>2. CASE conn'[s] = conn[s] /\ (Open(s) => feed'[conn[s].run].log = feed[conn[s].run].log)
    BY <2>2 DEF SInv, GoodConns, Open
  <2> QED BY <2>1, <2>2
<1> QED BY <1>1 DEF GoodConns, Open

LEMMA EndRunStep == ASSUME SInv, EndRun PROVE SInv'
<1>1. /\ UNCHANGED <<now, delay, battle, runs, feed, attached, conn, used>>
      /\ runs \in Run /\ phase = "playing" /\ phase' = "over" /\ ~(runs > runs)
      /\ detach' = [detach EXCEPT ![runs] = DetachAt]
  BY Basics DEF EndRun, SInv, Shape
<1>2. /\ detach' = [q \in Run |-> detach'[q]] /\ detach'[runs] = DetachAt
      /\ \A q \in Run : q # runs => detach'[q] = detach[q]
  BY <1>1 DEF SInv, GoodRuns
<1>3. GoodDetach(battle[runs], DetachAt, delay)
  <2>1. GoodBattle(battle[runs], now)
    BY <1>1 DEF SInv, GoodRuns
  <2>2. PICK x : x = battle[runs].result
    OBVIOUS
  <2>3. x \in Nat \cup {Never} /\ x <= now
    BY <2>1, <2>2, Basics, BattleIs DEF GoodBattle
  <2>4. DetachAt = now + DetachBase + delay
    BY DEF DetachAt
  <2>5. DetachAt \in Nat /\ (x # Never => x + DetachBase + delay <= DetachAt)
    BY <2>3, <2>4, Basics
  <2> QED BY <2>2, <2>5 DEF GoodDetach
<1>4. \A q \in Run : /\ GoodDetach(battle'[q], detach'[q], delay')
                     /\ q > runs' \/ (phase' = "playing" /\ q = runs') => detach'[q] = 0
  BY <1>1, <1>2, <1>3 DEF SInv, GoodRuns
<1>5. GoodRuns'
  BY <1>1, <1>2, <1>4 DEF SInv, GoodRuns
<1>6. GoodConns' /\ Shape'
  BY <1>1 DEF SInv, GoodConns, Open, Shape
<1> QED BY <1>5, <1>6 DEF SInv

LEMMA ConnectStep ==
    ASSUME SInv, NEW s \in Spectator, NEW t \in Ticket, Connect(s, t)
    PROVE  SInv'
<1>1. /\ UNCHANGED <<now, delay, battle, phase, runs, feed, attached, detach>>
      /\ used' = Remembered \cup {t}
      /\ \/ conn' = conn
         \/ attached # 0 /\ conn' = [conn EXCEPT ![s] = Welcome(attached)]
  BY DEF Connect
<1>2. used' \subseteq Ticket
  BY <1>1 DEF Remembered, SInv, Shape
<1>3. conn = [q \in Spectator |-> conn[q]]
  BY DEF SInv, GoodConns
<1>4. GoodConns'
  <2>1. CASE conn' = conn
    BY <2>1, <1>1 DEF SInv, GoodConns, Open
  <2>2. CASE attached # 0 /\ conn' = [conn EXCEPT ![s] = Welcome(attached)]
    <3>1. attached \in 1..runs /\ attached \in Run
      BY <2>2, Basics
    <3>2. PICK c : c = Welcome(attached)
      OBVIOUS
    <3>3. IsConn(c) /\ c.open /\ c.run = attached /\ GoodConn(c, feed[attached].log, now, delay)
      BY <3>1, <3>2, Basics, Welcomed DEF SInv
    <3>4. /\ conn' = [q \in Spectator |-> conn'[q]] /\ conn'[s] = c
          /\ \A q \in Spectator : q # s => conn'[q] = conn[q]
      BY <2>2, <3>2, <1>3
    <3> QED BY <3>1, <3>3, <3>4, <1>1, ConnsKept
  <2> QED BY <2>1, <2>2, <1>1
<1>5. Shape'
  BY <1>1, <1>2 DEF SInv, Shape
<1> QED BY <1>1, <1>4, <1>5, RunsKept DEF SInv

LEMMA LeaveStep == ASSUME SInv, NEW s \in Spectator, Leave(s) PROVE SInv'
<1>1. /\ UNCHANGED <<now, delay, battle, phase, runs, feed, attached, detach, used>>
      /\ conn' = [conn EXCEPT ![s] = NoConn]
  BY DEF Leave
<1>2. conn' = [q \in Spectator |-> conn'[q]]
      /\ \A q \in Spectator : conn'[q] = NoConn \/ conn'[q] = conn[q]
  BY <1>1 DEF SInv, GoodConns
<1>3. GoodConns'
  BY <1>1, <1>2, ConnsKept
<1>4. Shape'
  BY <1>1 DEF SInv, Shape
<1> QED BY <1>1, <1>3, <1>4, RunsKept DEF SInv

LEMMA InboxIs ==
    ASSUME NEW c, IsConn(c), NEW inbox
    PROVE  [c EXCEPT !.inbox = inbox] = With(c, inbox, c.timers)
<1>1. c = ConnRecord(c.open, c.run, c.snapshot, c.finished, c.from, c.inbox, c.timers)
  BY ConnIs
<1> QED BY <1>1 DEF ConnRecord, With

LEMMA TimersIs ==
    ASSUME NEW c, IsConn(c), NEW timers
    PROVE  [c EXCEPT !.timers = timers] = With(c, c.inbox, timers)
<1>1. c = ConnRecord(c.open, c.run, c.snapshot, c.finished, c.from, c.inbox, c.timers)
  BY ConnIs
<1> QED BY <1>1 DEF ConnRecord, With

(* A poll: the feed is as good as before, and so are its connections; what  *)
(* comes at once without a delay is of now.                                *)
LEMMA Pumped ==
    ASSUME SInv, NEW r \in Run, Pump(r)
    PROVE  /\ r \in 1..runs
           /\ feed' = [q \in Run |-> feed'[q]] /\ \A q \in Run : q # r => feed'[q] = feed[q]
           /\ GoodFeed(battle[r], feed'[r], now) /\ GoodLog(battle[r], feed'[r], now)
           /\ feed'[r].pumping \/ feed'[r].finished
           /\ \A s \in Clients(r) :
                /\ IsConn(conn'[s]) /\ conn'[s].open /\ conn'[s].run = r
                /\ GoodConn(conn'[s], feed'[r].log, now, delay)
                /\ \A i \in 1..Len(conn'[s].inbox) : i > Len(conn[s].inbox) =>
                      /\ conn'[s].inbox[i] \in 1..Len(feed'[r].log)
                      /\ feed'[r].log[conn'[s].inbox[i]].at + delay <= now
<1>1. /\ feed = [q \in Run |-> feed[q]] /\ feed[r].pumping
      /\ r > runs => feed[r] = NoFeed
      /\ GoodBattle(battle[r], now) /\ GoodFeed(battle[r], feed[r], now)
      /\ GoodLog(battle[r], feed[r], now)
  BY DEF SInv, GoodRuns, Pump
<1>2. r \in 1..runs
  BY <1>1, Basics DEF NoFeed
<1>3. PICK b, f : b = battle[r] /\ f = feed[r]
  OBVIOUS
<1>4. New(r) = Added(b, f, now)
  BY <1>3 DEF New, Entry, Added, ItemOf
<1>5. PICK log : log = f.log \o Added(b, f, now)
  OBVIOUS
<1>6. \E over \in BOOLEAN : over = (b.result # Never)
  OBVIOUS
<1>7. PICK g : g = [pumping |-> ~(b.result # Never), polled |-> now,
                    finished |-> (b.result # Never), log |-> log,
                    snapshots |-> Len(b.snapshots), events |-> Len(b.events)]
  OBVIOUS
<1>8. Polls(b, f, now, log, g)
  <2>1. PICK over \in BOOLEAN : over = (b.result # Never)
    BY <1>6
  <2>2. PICK on \in BOOLEAN : on = ~over
    OBVIOUS
  <2>3. (over <=> b.result # Never) /\ (on <=> ~over)
    BY <2>1, <2>2, Zenon
  <2>4. on = ~(b.result # Never)
    BY <2>1, <2>2, Zenon
  <2>5. g = FeedRecord(on, now, Len(b.snapshots), Len(b.events), over, log)
    BY <1>7, <2>1, <2>4, Zenon DEF FeedRecord
  <2> QED BY <1>5, <2>3, <2>5 DEF Polls
<1>9. feed' = [feed EXCEPT ![r] = g]
  BY <1>3, <1>4, <1>5, <1>7 DEF Pump
<1>10. /\ feed' = [q \in Run |-> feed'[q]] /\ feed'[r] = g
       /\ \A q \in Run : q # r => feed'[q] = feed[q]
  BY <1>1, <1>9
<1>12. /\ GoodFeed(b, g, now) /\ GoodLog(b, g, now)
       /\ g.log = log /\ log \in Seq(Item)
       /\ g.finished \/ g.pumping
       /\ Grown(f.log, log, now)
  BY <1>1, <1>3, <1>8, Basics, PollKeeps
<1>13. ASSUME NEW s \in Clients(r)
       PROVE  /\ IsConn(conn'[s]) /\ conn'[s].open /\ conn'[s].run = r
              /\ GoodConn(conn'[s], log, now, delay)
              /\ \A i \in 1..Len(conn'[s].inbox) : i > Len(conn[s].inbox) =>
                    conn'[s].inbox[i] \in 1..Len(log) /\ log[conn'[s].inbox[i]].at + delay <= now
  <2>1. s \in Spectator /\ Open(s) /\ conn[s].run = r
    BY DEF Clients
  <2>2. PICK c, d : c = conn[s] /\ d = conn'[s]
    OBVIOUS
  <2>3. IsConn(c) /\ c.open /\ c.run = r /\ GoodConn(c, f.log, now, delay)
    BY <2>1, <2>2, <1>3 DEF SInv, GoodConns, Open
  <2>4. c.inbox \in Seq(Nat)
    BY <2>3, ConnIs
  <2>5. f.log \in Seq(Item) /\ \A n \in 1..Len(f.log) : f.log[n].at <= now
    BY <1>1, <1>3 DEF GoodLog
  <2>6. d = Sent(c, Len(f.log), Len(log))
    BY <2>1, <2>2, <1>3, <1>4, <1>5 DEF Pump
  <2>7. CASE delay = 0
    <3>1. PICK new : new = [i \in 1..(Len(log) - Len(f.log)) |-> Len(f.log) + i]
      OBVIOUS
    <3>2. d = [c EXCEPT !.inbox = c.inbox \o new]
      BY <2>6, <2>7, <3>1 DEF Sent
    <3>3. d = With(c, c.inbox \o new, c.timers)
      BY <2>3, <3>2, InboxIs
    <3>4. SendsNow(c, d, Len(f.log), Len(log))
      BY <3>1, <3>3 DEF SendsNow
    <3>5. GoodConn(c, f.log, now, 0)
      BY <2>3, <2>7
    <3>6. /\ IsConn(d) /\ d.open = c.open /\ d.run = c.run
          /\ GoodConn(d, log, now, 0)
          /\ \A i \in 1..Len(d.inbox) : i > Len(c.inbox) =>
                 d.inbox[i] \in 1..Len(log) /\ log[d.inbox[i]].at = now
      <4>1. now \in Nat /\ IsConn(c) /\ f.log \in Seq(Item) /\ log \in Seq(Item)
        BY <2>3, <2>5, <1>12, Basics
      <4>2. Grown(f.log, log, now)
        BY <1>12
      <4>3. PICK old \in Seq(Item) : old = f.log
        BY <4>1
      <4>4. Grown(old, log, now) /\ GoodConn(c, old, now, 0) /\ SendsNow(c, d, Len(old), Len(log))
        BY <4>2, <4>3, <3>4, <3>5
      <4> QED BY <4>1, <4>4, SentNow
    <3>7. GoodConn(d, log, now, delay)
      BY <3>6, <2>7
    <3>8. \A x : x = now => x + delay <= now
      BY <2>7, Basics
    <3>9. \A i \in 1..Len(d.inbox) : i > Len(c.inbox) =>
             d.inbox[i] \in 1..Len(log) /\ log[d.inbox[i]].at + delay <= now
      BY <3>6, <3>8
    <3> QED BY <2>2, <2>3, <3>6, <3>7, <3>9
  <2>8. CASE delay # 0
    <3>1. now \in Nat /\ delay \in Nat /\ delay > 0
      BY <2>8, Basics
    <3>2. PICK new : new = TimersFor(Len(f.log), Len(log), now + delay)
      OBVIOUS
    <3>3. d = [c EXCEPT !.timers = c.timers \cup new]
      BY <2>6, <2>8, <3>2 DEF Sent, TimersFor
    <3>4. d = With(c, c.inbox, c.timers \cup new)
      BY <2>3, <3>3, TimersIs
    <3>7. SendsLater(c, d, Len(f.log), Len(log), now + delay)
      BY <3>2, <3>4 DEF SendsLater
    <3>5. /\ IsConn(d) /\ d.open = c.open /\ d.run = c.run /\ d.inbox = c.inbox
          /\ GoodConn(d, log, now, delay)
      <4>1. IsConn(c) /\ f.log \in Seq(Item) /\ log \in Seq(Item) /\ GoodConn(c, f.log, now, delay)
        BY <2>3, <2>5, <1>12
      <4>2. Grown(f.log, log, now)
        BY <1>12
      <4>3. PICK old \in Seq(Item) : old = f.log
        BY <4>1
      <4>4. /\ Grown(old, log, now) /\ GoodConn(c, old, now, delay)
            /\ SendsLater(c, d, Len(old), Len(log), now + delay)
        BY <4>1, <4>2, <4>3, <3>7
      <4> QED BY <4>1, <4>4, <3>1, SentLater
    <3>6. \A i \in 1..Len(d.inbox) : ~(i > Len(c.inbox))
      BY <2>4, <3>5
    <3> QED BY <2>2, <2>3, <3>5, <3>6
  <2> QED BY SMTT(60), ZenonT(60), <2>7, <2>8
<1> QED BY <1>2, <1>3, <1>10, <1>12, <1>13

LEMMA PumpStep == ASSUME SInv, NEW r \in Run, Pump(r) PROVE SInv'
<1>1. /\ UNCHANGED <<now, delay, battle, phase, runs, attached, detach, used>>
      /\ conn' = [s \in Spectator |-> conn'[s]]
      /\ \A s \in Spectator : s \notin Clients(r) => conn'[s] = conn[s]
  BY DEF Pump
<1>2. /\ r \in 1..runs
      /\ feed' = [q \in Run |-> feed'[q]] /\ \A q \in Run : q # r => feed'[q] = feed[q]
      /\ GoodFeed(battle[r], feed'[r], now) /\ GoodLog(battle[r], feed'[r], now)
      /\ feed'[r].pumping \/ feed'[r].finished
  BY Pumped
<1>3. \A s \in Clients(r) : /\ IsConn(conn'[s]) /\ conn'[s].open /\ conn'[s].run = r
                            /\ GoodConn(conn'[s], feed'[r].log, now, delay)
  BY Pumped
<1>4. ASSUME NEW q \in Run
      PROVE  /\ GoodFeed(battle'[q], feed'[q], now') /\ GoodLog(battle'[q], feed'[q], now')
             /\ q > runs' => battle'[q] = NoBattle /\ feed'[q] = NoFeed
  <2>1. CASE q = r
    BY <2>1, <1>1, <1>2, Basics
  <2>2. CASE q # r
    BY <2>2, <1>1, <1>2 DEF SInv, GoodRuns
  <2> QED BY <2>1, <2>2
<1>5. GoodRuns'
  BY <1>1, <1>2, <1>4 DEF SInv, GoodRuns
<1>6. ASSUME NEW s \in Spectator
      PROVE  \/ conn'[s] = conn[s] /\ (Open(s) => feed'[conn[s].run].log = feed[conn[s].run].log)
             \/ /\ IsConn(conn'[s]) /\ conn'[s].open /\ conn'[s].run \in 1..runs
                /\ GoodConn(conn'[s], feed'[conn'[s].run].log, now, delay)
  <2>1. CASE s \in Clients(r)
    BY <2>1, <1>2, <1>3
  <2>2. CASE s \notin Clients(r)
    <3>1. Open(s) => conn[s].run \in Run /\ conn[s].run # r
      BY <2>2, Basics DEF Clients, SInv, GoodConns
    <3> QED BY <2>2, <3>1, <1>1, <1>2
  <2> QED BY <2>1, <2>2
<1>7. GoodConns'
  BY <1>1, <1>6, ConnsKept
<1>8. Shape'
  <2>1. attached # 0 => attached \in Run
    BY Basics
  <2>2. attached # 0 => feed'[attached].pumping \/ feed'[attached].finished
    <3>1. CASE attached = r
      BY <3>1, <1>2
    <3>2. CASE attached # r
      BY <3>2, <2>1, <1>2 DEF SInv, Shape
    <3> QED BY <3>1, <3>2
  <2> QED BY <2>2, <1>1 DEF SInv, Shape
<1> QED BY <1>5, <1>7, <1>8 DEF SInv

(* A delivery: what arrives was awaited, and its time has come. *)
LEMMA DeliveredTo ==
    ASSUME SInv, NEW s \in Spectator, NEW t \in conn[s].timers, Deliver(s, t)
    PROVE  /\ Open(s) /\ conn[s].run \in 1..runs
           /\ conn' = [q \in Spectator |-> conn'[q]]
           /\ \A q \in Spectator : q # s => conn'[q] = conn[q]
           /\ IsConn(conn'[s]) /\ conn'[s].open /\ conn'[s].run = conn[s].run
           /\ GoodConn(conn'[s], feed[conn[s].run].log, now, delay)
           /\ \A i \in 1..Len(conn'[s].inbox) : i > Len(conn[s].inbox) =>
                 /\ conn'[s].inbox[i] \in 1..Len(feed[conn[s].run].log)
                 /\ feed[conn[s].run].log[conn'[s].inbox[i]].at + delay <= now
<1>1. Open(s)
  BY NoConnIs DEF SInv, GoodConns
<1>2. PICK c, d, log : c = conn[s] /\ d = conn'[s] /\ log = feed[conn[s].run].log
  OBVIOUS
<1>3. /\ conn[s].run \in 1..runs /\ IsConn(c) /\ c.open /\ GoodConn(c, log, now, delay)
      /\ conn = [q \in Spectator |-> conn[q]]
  BY <1>1, <1>2 DEF SInv, GoodConns, Open
<1>4. log \in Seq(Item)
  BY <1>2, <1>3, Basics DEF SInv, GoodRuns, GoodLog
<1>5. /\ conn' = [conn EXCEPT ![s] =
                   [c EXCEPT !.timers = c.timers \ {t}, !.inbox = Append(c.inbox, t.n)]]
      /\ t \in c.timers /\ t.due <= now
      /\ \A u \in c.timers : t.due < u.due \/ t.due = u.due
  BY <1>2 DEF Deliver
<1>6. /\ conn' = [q \in Spectator |-> conn'[q]]
      /\ \A q \in Spectator : q # s => conn'[q] = conn[q]
      /\ d = [c EXCEPT !.timers = c.timers \ {t}, !.inbox = Append(c.inbox, t.n)]
  BY <1>2, <1>3, <1>5
<1>7. d = With(c, Append(c.inbox, t.n), c.timers \ {t})
  BY <1>6 DEF With
<1>8. \A u \in c.timers : u.due \in Nat
  BY <1>3, ConnIs DEF Timer
<1>9. \A u \in c.timers : t.due <= u.due
  BY <1>5, <1>8
<1>10. /\ IsConn(d) /\ d.open = c.open /\ d.run = c.run /\ GoodConn(d, log, now, delay)
       /\ \A i \in 1..Len(d.inbox) : i > Len(c.inbox) => d.inbox[i] = t.n
  <2>1. now \in Nat /\ delay \in Nat
    BY Basics
  <2>2. IsConn(c) /\ GoodConn(c, log, now, delay) /\ t \in c.timers
    BY <1>3, <1>5
  <2>3. Delivers(c, d, t)
    BY <1>7, <1>9 DEF Delivers
  <2> QED BY <2>1, <2>2, <2>3, <1>4, Delivered
<1>11. t.n \in 1..Len(log) /\ log[t.n].at + delay <= now
  BY <1>3, <1>5 DEF GoodConn, GoodTimers
<1>12. \A i \in 1..Len(d.inbox) : i > Len(c.inbox) =>
          d.inbox[i] \in 1..Len(log) /\ log[d.inbox[i]].at + delay <= now
  BY SMTT(60), ZenonT(60), <1>10, <1>11
<1>13. /\ d.open /\ d.run = c.run
       /\ \A i \in 1..Len(d.inbox) : i > Len(c.inbox) =>
             /\ d.inbox[i] \in 1..Len(log)
             /\ log[d.inbox[i]].at + delay <= now
  BY SMTT(60), ZenonT(60), <1>3, <1>10, <1>12
<1> QED BY <1>1, <1>2, <1>3, <1>6, <1>10, <1>13, ZenonT(20)

LEMMA DeliverStep ==
    ASSUME SInv, NEW s \in Spectator, NEW t \in conn[s].timers, Deliver(s, t)
    PROVE  SInv'
<1>1. UNCHANGED <<now, delay, battle, phase, runs, feed, attached, detach, used>>
  BY DEF Deliver
<1>2. /\ conn[s].run \in 1..runs
      /\ conn' = [q \in Spectator |-> conn'[q]]
      /\ \A q \in Spectator : q # s => conn'[q] = conn[q]
      /\ IsConn(conn'[s]) /\ conn'[s].open /\ conn'[s].run = conn[s].run
      /\ GoodConn(conn'[s], feed[conn[s].run].log, now, delay)
  BY DeliveredTo
<1>3. \A q \in Spectator :
         \/ conn'[q] = conn[q] /\ (Open(q) => feed'[conn[q].run].log = feed[conn[q].run].log)
         \/ /\ IsConn(conn'[q]) /\ conn'[q].open /\ conn'[q].run \in 1..runs
            /\ GoodConn(conn'[q], feed'[conn'[q].run].log, now, delay)
  BY <1>1, <1>2
<1>4. GoodConns'
  BY <1>1, <1>2, <1>3, ConnsKept
<1>5. Shape'
  BY <1>1 DEF SInv, Shape
<1> QED BY <1>1, <1>4, <1>5, RunsKept DEF SInv

LEMMA DetachStep == ASSUME SInv, NEW r \in Run, Detach(r) PROVE SInv'
<1>1. /\ UNCHANGED <<now, delay, battle, phase, runs, used>>
      /\ detach' = [detach EXCEPT ![r] = 0] /\ attached' = 0
      /\ feed' = [q \in Run |-> feed'[q]]
      /\ \A q \in Run : q # attached => feed'[q] = feed[q]
      /\ \A q \in Run : q = attached => feed'[q] = [feed[q] EXCEPT !.pumping = FALSE]
      /\ conn' = [s \in Spectator |-> conn'[s]]
      /\ \A s \in Spectator : conn'[s] = NoConn \/ conn'[s] = conn[s]
  BY DEF Detach
<1>2. /\ detach' = [q \in Run |-> detach'[q]] /\ detach'[r] = 0
      /\ \A q \in Run : q # r => detach'[q] = detach[q]
  BY <1>1 DEF SInv, GoodRuns
<1>3. ASSUME NEW q \in Run
      PROVE  /\ GoodFeed(battle[q], feed'[q], now) /\ GoodLog(battle[q], feed'[q], now)
             /\ feed'[q].log = feed[q].log
             /\ q > runs => feed'[q] = feed[q]
  <2>1. GoodFeed(battle[q], feed[q], now) /\ GoodLog(battle[q], feed[q], now)
    BY DEF SInv, GoodRuns
  <2>2. CASE q = attached
    <3>1. ~(q > runs)
      BY <2>2, Basics
    <3>2. feed'[q] = [feed[q] EXCEPT !.pumping = FALSE] /\ now \in Nat
      BY <2>2, <1>1, Basics
    <3>3. PICK f, g : f = feed[q] /\ g = feed'[q]
      OBVIOUS
    <3>4. GoodFeed(battle[q], g, now) /\ GoodLog(battle[q], g, now) /\ g.log = f.log
      BY <2>1, <3>2, <3>3, Stopped
    <3> QED BY <3>1, <3>3, <3>4
  <2>3. CASE q # attached
    BY <2>1, <2>3, <1>1
  <2> QED BY <2>2, <2>3
<1>4. GoodDetach(battle[r], 0, delay)
  BY DEF GoodDetach
<1>5. \A q \in Run : /\ GoodBattle(battle'[q], now') /\ GoodDetach(battle'[q], detach'[q], delay')
                     /\ q > runs' => battle'[q] = NoBattle /\ feed'[q] = NoFeed
                     /\ q > runs' \/ (phase' = "playing" /\ q = runs') => detach'[q] = 0
  BY <1>1, <1>2, <1>3, <1>4 DEF SInv, GoodRuns
<1>6. GoodRuns'
  BY <1>1, <1>2, <1>3, <1>5 DEF SInv, GoodRuns
<1>7. ASSUME NEW s \in Spectator, Open(s) PROVE feed'[conn[s].run].log = feed[conn[s].run].log
  <2>1. conn[s].run \in Run
    BY <1>7, Basics DEF SInv, GoodConns
  <2> QED BY <2>1, <1>3
<1>8. GoodConns'
  BY <1>1, <1>7, ConnsKept
<1>9. Shape'
  BY <1>1, Basics DEF SInv, Shape
<1> QED BY <1>6, <1>8, <1>9 DEF SInv

LEMMA TickStep == ASSUME SInv, Tick PROVE SInv'
<1>1. /\ UNCHANGED <<delay, battle, phase, runs, feed, attached, detach, conn, used>>
      /\ now' = now + 1 /\ now < MaxTime
      /\ \A r \in Run : feed[r].pumping => feed[r].polled = now
      /\ \A s \in Spectator : \A t \in conn[s].timers : t.due > now
  BY DEF Tick
<1>2. now \in Nat /\ delay \in Nat /\ MaxTime \in Nat
  BY Basics
<1>3. \A r \in Run : /\ GoodBattle(battle[r], now + 1) /\ GoodFeed(battle[r], feed[r], now + 1)
                     /\ GoodLog(battle[r], feed[r], now + 1)
  BY <1>1, <1>2, TimePasses DEF SInv, GoodRuns
<1>4. GoodRuns'
  BY <1>1, <1>3 DEF SInv, GoodRuns
<1>5. ASSUME NEW s \in Spectator, Open(s)
      PROVE  GoodConn(conn[s], feed[conn[s].run].log, now + 1, delay)
  <2>1. /\ conn[s].run \in 1..runs /\ IsConn(conn[s])
        /\ GoodConn(conn[s], feed[conn[s].run].log, now, delay)
    BY <1>5 DEF SInv, GoodConns
  <2>2. PICK c, log : c = conn[s] /\ log = feed[conn[s].run].log
    OBVIOUS
  <2>3. log \in Seq(Item)
    BY <2>1, <2>2, Basics DEF SInv, GoodRuns, GoodLog
  <2>4. \A u \in c.timers : u.due > now
    BY <2>2, <1>1
  <2> QED BY <2>1, <2>2, <2>3, <2>4, <1>2, Waits
<1>6. GoodConns'
  BY <1>1, <1>5 DEF SInv, GoodConns, Open
<1>7. Shape'
  BY <1>1, <1>2 DEF SInv, Shape
<1> QED BY <1>4, <1>6, <1>7 DEF SInv

LEMMA Inductive == SInv /\ [Next]_vars => SInv'
<1> SUFFICES ASSUME SInv, [Next]_vars PROVE SInv'
  OBVIOUS
<1>1. CASE UNCHANGED vars
  <2>1. UNCHANGED <<now, delay, battle, phase, runs, feed, attached, detach, conn, used>>
    BY <1>1 DEF vars
  <2>2. GoodRuns'
    BY <2>1, RunsKept
  <2>3. GoodConns' /\ Shape'
    BY <2>1 DEF SInv, GoodConns, Open, Shape
  <2> QED BY <2>2, <2>3 DEF SInv
<1>2. ASSUME NEW before \in 0..1, Attach(before) PROVE SInv'
  BY <1>2, AttachStep
<1>3. ASSUME NEW s \in Spectator, NEW t \in Ticket, Connect(s, t) PROVE SInv'
  BY <1>3, ConnectStep
<1>4. ASSUME NEW s \in Spectator, Leave(s) PROVE SInv'
  BY <1>4, LeaveStep
<1>5. ASSUME NEW s \in Spectator, NEW t \in conn[s].timers, Deliver(s, t) PROVE SInv'
  BY <1>5, DeliverStep
<1>6. ASSUME NEW r \in Run, Pump(r) PROVE SInv'
  BY <1>6, PumpStep
<1>7. ASSUME NEW r \in Run, Detach(r) PROVE SInv'
  BY <1>7, DetachStep
<1> QED BY <1>1, <1>2, <1>3, <1>4, <1>5, <1>6, <1>7, ProduceStep, EndRunStep, TickStep DEF Next

(* In every state of every behaviour, each feed has logged exactly what its *)
(* battle had when it was polled, each connection has been told, has        *)
(* received or has a timer for each entry of the log, and a detach that is  *)
(* set leaves the result its poll and its delay.                            *)
THEOREM Invariant == Spec => []SInv
<1>1. Init => SInv
  BY Initially
<1>2. SInv /\ [Next]_vars => SInv'
  BY Inductive
<1> QED BY <1>1, <1>2, PTL DEF Spec

-----------------------------------------------------------------------------
(* The properties *)

(* The shape of the state; a connection that is not open has no timers left *)
(* and a feed is never ahead of its battle.                                *)
THEOREM TypeCorrect == Spec => []TypeOK
<1>1. SInv => TypeOK
  <2> SUFFICES ASSUME SInv PROVE TypeOK
    OBVIOUS
  <2>1. \A r \in Run : /\ feed[r].snapshots <= Len(battle[r].snapshots)
                       /\ feed[r].events <= Len(battle[r].events)
    BY DEF SInv, GoodRuns, GoodFeed
  <2>2. \A s \in Spectator : conn[s].timers # {} => Open(s)
    BY NoConnIs DEF SInv, GoodConns
  <2> QED BY <2>1, <2>2 DEF TypeOK, SInv, Shape
<1> QED BY <1>1, Invariant, PTL

LEMMA OpenConn ==
    ASSUME SInv, NEW s \in Spectator, Open(s)
    PROVE  /\ conn[s].run \in 1..runs /\ conn[s].run \in Run
           /\ IsConn(conn[s]) /\ conn[s].open /\ conn[s].inbox \in Seq(Nat)
           /\ GoodConn(conn[s], feed[conn[s].run].log, now, delay)
           /\ feed[conn[s].run].log \in Seq(Item)
<1>1. /\ conn[s].run \in 1..runs /\ IsConn(conn[s]) /\ conn[s].open
      /\ GoodConn(conn[s], feed[conn[s].run].log, now, delay)
  BY DEF SInv, GoodConns, Open
<1>2. conn[s].run \in Run
  BY <1>1, Basics
<1>3. feed[conn[s].run].log \in Seq(Item)
  BY <1>2 DEF SInv, GoodRuns, GoodLog
<1>4. conn[s].inbox \in Seq(Nat)
  BY <1>1, ConnIs
<1> QED BY <1>1, <1>2, <1>3, <1>4

(* What is in an inbox, and what is to come. *)
LEMMA InboxHas ==
    ASSUME SInv, NEW s \in Spectator, Open(s), NEW n
    PROVE  (n \in Inbox(s) <=> Has(conn[s], n)) /\ (n \in ToCome(s) <=> Awaits(conn[s], n))
<1>1. DOMAIN conn[s].inbox = 1..Len(conn[s].inbox)
  BY SMTT(60), ZenonT(60), OpenConn
<1> QED BY <1>1 DEF Inbox, ToCome, Has, Awaits

(* Different messages fill an inbox as often as there are. *)
LEMMA AsManyAs ==
    ASSUME NEW q \in Seq(Nat), \A i, j \in 1..Len(q) : q[i] = q[j] => i = j
    PROVE  Cardinality({q[i] : i \in DOMAIN q}) = Len(q)
<1> DEFINE D == 1..Len(q)
           S == {q[i] : i \in DOMAIN q}
<1>1. DOMAIN q = D /\ Len(q) \in Nat
  BY SMTT(60), ZenonT(60)
<1>2. IsFiniteSet(D) /\ Cardinality(D) = Len(q)
  <2>1. PICK k \in Nat : k = Len(q)
    BY <1>1
  <2>2. IsFiniteSet(1..k) /\ Cardinality(1..k) = IF 1 > k THEN 0 ELSE k - 1 + 1
    BY FS_Interval
  <2> QED BY SMTT(60), ZenonT(60), <2>1, <2>2
<1>3. [i \in D |-> q[i]] \in Bijection(D, S)
  <2>1. PICK g : g = [i \in D |-> q[i]]
    OBVIOUS
  <2>2. g \in [D -> S] /\ \A i \in D : g[i] = q[i]
    BY <2>1, <1>1
  <2>3. g \in Injection(D, S)
    BY <2>2 DEF Injection, IsInjective
  <2>4. \A t \in S : \E i \in D : g[i] = t
    BY SMTT(60), ZenonT(60), <2>2, <1>1
  <2>5. g \in Surjection(D, S)
    BY SMTT(60), ZenonT(60), <2>2, <2>4 DEF Surjection
  <2> QED BY <2>1, <2>3, <2>5 DEF Bijection
<1>4. ExistsBijection(D, S)
  BY SMTT(60), ZenonT(60), <1>3 DEF ExistsBijection
<1> HIDE DEF D, S
<1>5. IsFiniteSet(S) /\ Cardinality(S) = Cardinality(D)
  BY SMTT(60), ZenonT(60), <1>2, <1>4, FS_Bijection
<1> QED BY SMTT(60), ZenonT(60), <1>2, <1>5 DEF S

(* delay-init.test.ts:13: a spectator misses nothing of the battle, gets    *)
(* nothing twice, and gets the polls in their order, whenever he joined.   *)
THEOREM NothingLost == Spec => []NothingMissing
<1>1. SInv => NothingMissing
  <2> SUFFICES ASSUME SInv, NEW s \in Spectator, Open(s)
               PROVE  /\ \A n \in DOMAIN feed[conn[s].run].log :
                            Told(s, n) \/ n \in Inbox(s) \/ n \in ToCome(s)
                      /\ Inbox(s) \cap ToCome(s) = {}
                      /\ Cardinality(Inbox(s)) = Len(conn[s].inbox)
                      /\ \A i, j \in DOMAIN conn[s].inbox :
                            i < j => LET log == feed[conn[s].run].log
                                     IN log[conn[s].inbox[i]].at <= log[conn[s].inbox[j]].at
    BY DEF NothingMissing
  <2>1. PICK c, log : c = conn[s] /\ log = feed[conn[s].run].log
    OBVIOUS
  <2>2. /\ log \in Seq(Item) /\ c.inbox \in Seq(Nat) /\ GoodConn(c, log, now, delay)
        /\ DOMAIN log = 1..Len(log) /\ DOMAIN c.inbox = 1..Len(c.inbox)
    BY <2>1, OpenConn
  <2>3. \A n : (n \in Inbox(s) <=> Has(c, n)) /\ (n \in ToCome(s) <=> Awaits(c, n))
    BY <2>1, InboxHas
  <2>4. \A n \in DOMAIN log : Told(s, n) \/ n \in Inbox(s) \/ n \in ToCome(s)
    <3> SUFFICES ASSUME NEW n \in 1..Len(log), Sees(c, log, n) PROVE Told(s, n)
      BY <2>2, <2>3 DEF GoodConn, Whole
    <3>1. log[n].kind \in Kinds
      BY <2>2, LogEntry
    <3> QED BY <3>1, <2>1 DEF Told, Sees, Kinds
  <2>5. Inbox(s) \cap ToCome(s) = {}
    <3> SUFFICES ASSUME NEW n \in Inbox(s), n \in ToCome(s) PROVE FALSE
      OBVIOUS
    <3>1. Has(c, n) /\ Awaits(c, n)
      BY <2>3
    <3>2. n \in 1..Len(log)
      BY <3>1, <2>2 DEF Awaits, GoodConn, GoodTimers
    <3> QED BY <3>1, <3>2, <2>2 DEF GoodConn, Whole
  <2>6. Cardinality(Inbox(s)) = Len(c.inbox)
    <3>1. \A i, j \in 1..Len(c.inbox) : c.inbox[i] = c.inbox[j] => i = j
      BY <2>2 DEF GoodConn, Whole
    <3>2. PICK q \in Seq(Nat) : q = c.inbox
      BY <2>2
    <3>3. Cardinality({q[i] : i \in DOMAIN q}) = Len(q)
      BY <3>1, <3>2, AsManyAs
    <3> QED BY <3>2, <3>3, <2>1 DEF Inbox
  <2>7. \A i, j \in 1..Len(c.inbox) : i < j => log[c.inbox[i]].at <= log[c.inbox[j]].at
    BY <2>2 DEF GoodConn, Whole
  <2> QED BY ZenonT(60), SMTT(60), <2>1, <2>2, <2>4, <2>5, <2>6, <2>7
<1> QED BY <1>1, Invariant, PTL

(* An entry of a log was made when it was logged or before. *)
LEMMA MadeBefore ==
    ASSUME SInv, NEW r \in Run, NEW f, GoodFeed(battle[r], f, now), GoodLog(battle[r], f, now),
           NEW n \in 1..Len(f.log), f.log[n].at + delay <= now
    PROVE  MadeAt(r, f.log[n]) + delay <= now
<1>1. PICK b, e : b = battle[r] /\ e = f.log[n]
  OBVIOUS
<1>2. now \in Nat /\ delay \in Nat
  BY Basics
<1>3. GoodBattle(b, now) /\ GoodItem(b, f, e) /\ f.log \in Seq(Item)
  BY <1>1 DEF SInv, GoodRuns, GoodLog
<1>4. e.at \in Nat /\ e.kind \in Kinds /\ e.at + delay <= now
  BY <1>1, <1>3, LogEntry
<1>5. /\ b.snapshots \in Seq(Nat) /\ b.events \in Seq(Nat) /\ b.result \in Nat \cup {Never}
      /\ Len(b.snapshots) \in Nat /\ Len(b.events) \in Nat
  BY <1>2, <1>3, BattleIs
<1>6. /\ f.snapshots \in Nat /\ f.snapshots <= Len(b.snapshots)
      /\ f.events \in Nat /\ f.events <= Len(b.events)
  BY <1>1, FeedIs DEF GoodFeed
<1>7. CASE e.kind = "snapshot"
  <2>1. e.n \in 1..Len(b.snapshots) /\ b.snapshots[e.n] <= e.at
    BY <1>3, <1>5, <1>6, <1>7 DEF GoodItem
  <2>2. PICK x \in Nat : x = b.snapshots[e.n]
    BY <2>1, <1>5
  <2>3. x + delay <= now
    BY SMTT(60), ZenonT(60), <2>1, <2>2, <1>2, <1>4
  <2> QED BY <2>2, <2>3, <1>1, <1>7 DEF MadeAt
<1>8. CASE e.kind = "event"
  <2>1. e.n \in 1..Len(b.events) /\ b.events[e.n] <= e.at
    BY <1>3, <1>5, <1>6, <1>8 DEF GoodItem
  <2>2. PICK x \in Nat : x = b.events[e.n]
    BY <2>1, <1>5
  <2>3. x + delay <= now
    BY SMTT(60), ZenonT(60), <2>1, <2>2, <1>2, <1>4
  <2> QED BY <2>2, <2>3, <1>1, <1>8 DEF MadeAt
<1>9. CASE e.kind = "result"
  <2>1. PICK x \in Int : x = b.result /\ x <= e.at
    BY <1>3, <1>5, <1>9 DEF GoodItem, Never
  <2>2. x + delay <= now
    BY <2>1, <1>2, <1>4
  <2> QED BY <2>1, <2>2, <1>1, <1>9 DEF MadeAt
<1> QED BY <1>4, <1>7, <1>8, <1>9 DEF Kinds

(* What a step may show to a spectator: what init tells him, and what comes *)
(* into his inbox.                                                         *)
InitNotEarly(s) ==
    ~Open(s) /\ conn'[s].open =>
        LET r == conn'[s].run IN
        /\ conn'[s].snapshot # 0 => battle[r].snapshots[conn'[s].snapshot] + delay <= now
        /\ conn'[s].finished => battle[r].result + delay <= now

StreamNotEarly(s) ==
    \A i \in (Len(conn[s].inbox) + 1)..Len(conn'[s].inbox) :
        LET r == conn[s].run IN
        MadeAt(r, feed'[r].log[conn'[s].inbox[i]]) + delay <= now

(* Nothing is shown to a connection that is gone, or is as it was. *)
LEMMA NothingShown ==
    ASSUME SInv, NEW s \in Spectator, conn'[s] = NoConn \/ conn'[s] = conn[s]
    PROVE  InitNotEarly(s) /\ StreamNotEarly(s)
<1>1. IsConn(conn[s]) /\ (conn'[s].open => Open(s))
  BY NoConnIs DEF SInv, GoodConns, Open
<1>2. PICK k \in Nat : k = Len(conn[s].inbox)
  BY <1>1, ConnIs
<1>3. Len(conn'[s].inbox) = 0 \/ Len(conn'[s].inbox) = k
  <2>1. Len(NoConn.inbox) = 0
    BY NoConnIs
  <2> QED BY <2>1, <1>2
<1>4. (k + 1)..0 = {} /\ (k + 1)..k = {}
  OBVIOUS
<1>5. (Len(conn[s].inbox) + 1)..Len(conn'[s].inbox) = {}
  BY <1>2, <1>3, <1>4
<1> QED BY <1>1, <1>5 DEF InitNotEarly, StreamNotEarly

LEMMA NewAreLater ==
    ASSUME NEW c, IsConn(c), NEW d, IsConn(d)
    PROVE  \A i \in (Len(c.inbox) + 1)..Len(d.inbox) : i \in 1..Len(d.inbox) /\ i > Len(c.inbox)
<1>1. PICK k \in Nat, m \in Nat : k = Len(c.inbox) /\ m = Len(d.inbox)
  BY ConnIs
<1>2. \A i \in (k + 1)..m : i \in 1..m /\ i > k
  OBVIOUS
<1> QED BY <1>1, <1>2

LEMMA ConnectShows ==
    ASSUME SInv, NEW q \in Spectator, NEW t \in Ticket, Connect(q, t), NEW s \in Spectator
    PROVE  InitNotEarly(s) /\ StreamNotEarly(s)
<1>1. CASE conn'[s] = conn[s]
  BY <1>1, NothingShown
<1>2. CASE conn'[s] # conn[s]
  <2>1. attached # 0 /\ s = q /\ conn'[s] = Welcome(attached) /\ ~Open(s)
    <3>1. /\ ~Open(q)
          /\ \/ conn' = conn
             \/ attached # 0 /\ conn' = [conn EXCEPT ![q] = Welcome(attached)]
      BY DEF Connect
    <3>2. conn = [p \in Spectator |-> conn[p]]
      BY DEF SInv, GoodConns
    <3> QED BY <3>1, <3>2, <1>2
  <2>2. attached \in Run
    BY <2>1, Basics
  <2>3. PICK c : c = Welcome(attached)
    OBVIOUS
  <2>4. /\ c.run = attached /\ c.inbox = <<>>
        /\ c.snapshot # 0 => battle[attached].snapshots[c.snapshot] + delay <= now
        /\ c.finished => battle[attached].result + delay <= now
    BY <2>2, <2>3, Basics, Welcomed DEF SInv
  <2>5. conn[s] = NoConn
    BY <2>1 DEF SInv, GoodConns
  <2>6. (Len(conn[s].inbox) + 1)..Len(conn'[s].inbox) = {}
    <3>1. conn[s].inbox = <<>> /\ conn'[s].inbox = <<>>
      BY <2>1, <2>3, <2>4, <2>5, NoConnIs
    <3>2. (Len(<<>>) + 1)..Len(<<>>) = {}
      OBVIOUS
    <3> QED BY <3>1, <3>2
  <2> QED BY <2>1, <2>3, <2>4, <2>6 DEF InitNotEarly, StreamNotEarly
<1> QED BY <1>1, <1>2

LEMMA DeliverShows ==
    ASSUME SInv, NEW q \in Spectator, NEW t \in conn[q].timers, Deliver(q, t), NEW s \in Spectator
    PROVE  InitNotEarly(s) /\ StreamNotEarly(s)
<1>1. CASE s # q
  <2>1. conn'[s] = conn[s]
    BY SMTT(60), ZenonT(60), <1>1, DeliveredTo
  <2> QED BY <2>1, NothingShown
<1>2. CASE s = q
  <2>1. PICK r, f : r = conn[q].run /\ f = feed[r]
    BY SMTT(60), ZenonT(60)
  <2>8. /\ Open(q) /\ r \in 1..runs /\ IsConn(conn'[q])
        /\ \A i \in 1..Len(conn'[q].inbox) : i > Len(conn[q].inbox) =>
              conn'[q].inbox[i] \in 1..Len(f.log) /\ f.log[conn'[q].inbox[i]].at + delay <= now
    BY SMTT(60), ZenonT(60), <2>1, DeliveredTo
  <2>2. Open(s) /\ r \in Run /\ feed'[r] = f
    BY <1>2, <2>1, <2>8, Basics DEF Deliver
  <2>3. GoodFeed(battle[r], f, now) /\ GoodLog(battle[r], f, now)
    BY <2>1, <2>2 DEF SInv, GoodRuns
  <2>4. \A i \in 1..Len(conn'[s].inbox) : i > Len(conn[s].inbox) =>
           conn'[s].inbox[i] \in 1..Len(f.log) /\ f.log[conn'[s].inbox[i]].at + delay <= now
    BY <1>2, <2>8
  <2>5. \A i \in 1..Len(conn'[s].inbox) : i > Len(conn[s].inbox) =>
           MadeAt(r, f.log[conn'[s].inbox[i]]) + delay <= now
    BY <2>2, <2>3, <2>4, MadeBefore
  <2>6. StreamNotEarly(s)
    <3>1. \A i \in (Len(conn[s].inbox) + 1)..Len(conn'[s].inbox) :
             i \in 1..Len(conn'[s].inbox) /\ i > Len(conn[s].inbox)
      BY <1>2, <2>8, NewAreLater DEF SInv, GoodConns
    <3> QED BY <3>1, <1>2, <2>1, <2>2, <2>5 DEF StreamNotEarly
  <2> QED BY SMTT(60), ZenonT(60), <2>2, <2>6 DEF InitNotEarly
<1> QED BY <1>1, <1>2

LEMMA PumpShows ==
    ASSUME SInv, NEW r \in Run, Pump(r), NEW s \in Spectator
    PROVE  InitNotEarly(s) /\ StreamNotEarly(s)
<1>1. CASE s \notin Clients(r)
  <2>1. conn'[s] = conn[s]
    BY <1>1 DEF Pump
  <2> QED BY <2>1, NothingShown
<1>2. CASE s \in Clients(r)
  <2>1. Open(s) /\ conn[s].run = r
    BY <1>2 DEF Clients
  <2>2. PICK f : f = feed'[r]
    OBVIOUS
  <2>3. GoodFeed(battle[r], f, now) /\ GoodLog(battle[r], f, now)
    BY <2>2, Pumped
  <2>4. /\ IsConn(conn'[s])
        /\ \A i \in 1..Len(conn'[s].inbox) : i > Len(conn[s].inbox) =>
              conn'[s].inbox[i] \in 1..Len(f.log) /\ f.log[conn'[s].inbox[i]].at + delay <= now
    BY <1>2, <2>2, Pumped
  <2>5. \A i \in 1..Len(conn'[s].inbox) : i > Len(conn[s].inbox) =>
           MadeAt(r, f.log[conn'[s].inbox[i]]) + delay <= now
    BY <2>3, <2>4, MadeBefore
  <2>6. StreamNotEarly(s)
    <3>1. \A i \in (Len(conn[s].inbox) + 1)..Len(conn'[s].inbox) :
             i \in 1..Len(conn'[s].inbox) /\ i > Len(conn[s].inbox)
      BY <2>4, NewAreLater DEF SInv, GoodConns
    <3> QED BY <3>1, <2>1, <2>2, <2>5 DEF StreamNotEarly
  <2> QED BY <2>1, <2>6 DEF InitNotEarly
<1> QED BY <1>1, <1>2

(* gateway.ts:287: for as long as the delay is, nobody sees what the battle *)
(* does, neither in the init that he gets when he connects nor in what is  *)
(* sent to him later.                                                      *)
THEOREM NothingEarly == Spec => NeverEarly
<1> DEFINE NotEarly(s) ==
        /\ ~Open(s) /\ conn'[s].open =>
              LET r == conn'[s].run IN
              /\ conn'[s].snapshot # 0 =>
                    battle[r].snapshots[conn'[s].snapshot] + delay <= now
              /\ conn'[s].finished => battle[r].result + delay <= now
        /\ \A i \in (Len(conn[s].inbox) + 1)..Len(conn'[s].inbox) :
              LET r == conn[s].run IN
              MadeAt(r, feed'[r].log[conn'[s].inbox[i]]) + delay <= now
<1>1. SInv /\ [Next]_vars => [\A s \in Spectator : InitNotEarly(s) /\ StreamNotEarly(s)]_vars
  <2> SUFFICES ASSUME SInv, Next, NEW s \in Spectator
               PROVE  InitNotEarly(s) /\ StreamNotEarly(s)
    OBVIOUS
  <2>1. CASE \E before \in 0..1 : Attach(before)
    <3>1. conn'[s] = conn[s]
      BY <2>1 DEF Attach
    <3> QED BY <3>1, NothingShown
  <2>2. CASE Produce \/ EndRun \/ Tick
    <3>1. conn'[s] = conn[s]
      BY <2>2 DEF Produce, EndRun, Tick
    <3> QED BY <3>1, NothingShown
  <2>3. ASSUME NEW q \in Spectator, NEW t \in Ticket, Connect(q, t)
        PROVE  InitNotEarly(s) /\ StreamNotEarly(s)
    BY <2>3, ConnectShows
  <2>4. ASSUME NEW q \in Spectator, Leave(q) PROVE InitNotEarly(s) /\ StreamNotEarly(s)
    <3>1. conn = [p \in Spectator |-> conn[p]]
      BY DEF SInv, GoodConns
    <3>2. conn'[s] = NoConn \/ conn'[s] = conn[s]
      BY <2>4, <3>1 DEF Leave
    <3> QED BY <3>2, NothingShown
  <2>5. ASSUME NEW q \in Spectator, NEW t \in conn[q].timers, Deliver(q, t)
        PROVE  InitNotEarly(s) /\ StreamNotEarly(s)
    BY <2>5, DeliverShows
  <2>6. ASSUME NEW r \in Run, Pump(r) PROVE InitNotEarly(s) /\ StreamNotEarly(s)
    BY <2>6, PumpShows
  <2>7. ASSUME NEW r \in Run, Detach(r) PROVE InitNotEarly(s) /\ StreamNotEarly(s)
    <3>2. conn' = [p \in Spectator |-> IF attached # 0 /\ p \in Clients(attached)
                                       THEN NoConn ELSE conn[p]]
      BY SMTT(60), ZenonT(60), <2>7 DEF Detach
    <3>3. conn'[s] = IF attached # 0 /\ s \in Clients(attached) THEN NoConn ELSE conn[s]
      BY ZenonT(60), SMTT(60), <3>2
    <3>1. conn'[s] = NoConn \/ conn'[s] = conn[s]
      BY ZenonT(60), SMTT(60), <3>3
    <3> QED BY <3>1, NothingShown
  <2> QED BY <2>1, <2>2, <2>3, <2>4, <2>5, <2>6, <2>7 DEF Next
<1>2. [\A s \in Spectator : InitNotEarly(s) /\ StreamNotEarly(s)]_vars
         => [\A s \in Spectator : NotEarly(s)]_vars
  BY ZenonT(60), SMTT(60) DEF InitNotEarly, StreamNotEarly
<1>3. [][\A s \in Spectator : NotEarly(s)]_vars => NeverEarly
  BY DEF NeverEarly
<1> HIDE DEF NotEarly
<1> QED BY <1>1, <1>2, <1>3, Invariant, PTL DEF Spec

(* A feed that has seen the result of its battle has logged all of it, in   *)
(* the poll after the result at the latest.                                *)
AllLogged(b, f) ==
    /\ f.snapshots = Len(b.snapshots) /\ f.events = Len(b.events)
    /\ \A n \in 1..Len(f.log) : f.log[n].at <= b.result + 1

Ended ==
    /\ attached \in {0, runs}
    /\ \A r \in Run : feed[r].finished => AllLogged(battle[r], feed[r])

LEMMA EndedKept == SInv /\ Ended /\ [Next]_vars => Ended'
<1> SUFFICES ASSUME SInv, Ended, [Next]_vars PROVE Ended'
  OBVIOUS
<1>1. \A q \in Run : feed[q].finished => AllLogged(battle[q], feed[q])
  BY DEF Ended
<1>2. battle = [q \in Run |-> battle[q]] /\ feed = [q \in Run |-> feed[q]]
  BY DEF SInv, GoodRuns
<1>3. ASSUME NEW before \in 0..1, Attach(before) PROVE Ended'
  <2> DEFINE r == runs + 1
  <2>1. r \in Run /\ attached' = r /\ runs' = r
    BY <1>3, Basics DEF Attach, Run
  <2>2. PICK log, sn :
           /\ battle' = [battle EXCEPT ![r].snapshots = sn]
           /\ feed' = [feed EXCEPT ![r] = [NoFeed EXCEPT !.pumping = TRUE, !.polled = now,
                                               !.snapshots = before, !.log = log]]
    BY <1>3 DEF Attach
  <2> HIDE DEF r
  <2>3. \A q \in Run : q # r => feed'[q] = feed[q] /\ battle'[q] = battle[q]
    BY <1>2, <2>2
  <2>4. ~feed'[r].finished
    BY <1>2, <2>1, <2>2 DEF NoFeed
  <2> QED BY <1>1, <2>1, <2>3, <2>4 DEF Ended
<1>4. ASSUME Produce PROVE Ended'
  <2>1. /\ UNCHANGED <<runs, feed, attached>> /\ battle[runs].result = Never
        /\ \A q \in Run : q # runs => battle'[q] = battle[q]
    BY <1>2, <1>4 DEF Produce
  <2>2. runs \in Run => ~feed[runs].finished
    BY <2>1 DEF SInv, GoodRuns, GoodFeed
  <2> QED BY <1>1, <2>1, <2>2 DEF Ended
<1>5. ASSUME NEW r \in Run, Pump(r) PROVE Ended'
  <2>1. PICK b, f, g : b = battle[r] /\ f = feed[r] /\ g = feed'[r]
    OBVIOUS
  <2>2. /\ \A q \in Run : q # r => feed'[q] = feed[q]
        /\ GoodLog(b, g, now) /\ GoodFeed(b, f, now) /\ GoodBattle(b, now)
    BY <1>5, <2>1, Pumped DEF SInv, GoodRuns
  <2>3. UNCHANGED <<battle, attached, runs>> /\ f.pumping
    BY <1>5, <2>1 DEF Pump
  <2>4. PICK log : g = [pumping |-> ~(b.result # Never), polled |-> now,
                        finished |-> (b.result # Never), log |-> log,
                        snapshots |-> Len(b.snapshots), events |-> Len(b.events)]
    BY <1>2, <1>5, <2>1 DEF Pump
  <2>5. g.finished <=> b.result # Never
    BY <2>4, Zenon
  <2>6. g.snapshots = Len(b.snapshots) /\ g.events = Len(b.events)
    BY <2>4, Zenon
  <2>7. ASSUME g.finished, NEW n \in 1..Len(g.log) PROVE g.log[n].at <= b.result + 1
    <3>1. PICK x \in Nat : x = b.result
      BY <2>2, <2>5, <2>7, Basics, BattleIs
    <3>2. PICK p \in Nat : p = f.polled
      BY <2>2, FeedIs
    <3>3. now <= p + 1 /\ p <= x
      BY <2>2, <2>3, <2>5, <2>7, <3>1, <3>2 DEF GoodFeed
    <3>4. g.log \in Seq(Item) /\ g.log[n].at <= now
      BY <2>2, <2>7 DEF GoodLog
    <3>5. PICK at \in Nat : at = g.log[n].at
      BY <2>7, <3>4, LogEntry
    <3>6. now \in Nat /\ at <= now
      BY <3>4, <3>5, Basics
    <3>7. at <= x + 1
      BY <3>3, <3>6
    <3> QED BY <3>1, <3>5, <3>7
  <2>8. g.finished => AllLogged(b, g)
    BY <2>6, <2>7 DEF AllLogged
  <2> QED BY <1>1, <2>1, <2>2, <2>3, <2>8 DEF Ended
<1>6. ASSUME NEW r \in Run, Detach(r) PROVE Ended'
  <2>1. /\ UNCHANGED battle /\ attached' = 0
        /\ \A q \in Run : feed'[q] = feed[q] \/ feed'[q] = [feed[q] EXCEPT !.pumping = FALSE]
    BY <1>6 DEF Detach
  <2>2. ASSUME NEW q \in Run
        PROVE  /\ feed'[q].finished = feed[q].finished /\ feed'[q].log = feed[q].log
               /\ feed'[q].snapshots = feed[q].snapshots /\ feed'[q].events = feed[q].events
    <3>1. GoodFeed(battle[q], feed[q], now)
      BY DEF SInv, GoodRuns
    <3>2. feed[q] = FeedRecord(feed[q].pumping, feed[q].polled, feed[q].snapshots,
                               feed[q].events, feed[q].finished, feed[q].log)
      BY <3>1, FeedIs
    <3> QED BY <2>1, <3>2 DEF FeedRecord
  <2>3. \A q \in Run : feed'[q].finished => AllLogged(battle'[q], feed'[q])
    BY <1>1, <2>1, <2>2 DEF AllLogged
  <2> QED BY <2>1, <2>3 DEF Ended
<1>7. ASSUME UNCHANGED <<battle, feed, attached, runs>> PROVE Ended'
  BY <1>1, <1>7 DEF Ended
<1>8. CASE UNCHANGED vars
  BY <1>7, <1>8 DEF vars
<1>9. ASSUME EndRun \/ Tick PROVE Ended'
  BY <1>7, <1>9 DEF EndRun, Tick
<1>10. ASSUME NEW s \in Spectator, NEW t \in Ticket, Connect(s, t) PROVE Ended'
  BY <1>7, <1>10 DEF Connect
<1>11. ASSUME NEW s \in Spectator, Leave(s) PROVE Ended'
  BY <1>7, <1>11 DEF Leave
<1>12. ASSUME NEW s \in Spectator, NEW t \in conn[s].timers, Deliver(s, t) PROVE Ended'
  BY <1>7, <1>12 DEF Deliver
<1> QED BY <1>3, <1>4, <1>5, <1>6, <1>8, <1>9, <1>10, <1>11, <1>12 DEF Next

LEMMA EndedAlways == Spec => []Ended
<1>1. Init => Ended
  BY DEF Init, Ended, NoFeed
<1> QED BY <1>1, EndedKept, Invariant, PTL DEF Spec

(* A detach that an execution has set for its own feed, after the result:   *)
(* the poll that finds the result was before, and the delay of what it     *)
(* logged is over.                                                         *)
LEMMA DetachSees ==
    ASSUME SInv, Ended, NEW r \in Run, Detach(r), attached = r, NEW s \in Clients(r),
           battle[r].result # Never
    PROVE  /\ New(r) = <<>>
           /\ conn[s].timers = {}
           /\ conn[s].finished \/ \E n \in Inbox(s) : feed[r].log[n].kind = "result"
<1>1. s \in Spectator /\ Open(s) /\ conn[s].run = r
  BY DEF Clients
<1>2. PICK b, f, c : b = battle[r] /\ f = feed[r] /\ c = conn[s]
  OBVIOUS
<1>3. /\ now \in Nat /\ delay \in Nat /\ DetachBase \in Nat /\ DetachBase >= 2 /\ r # 0
  BY Basics
<1>4. /\ GoodBattle(b, now) /\ GoodFeed(b, f, now) /\ GoodLog(b, f, now)
      /\ GoodDetach(b, detach[r], delay) /\ b.result # Never
  BY <1>2 DEF SInv, GoodRuns
<1>5. GoodConn(c, f.log, now, delay) /\ f.log \in Seq(Item)
  BY <1>1, <1>2, OpenConn
<1>6. PICK x \in Nat : x = b.result
  BY <1>3, <1>4, BattleIs
<1>7. x + 2 + delay <= now
  <2>1. PICK y \in Nat : y = detach[r]
    BY <1>4 DEF GoodDetach
  <2>2. y # 0 /\ y <= now
    BY <2>1 DEF Detach
  <2>3. x + DetachBase + delay <= y
    BY <2>1, <2>2, <1>4, <1>6 DEF GoodDetach
  <2> QED BY <2>2, <2>3, <1>3
<1>8. f.finished
  <2>1. f.pumping \/ f.finished
    BY <1>2, <1>3 DEF SInv, Shape
  <2>2. ASSUME f.pumping PROVE FALSE
    <3>1. PICK y \in Nat : y = f.polled
      BY <1>4, FeedIs
    <3>2. now <= y + 1 /\ y <= x
      BY <2>2, <3>1, <1>4, <1>6 DEF GoodFeed
    <3> QED BY <3>2, <1>3, <1>7
  <2> QED BY <2>1, <2>2
<1>9. PICK n \in 1..Len(f.log) : f.log[n].kind = "result"
  BY <1>4, <1>8 DEF GoodLog
<1>10. AllLogged(b, f)
  BY <1>2, <1>8 DEF Ended
<1>11. c.timers = {}
  <2> SUFFICES ASSUME NEW u \in c.timers PROVE FALSE
    OBVIOUS
  <2>1. u.n \in 1..Len(f.log) /\ u.due = f.log[u.n].at + delay /\ now <= u.due
    BY <1>5 DEF GoodConn, GoodTimers
  <2>2. PICK z \in Nat : z = f.log[u.n].at
    BY <1>5, <2>1, LogEntry
  <2>3. z <= x + 1 /\ now <= z + delay
    BY <1>6, <1>10, <2>1, <2>2 DEF AllLogged
  <2> QED BY <2>3, <1>3, <1>7
<1>12. ~Awaits(c, n)
  BY <1>11 DEF Awaits
<1>13. Sees(c, f.log, n) \/ Has(c, n)
  BY <1>5, <1>12 DEF GoodConn, Whole
<1>14. Has(c, n) => n \in Inbox(s)
  BY <1>1, <1>2, InboxHas
<1>15. New(r) = <<>>
  <2>1. PICK p \in Nat, q \in Nat : /\ p = Len(b.snapshots) /\ f.snapshots = p
                                    /\ q = Len(b.events) /\ f.events = q
    BY <1>3, <1>4, <1>10, BattleIs DEF AllLogged
  <2>2. 1..(p - p) = {} /\ 1..(q - q) = {}
    OBVIOUS
  <2>3. \A e : [i \in {} |-> e[i]] = <<>>
    OBVIOUS
  <2>4. /\ [i \in 1..(p - p) |-> Entry("snapshot", p + i)] = <<>>
        /\ [i \in 1..(q - q) |-> Entry("event", q + i)] = <<>>
    BY <2>2
  <2>5. New(r) = <<>> \o <<>> \o <<>>
    BY <1>2, <1>8, <2>1, <2>4, Zenon DEF New
  <2> QED BY <2>5
<1> QED BY <1>2, <1>9, <1>11, <1>13, <1>14, <1>15 DEF Sees

(* engine-executor.ts:83: whatever the delay is, a detach that finds its    *)
(* battle over drops nobody who still misses a part of it, unless an        *)
(* earlier execution has left that detach behind.                          *)
THEOREM EndArrives == Spec => EndDelivered
<1> DEFINE Seen(r, s) ==
        detach[r] # 0 /\ detach'[r] = 0 /\ attached # 0 /\ s \in Clients(attached)
           /\ battle[attached].result # Never
        => \/ r < attached
           \/ /\ New(attached) = <<>>
              /\ conn[s].timers = {}
              /\ \/ conn[s].finished
                 \/ \E n \in Inbox(s) : feed[attached].log[n].kind = "result"
<1>1. SInv /\ Ended /\ [Next]_vars => [\A r \in Run, s \in Spectator : Seen(r, s)]_vars
  <2> SUFFICES ASSUME SInv, Ended, Next, NEW r \in Run, NEW s \in Spectator,
                      detach[r] # 0, detach'[r] = 0, attached # 0, s \in Clients(attached),
                      battle[attached].result # Never, ~(r < attached)
               PROVE  /\ New(attached) = <<>>
                      /\ conn[s].timers = {}
                      /\ \/ conn[s].finished
                         \/ \E n \in Inbox(s) : feed[attached].log[n].kind = "result"
    OBVIOUS
  <2>1. detach = [q \in Run |-> detach[q]]
    BY DEF SInv, GoodRuns
  <2>2. ~(detach' = detach)
    OBVIOUS
  <2>3. ~EndRun
    <3> SUFFICES ASSUME EndRun PROVE FALSE
      OBVIOUS
    <3>1. detach' = [detach EXCEPT ![runs] = DetachAt]
      BY SMTT(60), ZenonT(60) DEF EndRun
    <3>2. DetachAt # 0
      BY Basics DEF DetachAt
    <3> QED BY <2>1, <3>1, <3>2
  <2>4. PICK q \in Run : Detach(q)
    BY <2>2, <2>3 DEF Next, Attach, Produce, Connect, Leave, Deliver, Pump, Tick
  <2>5. q = r
    BY <2>1, <2>4 DEF Detach
  <2>6. attached = r
    <3>1. r \in Nat /\ runs \in Nat /\ ~(r > runs)
      BY Basics DEF SInv, GoodRuns
    <3> QED BY <3>1 DEF Ended
  <2>7. s \in Clients(r) /\ battle[r].result # Never /\ Detach(r)
    BY <2>4, <2>5, <2>6
  <2>8. /\ New(r) = <<>> /\ conn[s].timers = {}
        /\ conn[s].finished \/ \E n \in Inbox(s) : feed[r].log[n].kind = "result"
    BY <2>6, <2>7, DetachSees
  <2> QED BY <2>6, <2>8
<1>2. [][\A r \in Run, s \in Spectator : Seen(r, s)]_vars => EndDelivered
  BY DEF EndDelivered
<1> HIDE DEF Seen
<1> QED BY <1>1, <1>2, Invariant, EndedAlways, PTL DEF Spec
=============================================================================
