----------------------------- MODULE RatingsProofs -----------------------------
(***************************************************************************)
(* Proofs about Ratings, for any number of battles, bots, loops, staff and *)
(* faults: who holds which lock and what it has read (RInv), from which    *)
(* the order of the locks and the Elo on the spot follow; that the ledger  *)
(* has the ratings (LInv); that the table is current or about to be (TInv).*)
(***************************************************************************)
EXTENDS Ratings, FiniteSetTheorems, TLAPS

-----------------------------------------------------------------------------
(* Finite sets and sums; the choice of a minimal set stands for induction *)

Minimal(T, C) == \A U \in C : U \subseteq T => U = T

(* A collection of subsets of a finite set has a smallest one. *)
LEMMA Smallest ==
    ASSUME NEW S, IsFiniteSet(S), NEW C, C \subseteq SUBSET S, C # {}
    PROVE  \E T \in C : Minimal(T, C)
<1>1. IsWellFoundedOn(StrictSubsetOrdering(S), SUBSET S)
  BY FS_StrictSubsetOrderingWellFounded, FS_FiniteSubsetsOfFinite
<1>2. PICK T \in C : \A U \in C : ~(<<U, T>> \in StrictSubsetOrdering(S))
  BY <1>1, WFMin
<1>3. \A U \in C : U \subseteq T /\ U # T => <<U, T>> \in StrictSubsetOrdering(S)
  BY DEF StrictSubsetOrdering
<1>4. Minimal(T, C)
  BY <1>2, <1>3 DEF Minimal
<1> QED BY <1>4

(* A finite set of numbers that is not empty has a last one. *)
LEMMA Greatest ==
    ASSUME NEW S, IsFiniteSet(S), S \subseteq Nat, S # {}
    PROVE  \E n \in S : \A m \in S : m <= n
<1> DEFINE Above(n) == {m \in S : m > n}
<1>1. PICK C : C = {T \in SUBSET S : \E n \in S : T = Above(n)}
  OBVIOUS
<1>2. PICK T \in C : Minimal(T, C)
  <2>1. C \subseteq SUBSET S
    BY <1>1
  <2>2. C # {}
    BY <1>1
  <2> QED BY <2>1, <2>2, Smallest
<1>3. PICK n \in S : T = Above(n)
  BY <1>1
<1>4. ASSUME NEW m \in S PROVE m <= n
  <2>1. SUFFICES ASSUME m > n PROVE FALSE
    OBVIOUS
  <2>2. Above(m) \in C /\ Above(m) \subseteq Above(n)
    <3>1. \A k \in S : k > m => k > n
      BY <2>1
    <3> QED BY <1>1, <3>1
  <2>3. Above(m) = Above(n)
    BY <1>2, <1>3, <2>2 DEF Minimal
  <2>4. m \in Above(n) /\ m \notin Above(m)
    BY <2>1
  <2> QED BY <2>3, <2>4
<1> QED BY <1>4

Sum(f, S) == MapThenSumSet(LAMBDA x : f[x], S)

One(s) == CHOOSE x \in s : TRUE

Body(f, h, s) == IF s = {} THEN 0 ELSE f[One(s)] + h[s \ {One(s)}]

IsSum(f, S, h) == h = [s \in SUBSET S |-> Body(f, h, s)]

SumValue(f, S) == (CHOOSE h : IsSum(f, S, h))[S]

LEMMA OneIn == ASSUME NEW S, S # {} PROVE One(S) \in S
  BY DEF One

LEMMA SumIsValue ==
    ASSUME NEW f, NEW S
    PROVE  Sum(f, S) = SumValue(f, S)
  BY DEF Sum, MapThenSumSet, MapThenFoldSet, SumValue, IsSum, Body, One

LEMMA Unique ==
    ASSUME NEW f, NEW S, IsFiniteSet(S), NEW g, NEW h, IsSum(f, S, g), IsSum(f, S, h)
    PROVE  \A s \in SUBSET S : g[s] = h[s]
<1> SUFFICES ASSUME NEW s0 \in SUBSET S, g[s0] # h[s0] PROVE FALSE
  OBVIOUS
<1> DEFINE C == {s \in SUBSET S : g[s] # h[s]}
<1>1. PICK T \in C : Minimal(T, C)
  <2>1. C \subseteq SUBSET S /\ C # {}
    OBVIOUS
  <2> HIDE DEF C
  <2> QED BY <2>1, Smallest
<1>2. g[T] = Body(f, g, T) /\ h[T] = Body(f, h, T)
  BY DEF IsSum
<1>3. CASE T = {}
  BY <1>2, <1>3 DEF Body
<1>4. CASE T # {}
  <2>1. One(T) \in T
    BY <1>4, OneIn
  <2>2. g[T \ {One(T)}] = h[T \ {One(T)}]
    BY <1>1, <2>1 DEF Minimal
  <2> QED BY <1>2, <1>4, <2>2 DEF Body
<1> QED BY <1>3, <1>4

LEMMA Restricted ==
    ASSUME NEW f, NEW S, IsFiniteSet(S), NEW g, IsSum(f, S, g), NEW T \in SUBSET S
    PROVE  g[T] = SumValue(f, T)
<1> DEFINE r == [s \in SUBSET T |-> g[s]]
<1>1. IsSum(f, T, r)
  <2>1. ASSUME NEW s \in SUBSET T PROVE r[s] = Body(f, r, s)
    <3>1. g[s] = Body(f, g, s)
      BY DEF IsSum
    <3>2. s # {} => One(s) \in s
      BY OneIn
    <3> QED BY <3>1, <3>2 DEF Body
  <2> QED BY <2>1 DEF IsSum
<1> HIDE DEF r
<1>2. IsSum(f, T, CHOOSE h : IsSum(f, T, h))
  BY <1>1
<1>3. IsFiniteSet(T)
  BY FS_Subset
<1>4. r[T] = SumValue(f, T)
  BY <1>1, <1>2, <1>3, Unique DEF SumValue
<1> QED BY <1>4 DEF r

LEMMA Exists ==
    ASSUME NEW f, NEW S, IsFiniteSet(S)
    PROVE  \E h : IsSum(f, S, h)
<1> DEFINE C == {T \in SUBSET S : ~\E h : IsSum(f, T, h)}
<1> SUFFICES ASSUME C # {} PROVE FALSE
  OBVIOUS
<1>1. PICK T \in C : Minimal(T, C)
  <2>1. C \subseteq SUBSET S
    OBVIOUS
  <2> HIDE DEF C
  <2> QED BY <2>1, Smallest
<1>2. IsFiniteSet(T)
  BY FS_Subset
<1> DEFINE h == [s \in SUBSET T |-> IF s = {} THEN 0 ELSE f[One(s)] + SumValue(f, s \ {One(s)})]
<1>3. ASSUME NEW u \in SUBSET T, u # T
      PROVE  h[u] = SumValue(f, u)
  <2>1. PICK g : IsSum(f, u, g)
    BY <1>1, <1>3 DEF Minimal
  <2>2. IsFiniteSet(u)
    BY <1>2, FS_Subset
  <2>3. \A s \in SUBSET u : g[s] = SumValue(f, s)
    BY <2>1, <2>2, Restricted
  <2>4. g[u] = Body(f, g, u)
    BY <2>1 DEF IsSum
  <2>5. u # {} => g[u \ {One(u)}] = SumValue(f, u \ {One(u)})
    BY <2>3
  <2> QED BY <2>3, <2>4, <2>5 DEF Body
<1>4. ASSUME NEW s \in SUBSET T PROVE h[s] = Body(f, h, s)
  <2>1. CASE s = {}
    BY <2>1 DEF Body
  <2>2. CASE s # {}
    <3>1. One(s) \in s
      BY <2>2, OneIn
    <3>2. h[s \ {One(s)}] = SumValue(f, s \ {One(s)})
      BY <1>3, <3>1
    <3> QED BY <2>2, <3>2 DEF Body
  <2> QED BY <2>1, <2>2
<1>5. IsSum(f, T, h)
  BY <1>4 DEF IsSum
<1> QED BY <1>1, <1>5

(* The recursion of the sum. *)
LEMMA SumSplits ==
    ASSUME NEW f, NEW S, IsFiniteSet(S)
    PROVE  Sum(f, S) = IF S = {} THEN 0 ELSE f[One(S)] + Sum(f, S \ {One(S)})
<1>1. PICK h : IsSum(f, S, h)
  BY Exists
<1>2. h[S] = Body(f, h, S)
  BY <1>1 DEF IsSum
<1>3. \A T \in SUBSET S : h[T] = Sum(f, T)
  BY ZenonT(60), SMTT(60), <1>1, Restricted, SumIsValue
<1>4. h[S] = Sum(f, S) /\ h[S \ {One(S)}] = Sum(f, S \ {One(S)})
  BY <1>3
<1> QED BY <1>2, <1>4 DEF Body

(* A function that is a sum by another body. *)
LEMMA SumIs ==
    ASSUME NEW f, NEW S, IsFiniteSet(S), NEW h, IsSum(f, S, h)
    PROVE  h[S] = Sum(f, S)
  BY Restricted, SumIsValue

LEMMA SumEmpty ==
    ASSUME NEW f
    PROVE  Sum(f, {}) = 0
  BY SumSplits, FS_EmptySet

LEMMA SumInt ==
    ASSUME NEW f, NEW S, IsFiniteSet(S), \A x \in S : f[x] \in Int
    PROVE  Sum(f, S) \in Int
<1> DEFINE C == {T \in SUBSET S : Sum(f, T) \notin Int}
<1> SUFFICES ASSUME C # {} PROVE FALSE
  OBVIOUS
<1>1. PICK T \in C : Minimal(T, C)
  <2>1. C \subseteq SUBSET S
    OBVIOUS
  <2> HIDE DEF C
  <2> QED BY <2>1, Smallest
<1>2. Sum(f, T) = IF T = {} THEN 0 ELSE f[One(T)] + Sum(f, T \ {One(T)})
  BY FS_Subset, SumSplits
<1>3. CASE T = {}
  BY <1>2, <1>3
<1>4. CASE T # {}
  <2>1. One(T) \in T
    BY <1>4, OneIn
  <2>2. Sum(f, T \ {One(T)}) \in Int
    BY <1>1, <2>1 DEF Minimal
  <2>3. f[One(T)] \in Int
    BY <2>1
  <2> QED BY <1>2, <1>4, <2>2, <2>3
<1> QED BY <1>3, <1>4

(* Equal terms have equal sums. *)
LEMMA SumSame ==
    ASSUME NEW f, NEW g, NEW S, IsFiniteSet(S), \A x \in S : f[x] = g[x]
    PROVE  Sum(f, S) = Sum(g, S)
<1> DEFINE C == {T \in SUBSET S : Sum(f, T) # Sum(g, T)}
<1> SUFFICES ASSUME C # {} PROVE FALSE
  OBVIOUS
<1>1. PICK T \in C : Minimal(T, C)
  <2>1. C \subseteq SUBSET S
    OBVIOUS
  <2> HIDE DEF C
  <2> QED BY <2>1, Smallest
<1>2. /\ Sum(f, T) = IF T = {} THEN 0 ELSE f[One(T)] + Sum(f, T \ {One(T)})
      /\ Sum(g, T) = IF T = {} THEN 0 ELSE g[One(T)] + Sum(g, T \ {One(T)})
  BY FS_Subset, SumSplits
<1>3. CASE T = {}
  BY <1>2, <1>3
<1>4. CASE T # {}
  <2>1. One(T) \in T
    BY <1>4, OneIn
  <2>2. Sum(f, T \ {One(T)}) = Sum(g, T \ {One(T)})
    BY <1>1, <2>1 DEF Minimal
  <2>3. f[One(T)] = g[One(T)]
    BY <2>1
  <2> QED BY <1>2, <1>4, <2>2, <2>3
<1> QED BY <1>3, <1>4

(* Whichever element comes first. *)
LEMMA SumRemove ==
    ASSUME NEW f, NEW S, IsFiniteSet(S), \A x \in S : f[x] \in Int, NEW x \in S
    PROVE  Sum(f, S) = f[x] + Sum(f, S \ {x})
<1> DEFINE Wrong(T) == \E y \in T : Sum(f, T) # f[y] + Sum(f, T \ {y})
           C == {T \in SUBSET S : Wrong(T)}
<1> SUFFICES ASSUME C # {} PROVE FALSE
  OBVIOUS
<1>1. PICK T \in C : Minimal(T, C)
  <2>1. C \subseteq SUBSET S
    OBVIOUS
  <2> HIDE DEF C
  <2> QED BY <2>1, Smallest
<1>2. PICK y \in T : Sum(f, T) # f[y] + Sum(f, T \ {y})
  BY <1>1
<1> DEFINE c == One(T)
<1>3. c \in T
  BY <1>2, OneIn
<1>4. Sum(f, T) = f[c] + Sum(f, T \ {c})
  BY <1>3, FS_Subset, SumSplits
<1>5. c # y
  BY <1>2, <1>4
<1> HIDE DEF c
<1>6. Sum(f, T \ {c}) = f[y] + Sum(f, (T \ {c}) \ {y})
  <2>1. T \ {c} \notin C /\ T \ {c} \in SUBSET S
    BY <1>1, <1>3 DEF Minimal
  <2> QED BY <1>5, <2>1
<1>7. Sum(f, T \ {y}) = f[c] + Sum(f, (T \ {y}) \ {c})
  <2>1. T \ {y} \notin C /\ T \ {y} \in SUBSET S
    BY <1>1 DEF Minimal
  <2> QED BY <1>3, <1>5, <2>1
<1>8. (T \ {c}) \ {y} = (T \ {y}) \ {c}
  OBVIOUS
<1>9. /\ Sum(f, (T \ {y}) \ {c}) \in Int
      /\ f[c] \in Int /\ f[y] \in Int
  BY <1>3, SumInt, FS_Subset
<1> DEFINE q == Sum(f, (T \ {y}) \ {c})
<1>10. Sum(f, T \ {c}) = f[y] + q /\ Sum(f, T \ {y}) = f[c] + q
  BY <1>6, <1>7, <1>8
<1>11. q \in Int
  BY <1>9
<1> HIDE DEF q, Wrong, C
<1>12. Sum(f, T) = f[c] + (f[y] + q)
  BY <1>4, <1>10
<1>13. Sum(f, T) # f[y] + (f[c] + q)
  BY <1>2, <1>10
<1> QED BY <1>9, <1>11, <1>12, <1>13

LEMMA SumAdd ==
    ASSUME NEW f, NEW S, IsFiniteSet(S), NEW x, x \notin S,
           \A y \in S \cup {x} : f[y] \in Int
    PROVE  Sum(f, S \cup {x}) = f[x] + Sum(f, S)
<1>1. (S \cup {x}) \ {x} = S
  OBVIOUS
<1>2. Sum(f, S \cup {x}) = f[x] + Sum(f, (S \cup {x}) \ {x})
  <2>1. IsFiniteSet(S \cup {x})
    BY FS_AddElement
  <2> QED BY <2>1, SumRemove
<1> QED BY <1>1, <1>2

-----------------------------------------------------------------------------
(* The inductive invariant *)

Kind == {"none", "update", "revert", "eloOnly"}

(* A transaction on a battle, and one on the table. *)
Inside == {"rating", "apply", "undo"}
Tabling == {"events", "matches", "ratings", "write"}

(* An update_standings that is not there (yet). *)
Pending == {"none", "announced", "left", "treated"}
JobState == Pending \cup {"queued", "running", "done", "needs_review"}

Record(pc, b, kind, todo, read, table) ==
    [pc |-> pc, b |-> b, kind |-> kind, todo |-> todo, read |-> read, table |-> table]

Table(battles, closing, ratings) ==
    [battles |-> battles, closed |-> closing, rating |-> ratings]

IsRecord(r) ==
    \E pc \in PC, b \in Battle \cup {Nobody}, kind \in Kind :
        \E todo, read, battles, closing, ratings :
            r = Record(pc, b, kind, todo, read, Table(battles, closing, ratings))

ProcTyped ==
    /\ DOMAIN proc = Proc /\ proc = [p \in Proc |-> proc[p]]
    /\ \A p \in Proc : IsRecord(proc[p])

BattleTyped == battle \in [Battle -> [match : Match, result : Outcome \cup {"none"}, reverted : BOOLEAN]]

Event(delta, before, reverted) == [delta |-> delta, before |-> before, reverted |-> reverted]

EventTyped ==
    /\ event = [b \in Battle |-> event[b]]
    /\ \A b \in Battle : /\ event[b] = Event(event[b].delta, event[b].before, event[b].reverted)
                         /\ event[b].reverted \in BOOLEAN
                         /\ event[b].reverted => Rated(b)

JobsTyped == jobs \in [Battle -> JobState]

Typed ==
    /\ ProcTyped /\ BattleTyped /\ EventTyped /\ JobsTyped
    /\ closed \subseteq Match
    /\ DOMAIN rating \subseteq Bot
    /\ lock \in [Locks -> Proc \cup {Nobody}]
    /\ faults \in 0..MaxFaults

(* The locks that p has taken and not released: what it read is locked. *)
HeldBy(r) ==
    IF r.pc \in Inside
    THEN {BattleLock(r.b)} \cup {RatingLock(i) : i \in DOMAIN r.read}
    ELSE IF r.pc \in Tabling THEN {TableLock} ELSE {}

LocksHeld == \A p \in Proc, k \in Locks : lock[k] = p <=> k \in HeldBy(proc[p])

(* Where a process can be, whatever the others do. *)
Sound(p, r) ==
    /\ r.pc = "idle" => r = Idle
    /\ r.pc # "idle" => r.b \in Battle
    /\ r.kind = "update" <=> r.pc # "idle" /\ p \in Loop
    /\ r.pc \in {"battle", "apply", "done", "failed"} => p \in Loop
    /\ r.pc \in {"revert", "undo"} => p \in Staff
    /\ r.pc \in {"battle", "revert"} => DOMAIN r.read = {}
    /\ r.pc = "rating" => \/ r.todo = InOrder(r.b) /\ DOMAIN r.read = {}
                          \/ /\ r.todo = <<InOrder(r.b)[2]>>
                             /\ DOMAIN r.read = {InOrder(r.b)[1]}
    /\ r.pc = "apply" => DOMAIN r.read = BotsOf(r.b)
    /\ r.pc = "undo" => DOMAIN r.read \in {BotsOf(r.b), {}}

Final == {"none", "technical"}

(* A battle that applyBattleRating has nothing to do with (any more). *)
RatedOrOut(b) == Rated(b) \/ battle[b].result = "technical" \/ battle[b].reverted

(* What the place of a process says of the rows: what it read is current,   *)
(* and who is past the Elo of a battle leaves none of it to do.            *)
Current(p, r) ==
    /\ r.pc = "undo" /\ DOMAIN r.read = {} => ~Counted(r.b)
    /\ r.pc \in Inside => \A i \in DOMAIN r.read : r.read[i] = RatingOf(i)
    /\ r.pc = "battle" => battle[r.b].result # "technical"
    /\ r.pc \in {"rating", "apply"} /\ p \in Loop => ~RatedOrOut(r.b)
    /\ r.pc \in {"table", "done"} \cup Tabling /\ p \in Loop => RatedOrOut(r.b)
    /\ r.pc \in {"table"} \cup Tabling /\ p \in Staff => battle[r.b].reverted
    /\ r.pc # "idle" /\ p \in Loop => jobs[r.b] \notin Pending

Places == \A p \in Proc : Sound(p, proc[p]) /\ Current(p, proc[p])

Rows ==
    \A b \in Battle :
        /\ jobs[b] # "none" => battle[b].result # "none"
        /\ battle[b].match \in closed => battle[b].result # "none"
        /\ jobs[b] = "done" => RatedOrOut(b)
        /\ battle[b].reverted => ~Counted(b)
        /\ Rated(b) => battle[b].result \notin Final

RInv == Typed /\ LocksHeld /\ Places /\ Rows

Low(b) == InOrder(b)[1]
High(b) == InOrder(b)[2]

LEMMA Order ==
    ASSUME NEW b \in Battle
    PROVE  /\ InOrder(b) = <<Low(b), High(b)>>
           /\ Low(b) \in Bot /\ High(b) \in Bot /\ Low(b) < High(b)
           /\ BotsOf(b) = {Low(b), High(b)}
           /\ Head(InOrder(b)) = Low(b) /\ Tail(InOrder(b)) = <<High(b)>>
<1>1. PICK x \in Bot, y \in Bot : Sides[b] = <<x, y>>
  <2>1. Sides[b] \in Bot \X Bot
    BY RatingsAssumption
  <2> QED BY <2>1
<1>2. Sides[b][1] = x /\ Sides[b][2] = y
  BY <1>1
<1>3. /\ x # y /\ x \in Nat /\ y \in Nat
      /\ BotsOf(b) = {x, y}
      /\ InOrder(b) = IF x < y THEN <<x, y>> ELSE <<y, x>>
  BY <1>1, <1>2, RatingsAssumption DEF InOrder, BotsOf
<1>4. CASE x < y
  BY <1>3, <1>4 DEF Low, High
<1>5. CASE ~(x < y)
  BY <1>3, <1>5 DEF Low, High
<1> QED BY <1>4, <1>5

LEMMA LocksApart ==
    /\ \A b, c : BattleLock(b) = BattleLock(c) => b = c
    /\ \A i, j : RatingLock(i) = RatingLock(j) => i = j
    /\ \A b, i : BattleLock(b) # RatingLock(i)
    /\ \A b : BattleLock(b) # TableLock
    /\ \A i : RatingLock(i) # TableLock
    /\ \A b \in Battle : BattleLock(b) \in Locks
    /\ \A i \in Bot : RatingLock(i) \in Locks
    /\ TableLock \in Locks
  BY DEF BattleLock, RatingLock, TableLock, Locks

-----------------------------------------------------------------------------
(* What the steps make of their process *)

Put(p, r) == proc' = [proc EXCEPT ![p] = r]

LEMMA PutIs ==
    ASSUME ProcTyped, NEW p \in Proc, NEW r, IsRecord(r), Put(p, r)
    PROVE  ProcTyped' /\ proc'[p] = r /\ \A q \in Proc : q # p => proc'[q] = proc[q]
<1>1. DOMAIN proc' = Proc /\ proc'[p] = r /\ \A q \in Proc : q # p => proc'[q] = proc[q]
  BY DEF Put, ProcTyped
<1>2. proc' = [q \in Proc |-> proc'[q]]
  BY DEF Put, ProcTyped
<1>3. \A q \in Proc : IsRecord(proc'[q])
  BY <1>1 DEF ProcTyped
<1>4. \A q \in Proc : IsRecord(proc[q])'
  BY <1>3 DEF IsRecord
<1> QED BY <1>1, <1>2, <1>4 DEF ProcTyped

LEMMA RecordIs ==
    ASSUME NEW pc \in PC, NEW b \in Battle \cup {Nobody}, NEW kind \in Kind,
           NEW todo, NEW read, NEW battles, NEW closing, NEW ratings
    PROVE  LET r == Record(pc, b, kind, todo, read, Table(battles, closing, ratings)) IN
             /\ IsRecord(r)
             /\ r.pc = pc /\ r.b = b /\ r.kind = kind /\ r.todo = todo /\ r.read = read
             /\ r.table = Table(battles, closing, ratings)
             /\ r.table.battles = battles /\ r.table.closed = closing /\ r.table.rating = ratings
<1>1. IsRecord(Record(pc, b, kind, todo, read, Table(battles, closing, ratings)))
  BY DEF IsRecord
<1> QED BY <1>1 DEF Record, Table

(* One field of a record at a time. *)
WithPc(r, v) == [r EXCEPT !.pc = v]
WithB(r, v) == [r EXCEPT !.b = v]
WithKind(r, v) == [r EXCEPT !.kind = v]
WithTodo(r, v) == [r EXCEPT !.todo = v]
WithRead(r, v) == [r EXCEPT !.read = v]
WithBattles(r, v) == [r EXCEPT !.table.battles = v]
WithClosed(r, v) == [r EXCEPT !.table.closed = v]
WithRatings(r, v) == [r EXCEPT !.table.rating = v]

LEMMA WithPcIs ==
    ASSUME NEW r, IsRecord(r), NEW v \in PC
    PROVE  LET s == WithPc(r, v) IN
             /\ IsRecord(s)
             /\ s.pc = v
             /\ s.b = r.b /\ s.kind = r.kind /\ s.todo = r.todo /\ s.read = r.read /\ s.table = r.table
<1>1. PICK pc, b, kind, todo, read, battles, closing, ratings :
          /\ pc \in PC /\ b \in Battle \cup {Nobody} /\ kind \in Kind
          /\ r = Record(pc, b, kind, todo, read, Table(battles, closing, ratings))
  BY DEF IsRecord
<1>2. WithPc(r, v) = Record(v, b, kind, todo, read, Table(battles, closing, ratings))
  BY <1>1 DEF Record, WithPc
<1> QED BY <1>1, <1>2, RecordIs

LEMMA WithBIs ==
    ASSUME NEW r, IsRecord(r), NEW v \in Battle \cup {Nobody}
    PROVE  LET s == WithB(r, v) IN
             /\ IsRecord(s)
             /\ s.b = v
             /\ s.pc = r.pc /\ s.kind = r.kind /\ s.todo = r.todo /\ s.read = r.read /\ s.table = r.table
<1>1. PICK pc, b, kind, todo, read, battles, closing, ratings :
          /\ pc \in PC /\ b \in Battle \cup {Nobody} /\ kind \in Kind
          /\ r = Record(pc, b, kind, todo, read, Table(battles, closing, ratings))
  BY DEF IsRecord
<1>2. WithB(r, v) = Record(pc, v, kind, todo, read, Table(battles, closing, ratings))
  BY <1>1 DEF Record, WithB
<1>3. /\ r.pc = pc /\ r.kind = kind /\ r.todo = todo /\ r.read = read
      /\ r.table = Table(battles, closing, ratings)
  BY <1>1 DEF Record
<1> DEFINE s == Record(pc, v, kind, todo, read, Table(battles, closing, ratings))
<1>4. /\ IsRecord(s) /\ s.b = v /\ s.pc = pc /\ s.kind = kind /\ s.todo = todo
      /\ s.read = read /\ s.table = Table(battles, closing, ratings)
  BY <1>1, RecordIs
<1> HIDE DEF s
<1> QED BY <1>2, <1>3, <1>4 DEF s

LEMMA WithKindIs ==
    ASSUME NEW r, IsRecord(r), NEW v \in Kind
    PROVE  LET s == WithKind(r, v) IN
             /\ IsRecord(s)
             /\ s.kind = v
             /\ s.pc = r.pc /\ s.b = r.b /\ s.todo = r.todo /\ s.read = r.read /\ s.table = r.table
<1>1. PICK pc, b, kind, todo, read, battles, closing, ratings :
          /\ pc \in PC /\ b \in Battle \cup {Nobody} /\ kind \in Kind
          /\ r = Record(pc, b, kind, todo, read, Table(battles, closing, ratings))
  BY DEF IsRecord
<1>2. WithKind(r, v) = Record(pc, b, v, todo, read, Table(battles, closing, ratings))
  BY <1>1 DEF Record, WithKind
<1> QED BY <1>1, <1>2, RecordIs

LEMMA WithTodoIs ==
    ASSUME NEW r, IsRecord(r), NEW v
    PROVE  LET s == WithTodo(r, v) IN
             /\ IsRecord(s)
             /\ s.todo = v
             /\ s.pc = r.pc /\ s.b = r.b /\ s.kind = r.kind /\ s.read = r.read /\ s.table = r.table
<1>1. PICK pc, b, kind, todo, read, battles, closing, ratings :
          /\ pc \in PC /\ b \in Battle \cup {Nobody} /\ kind \in Kind
          /\ r = Record(pc, b, kind, todo, read, Table(battles, closing, ratings))
  BY DEF IsRecord
<1>2. WithTodo(r, v) = Record(pc, b, kind, v, read, Table(battles, closing, ratings))
  BY <1>1 DEF Record, WithTodo
<1>3. /\ r.pc = pc /\ r.b = b /\ r.kind = kind /\ r.read = read
      /\ r.table = Table(battles, closing, ratings)
  BY <1>1 DEF Record
<1> DEFINE s == Record(pc, b, kind, v, read, Table(battles, closing, ratings))
<1>4. /\ IsRecord(s) /\ s.todo = v /\ s.pc = pc /\ s.b = b /\ s.kind = kind
      /\ s.read = read /\ s.table = Table(battles, closing, ratings)
  BY <1>1, RecordIs
<1> HIDE DEF s
<1> QED BY <1>2, <1>3, <1>4 DEF s

LEMMA WithReadIs ==
    ASSUME NEW r, IsRecord(r), NEW v
    PROVE  LET s == WithRead(r, v) IN
             /\ IsRecord(s)
             /\ s.read = v
             /\ s.pc = r.pc /\ s.b = r.b /\ s.kind = r.kind /\ s.todo = r.todo /\ s.table = r.table
<1>1. PICK pc, b, kind, todo, read, battles, closing, ratings :
          /\ pc \in PC /\ b \in Battle \cup {Nobody} /\ kind \in Kind
          /\ r = Record(pc, b, kind, todo, read, Table(battles, closing, ratings))
  BY DEF IsRecord
<1>2. WithRead(r, v) = Record(pc, b, kind, todo, v, Table(battles, closing, ratings))
  BY <1>1 DEF Record, WithRead
<1> QED BY <1>1, <1>2, RecordIs

LEMMA WithBattlesIs ==
    ASSUME NEW r, IsRecord(r), NEW v
    PROVE  LET s == WithBattles(r, v) IN
             /\ IsRecord(s)
             /\ s.table.battles = v
             /\ s.table.closed = r.table.closed /\ s.table.rating = r.table.rating
             /\ s.table = Table(s.table.battles, s.table.closed, s.table.rating)
             /\ s.pc = r.pc /\ s.b = r.b /\ s.kind = r.kind /\ s.todo = r.todo /\ s.read = r.read
<1>1. PICK pc, b, kind, todo, read, battles, closing, ratings :
          /\ pc \in PC /\ b \in Battle \cup {Nobody} /\ kind \in Kind
          /\ r = Record(pc, b, kind, todo, read, Table(battles, closing, ratings))
  BY DEF IsRecord
<1> DEFINE t == Table(battles, closing, ratings)
<1>2. [t EXCEPT !.battles = v] = Table(v, closing, ratings) /\ r = Record(pc, b, kind, todo, read, t)
  BY <1>1 DEF Table
<1> HIDE DEF t
<1>3. r.table = t
  BY <1>2 DEF Record
<1>4. WithBattles(r, v) = Record(pc, b, kind, todo, read, Table(v, closing, ratings))
  BY <1>2, <1>3 DEF Record, WithBattles
<1> QED BY <1>1, <1>4, RecordIs

LEMMA WithClosedIs ==
    ASSUME NEW r, IsRecord(r), NEW v
    PROVE  LET s == WithClosed(r, v) IN
             /\ IsRecord(s)
             /\ s.table.closed = v
             /\ s.table.battles = r.table.battles /\ s.table.rating = r.table.rating
             /\ s.table = Table(s.table.battles, s.table.closed, s.table.rating)
             /\ s.pc = r.pc /\ s.b = r.b /\ s.kind = r.kind /\ s.todo = r.todo /\ s.read = r.read
<1>1. PICK pc, b, kind, todo, read, battles, closing, ratings :
          /\ pc \in PC /\ b \in Battle \cup {Nobody} /\ kind \in Kind
          /\ r = Record(pc, b, kind, todo, read, Table(battles, closing, ratings))
  BY DEF IsRecord
<1> DEFINE t == Table(battles, closing, ratings)
<1>2. [t EXCEPT !.closed = v] = Table(battles, v, ratings) /\ r = Record(pc, b, kind, todo, read, t)
  BY <1>1 DEF Table
<1> HIDE DEF t
<1>3. r.table = t
  BY <1>2 DEF Record
<1>4. WithClosed(r, v) = Record(pc, b, kind, todo, read, Table(battles, v, ratings))
  BY <1>2, <1>3 DEF Record, WithClosed
<1> QED BY <1>1, <1>4, RecordIs

LEMMA WithRatingsIs ==
    ASSUME NEW r, IsRecord(r), NEW v
    PROVE  LET s == WithRatings(r, v) IN
             /\ IsRecord(s)
             /\ s.table.rating = v
             /\ s.table.battles = r.table.battles /\ s.table.closed = r.table.closed
             /\ s.table = Table(s.table.battles, s.table.closed, s.table.rating)
             /\ s.pc = r.pc /\ s.b = r.b /\ s.kind = r.kind /\ s.todo = r.todo /\ s.read = r.read
<1>1. PICK pc, b, kind, todo, read, battles, closing, ratings :
          /\ pc \in PC /\ b \in Battle \cup {Nobody} /\ kind \in Kind
          /\ r = Record(pc, b, kind, todo, read, Table(battles, closing, ratings))
  BY DEF IsRecord
<1> DEFINE t == Table(battles, closing, ratings)
<1>2. [t EXCEPT !.rating = v] = Table(battles, closing, v) /\ r = Record(pc, b, kind, todo, read, t)
  BY <1>1 DEF Table
<1> HIDE DEF t
<1>3. r.table = t
  BY <1>2 DEF Record
<1>4. WithRatings(r, v) = Record(pc, b, kind, todo, read, Table(battles, closing, v))
  BY <1>2, <1>3 DEF Record, WithRatings
<1> QED BY <1>1, <1>4, RecordIs

LEMMA FieldsTyped ==
    ASSUME NEW r, IsRecord(r)
    PROVE  r.pc \in PC /\ r.b \in Battle \cup {Nobody} /\ r.kind \in Kind
  BY DEF IsRecord, Record

LEMMA IdleIs ==
    /\ IsRecord(Idle)
    /\ DOMAIN Idle.read = {} /\ Idle.pc = "idle" /\ Idle.b = Nobody /\ Idle.kind = "none"
<1>1. Idle = Record("idle", Nobody, "none", <<>>, <<>>, Table({}, {}, <<>>))
  BY DEF Idle, Record, Table, EmptyTable
<1>2. "idle" \in PC /\ "none" \in Kind
  BY DEF PC, Kind
<1>3. DOMAIN <<>> = {}
  OBVIOUS
<1> QED BY <1>1, <1>2, <1>3, RecordIs

(* Beginnings: of a delivery, of a reversal, of the table. *)
IsFresh(r, pc, b, kind) ==
    IsRecord(r) /\ r.pc = pc /\ r.b = b /\ r.kind = kind /\ DOMAIN r.read = {}

LEMMA FreshIs ==
    ASSUME NEW pc \in PC, NEW b \in Battle \cup {Nobody}, NEW kind \in Kind
    PROVE  /\ IsFresh([Idle EXCEPT !.pc = pc, !.b = b, !.kind = kind], pc, b, kind)
           /\ IsFresh([Idle EXCEPT !.b = b, !.kind = kind, !.pc = pc], pc, b, kind)
<1>1. [Idle EXCEPT !.pc = pc, !.b = b, !.kind = kind] = WithKind(WithB(WithPc(Idle, pc), b), kind)
  BY DEF WithPc, WithB, WithKind
<1>2. [Idle EXCEPT !.b = b, !.kind = kind, !.pc = pc] = WithPc(WithKind(WithB(Idle, b), kind), pc)
  BY DEF WithPc, WithB, WithKind
<1>3. IsFresh(WithKind(WithB(WithPc(Idle, pc), b), kind), pc, b, kind)
  BY SMTT(60), ZenonT(60), IdleIs, WithPcIs, WithBIs, WithKindIs DEF IsFresh
<1>4. IsFresh(WithPc(WithKind(WithB(Idle, b), kind), pc), pc, b, kind)
  BY SMTT(60), ZenonT(60), IdleIs, WithPcIs, WithBIs, WithKindIs DEF IsFresh
<1> QED BY <1>1, <1>2, <1>3, <1>4


-----------------------------------------------------------------------------
(* Types and locks *)

(* A process that does something to the locks: takes k, or lets go of all. *)
Takes(p, k) == lock[k] = Nobody /\ lock' = [lock EXCEPT ![k] = p]
LetsGo(p) == lock' = [k \in Locks |-> IF lock[k] = p THEN Nobody ELSE lock[k]]

(* The three ways to move keep who holds what. *)
LEMMA SameLocks ==
    ASSUME Typed, LocksHeld, NEW p \in Proc, NEW r, IsRecord(r), Put(p, r), UNCHANGED lock,
           HeldBy(r) = HeldBy(proc[p])
    PROVE  LocksHeld'
<1>1. proc'[p] = r /\ \A q \in Proc : q # p => proc'[q] = proc[q]
  BY PutIs DEF Typed
<1>2. \A q \in Proc, k \in Locks : lock'[k] = q <=> k \in HeldBy(proc'[q])
  BY <1>1 DEF LocksHeld
<1> QED BY <1>2 DEF LocksHeld, HeldBy

LEMMA TakeLocks ==
    ASSUME Typed, LocksHeld, NEW p \in Proc, NEW r, IsRecord(r), Put(p, r),
           NEW k \in Locks, Takes(p, k), HeldBy(r) = HeldBy(proc[p]) \cup {k}
    PROVE  LocksHeld'
<1>1. proc'[p] = r /\ \A q \in Proc : q # p => proc'[q] = proc[q]
  BY PutIs DEF Typed
<1>2. /\ lock'[k] = p
      /\ \A l \in Locks : l # k => lock'[l] = lock[l]
      /\ \A q \in Proc : lock[k] # q
  BY RatingsAssumption DEF Takes, Typed
<1>3. ASSUME NEW q \in Proc, NEW l \in Locks
      PROVE  lock'[l] = q <=> l \in HeldBy(proc'[q])
  <2>1. lock[l] = q <=> l \in HeldBy(proc[q])
    BY DEF LocksHeld
  <2> QED BY <1>1, <1>2, <2>1
<1> QED BY <1>3 DEF LocksHeld, HeldBy

LEMMA LetLocksGo ==
    ASSUME Typed, LocksHeld, NEW p \in Proc, NEW r, IsRecord(r), Put(p, r),
           LetsGo(p), HeldBy(r) = {}
    PROVE  LocksHeld'
<1>1. proc'[p] = r /\ \A q \in Proc : q # p => proc'[q] = proc[q]
  BY PutIs DEF Typed
<1>2. ASSUME NEW q \in Proc, NEW l \in Locks
      PROVE  lock'[l] = q <=> l \in HeldBy(proc'[q])
  <2>1. lock[l] = q <=> l \in HeldBy(proc[q])
    BY DEF LocksHeld
  <2>2. lock'[l] = IF lock[l] = p THEN Nobody ELSE lock[l]
    BY DEF LetsGo
  <2>3. Nobody # q
    BY RatingsAssumption
  <2> QED BY <1>1, <2>1, <2>2, <2>3
<1> QED BY <1>2 DEF LocksHeld, HeldBy

LEMMA LockTyped ==
    ASSUME Typed, NEW p \in Proc
    PROVE  /\ LetsGo(p) => lock' \in [Locks -> Proc \cup {Nobody}]
           /\ \A k \in Locks : Takes(p, k) => lock' \in [Locks -> Proc \cup {Nobody}]
           /\ UNCHANGED lock => lock' \in [Locks -> Proc \cup {Nobody}]
  BY DEF Typed, LetsGo, Takes

(* Two processes hold no lock together. *)
LEMMA Apart ==
    ASSUME LocksHeld, NEW p \in Proc, NEW q \in Proc, p # q
    PROVE  HeldBy(proc[p]) \cap HeldBy(proc[q]) \cap Locks = {}
  BY DEF LocksHeld

-----------------------------------------------------------------------------
(* The steps that write no result, event or rating *)

Moves(p, r) == IsRecord(r) /\ Sound(p, r) /\ Current(p, r) /\ Put(p, r)

JobsMove ==
    /\ jobs' \in [Battle -> JobState]
    /\ \A b \in Battle : /\ jobs'[b] # "none" => jobs[b] # "none"
                         /\ jobs[b] \notin Pending => jobs'[b] \notin Pending
                         /\ jobs'[b] = "done" => jobs[b] = "done" \/ RatedOrOut(b)

LEMMA PlacesAfter ==
    ASSUME \A q \in Proc : \A s : s = proc'[q] => Sound(q, s) /\ Current(q, s)'
    PROVE  Places'
<1>1. ASSUME NEW q \in Proc PROVE (Sound(q, proc[q]) /\ Current(q, proc[q]))'
  <2>1. \A s : s = proc'[q] => Sound(q, s) /\ Current(q, s)'
    OBVIOUS
  <2>2. Sound(q, proc[q])'
    BY <2>1 DEF Sound
  <2>3. Current(q, proc[q])'
    BY <2>1 DEF Current
  <2> QED BY <2>2, <2>3
<1> QED BY <1>1 DEF Places

LEMMA CurrentSame ==
    ASSUME NEW q \in Proc, NEW s, Sound(q, s), Current(q, s),
           UNCHANGED <<battle, event, rating>>, JobsMove
    PROVE  Current(q, s)'
<1>1. \A b : /\ RatedOrOut(b)' <=> RatedOrOut(b)
             /\ Counted(b)' <=> Counted(b)
  BY DEF RatedOrOut, Rated, Counted, NoEvent
<1>2. \A i : RatingOf(i)' = RatingOf(i)
  BY DEF RatingOf
<1>3. s.pc # "idle" => s.b \in Battle
  BY DEF Sound
<1> QED BY <1>1, <1>2, <1>3 DEF Current, JobsMove, Inside, Tabling

LEMMA QuietStep ==
    ASSUME RInv, NEW p \in Proc, NEW r, Moves(p, r), UNCHANGED <<battle, closed, event, rating>>,
           JobsMove, faults' \in 0..MaxFaults, lock' \in [Locks -> Proc \cup {Nobody}],
           LocksHeld'
    PROVE  RInv'
<1>1. ProcTyped' /\ proc'[p] = r /\ \A q \in Proc : q # p => proc'[q] = proc[q]
  BY PutIs DEF RInv, Typed, Moves
<1>2. Typed'
  BY <1>1 DEF RInv, Typed, JobsMove, BattleTyped, EventTyped, JobsTyped, Rated, NoEvent
<1>3. \A b \in Battle : /\ RatedOrOut(b)' <=> RatedOrOut(b)
                        /\ Counted(b)' <=> Counted(b)
                        /\ Rated(b)' <=> Rated(b)
  BY DEF RatedOrOut, Rated, Counted, NoEvent
<1>4. ASSUME NEW q \in Proc, NEW s, s = proc'[q]
      PROVE  Sound(q, s) /\ Current(q, s)'
  <2>1. Sound(q, s) /\ Current(q, s)
    BY <1>1, <1>4 DEF Moves, RInv, Places
  <2> QED BY <2>1, CurrentSame
<1>5. Places'
  BY <1>4, PlacesAfter
<1>6. Rows'
  BY <1>3 DEF RInv, Rows, JobsMove, Final
<1> QED BY <1>2, <1>5, <1>6 DEF RInv

LEMMA Here ==
    ASSUME RInv, NEW p \in Proc
    PROVE  /\ IsRecord(proc[p]) /\ Sound(p, proc[p]) /\ Current(p, proc[p])
           /\ proc[p].pc \in PC /\ proc[p].b \in Battle \cup {Nobody} /\ proc[p].kind \in Kind
           /\ (p \in Loop \/ p \in Staff) /\ ~(p \in Loop /\ p \in Staff)
<1>1. IsRecord(proc[p]) /\ Sound(p, proc[p]) /\ Current(p, proc[p])
  BY DEF RInv, Typed, ProcTyped, Places
<1> QED BY <1>1, FieldsTyped, RatingsAssumption DEF Proc

LEMMA IdleMoves ==
    ASSUME RInv, NEW p \in Proc, Put(p, Idle)
    PROVE  Moves(p, Idle) /\ HeldBy(Idle) = {}
  BY IdleIs DEF Moves, Sound, Current, Inside, Tabling, HeldBy

LEMMA Unchanged ==
    ASSUME RInv, UNCHANGED jobs
    PROVE  JobsMove
  BY DEF JobsMove, RInv, Typed, JobsTyped

LEMMA FaultsTyped ==
    ASSUME RInv
    PROVE  /\ UNCHANGED faults => faults' \in 0..MaxFaults
           /\ \A kind : Strikes(kind) => faults' \in 0..MaxFaults
  BY SMTT(60), ZenonT(60), RatingsAssumption DEF RInv, Typed, Strikes

LEMMA BeginMoves ==
    ASSUME RInv, NEW p \in Loop, NEW b \in Battle, Begin(p, b), jobs[b] \notin Pending
    PROVE  \E r : Moves(p, r) /\ HeldBy(r) = {}
<1> DEFINE pc == IF battle[b].result = "technical" THEN "table" ELSE "battle"
           r == [Idle EXCEPT !.b = b, !.kind = "update", !.pc = pc]
<1>1. pc \in PC /\ "update" \in Kind
  BY SMTT(60), ZenonT(60) DEF PC, Kind
<1>2. IsFresh(r, pc, b, "update")
  BY <1>1, FreshIs
<1>3. Put(p, r)
  BY DEF Begin, Continue, Put
<1> HIDE DEF r
<1>4. Sound(p, r) /\ HeldBy(r) = {}
  BY <1>2 DEF IsFresh, Sound, HeldBy, Inside, Tabling
<1>5. Current(p, r)
  BY <1>2, RatingsAssumption DEF IsFresh, Current, RatedOrOut, Inside, Tabling
<1> QED BY SMTT(60), ZenonT(60), <1>2, <1>3, <1>4, <1>5 DEF Moves, IsFresh

LEMMA ClaimStep ==
    ASSUME RInv, NEW p \in Loop, NEW b \in Battle, Claim(p, b) \/ ClaimAgain(p, b)
    PROVE  RInv'
<1>1. p \in Proc /\ jobs[b] \notin Pending /\ Begin(p, b) /\ UNCHANGED lock
      /\ proc[p].pc = "idle" /\ UNCHANGED <<battle, closed, event, rating>>
  BY DEF Claim, ClaimAgain, Proc, At, Pending
<1>2. JobsMove
  BY DEF Claim, ClaimAgain, JobsMove, RInv, Typed, JobsTyped, JobState, Pending
<1>3. faults' \in 0..MaxFaults
  BY FaultsTyped DEF Claim, ClaimAgain
<1>4. PICK r : Moves(p, r) /\ HeldBy(r) = {}
  BY <1>1, BeginMoves
<1>5. HeldBy(proc[p]) = {}
  BY <1>1 DEF HeldBy, Inside, Tabling
<1>6. LocksHeld' /\ lock' \in [Locks -> Proc \cup {Nobody}]
  BY <1>1, <1>4, <1>5, SameLocks, LockTyped DEF RInv, Moves
<1> QED BY <1>1, <1>2, <1>3, <1>4, <1>6, QuietStep

LEMMA EndStep ==
    ASSUME RInv, NEW p \in Proc, CompleteJob(p) \/ FailJob(p)
    PROVE  RInv'
<1>1. /\ proc[p].pc \in {"done", "failed"} /\ Put(p, Idle)
      /\ UNCHANGED <<battle, closed, event, rating, lock, faults>>
  BY DEF CompleteJob, FailJob, EndJob, At, Continue, Put
<1>2. p \in Loop /\ proc[p].b \in Battle /\ jobs[proc[p].b] \notin Pending
      /\ (proc[p].pc = "done" => RatedOrOut(proc[p].b))
  BY <1>1, Here DEF Sound, Current
<1>3. JobsMove
  <2>1. jobs' = [jobs EXCEPT ![proc[p].b] = IF proc[p].pc = "done" THEN "done" ELSE "needs_review"]
    BY DEF CompleteJob, FailJob, EndJob, At
  <2> QED BY <1>2, <2>1 DEF JobsMove, RInv, Typed, JobsTyped, JobState, Pending
<1>4. Moves(p, Idle) /\ HeldBy(Idle) = {}
  BY <1>1, IdleMoves
<1>5. HeldBy(proc[p]) = {}
  BY <1>1 DEF HeldBy, Inside, Tabling
<1>6. LocksHeld' /\ lock' \in [Locks -> Proc \cup {Nobody}]
  BY <1>1, <1>4, <1>5, SameLocks, LockTyped DEF RInv, Moves
<1> QED BY <1>1, <1>3, <1>4, <1>6, FaultsTyped, QuietStep

(* The Elo is behind: what is left is the table. *)
LEMMA ToTableMoves ==
    ASSUME RInv, NEW p \in Proc, ToTable(p), proc[p].pc # "idle",
           p \in Loop => RatedOrOut(proc[p].b),
           p \in Staff => battle[proc[p].b].reverted
    PROVE  \E r : Moves(p, r) /\ HeldBy(r) = {}
<1> DEFINE r == [Idle EXCEPT !.pc = "table", !.b = proc[p].b, !.kind = proc[p].kind]
<1>1. "table" \in PC /\ proc[p].b \in Battle \cup {Nobody} /\ proc[p].kind \in Kind
  BY SMTT(60), ZenonT(60), Here DEF PC
<1>2. IsFresh(r, "table", proc[p].b, proc[p].kind)
  BY <1>1, FreshIs
<1>3. Put(p, r)
  BY DEF ToTable, Continue, Put
<1> HIDE DEF r
<1>4. Sound(p, r) /\ HeldBy(r) = {}
  BY <1>2, Here DEF IsFresh, Sound, HeldBy, Inside, Tabling
<1>5. Current(p, r)
  BY <1>2, Here DEF IsFresh, Current, Inside, Tabling
<1> QED BY SMTT(60), ZenonT(60), <1>2, <1>3, <1>4, <1>5 DEF Moves, IsFresh

LEMMA LockBattleStep ==
    ASSUME RInv, NEW p \in Proc, LockBattle(p)
    PROVE  RInv'
<1> DEFINE b == proc[p].b
<1>1. /\ proc[p].pc = "battle" /\ p \in Loop /\ b \in Battle /\ DOMAIN proc[p].read = {}
      /\ battle[b].result # "technical" /\ jobs[b] \notin Pending /\ proc[p].kind = "update"
  BY Here DEF LockBattle, At, Sound, Current
<1>2. UNCHANGED <<battle, closed, event, rating, jobs, faults>>
  BY DEF LockBattle
<1>3. HeldBy(proc[p]) = {}
  BY <1>1 DEF HeldBy, Inside, Tabling
<1>4. CASE battle[b].reverted \/ Rated(b)
  <2>1. ToTable(p) /\ UNCHANGED lock
    BY <1>4 DEF LockBattle
  <2>2. PICK r : Moves(p, r) /\ HeldBy(r) = {}
    BY <1>1, <1>4, <2>1, Here, ToTableMoves DEF RatedOrOut
  <2>3. LocksHeld' /\ lock' \in [Locks -> Proc \cup {Nobody}]
    BY <1>3, <2>1, <2>2, SameLocks, LockTyped DEF RInv, Moves
  <2> QED BY <1>2, <2>2, <2>3, Unchanged, FaultsTyped, QuietStep
<1>5. CASE ~(battle[b].reverted \/ Rated(b))
  <2> DEFINE r == WithTodo(WithPc(proc[p], "rating"), InOrder(b))
  <2>1. Put(p, r) /\ Takes(p, BattleLock(b))
    BY <1>5 DEF LockBattle, Continue, Put, WithTodo, WithPc, Take, Takes, Free
  <2>2. "rating" \in PC
    BY DEF PC
  <2>3. /\ IsRecord(r) /\ r.pc = "rating" /\ r.b = b /\ r.kind = "update"
        /\ r.todo = InOrder(b) /\ DOMAIN r.read = {}
    BY <1>1, <2>2, Here, WithPcIs, WithTodoIs
  <2> HIDE DEF r
  <2>4. Sound(p, r) /\ Current(p, r)
    BY <1>1, <1>5, <2>3, Here DEF Sound, Current, RatedOrOut, Inside, Tabling
  <2>5. HeldBy(r) = HeldBy(proc[p]) \cup {BattleLock(b)}
    BY <1>3, <2>3 DEF HeldBy, Inside
  <2>6. BattleLock(b) \in Locks
    BY <1>1, LocksApart
  <2>7. LocksHeld' /\ lock' \in [Locks -> Proc \cup {Nobody}]
    BY <2>1, <2>3, <2>5, <2>6, TakeLocks, LockTyped DEF RInv
  <2> QED BY <1>2, <2>1, <2>3, <2>4, <2>7, Unchanged, FaultsTyped, QuietStep DEF Moves
<1> QED BY <1>4, <1>5

(* What a process at the ratings has locked, and which comes next. *)
LEMMA NextRating ==
    ASSUME RInv, NEW p \in Proc, proc[p].pc = "rating"
    PROVE  /\ proc[p].b \in Battle
           /\ \/ /\ proc[p].todo = <<Low(proc[p].b), High(proc[p].b)>>
                 /\ Head(proc[p].todo) = Low(proc[p].b) /\ Tail(proc[p].todo) = <<High(proc[p].b)>>
                 /\ DOMAIN proc[p].read = {}
              \/ /\ proc[p].todo = <<High(proc[p].b)>>
                 /\ Head(proc[p].todo) = High(proc[p].b) /\ Tail(proc[p].todo) = <<>>
                 /\ DOMAIN proc[p].read = {Low(proc[p].b)}
<1> DEFINE b == proc[p].b
<1>1. b \in Battle
  BY Here DEF Sound
<1>2. \/ proc[p].todo = InOrder(b) /\ DOMAIN proc[p].read = {}
      \/ proc[p].todo = <<High(b)>> /\ DOMAIN proc[p].read = {Low(b)}
  BY Here DEF Sound, Low, High
<1>3. Head(<<High(b)>>) = High(b) /\ Tail(<<High(b)>>) = <<>>
  OBVIOUS
<1> QED BY <1>1, <1>2, <1>3, Order

ReadAlso(read, i) == [j \in DOMAIN read \cup {i} |-> IF j = i THEN RatingOf(i) ELSE read[j]]

LEMMA ReadMoves ==
    ASSUME NEW s, IsRecord(s), NEW read, NEW todo, NEW pc \in PC
    PROVE  LET r == WithPc(WithTodo(WithRead(s, read), todo), pc) IN
             /\ IsRecord(r) /\ r.pc = pc /\ r.b = s.b /\ r.kind = s.kind
             /\ r.todo = todo /\ r.read = read
  BY WithPcIs, WithTodoIs, WithReadIs

LEMMA LockRatingStep ==
    ASSUME RInv, NEW p \in Proc, LockRating(p)
    PROVE  RInv'
<1> DEFINE b == proc[p].b
           i == Head(proc[p].todo)
           rest == Tail(proc[p].todo)
           pc == IF rest # <<>> THEN "rating"
                 ELSE IF proc[p].kind = "update" THEN "apply" ELSE "undo"
           read == ReadAlso(proc[p].read, i)
           r == WithPc(WithTodo(WithRead(proc[p], read), rest), pc)
<1>1. proc[p].pc = "rating" /\ UNCHANGED <<battle, closed, event, rating, jobs, faults>>
  BY DEF LockRating, At
<1>2. b \in Battle /\ i \in {Low(b), High(b)} /\ i \in Bot
  BY <1>1, NextRating, Order
<1>3. Put(p, r) /\ Takes(p, RatingLock(i))
  BY DEF LockRating, Continue, Put, WithTodo, WithPc, WithRead, ReadAlso, Take, Takes, Free
<1>4. pc \in PC /\ pc \in Inside
  BY DEF PC, Inside
<1>5. /\ DOMAIN read = DOMAIN proc[p].read \cup {i}
      /\ \A j \in DOMAIN read : read[j] = RatingOf(j)
  BY <1>1, Here DEF ReadAlso, Current, Inside
<1>6. /\ IsRecord(r) /\ r.pc = pc /\ r.b = b /\ r.kind = proc[p].kind
      /\ r.todo = rest /\ r.read = read
  <2>1. IsRecord(proc[p])
    BY Here
  <2> HIDE DEF pc, read, rest
  <2>2. /\ IsRecord(r) /\ r.pc = pc /\ r.b = proc[p].b /\ r.kind = proc[p].kind
        /\ r.todo = rest /\ r.read = read
    BY <1>4, <2>1, ReadMoves
  <2> QED BY <2>2
<1>7. \/ rest = <<High(b)>> /\ DOMAIN read = {Low(b)} /\ pc = "rating"
      \/ rest = <<>> /\ DOMAIN read = BotsOf(b) /\ pc # "rating"
  <2>1. <<High(b)>> # <<>>
    OBVIOUS
  <2> HIDE DEF read
  <2> QED BY <1>1, <1>2, <1>5, <2>1, NextRating, Order
<1> HIDE DEF r, read
<1>8. Sound(p, r)
  <2>1. proc[p].kind = "update" <=> p \in Loop
    BY <1>1, Here DEF Sound
  <2> QED BY <1>2, <1>4, <1>6, <1>7, <2>1, Here DEF Sound, Low, High, Inside
<1>9. Current(p, r)
  <2>1. p \in Loop => ~RatedOrOut(b) /\ jobs[b] \notin Pending
    BY <1>1, Here DEF Current
  <2>2. (r.pc \in Inside /\ r.pc # "undo") \/ DOMAIN r.read # {}
    BY <1>4, <1>5, <1>6
  <2> QED BY <1>4, <1>5, <1>6, <2>1, <2>2 DEF Current, Inside, Tabling
<1>10. HeldBy(r) = HeldBy(proc[p]) \cup {RatingLock(i)}
  BY ZenonT(60), SMTT(60), <1>1, <1>4, <1>5, <1>6 DEF HeldBy, Inside
<1>11. RatingLock(i) \in Locks
  BY <1>2, LocksApart
<1> HIDE DEF i, pc, rest, b
<1>12. LocksHeld' /\ lock' \in [Locks -> Proc \cup {Nobody}]
  BY <1>3, <1>6, <1>10, <1>11, TakeLocks, LockTyped DEF RInv
<1> QED BY <1>1, <1>3, <1>6, <1>8, <1>9, <1>12, Unchanged, FaultsTyped, QuietStep DEF Moves

LEMMA RevertStep ==
    ASSUME RInv, NEW p \in Staff, NEW b \in Battle, NEW kind \in {"revert", "eloOnly"},
           Revert(p, b, kind)
    PROVE  RInv'
<1> DEFINE r == [Idle EXCEPT !.pc = "revert", !.b = b, !.kind = kind]
<1>1. p \in Proc /\ p \notin Loop
  BY SMTT(60), ZenonT(60), RatingsAssumption DEF Proc
<1>2. /\ proc[p].pc = "idle" /\ Put(p, r)
      /\ UNCHANGED <<battle, closed, event, rating, jobs, lock, faults>>
  BY SMTT(60), ZenonT(60) DEF Revert, At, Continue, Put
<1>3. IsFresh(r, "revert", b, kind)
  <2>1. "revert" \in PC /\ kind \in Kind /\ b \in Battle \cup {Nobody}
    BY DEF PC, Kind
  <2> QED BY <2>1, FreshIs
<1> HIDE DEF r
<1>4. Moves(p, r) /\ HeldBy(r) = {}
  BY <1>1, <1>2, <1>3 DEF Moves, IsFresh, Sound, Current, HeldBy, Inside, Tabling
<1>5. HeldBy(proc[p]) = {}
  BY <1>2 DEF HeldBy, Inside, Tabling
<1>6. LocksHeld' /\ lock' \in [Locks -> Proc \cup {Nobody}]
  BY <1>1, <1>2, <1>4, <1>5, SameLocks, LockTyped DEF RInv, Moves
<1> QED BY <1>1, <1>2, <1>4, <1>6, Unchanged, FaultsTyped, QuietStep

LEMMA LockForReversalStep ==
    ASSUME RInv, NEW p \in Proc, LockForReversal(p)
    PROVE  RInv'
<1> DEFINE b == proc[p].b
           official == proc[p].kind = "revert"
           none == \/ official /\ battle[b].result \in {"none", "technical"}
                   \/ ~official /\ ~Counted(b)
           again == official /\ battle[b].result \notin {"none", "technical"} /\ battle[b].reverted
<1>1. /\ proc[p].pc = "revert" /\ p \in Staff /\ p \notin Loop /\ b \in Battle
      /\ DOMAIN proc[p].read = {} /\ proc[p].kind # "update"
  BY Here DEF LockForReversal, At, Sound
<1>2. UNCHANGED <<battle, closed, event, rating, jobs, faults>>
  BY DEF LockForReversal
<1>3. HeldBy(proc[p]) = {}
  BY <1>1 DEF HeldBy, Inside, Tabling
<1>4. CASE none
  <2>1. Put(p, Idle) /\ UNCHANGED lock
    BY <1>4 DEF LockForReversal, Continue, Put
  <2>2. Moves(p, Idle) /\ HeldBy(Idle) = {}
    BY <2>1, IdleMoves
  <2>3. LocksHeld' /\ lock' \in [Locks -> Proc \cup {Nobody}]
    BY <1>3, <2>1, <2>2, SameLocks, LockTyped DEF RInv, Moves
  <2> QED BY <1>2, <2>2, <2>3, Unchanged, FaultsTyped, QuietStep
<1>5. CASE again
  <2>1. ToTable(p) /\ UNCHANGED lock
    BY <1>5 DEF LockForReversal
  <2>2. PICK r : Moves(p, r) /\ HeldBy(r) = {}
    BY <1>1, <1>5, <2>1, Here, ToTableMoves
  <2>3. LocksHeld' /\ lock' \in [Locks -> Proc \cup {Nobody}]
    BY <1>3, <2>1, <2>2, SameLocks, LockTyped DEF RInv, Moves
  <2> QED BY <1>2, <2>2, <2>3, Unchanged, FaultsTyped, QuietStep
<1>6. CASE ~none /\ ~again
  <2> DEFINE r == IF Counted(b) THEN WithTodo(WithPc(proc[p], "rating"), InOrder(b))
                  ELSE WithPc(proc[p], "undo")
  <2>1. Put(p, r) /\ Takes(p, BattleLock(b))
    BY <1>6 DEF LockForReversal, Continue, Put, WithTodo, WithPc, Take, Takes, Free
  <2>2. "rating" \in PC /\ "undo" \in PC
    BY DEF PC
  <2>3. /\ IsRecord(r) /\ r.b = b /\ r.kind = proc[p].kind /\ DOMAIN r.read = {}
        /\ \/ r.pc = "rating" /\ r.todo = InOrder(b)
           \/ r.pc = "undo" /\ ~Counted(b)
    <3>1. IsRecord(proc[p]) /\ proc[p].b = b /\ DOMAIN proc[p].read = {}
      BY <1>1, Here
    <3>2. CASE Counted(b)
      <4>1. PICK s : s = WithPc(proc[p], "rating")
        OBVIOUS
      <4>2. IsRecord(s) /\ s.pc = "rating" /\ s.b = b /\ s.kind = proc[p].kind /\ s.read = proc[p].read
        BY <3>1, <4>1, <2>2, WithPcIs
      <4>3. r = WithTodo(s, InOrder(b))
        BY <3>2, <4>1
      <4> HIDE DEF r
      <4> QED BY <3>1, <4>2, <4>3, WithTodoIs
    <3>3. CASE ~Counted(b)
      <4>1. r = WithPc(proc[p], "undo")
        BY <3>3
      <4> HIDE DEF r
      <4> QED BY <3>1, <3>3, <4>1, <2>2, WithPcIs
    <3> QED BY <3>2, <3>3
  <2> HIDE DEF r
  <2>4. Sound(p, r) /\ Current(p, r)
    BY <1>1, <2>3 DEF Sound, Current, Inside, Tabling
  <2>5. HeldBy(r) = HeldBy(proc[p]) \cup {BattleLock(b)}
    BY <1>3, <2>3 DEF HeldBy, Inside
  <2>6. BattleLock(b) \in Locks
    BY <1>1, LocksApart
  <2>7. LocksHeld' /\ lock' \in [Locks -> Proc \cup {Nobody}]
    BY <2>1, <2>3, <2>5, <2>6, TakeLocks, LockTyped DEF RInv
  <2> QED BY <1>2, <2>1, <2>3, <2>4, <2>7, Unchanged, FaultsTyped, QuietStep DEF Moves
<1> QED BY <1>4, <1>5, <1>6

LEMMA LockTableStep ==
    ASSUME RInv, NEW p \in Proc, LockTable(p)
    PROVE  RInv'
<1> DEFINE r == WithBattles(WithPc(proc[p], "events"), Played)
<1>1. proc[p].pc = "table" /\ UNCHANGED <<battle, closed, event, rating, jobs, faults>>
  BY DEF LockTable, At
<1>2. Put(p, r) /\ Takes(p, TableLock)
  BY DEF LockTable, Continue, Put, WithBattles, WithPc, Take, Takes, Free
<1>3. IsRecord(r) /\ r.pc = "events" /\ r.b = proc[p].b /\ r.kind = proc[p].kind
  BY Here, WithPcIs, WithBattlesIs DEF PC
<1> HIDE DEF r
<1>4. Sound(p, r) /\ Current(p, r)
  BY <1>1, <1>3, Here DEF Sound, Current, Inside, Tabling
<1>5. HeldBy(r) = HeldBy(proc[p]) \cup {TableLock}
  BY <1>1, <1>3 DEF HeldBy, Inside, Tabling
<1>6. LocksHeld' /\ lock' \in [Locks -> Proc \cup {Nobody}]
  BY <1>2, <1>3, <1>5, LocksApart, TakeLocks, LockTyped DEF RInv
<1> QED BY <1>1, <1>2, <1>3, <1>4, <1>6, Unchanged, FaultsTyped, QuietStep DEF Moves

(* The queries of the table under its lock. *)
LEMMA TableMoves ==
    ASSUME RInv, NEW p \in Proc, NEW r, IsRecord(r), Put(p, r), proc[p].pc \in Tabling,
           r.pc \in Tabling, r.b = proc[p].b, r.kind = proc[p].kind,
           UNCHANGED <<battle, closed, event, rating, jobs, lock, faults>>
    PROVE  RInv'
<1>1. Sound(p, r) /\ Current(p, r)
  BY Here DEF Sound, Current, Inside, Tabling
<1>2. HeldBy(r) = HeldBy(proc[p])
  BY DEF HeldBy, Inside, Tabling
<1>3. LocksHeld' /\ lock' \in [Locks -> Proc \cup {Nobody}]
  BY <1>2, SameLocks, LockTyped DEF RInv
<1> QED BY <1>1, <1>3, Unchanged, FaultsTyped, QuietStep DEF Moves

LEMMA ReadEventsStep ==
    ASSUME RInv, NEW p \in Proc, ReadEvents(p)
    PROVE  RInv'
<1> DEFINE s == WithPc(proc[p], "matches")
           r == WithBattles(s, {b \in s.table.battles : ~event[b].reverted})
<1>1. Put(p, r)
  BY DEF ReadEvents, Continue, Put, WithBattles, WithPc
<1>2. IsRecord(r) /\ r.pc = "matches" /\ r.b = proc[p].b /\ r.kind = proc[p].kind
  <2>1. IsRecord(s) /\ s.pc = "matches" /\ s.b = proc[p].b /\ s.kind = proc[p].kind
    BY Here, WithPcIs DEF PC
  <2> HIDE DEF s
  <2> QED BY <2>1, WithBattlesIs
<1> HIDE DEF r
<1> QED BY <1>1, <1>2, TableMoves DEF ReadEvents, At, Tabling

LEMMA ReadMatchesStep ==
    ASSUME RInv, NEW p \in Proc, ReadMatches(p)
    PROVE  RInv'
<1> DEFINE r == WithClosed(WithPc(proc[p], "ratings"), ClosedOf(proc[p].table.battles))
<1>1. Put(p, r)
  BY DEF ReadMatches, Continue, Put, WithClosed, WithPc
<1>2. IsRecord(r) /\ r.pc = "ratings" /\ r.b = proc[p].b /\ r.kind = proc[p].kind
  BY Here, WithPcIs, WithClosedIs DEF PC
<1> HIDE DEF r
<1> QED BY <1>1, <1>2, TableMoves DEF ReadMatches, At, Tabling

LEMMA ReadRatingsStep ==
    ASSUME RInv, NEW p \in Proc, ReadRatings(p)
    PROVE  RInv'
<1> DEFINE r == WithRatings(WithPc(proc[p], "write"), RatingsOf(proc[p].table.battles))
<1>1. Put(p, r)
  BY DEF ReadRatings, Continue, Put, WithRatings, WithPc
<1>2. IsRecord(r) /\ r.pc = "write" /\ r.b = proc[p].b /\ r.kind = proc[p].kind
  BY Here, WithPcIs, WithRatingsIs DEF PC
<1> HIDE DEF r
<1> QED BY <1>1, <1>2, TableMoves DEF ReadRatings, At, Tabling

(* The end of a transaction and of what its process was doing. *)
Leaves(p, pc) ==
    /\ LetsGo(p)
    /\ Continue(p, IF p \in Loop THEN [proc[p] EXCEPT !.pc = pc] ELSE Idle)

LEMMA LeavesMoves ==
    ASSUME RInv, NEW p \in Proc, NEW pc \in {"done", "failed"}, Leaves(p, pc),
           proc[p].pc # "idle", pc = "done" /\ p \in Loop => RatedOrOut(proc[p].b)
    PROVE  \E r : Moves(p, r) /\ HeldBy(r) = {}
<1>1. CASE p \in Loop
  <2> DEFINE r == WithPc(proc[p], pc)
  <2>1. Put(p, r)
    BY <1>1 DEF Leaves, Continue, Put, WithPc
  <2>2. IsRecord(r) /\ r.pc = pc /\ r.b = proc[p].b /\ r.kind = proc[p].kind
    BY Here, WithPcIs DEF PC
  <2> HIDE DEF r
  <2>3. Sound(p, r) /\ Current(p, r) /\ HeldBy(r) = {}
    BY <1>1, <2>2, Here DEF Sound, Current, HeldBy, Inside, Tabling
  <2> QED BY <2>1, <2>2, <2>3 DEF Moves
<1>2. CASE p \notin Loop
  BY <1>2, IdleMoves DEF Leaves, Continue, Put
<1> QED BY <1>1, <1>2

LEMMA WriteTableStep ==
    ASSUME RInv, NEW p \in Proc, WriteTable(p)
    PROVE  RInv'
<1>1. /\ proc[p].pc = "write" /\ UNCHANGED <<battle, closed, event, rating, jobs, faults>>
      /\ Leaves(p, "done") /\ LetsGo(p)
  BY DEF WriteTable, At, Leaves, LetsGo, ReleaseAll
<1>2. p \in Loop => RatedOrOut(proc[p].b)
  BY <1>1, Here DEF Current, Tabling
<1>3. PICK r : Moves(p, r) /\ HeldBy(r) = {}
  BY <1>1, <1>2, LeavesMoves
<1>4. LocksHeld' /\ lock' \in [Locks -> Proc \cup {Nobody}]
  BY <1>1, <1>3, LetLocksGo, LockTyped DEF RInv, Moves
<1> QED BY <1>1, <1>3, <1>4, Unchanged, FaultsTyped, QuietStep

LEMMA FaultStep ==
    ASSUME RInv, NEW p \in Proc, Crash(p) \/ StatementFails(p)
    PROVE  RInv'
<1>1. /\ proc[p].pc # "idle" /\ LetsGo(p) /\ UNCHANGED <<battle, closed, event, rating, jobs>>
      /\ Leaves(p, "failed") \/ Put(p, Idle)
      /\ faults' \in 0..MaxFaults
  BY FaultsTyped DEF Crash, StatementFails, At, Leaves, LetsGo, ReleaseAll, Continue, Put
<1>2. PICK r : Moves(p, r) /\ HeldBy(r) = {}
  BY <1>1, LeavesMoves, IdleMoves
<1>3. LocksHeld' /\ lock' \in [Locks -> Proc \cup {Nobody}]
  BY <1>1, <1>2, LetLocksGo, LockTyped DEF RInv, Moves
<1> QED BY <1>1, <1>2, <1>3, Unchanged, QuietStep
(* A battle ends: nobody was at work on it for the loops. *)
LEMMA FinishBattleStep ==
    ASSUME RInv, NEW b \in Battle, NEW result \in Outcome, FinishBattle(b, result)
    PROVE  RInv'
<1>1. /\ battle[b].result = "none" /\ jobs[b] = "none" /\ ~Rated(b)
      /\ UNCHANGED <<closed, event, rating, proc, lock, faults>>
  BY DEF FinishBattle, RInv, Rows, Final
<1>2. battle' = [battle EXCEPT ![b].result = result] /\ jobs' = [jobs EXCEPT ![b] = "announced"]
  BY DEF FinishBattle
<1>3. /\ battle' \in [Battle -> [match : Match, result : Outcome \cup {"none"}, reverted : BOOLEAN]]
      /\ battle'[b].result = result /\ battle'[b].reverted = battle[b].reverted
      /\ battle'[b].match = battle[b].match
      /\ \A c \in Battle : c # b => battle'[c] = battle[c]
  BY <1>2 DEF RInv, Typed, BattleTyped
<1>4. /\ jobs' \in [Battle -> JobState]
      /\ jobs'[b] = "announced" /\ \A c \in Battle : c # b => jobs'[c] = jobs[c]
  BY <1>2 DEF RInv, Typed, JobsTyped, JobState, Pending
<1>5. Typed'
  <2>1. ProcTyped'
    BY <1>1 DEF RInv, Typed, ProcTyped, IsRecord
  <2>2. EventTyped'
    BY <1>1 DEF RInv, Typed, EventTyped, Rated, NoEvent
  <2> QED BY <1>1, <1>3, <1>4, <2>1, <2>2 DEF RInv, Typed, BattleTyped, JobsTyped
<1>6. LocksHeld'
  BY <1>1 DEF RInv, LocksHeld, HeldBy
<1>7. \A c \in Battle : /\ Rated(c)' <=> Rated(c)
                        /\ Counted(c)' <=> Counted(c)
                        /\ battle'[c].reverted = battle[c].reverted
                        /\ c # b => (RatedOrOut(c)' <=> RatedOrOut(c))
                        /\ RatedOrOut(c) => RatedOrOut(c)'
  <2>1. \A c \in Battle : (Rated(c)' <=> Rated(c)) /\ (Counted(c)' <=> Counted(c))
    BY <1>1 DEF Rated, Counted, NoEvent
  <2>2. \A c \in Battle : battle'[c].reverted = battle[c].reverted
    BY <1>3
  <2>3. \A c \in Battle : c # b => battle'[c].result = battle[c].result
    BY <1>3
  <2> QED BY <1>1, <2>1, <2>2, <2>3 DEF RatedOrOut
<1>8. \A i : RatingOf(i)' = RatingOf(i)
  BY <1>1 DEF RatingOf
<1>9. ASSUME NEW q \in Proc, NEW s, s = proc'[q]
      PROVE  Sound(q, s) /\ Current(q, s)'
  <2>1. Sound(q, s) /\ Current(q, s) /\ (s.pc # "idle" => s.b \in Battle)
    BY <1>1, <1>9 DEF RInv, Places, Sound
  <2>2. /\ s.pc # "idle" /\ q \in Loop => s.b # b
        /\ s.pc = "battle" => q \in Loop
    BY <1>1, <2>1 DEF Current, Sound, Pending
  <2> QED BY <1>3, <1>4, <1>7, <1>8, <2>1, <2>2 DEF Current, Inside, Tabling, Pending
<1>10. Places'
  BY <1>9, PlacesAfter
<1>11. Rows'
  <2>1. result # "none"
    BY DEF Outcome
  <2>2. \A c \in Battle : c # b => battle'[c].result = battle[c].result
    BY <1>3
  <2> QED BY <1>1, <1>3, <1>4, <1>7, <2>1, <2>2 DEF RInv, Rows, Final
<1> QED BY <1>5, <1>6, <1>10, <1>11 DEF RInv
-----------------------------------------------------------------------------
(* The COMMITs that change what is rated *)

LEMMA InsideIs ==
    ASSUME RInv, NEW p \in Proc, proc[p].pc \in Inside
    PROVE  /\ proc[p].b \in Battle
           /\ DOMAIN proc[p].read \subseteq BotsOf(proc[p].b)
           /\ BotsOf(proc[p].b) \subseteq Bot
           /\ lock[BattleLock(proc[p].b)] = p
           /\ \A i \in DOMAIN proc[p].read : lock[RatingLock(i)] = p
<1>1. proc[p].b \in Battle
  BY Here DEF Sound, Inside
<1>2. BotsOf(proc[p].b) = {Low(proc[p].b), High(proc[p].b)} /\ BotsOf(proc[p].b) \subseteq Bot
  BY <1>1, Order
<1>3. DOMAIN proc[p].read \subseteq BotsOf(proc[p].b)
  BY <1>2, Here DEF Sound, Inside, Low, High
<1>4. /\ BattleLock(proc[p].b) \in HeldBy(proc[p])
      /\ \A i \in DOMAIN proc[p].read : RatingLock(i) \in HeldBy(proc[p])
  BY DEF HeldBy
<1>5. /\ BattleLock(proc[p].b) \in Locks
      /\ \A i \in DOMAIN proc[p].read : RatingLock(i) \in Locks
  BY <1>1, <1>2, <1>3, LocksApart
<1> QED BY <1>1, <1>2, <1>3, <1>4, <1>5 DEF RInv, LocksHeld

(* Two at work on ratings have neither a battle nor a bot in common. *)
LEMMA InsideApart ==
    ASSUME RInv, NEW p \in Proc, NEW q \in Proc, p # q,
           proc[p].pc \in Inside, proc[q].pc \in Inside
    PROVE  /\ proc[p].b # proc[q].b
           /\ \A i \in DOMAIN proc[q].read : i \notin DOMAIN proc[p].read
<1>1. /\ lock[BattleLock(proc[p].b)] = p
      /\ \A i \in DOMAIN proc[p].read : lock[RatingLock(i)] = p
  BY InsideIs
<1>2. /\ lock[BattleLock(proc[q].b)] = q
      /\ \A i \in DOMAIN proc[q].read : lock[RatingLock(i)] = q
  BY InsideIs
<1> QED BY <1>1, <1>2

(* What a COMMIT about b after the read of ratings leaves as it was. *)
OnlyItsBattle(b, read) ==
    /\ \A c \in Battle : c # b => event'[c] = event[c] /\ battle'[c] = battle[c]
    /\ \A i : i \notin DOMAIN read => RatingOf(i)' = RatingOf(i)
    /\ battle'[b].result = battle[b].result
    /\ battle'[b].match = battle[b].match
    /\ UNCHANGED <<closed, jobs, faults>>

(* Nothing that was settled of b is unsettled. *)
Settles(b) ==
    /\ RatedOrOut(b) => RatedOrOut(b)'
    /\ battle[b].reverted => battle'[b].reverted
    /\ battle'[b].reverted => ~Counted(b)'
    /\ Rated(b)' => battle[b].result \notin Final

LEMMA CommitStep ==
    ASSUME RInv, NEW p \in Proc, proc[p].pc \in {"apply", "undo"}, NEW r, IsRecord(r),
           Put(p, r), LetsGo(p), HeldBy(r) = {}, Sound(p, r), Current(p, r)',
           BattleTyped', EventTyped', DOMAIN rating' \subseteq Bot,
           NEW b, NEW read, b = proc[p].b, read = proc[p].read,
           OnlyItsBattle(b, read), Settles(b)
    PROVE  RInv'
<1>1. ProcTyped' /\ proc'[p] = r /\ \A q \in Proc : q # p => proc'[q] = proc[q]
  BY PutIs DEF RInv, Typed
<1>2. LocksHeld' /\ lock' \in [Locks -> Proc \cup {Nobody}]
  BY LetLocksGo, LockTyped DEF RInv
<1>3. Typed'
  BY <1>1, <1>2 DEF RInv, Typed, OnlyItsBattle, JobsTyped
<1>4. \A c \in Battle : c # b => /\ Rated(c)' <=> Rated(c)
                                 /\ Counted(c)' <=> Counted(c)
                                 /\ battle'[c] = battle[c]
                                 /\ RatedOrOut(c)' <=> RatedOrOut(c)
  <2>1. ASSUME NEW c \in Battle, c # b
        PROVE  /\ Rated(c)' <=> Rated(c)
               /\ Counted(c)' <=> Counted(c)
               /\ battle'[c] = battle[c]
               /\ RatedOrOut(c)' <=> RatedOrOut(c)
    <3>1. event'[c] = event[c] /\ battle'[c] = battle[c]
      BY <2>1 DEF OnlyItsBattle
    <3>2. Rated(c)' <=> Rated(c)
      BY <3>1 DEF Rated, NoEvent
    <3> QED BY <3>1, <3>2 DEF Counted, RatedOrOut
  <2> QED BY <2>1
<1>5. /\ b \in Battle /\ UNCHANGED <<closed, jobs>>
      /\ battle'[b].result = battle[b].result /\ battle'[b].match = battle[b].match
  BY InsideIs DEF OnlyItsBattle, Inside
<1>6. ASSUME NEW q \in Proc, NEW s, s = proc'[q]
      PROVE  Sound(q, s) /\ Current(q, s)'
  <2>1. CASE q = p
    BY <1>1, <1>6, <2>1
  <2>2. CASE q # p
    <3>1. Sound(q, s) /\ Current(q, s) /\ s = proc[q]
      BY <1>1, <1>6, <2>2 DEF RInv, Places
    <3>2. s.pc \in Inside => s.b # b /\ \A i \in DOMAIN s.read : RatingOf(i)' = RatingOf(i)
      BY <2>2, <3>1, InsideApart DEF OnlyItsBattle, Inside
    <3>3. s.pc # "idle" => s.b \in Battle
      BY <3>1 DEF Sound
    <3>4. /\ s.b \in Battle => (RatedOrOut(s.b) => RatedOrOut(s.b)')
          /\ s.b \in Battle => (battle[s.b].reverted => battle'[s.b].reverted)
          /\ s.b \in Battle => battle'[s.b].result = battle[s.b].result
          /\ s.pc \in Inside => (Counted(s.b)' <=> Counted(s.b))
          /\ s.pc \in Inside => (RatedOrOut(s.b)' <=> RatedOrOut(s.b))
      <4>1. CASE s.b = b
        BY <1>5, <3>2, <4>1 DEF Settles
      <4>2. CASE s.b # b
        BY <1>4, <3>3, <4>2 DEF Inside
      <4> QED BY <4>1, <4>2
    <3> QED BY <1>5, <3>1, <3>2, <3>3, <3>4 DEF Current, Inside, Tabling
  <2> QED BY <2>1, <2>2
<1>7. Places'
  BY <1>6, PlacesAfter
<1>8. Rows'
  <2>1. ASSUME NEW c \in Battle
        PROVE  /\ jobs'[c] # "none" => battle'[c].result # "none"
               /\ battle'[c].match \in closed' => battle'[c].result # "none"
               /\ jobs'[c] = "done" => RatedOrOut(c)'
               /\ battle'[c].reverted => ~Counted(c)'
               /\ Rated(c)' => battle'[c].result \notin Final
    <3>1. CASE c = b
      BY SMTT(60), ZenonT(60), <1>5, <3>1 DEF RInv, Rows, Settles
    <3>2. CASE c # b
      BY SMTT(60), ZenonT(60), <1>4, <1>5, <3>2 DEF RInv, Rows
    <3> QED BY <3>1, <3>2
  <2> QED BY <2>1 DEF Rows, Final
<1> QED BY <1>2, <1>3, <1>7, <1>8 DEF RInv

LEMMA MoveAllIs ==
    ASSUME NEW b, NEW gain, NEW n, MoveAll(b, gain, n)
    PROVE  /\ DOMAIN rating' = DOMAIN rating \cup BotsOf(b)
           /\ \A i : i \notin BotsOf(b) => RatingOf(i)' = RatingOf(i)
  BY SMTT(60), ZenonT(60) DEF MoveAll, RatingOf

LEMMA ToTableIs ==
    ASSUME RInv, NEW p \in Proc, ToTable(p), proc[p].pc # "idle"
    PROVE  \E r : /\ IsRecord(r) /\ Put(p, r) /\ Sound(p, r) /\ HeldBy(r) = {}
                  /\ r.pc = "table" /\ r.b = proc[p].b
<1> DEFINE r == [Idle EXCEPT !.pc = "table", !.b = proc[p].b, !.kind = proc[p].kind]
<1>1. "table" \in PC /\ proc[p].b \in Battle \cup {Nobody} /\ proc[p].kind \in Kind
  BY SMTT(60), ZenonT(60), Here DEF PC
<1>2. IsFresh(r, "table", proc[p].b, proc[p].kind)
  BY <1>1, FreshIs
<1>3. Put(p, r)
  BY DEF ToTable, Continue, Put
<1> HIDE DEF r
<1>4. Sound(p, r) /\ HeldBy(r) = {}
  BY <1>2, Here DEF IsFresh, Sound, HeldBy, Inside, Tabling
<1> QED BY SMTT(60), ZenonT(60), <1>2, <1>3, <1>4 DEF IsFresh

LEMMA ApplyRatingStep ==
    ASSUME RInv, NEW p \in Proc, ApplyRating(p)
    PROVE  RInv'
<1>0. PICK b, read : b = proc[p].b /\ read = proc[p].read
  OBVIOUS
<1> DEFINE deltas == Deltas(b, read)
           e == Event(deltas, read, FALSE)
<1>1. /\ proc[p].pc = "apply" /\ p \in Loop /\ b \in Battle /\ DOMAIN read = BotsOf(b)
      /\ ~RatedOrOut(b) /\ jobs[b] \notin Pending /\ LetsGo(p)
      /\ UNCHANGED <<battle, closed, jobs, faults>>
  BY <1>0, Here DEF ApplyRating, At, Sound, Current, ReleaseAll, LetsGo
<1>2. ~Rated(b) /\ ~battle[b].reverted /\ battle[b].result \notin Final
  BY <1>1 DEF RatedOrOut, RInv, Rows, Final, Pending
<1>3. event' = [event EXCEPT ![b] = e] /\ MoveAll(b, deltas, 1) /\ ToTable(p)
  BY <1>0, <1>2 DEF ApplyRating, Event
<1>4. e # NoEvent /\ e.delta = deltas /\ e.before = read /\ e.reverted = FALSE
  <2>1. b \in Battle /\ BotsOf(b) # {} /\ DOMAIN deltas = BotsOf(b)
    BY <1>1 DEF Deltas, BotsOf
  <2>2. deltas # <<>>
    BY <2>1
  <2> HIDE DEF deltas
  <2> QED BY <2>2 DEF Event, NoEvent
<1> HIDE DEF e, deltas
<1>5. event'[b] = e /\ \A c \in Battle : c # b => event'[c] = event[c]
  BY <1>1, <1>3 DEF RInv, Typed, EventTyped
<1>6. Rated(b)' /\ Counted(b)'
  BY <1>4, <1>5 DEF Rated, Counted, NoEvent
<1>7. EventTyped'
  <2>1. event' = [c \in Battle |-> event'[c]]
    BY <1>3 DEF RInv, Typed, EventTyped
  <2>2. \A c \in Battle : c # b => (Rated(c)' <=> Rated(c))
    BY <1>5 DEF Rated, NoEvent
  <2>3. e = Event(e.delta, e.before, e.reverted)
    BY <1>4 DEF e
  <2>4. \A c \in Battle : c # b =>
           /\ event'[c] = Event(event'[c].delta, event'[c].before, event'[c].reverted)
           /\ event'[c].reverted \in BOOLEAN /\ (event'[c].reverted => Rated(c)')
    BY <1>5, <2>2 DEF RInv, Typed, EventTyped
  <2> QED BY <1>4, <1>5, <1>6, <2>1, <2>3, <2>4 DEF EventTyped, Event
<1>8. /\ DOMAIN rating' \subseteq Bot
      /\ \A i : i \notin DOMAIN read => RatingOf(i)' = RatingOf(i)
  BY ZenonT(60), SMTT(60), <1>1, <1>3, Order, MoveAllIs DEF RInv, Typed
<1>9. BattleTyped'
  BY <1>1 DEF RInv, Typed, BattleTyped
<1>10. OnlyItsBattle(b, read)
  BY <1>1, <1>5, <1>8 DEF OnlyItsBattle
<1>11. Settles(b)
  BY <1>1, <1>2, <1>6 DEF Settles, RatedOrOut
<1>12. PICK r : /\ IsRecord(r) /\ Put(p, r) /\ Sound(p, r) /\ HeldBy(r) = {}
                /\ r.pc = "table" /\ r.b = b
  BY <1>0, <1>1, <1>3, ToTableIs
<1>13. Current(p, r)'
  BY <1>0, <1>1, <1>6, <1>12, Here DEF Current, RatedOrOut, Inside, Tabling
<1> QED BY <1>0, <1>1, <1>7, <1>8, <1>9, <1>10, <1>11, <1>12, <1>13, CommitStep

LEMMA UndoStep ==
    ASSUME RInv, NEW p \in Proc, Undo(p)
    PROVE  RInv'
<1>0. PICK b, read : b = proc[p].b /\ read = proc[p].read
  OBVIOUS
<1> DEFINE official == proc[p].kind = "revert"
<1>1. /\ proc[p].pc = "undo" /\ p \in Staff /\ p \notin Loop /\ b \in Battle /\ LetsGo(p)
      /\ DOMAIN read \in {BotsOf(b), {}} /\ (DOMAIN read = {} => ~Counted(b))
      /\ UNCHANGED <<closed, jobs, faults>>
  BY <1>0, Here DEF Undo, At, Sound, Current, ReleaseAll, LetsGo
<1>2. \/ battle' = [battle EXCEPT ![b].reverted = TRUE] /\ official
      \/ UNCHANGED battle /\ ~official
  <2>1. CASE official
    BY <1>0, <2>1 DEF Undo
  <2>2. CASE ~official
    BY <1>0, <2>2 DEF Undo
  <2> QED BY <2>1, <2>2
<1>3. /\ BattleTyped'
      /\ battle'[b].result = battle[b].result
      /\ battle'[b].match = battle[b].match
      /\ battle'[b].reverted = (battle[b].reverted \/ official)
      /\ \A c \in Battle : c # b => battle'[c] = battle[c]
  <2>1. battle \in [Battle -> [match : Match, result : Outcome \cup {"none"}, reverted : BOOLEAN]]
    BY DEF RInv, Typed, BattleTyped
  <2>2. CASE UNCHANGED battle /\ ~official
    BY <1>1, <2>1, <2>2 DEF BattleTyped
  <2>3. CASE battle' = [battle EXCEPT ![b].reverted = TRUE] /\ official
    <3>1. PICK row : row = [battle[b] EXCEPT !.reverted = TRUE]
      OBVIOUS
    <3>2. /\ row \in [match : Match, result : Outcome \cup {"none"}, reverted : BOOLEAN]
          /\ row.result = battle[b].result /\ row.match = battle[b].match /\ row.reverted = TRUE
      BY <1>1, <2>1, <3>1
    <3>3. battle' = [battle EXCEPT ![b] = row]
      BY <1>1, <2>1, <2>3, <3>1
    <3> QED BY <1>1, <2>1, <2>3, <3>2, <3>3 DEF BattleTyped
  <2> QED BY <1>2, <2>2, <2>3
<1>4. /\ EventTyped' /\ DOMAIN rating' \subseteq Bot
      /\ (Rated(b)' <=> Rated(b)) /\ ~Counted(b)'
      /\ \A c \in Battle : c # b => event'[c] = event[c]
      /\ \A i : i \notin DOMAIN read => RatingOf(i)' = RatingOf(i)
  <2>1. CASE Counted(b)
    <3> DEFINE loss == [i \in DOMAIN event[b].delta |-> -event[b].delta[i]]
               e == [event[b] EXCEPT !.reverted = TRUE]
    <3>1. MoveAll(b, loss, -1) /\ event' = [event EXCEPT ![b] = e]
      BY <1>0, <2>1 DEF Undo
    <3> HIDE DEF loss
    <3>2. e = Event(event[b].delta, event[b].before, TRUE)
      <4>1. event[b] = Event(event[b].delta, event[b].before, event[b].reverted)
        BY <1>1 DEF RInv, Typed, EventTyped
      <4>2. PICK d, f, x : event[b].delta = d /\ event[b].before = f /\ event[b].reverted = x
        OBVIOUS
      <4>3. event[b] = Event(d, f, x)
        BY <4>1, <4>2
      <4>4. \A v : [Event(d, f, x) EXCEPT !.reverted = v] = Event(d, f, v)
        BY DEF Event
      <4> QED BY <4>2, <4>3, <4>4
    <3> HIDE DEF e
    <3>3. /\ e # NoEvent /\ e.reverted = TRUE
          /\ e = Event(e.delta, e.before, e.reverted)
      BY <3>2 DEF Event, NoEvent
    <3>4. event'[b] = e /\ \A c \in Battle : c # b => event'[c] = event[c]
      BY <1>1, <3>1 DEF RInv, Typed, EventTyped
    <3>5. Rated(b)' /\ Rated(b) /\ ~Counted(b)'
      BY <2>1, <3>3, <3>4 DEF Rated, Counted, NoEvent
    <3>6. EventTyped'
      <4>1. event' = [c \in Battle |-> event'[c]]
        BY <3>1 DEF RInv, Typed, EventTyped
      <4>2. \A c \in Battle : c # b => (Rated(c)' <=> Rated(c))
        BY <3>4 DEF Rated, NoEvent
      <4>3. \A c \in Battle : c # b =>
               /\ event'[c] = Event(event'[c].delta, event'[c].before, event'[c].reverted)
               /\ event'[c].reverted \in BOOLEAN /\ (event'[c].reverted => Rated(c)')
        BY <3>4, <4>2 DEF RInv, Typed, EventTyped
      <4> QED BY <3>3, <3>4, <3>5, <4>1, <4>3 DEF EventTyped, Event
    <3>7. DOMAIN read = BotsOf(b)
      BY <1>1, <2>1
    <3>8. /\ DOMAIN rating' \subseteq Bot
          /\ \A i : i \notin DOMAIN read => RatingOf(i)' = RatingOf(i)
      <4>1. /\ DOMAIN rating' = DOMAIN rating \cup BotsOf(b)
            /\ \A i : i \notin BotsOf(b) => RatingOf(i)' = RatingOf(i)
        BY <3>1, MoveAllIs
      <4>2. DOMAIN rating \subseteq Bot /\ BotsOf(b) \subseteq Bot
        BY <1>1, Order DEF RInv, Typed
      <4> QED BY <4>1, <4>2, <3>7
    <3> QED BY <3>4, <3>5, <3>6, <3>8
  <2>2. CASE ~Counted(b)
    <3>1. UNCHANGED <<event, rating>>
      BY <1>0, <2>2 DEF Undo
    <3>2. EventTyped'
      BY <3>1 DEF RInv, Typed, EventTyped, Rated, NoEvent
    <3>3. (Rated(b)' <=> Rated(b)) /\ ~Counted(b)'
      BY <2>2, <3>1 DEF Rated, Counted, NoEvent
    <3>4. \A i : RatingOf(i)' = RatingOf(i)
      BY <3>1 DEF RatingOf
    <3> QED BY <3>1, <3>2, <3>3, <3>4 DEF RInv, Typed
  <2> QED BY <2>1, <2>2
<1>5. OnlyItsBattle(b, read)
  BY <1>1, <1>3, <1>4 DEF OnlyItsBattle
<1>6. Settles(b)
  BY <1>1, <1>3, <1>4 DEF Settles, RatedOrOut, RInv, Rows
<1>7. PICK r : /\ IsRecord(r) /\ Put(p, r) /\ Sound(p, r) /\ HeldBy(r) = {} /\ Current(p, r)'
  <2>1. CASE official
    <3>1. ToTable(p) /\ battle'[b].reverted
      BY <1>0, <1>3, <2>1 DEF Undo
    <3>2. PICK r : /\ IsRecord(r) /\ Put(p, r) /\ Sound(p, r) /\ HeldBy(r) = {}
                   /\ r.pc = "table" /\ r.b = b
      BY <1>0, <1>1, <3>1, ToTableIs
    <3>3. Current(p, r)'
      BY <1>1, <3>1, <3>2 DEF Current, Inside, Tabling
    <3> QED BY <3>2, <3>3
  <2>2. CASE ~official
    <3>1. Put(p, Idle)
      BY <2>2 DEF Undo, Continue, Put
    <3>2. IsRecord(Idle) /\ Sound(p, Idle) /\ HeldBy(Idle) = {}
      BY <3>1, IdleMoves DEF Moves
    <3>3. \A s : s = Idle => Current(p, s)'
      BY <1>1, IdleIs DEF Current, Inside, Tabling
    <3> QED BY <3>1, <3>2, <3>3
  <2> QED BY <2>1, <2>2
<1> QED BY <1>0, <1>1, <1>3, <1>4, <1>5, <1>6, <1>7, CommitStep

-----------------------------------------------------------------------------
(* The invariant *)

LEMMA Initially == Init => RInv
<1> SUFFICES ASSUME Init PROVE RInv
  OBVIOUS
<1>1. \A p \in Proc : proc[p] = Idle
  BY DEF Init
<1>2. ProcTyped
  BY <1>1, IdleIs DEF Init, ProcTyped
<1>3. \A b \in Battle : event[b] = Event(<<>>, <<>>, FALSE) /\ event[b] = NoEvent /\ ~Rated(b)
  BY DEF Init, NoEvent, Event, Rated
<1>4. EventTyped
  <2>1. event = [b \in Battle |-> event[b]]
    BY DEF Init
  <2>2. \A b \in Battle : event[b].delta = <<>> /\ event[b].before = <<>> /\ event[b].reverted = FALSE
    BY <1>3 DEF Event
  <2> QED BY <1>3, <2>1, <2>2 DEF EventTyped
<1>5. DOMAIN rating \subseteq Bot
  BY DEF Init
<1>6. Typed
  BY <1>2, <1>4, <1>5, RatingsAssumption DEF Init, Typed, BattleTyped, JobsTyped, JobState, Pending
<1>7. LocksHeld
  BY <1>1, IdleIs, RatingsAssumption DEF Init, LocksHeld, HeldBy, Inside, Tabling
<1>8. Places
  BY <1>1, IdleIs DEF Places, Sound, Current, Inside, Tabling
<1>9. Rows
  <2>1. PICK match \in Draws :
            battle = [b \in Battle |-> [match |-> match[b], result |-> "none", reverted |-> FALSE]]
    BY DEF Init
  <2>2. \A b \in Battle : ~battle[b].reverted /\ jobs[b] = "none" /\ battle[b].match \notin closed
    BY <2>1 DEF Init
  <2> QED BY <1>3, <2>2 DEF Rows
<1> QED BY <1>6, <1>7, <1>8, <1>9 DEF RInv

(* The steps that are about the jobs and the matches only. *)
LEMMA JobStep ==
    ASSUME RInv, UNCHANGED <<battle, event, rating, proc, lock, faults>>, JobsMove,
           closed' \subseteq Match,
           \A b \in Battle : battle[b].match \in closed' => battle[b].result # "none"
    PROVE  RInv'
<1>1. Typed'
  <2>1. ProcTyped'
    BY DEF RInv, Typed, ProcTyped, IsRecord
  <2>2. EventTyped'
    BY DEF RInv, Typed, EventTyped, Rated, NoEvent
  <2> QED BY <2>1, <2>2 DEF RInv, Typed, BattleTyped, JobsTyped, JobsMove
<1>2. LocksHeld'
  BY DEF RInv, LocksHeld, HeldBy
<1>4. ASSUME NEW q \in Proc, NEW s, s = proc'[q]
      PROVE  Sound(q, s) /\ Current(q, s)'
  <2>1. Sound(q, s) /\ Current(q, s)
    BY <1>4 DEF RInv, Places
  <2> QED BY <2>1, CurrentSame
<1>5. Places'
  BY <1>4, PlacesAfter
<1>6. Rows'
  <2>1. \A b \in Battle : (RatedOrOut(b)' <=> RatedOrOut(b)) /\ (Rated(b)' <=> Rated(b))
                         /\ (Counted(b)' <=> Counted(b))
    BY DEF RatedOrOut, Rated, Counted, NoEvent
  <2> QED BY <2>1 DEF RInv, Rows, JobsMove
<1> QED BY <1>1, <1>2, <1>5, <1>6 DEF RInv

LEMMA ResultStep ==
    ASSUME RInv, NEW b \in Battle, ProcessResult(b) \/ Enqueue(b)
    PROVE  RInv'
<1>1. /\ jobs[b] \in {"announced", "treated"}
      /\ \E s \in {"left", "treated", "queued"} : jobs' = [jobs EXCEPT ![b] = s]
  BY DEF ProcessResult, Enqueue
<1>2. JobsMove
  BY <1>1 DEF JobsMove, RInv, Typed, JobsTyped, JobState, Pending
<1>3. \/ UNCHANGED closed
      \/ /\ closed' = closed \cup {battle[b].match}
         /\ ~\E g \in Games(battle[b].match) : battle[g].result = "none"
  BY DEF ProcessResult, Enqueue
<1>4. battle[b].match \in Match
  BY DEF RInv, Typed, BattleTyped
<1>5. /\ closed' \subseteq Match
      /\ \A g \in Battle : battle[g].match \in closed' => battle[g].result # "none"
  BY <1>3, <1>4 DEF RInv, Typed, Rows, Games
<1> QED BY <1>2, <1>5, JobStep DEF ProcessResult, Enqueue

LEMMA Stuttering ==
    ASSUME RInv, UNCHANGED vars
    PROVE  RInv'
<1>1. JobsMove
  BY DEF vars, JobsMove, RInv, Typed, JobsTyped
<1> QED BY <1>1, JobStep DEF vars, RInv, Typed, Rows

LEMMA Inductive == RInv /\ [Next]_vars => RInv'
<1> SUFFICES ASSUME RInv, [Next]_vars PROVE RInv'
  OBVIOUS
<1>1. ASSUME NEW b \in Battle, NEW result \in Outcomes, FinishBattle(b, result) PROVE RInv'
  BY <1>1, FinishBattleStep, RatingsAssumption
<1>2. ASSUME NEW p \in Loop, NEW b \in Battle, Claim(p, b) \/ ClaimAgain(p, b) PROVE RInv'
  BY <1>2, ClaimStep
<1>3. ASSUME NEW p \in Staff, NEW b \in Battle, NEW kind \in {"revert", "eloOnly"},
             Revert(p, b, kind)
      PROVE  RInv'
  BY <1>3, RevertStep
<1>4. ASSUME NEW p \in Proc, Step(p) PROVE RInv'
  BY <1>4, LockBattleStep, LockRatingStep, ApplyRatingStep, LockForReversalStep, UndoStep,
     LockTableStep, ReadEventsStep, ReadMatchesStep, ReadRatingsStep, WriteTableStep, EndStep DEF Step
<1>5. ASSUME NEW p \in Proc, Crash(p) \/ StatementFails(p) PROVE RInv'
  BY <1>5, FaultStep
<1>6. ASSUME NEW b \in Battle, ProcessResult(b) \/ Enqueue(b) PROVE RInv'
  BY <1>6, ResultStep
<1>7. CASE UNCHANGED vars
  BY <1>7, Stuttering
<1> QED BY <1>1, <1>2, <1>3, <1>4, <1>5, <1>6, <1>7 DEF Next

THEOREM Invariant == Spec => []RInv
  BY Initially, Inductive, PTL DEF Spec
(* The rows have their shape, and no lock outlives its transaction.  The    *)
(* locks need who holds what for every process, whatever it crashed into.  *)
THEOREM TypeCorrect == Spec => []TypeOK
<1>1. RInv => TypeOK
  <2> SUFFICES ASSUME RInv PROVE TypeOK
    OBVIOUS
  <2>1. \A p \in Proc : proc[p].pc \in PC /\ proc[p].b \in Battle \cup {Nobody}
    BY Here
  <2>2. ASSUME NEW k \in Locks, lock[k] # Nobody
        PROVE  proc[lock[k]].pc \in {"rating", "apply", "undo", "events", "matches", "ratings", "write"}
    <3>1. lock[k] \in Proc
      BY <2>2 DEF RInv, Typed
    <3>2. k \in HeldBy(proc[lock[k]])
      BY <3>1 DEF RInv, LocksHeld
    <3> QED BY <3>2 DEF HeldBy, Inside, Tabling
  <2> QED BY <2>1, <2>2 DEF TypeOK, RInv, Typed, BattleTyped, JobsTyped, JobState, Pending
<1> QED BY <1>1, Invariant, PTL

(* Who applies the Elo of a battle has both ratings as they are: they were  *)
(* locked when it read them, and stay so until its COMMIT.                 *)
LEMMA RatedFromNow ==
    ASSUME RInv, NEW b \in Battle, NEW p \in Proc, ApplyRating(p),
           event[b] = NoEvent, event'[b] # NoEvent
    PROVE  \A i \in BotsOf(b) : event'[b].before[i] = RatingOf(i)
<1>0. PICK c, read : c = proc[p].b /\ read = proc[p].read
  OBVIOUS
<1>1. /\ c \in Battle /\ DOMAIN read = BotsOf(c)
      /\ \A i \in DOMAIN read : read[i] = RatingOf(i)
      /\ ~Rated(c)
  BY <1>0, Here DEF ApplyRating, At, Sound, Current, Inside, RatedOrOut
<1>2. event' = [event EXCEPT ![c] = Event(Deltas(c, read), read, FALSE)]
  BY <1>0, <1>1 DEF ApplyRating, Event
<1>3. b = c /\ event'[b] = Event(Deltas(c, read), read, FALSE)
  BY <1>1, <1>2 DEF RInv, Typed, EventTyped
<1>4. event'[b].before = read
  BY <1>3 DEF Event
<1> QED BY <1>1, <1>3, <1>4

(* The Elo of a battle is computed from the ratings it is applied to.       *)
THEOREM OnTheSpot == Spec => RatedOnTheSpot
<1>1. RInv /\ [Next]_vars
        => [\A b \in Battle : event[b] = NoEvent /\ event'[b] # NoEvent =>
                \A i \in BotsOf(b) : event'[b].before[i] = RatingOf(i)]_vars
  <2> SUFFICES ASSUME RInv, Next, NEW b \in Battle, event[b] = NoEvent, event'[b] # NoEvent
               PROVE  \A i \in BotsOf(b) : event'[b].before[i] = RatingOf(i)
    OBVIOUS
  <2>1. event' # event /\ ~Rated(b)
    BY SMTT(60), ZenonT(60) DEF Rated
  <2>2. PICK p \in Proc : Step(p)
    BY <2>1 DEF Next, FinishBattle, ProcessResult, Enqueue, Claim, ClaimAgain, Revert, Crash, StatementFails
  <2>3. ~Undo(p)
    <3>1. SUFFICES ASSUME Undo(p) PROVE FALSE
      OBVIOUS
    <3>2. PICK c : c = proc[p].b
      OBVIOUS
    <3>3. Counted(c) /\ event' = [event EXCEPT ![c].reverted = TRUE]
      BY <2>1, <3>1, <3>2 DEF Undo
    <3>4. c # b
      BY <2>1, <3>3 DEF Counted
    <3>5. event'[b] = event[b]
      BY <3>3, <3>4 DEF RInv, Typed, EventTyped
    <3> QED BY <3>5
  <2>4. ApplyRating(p)
    BY <2>1, <2>2, <2>3 DEF Step, LockBattle, LockRating, LockForReversal, LockTable,
       ReadEvents, ReadMatches, ReadRatings, WriteTable, CompleteJob, FailJob, EndJob
  <2> QED BY <2>4, RatedFromNow
<1> QED BY <1>1, Invariant, PTL DEF Spec, RatedOnTheSpot

(* Whoever waits for somebody who waits: this one has the rating of a bot    *)
(* and asks for that of a later bot.                                       *)
LEMMA WaitsForLater ==
    ASSUME RInv, NEW p \in Proc, NEW k \in Wanted(p), NEW q \in Proc, lock[k] = q,
           Wanted(q) # {}
    PROVE  /\ proc[q].pc = "rating" /\ Head(proc[q].todo) \in Nat
           /\ proc[p].pc = "rating" => Head(proc[p].todo) < Head(proc[q].todo)
<1>1. k \in Locks /\ (proc[p].pc = "rating" => k = RatingLock(Head(proc[p].todo)))
  <2>1. proc[p].pc \in {"battle", "revert"} => proc[p].b \in Battle
    BY Here DEF Sound
  <2>2. proc[p].pc = "rating" => Head(proc[p].todo) \in Bot
    BY NextRating, Order
  <2> QED BY <2>1, <2>2, LocksApart DEF Wanted, At
<1>2. k \in HeldBy(proc[q])
  BY <1>1 DEF RInv, LocksHeld
<1>3. proc[q].pc = "rating"
  BY <1>2 DEF HeldBy, Inside, Tabling, Wanted, At
<1>4. Low(proc[q].b) < High(proc[q].b) /\ Head(proc[q].todo) \in Nat
  BY ZenonT(60), SMTT(60), <1>3, NextRating, Order, RatingsAssumption
<1>5. ASSUME proc[p].pc = "rating" PROVE Head(proc[p].todo) < Head(proc[q].todo)
  <2>1. k = RatingLock(Head(proc[p].todo)) /\ k # BattleLock(proc[q].b)
    BY <1>1, <1>5, LocksApart
  <2>2. PICK i \in DOMAIN proc[q].read : k = RatingLock(i)
    BY <1>2, <1>3, <2>1 DEF HeldBy, Inside
  <2>3. i = Head(proc[p].todo)
    BY <2>1, <2>2, LocksApart
  <2>4. i = Low(proc[q].b) /\ Head(proc[q].todo) = High(proc[q].b)
    BY <1>3, <2>2, NextRating
  <2> QED BY <1>4, <2>3, <2>4
<1> QED BY <1>3, <1>4, <1>5

(* Nobody waits in a circle: in one, everybody would wait for a rating, and  *)
(* who waits for the last of these bots waits for somebody who waits for a *)
(* later one.                                                              *)
THEOREM WaitsEnd == Spec => []NoCircle
<1>1. RInv => NoCircle
  <2> SUFFICES ASSUME RInv, NEW ps \in (SUBSET Proc) \ {{}},
                      \A p \in ps : \E k \in Wanted(p) : lock[k] \in ps
               PROVE  FALSE
    BY DEF NoCircle
  <2>0. ps \subseteq Proc /\ ps # {}
    OBVIOUS
  <2>1. \A p \in ps : p \in Proc /\ Wanted(p) # {}
    OBVIOUS
  <2>2. ASSUME NEW p \in ps
        PROVE  \E q \in ps : /\ proc[q].pc = "rating" /\ Head(proc[q].todo) \in Nat
                             /\ proc[p].pc = "rating" => Head(proc[p].todo) < Head(proc[q].todo)
    <3>1. PICK k \in Wanted(p) : lock[k] \in ps
      OBVIOUS
    <3> QED BY <2>1, <3>1, WaitsForLater
  <2> DEFINE R == {q \in ps : proc[q].pc = "rating" /\ Head(proc[q].todo) \in Nat}
             f == [q \in R |-> Head(proc[q].todo)]
             W == {f[q] : q \in R}
  <2>3. IsFiniteSet(W)
    <3>1. IsFiniteSet(R)
      BY RatingsAssumption, FS_Subset
    <3>2. f \in Surjection(R, W)
      BY DEF Surjection
    <3> HIDE DEF f, W, R
    <3> QED BY <3>1, <3>2, FS_Surjection
  <2>4. W \subseteq Nat /\ W # {}
    <3>1. PICK p \in ps : TRUE
      OBVIOUS
    <3>2. PICK q \in ps : proc[q].pc = "rating" /\ Head(proc[q].todo) \in Nat
      BY <2>2, <3>1
    <3> QED BY <3>2
  <2>5. PICK n \in W : \A m \in W : m <= n
    <3> HIDE DEF W
    <3> QED BY <2>3, <2>4, Greatest
  <2>6. PICK p \in R : n = Head(proc[p].todo)
    OBVIOUS
  <2>7. PICK q \in R : Head(proc[p].todo) < Head(proc[q].todo)
    BY <2>2, <2>6
  <2>8. Head(proc[q].todo) \in W /\ n \in Nat
    BY <2>4, <2>7
  <2> HIDE DEF W
  <2>9. Head(proc[q].todo) <= n /\ Head(proc[q].todo) \in Nat
    BY <2>4, <2>5, <2>8
  <2> QED BY <2>6, <2>7, <2>8, <2>9
<1> QED BY <1>1, Invariant, PTL

-----------------------------------------------------------------------------
(* The ledger *)

Counters == {"win", "loss", "draw"}

Row(n, tally) == [rating |-> n, tally |-> tally]

IsRow(row) == \E n \in Int, tally \in [Counters -> Nat] : row = Row(n, tally)

(* What the events e of the battles bs give a bot. *)
Total(e, i, bs) == MapThenSumSet(LAMBDA b : e[b].delta[i], bs)

DeltasOf(e, i, bs) == [b \in bs |-> e[b].delta[i]]

Ended(i, s) == {b \in CountedOf(i) : Score(b, i) = s}

Agrees(row, i) ==
    /\ row.rating = InitialRating + Total(event, i, CountedOf(i))
    /\ \A s \in Counters : row.tally[s] = Cardinality(Ended(i, s))

RatedBattles == {b \in Battle : Rated(b)}

Booked(e, b) ==
    /\ DOMAIN e.delta = BotsOf(b) /\ \A i \in BotsOf(b) : e.delta[i] \in Int

Ledger ==
    /\ IsFiniteSet(RatedBattles)
    /\ \A b \in RatedBattles : Booked(event[b], b) /\ BotsOf(b) \subseteq DOMAIN rating
    /\ \A i \in DOMAIN rating : IsRow(rating[i]) /\ Agrees(rating[i], i)

ExchangeIsWhole == \A m, n \in Int, result \in Outcome : Exchange(m, n, result) \in Int

LInv == RInv /\ ExchangeIsWhole /\ Ledger

LEMMA TotalIs ==
    ASSUME NEW e, NEW i, NEW bs, IsFiniteSet(bs)
    PROVE  Total(e, i, bs) = Sum(DeltasOf(e, i, bs), bs)
<1> DEFINE f == DeltasOf(e, i, bs)
           Adds(h) == h = [s \in SUBSET bs |->
                              IF s = {} THEN 0 ELSE e[One(s)].delta[i] + h[s \ {One(s)}]]
<1>1. Total(e, i, bs) = (CHOOSE h : Adds(h))[bs]
  BY DEF Total, MapThenSumSet, MapThenFoldSet, One
<1>2. \A s \in SUBSET bs : s # {} => f[One(s)] = e[One(s)].delta[i]
  BY OneIn DEF DeltasOf
<1> HIDE DEF f
<1>3. ASSUME NEW h PROVE IsSum(f, bs, h) <=> Adds(h)
  BY <1>2 DEF IsSum, Body
<1>4. \E h : Adds(h)
  BY <1>3, Exists
<1> DEFINE h0 == CHOOSE h : Adds(h)
<1>5. Adds(h0)
  BY <1>4
<1> HIDE DEF h0
<1>6. IsSum(f, bs, h0)
  BY <1>3, <1>5
<1>7. h0[bs] = Sum(f, bs)
  BY <1>6, SumIs
<1> QED BY <1>1, <1>7 DEF h0, f

LEMMA TotalSame ==
    ASSUME NEW e, NEW g, NEW i, NEW bs, IsFiniteSet(bs), \A b \in bs : e[b].delta[i] = g[b].delta[i]
    PROVE  Total(e, i, bs) = Total(g, i, bs)
<1>1. DeltasOf(e, i, bs) = DeltasOf(g, i, bs)
  BY DEF DeltasOf
<1> QED BY <1>1, TotalIs

LEMMA TotalAdd ==
    ASSUME NEW e, NEW i, NEW bs, IsFiniteSet(bs), NEW c, c \notin bs,
           \A b \in bs \cup {c} : e[b].delta[i] \in Int
    PROVE  Total(e, i, bs \cup {c}) = Total(e, i, bs) + e[c].delta[i] /\ Total(e, i, bs) \in Int
<1> DEFINE f == DeltasOf(e, i, bs \cup {c})
           g == DeltasOf(e, i, bs)
<1>1. f[c] = e[c].delta[i] /\ \A b \in bs \cup {c} : f[b] \in Int
  BY DEF DeltasOf
<1>2. \A b \in bs : f[b] = g[b]
  BY DEF DeltasOf
<1>3. IsFiniteSet(bs \cup {c})
  BY FS_AddElement
<1>4. Total(e, i, bs \cup {c}) = Sum(f, bs \cup {c}) /\ Total(e, i, bs) = Sum(g, bs)
  BY <1>3, TotalIs
<1> HIDE DEF f, g
<1>5. Sum(f, bs \cup {c}) = f[c] + Sum(f, bs)
  BY <1>1, SumAdd
<1>6. Sum(f, bs) = Sum(g, bs)
  BY <1>2, SumSame
<1>7. Sum(f, bs) \in Int
  BY <1>1, SumInt
<1> QED BY <1>1, <1>4, <1>5, <1>6, <1>7

LEMMA TotalEmpty ==
    ASSUME NEW e, NEW i
    PROVE  Total(e, i, {}) = 0
  BY TotalIs, SumEmpty, FS_EmptySet
-----------------------------------------------------------------------------
(* The row of a bot *)

RowOf(i) == IF i \in DOMAIN rating THEN rating[i] ELSE NewRow

LEMMA RowIs ==
    ASSUME NEW n \in Int, NEW tally \in [Counters -> Nat]
    PROVE  IsRow(Row(n, tally)) /\ Row(n, tally).rating = n /\ Row(n, tally).tally = tally
  BY DEF IsRow, Row

(* The counters have their order: a row gains what it moved by. *)
LEMMA MovedIs ==
    ASSUME NEW i, IsRow(RowOf(i)), NEW d \in Int, NEW s \in Counters, NEW n \in {1, -1}
    PROVE  LET row == Moved(i, d, s, n) IN
             /\ IsRow(row) /\ row.rating = RowOf(i).rating + d
             /\ row.tally[s] = Floor(RowOf(i).tally[s] + n)
             /\ \A t \in Counters : t # s => row.tally[t] = RowOf(i).tally[t]
             /\ RowOf(i).rating \in Int /\ \A t \in Counters : RowOf(i).tally[t] \in Nat
<1>1. PICK x \in Int, tally \in [Counters -> Nat] : RowOf(i) = Row(x, tally)
  BY DEF IsRow
<1> DEFINE after == [tally EXCEPT ![s] = Floor(@ + n)]
<1>2. /\ after \in [Counters -> Nat] /\ after[s] = Floor(tally[s] + n)
      /\ \A t \in Counters : t # s => after[t] = tally[t]
  BY DEF Floor
<1>3. Moved(i, d, s, n) = Row(x + d, after)
  <2>1. Moved(i, d, s, n) = [Row(x, tally) EXCEPT !.rating = @ + d, !.tally[s] = Floor(@ + n)]
    BY <1>1 DEF Moved, RowOf
  <2> QED BY <2>1 DEF Row
<1>4. RowOf(i).rating = x /\ RowOf(i).tally = tally
  BY <1>1, RowIs
<1> HIDE DEF after
<1>5. LET row == Row(x + d, after) IN IsRow(row) /\ row.rating = x + d /\ row.tally = after
  BY <1>2, RowIs
<1> QED BY <1>2, <1>3, <1>4, <1>5

LEMMA CountedFinite ==
    ASSUME Ledger, NEW i
    PROVE  IsFiniteSet(CountedOf(i)) /\ \A s : IsFiniteSet(Ended(i, s))
<1>1. CountedOf(i) \in SUBSET RatedBattles /\ \A s : Ended(i, s) \in SUBSET RatedBattles
  BY DEF CountedOf, RatedBattles, Counted, Ended
<1> QED BY <1>1, FS_Subset DEF Ledger

(* A bot without a row has the new one, which agrees with an empty ledger. *)
LEMMA RowAgrees ==
    ASSUME Ledger, NEW i
    PROVE  IsRow(RowOf(i)) /\ Agrees(RowOf(i), i)
<1>1. CASE i \in DOMAIN rating
  BY <1>1 DEF Ledger, RowOf
<1>2. CASE i \notin DOMAIN rating
  <2>1. CountedOf(i) = {} /\ \A s : Ended(i, s) = {}
    BY <1>2 DEF Ledger, CountedOf, Counted, RatedBattles, Ended
  <2>2. [s \in {"win", "loss", "draw"} |-> 0] \in [Counters -> Nat]
    BY DEF Counters
  <2>3. RowOf(i) = Row(InitialRating, [s \in {"win", "loss", "draw"} |-> 0])
    BY <1>2 DEF RowOf, NewRow, Row
  <2>4. /\ IsRow(RowOf(i)) /\ RowOf(i).rating = InitialRating
        /\ RowOf(i).tally = [s \in {"win", "loss", "draw"} |-> 0]
    BY <2>2, <2>3, RowIs DEF InitialRating
  <2>5. \A s \in Counters : RowOf(i).tally[s] = 0
    BY <2>4 DEF Counters
  <2> QED BY <2>1, <2>4, <2>5, TotalEmpty, FS_EmptySet DEF Agrees, InitialRating
<1> QED BY <1>1, <1>2

LEMMA ScoreIs ==
    ASSUME NEW b, NEW i
    PROVE  Score(b, i) \in Counters
  BY DEF Score, Counters
SameResults == \A b \in Battle : Rated(b) => battle'[b].result = battle[b].result

LEMMA ScoreSame ==
    ASSUME NEW b, battle'[b].result = battle[b].result, NEW i
    PROVE  Score(b, i)' = Score(b, i)
  BY DEF Score

LEMMA LedgerSame ==
    ASSUME Ledger, UNCHANGED <<event, rating>>, SameResults
    PROVE  Ledger'
<1>1. \A b : (Rated(b)' <=> Rated(b)) /\ (Counted(b)' <=> Counted(b))
  BY DEF Rated, Counted, NoEvent
<1>2. RatedBattles' = RatedBattles /\ \A i : CountedOf(i)' = CountedOf(i)
  BY <1>1 DEF RatedBattles, CountedOf
<1>3. \A i, s : Ended(i, s)' = Ended(i, s)
  <2>1. ASSUME NEW i, NEW b \in CountedOf(i) PROVE Score(b, i)' = Score(b, i)
    BY ScoreSame DEF SameResults, CountedOf, Counted
  <2> QED BY <1>2, <2>1 DEF Ended
<1>4. \A row, i : Agrees(row, i) => Agrees(row, i)'
  BY <1>2, <1>3 DEF Agrees
<1> QED BY <1>2, <1>4 DEF Ledger

(* Two rows move together with the ledger. *)
LEMMA LedgerMoves ==
    ASSUME Ledger, NEW b \in Battle, NEW gain, NEW n \in {1, -1}, MoveAll(b, gain, n),
           \A i \in BotsOf(b) : gain[i] \in Int,
           IsFiniteSet(RatedBattles'),
           \A c \in RatedBattles' : Booked(event'[c], c) /\ BotsOf(c) \subseteq DOMAIN rating',
           \A i : i \notin BotsOf(b) =>
                     /\ CountedOf(i)' = CountedOf(i)
                     /\ Total(event', i, CountedOf(i)) = Total(event, i, CountedOf(i))
                     /\ \A s : Ended(i, s)' = Ended(i, s),
           \A i \in BotsOf(b) :
                     /\ Total(event', i, CountedOf(i)') = Total(event, i, CountedOf(i)) + gain[i]
                     /\ \A s \in Counters :
                           IF s = Score(b, i)
                           THEN Cardinality(Ended(i, s)') = Floor(Cardinality(Ended(i, s)) + n)
                           ELSE Ended(i, s)' = Ended(i, s)
    PROVE  Ledger'
<1>1. ASSUME NEW i \in DOMAIN rating', NEW row, row = rating'[i]
      PROVE  IsRow(row) /\ Agrees(row, i)'
  <2>1. CASE i \in BotsOf(b)
    <3>1. PICK s \in Counters : s = Score(b, i)
      BY ScoreIs
    <3>2. row = Moved(i, gain[i], s, n)
      BY <1>1, <2>1, <3>1 DEF MoveAll
    <3>3. IsRow(RowOf(i)) /\ Agrees(RowOf(i), i) /\ gain[i] \in Int
      BY <2>1, RowAgrees
    <3>4. /\ IsRow(row) /\ row.rating = RowOf(i).rating + gain[i]
          /\ row.tally[s] = Floor(RowOf(i).tally[s] + n)
          /\ \A t \in Counters : t # s => row.tally[t] = RowOf(i).tally[t]
          /\ RowOf(i).rating \in Int
      BY <3>2, <3>3, MovedIs
    <3>5. IsFiniteSet(CountedOf(i)) /\ \A b0 \in CountedOf(i) : event[b0].delta[i] \in Int
      BY CountedFinite DEF Ledger, CountedOf, Counted, RatedBattles, Booked
    <3>6. Total(event, i, CountedOf(i)) \in Int
      <4>1. \A c \in CountedOf(i) : DeltasOf(event, i, CountedOf(i))[c] \in Int
        BY <3>5 DEF DeltasOf
      <4> QED BY <3>5, <4>1, TotalIs, SumInt
    <3>7. row.rating = InitialRating + Total(event', i, CountedOf(i)')
      BY <2>1, <3>3, <3>4, <3>6 DEF Agrees, InitialRating
    <3>8. \A t \in Counters : row.tally[t] = Cardinality(Ended(i, t)')
      BY <2>1, <3>1, <3>3, <3>4 DEF Agrees
    <3>9. Agrees(row, i)'
      BY <3>7, <3>8 DEF Agrees
    <3> QED BY <3>4, <3>9
  <2>2. CASE i \notin BotsOf(b)
    <3>1. i \in DOMAIN rating /\ row = rating[i]
      BY <1>1, <2>2 DEF MoveAll
    <3>2. IsRow(row) /\ Agrees(row, i)
      BY <3>1 DEF Ledger
    <3> QED BY <2>2, <3>2 DEF Agrees
  <2> QED BY <2>1, <2>2
<1>2. \A i \in DOMAIN rating' : IsRow(rating'[i]) /\ Agrees(rating[i], i)'
  BY <1>1 DEF Agrees
<1> QED BY <1>2 DEF Ledger
(* One battle enters the ledger or leaves it, and the rest stays. *)
OnlyEvent(b) == /\ \A c \in Battle : c # b => event'[c] = event[c]
                /\ \A c \in Battle : battle'[c].result = battle[c].result

LEMMA OthersCounted ==
    ASSUME NEW b \in Battle, OnlyEvent(b)
    PROVE  /\ \A i : CountedOf(i)' \ {b} = CountedOf(i) \ {b}
           /\ \A i, s : Ended(i, s)' \ {b} = Ended(i, s) \ {b}
           /\ \A i : i \notin BotsOf(b) => /\ b \notin CountedOf(i)
                                           /\ CountedOf(i)' = CountedOf(i)
                                           /\ \A s : Ended(i, s)' = Ended(i, s)
           /\ RatedBattles' \ {b} = RatedBattles \ {b}
<1>1. \A c \in Battle : c # b => (Rated(c)' <=> Rated(c)) /\ (Counted(c)' <=> Counted(c))
  BY DEF OnlyEvent, Rated, Counted, NoEvent
<1>2. \A c \in Battle : \A i : Score(c, i)' = Score(c, i)
  BY ScoreSame DEF OnlyEvent
<1>3. \A i : CountedOf(i)' \ {b} = CountedOf(i) \ {b}
  BY <1>1 DEF CountedOf
<1>4. \A i : CountedOf(i) \subseteq Battle /\ CountedOf(i)' \subseteq Battle
  BY DEF CountedOf
<1>5. \A i, s : Ended(i, s)' \ {b} = Ended(i, s) \ {b}
  BY <1>2, <1>3, <1>4 DEF Ended
<1>6. \A i : i \notin BotsOf(b) => b \notin CountedOf(i) /\ b \notin CountedOf(i)'
  BY DEF CountedOf
<1>7. \A i, s : i \notin BotsOf(b) => b \notin Ended(i, s) /\ b \notin Ended(i, s)'
  BY <1>6 DEF Ended
<1>8. \A i : i \notin BotsOf(b) => CountedOf(i)' = CountedOf(i)
  BY <1>3, <1>6
<1>9. \A i, s : i \notin BotsOf(b) => Ended(i, s)' = Ended(i, s)
  BY <1>5, <1>7
<1>10. RatedBattles' \ {b} = RatedBattles \ {b}
  BY <1>1 DEF RatedBattles
<1> QED BY <1>3, <1>5, <1>6, <1>8, <1>9, <1>10

LEMMA DeltasWhole ==
    ASSUME Ledger, NEW i, NEW b \in CountedOf(i)
    PROVE  event[b].delta[i] \in Int
  BY DEF Ledger, CountedOf, Counted, RatedBattles, Booked

LEMMA ApplyLedger ==
    ASSUME LInv, NEW p \in Proc, ApplyRating(p)
    PROVE  Ledger'
<1>0. PICK b, read : b = proc[p].b /\ read = proc[p].read
  OBVIOUS
<1> DEFINE deltas == Deltas(b, read)
           e == Event(deltas, read, FALSE)
<1>1. /\ b \in Battle /\ DOMAIN read = BotsOf(b) /\ ~Rated(b)
      /\ \A i \in DOMAIN read : read[i] = RatingOf(i)
      /\ battle[b].result \in Outcome
      /\ UNCHANGED battle
  <2>1. proc[p].pc = "apply" /\ p \in Loop
    BY Here DEF ApplyRating, At, Sound, LInv
  <2>2. battle[b].result \in Outcome
    BY <1>0, <2>1, Here DEF LInv, RInv, Typed, BattleTyped, Rows, Current, Sound, Pending
  <2> QED BY <1>0, <2>1, <2>2, Here DEF ApplyRating, Sound, Current, RatedOrOut, Inside, LInv
<1>2. event' = [event EXCEPT ![b] = e] /\ MoveAll(b, deltas, 1)
  BY <1>0, <1>1 DEF ApplyRating, Event
<1>3. event'[b] = e /\ OnlyEvent(b)
  BY <1>1, <1>2 DEF LInv, RInv, Typed, EventTyped, OnlyEvent
<1>4. Booked(e, b) /\ e.delta = deltas /\ e.reverted = FALSE /\ e # NoEvent
  <2>1. \A i \in BotsOf(b) : read[i] \in Int
    <3>1. ASSUME NEW i \in DOMAIN rating PROVE rating[i].rating \in Int
      BY <3>1, RowIs DEF LInv, Ledger, IsRow
    <3> QED BY <1>1, <3>1 DEF RatingOf, InitialRating
  <2>2. Sides[b][1] \in BotsOf(b) /\ Sides[b][2] \in BotsOf(b)
    BY DEF BotsOf
  <2>3. Exchange(read[Sides[b][1]], read[Sides[b][2]], battle[b].result) \in Int
    BY <1>1, <2>1, <2>2 DEF LInv, ExchangeIsWhole
  <2>4. DOMAIN deltas = BotsOf(b) /\ \A i \in BotsOf(b) : deltas[i] \in Int
    BY <2>3 DEF Deltas
  <2>5. deltas # <<>>
    BY <2>2, <2>4
  <2> HIDE DEF deltas
  <2> QED BY <2>4, <2>5 DEF Booked, Event, NoEvent
<1> HIDE DEF e, deltas
<1>5. Rated(b)' /\ Counted(b)' /\ ~Counted(b)
  BY <1>1, <1>3, <1>4 DEF Rated, Counted, NoEvent
<1>6. IsFiniteSet(RatedBattles)
  BY DEF LInv, Ledger
<1>7. RatedBattles' = RatedBattles \cup {b}
  BY <1>1, <1>3, <1>5, OthersCounted DEF RatedBattles
<1>8. IsFiniteSet(RatedBattles')
  BY <1>6, <1>7, FS_AddElement
<1>9. DOMAIN rating' = DOMAIN rating \cup BotsOf(b)
  BY <1>2, MoveAllIs
<1>10. ASSUME NEW c \in RatedBattles'
       PROVE  Booked(event'[c], c) /\ BotsOf(c) \subseteq DOMAIN rating'
  <2>1. CASE c = b
    BY <1>3, <1>4, <1>9, <2>1
  <2>2. CASE c # b
    BY <1>3, <1>7, <1>9, <2>2 DEF LInv, Ledger, OnlyEvent, RatedBattles
  <2> QED BY <2>1, <2>2
<1>11. \A i : IsFiniteSet(CountedOf(i)) /\ \A s : IsFiniteSet(Ended(i, s))
  BY CountedFinite DEF LInv
<1>12. \A i : b \notin CountedOf(i) /\ \A s : b \notin Ended(i, s)
  BY <1>5 DEF CountedOf, Ended
<1>13. \A i : Total(event', i, CountedOf(i)) = Total(event, i, CountedOf(i))
  <2>1. ASSUME NEW i, NEW c \in CountedOf(i) PROVE event'[c].delta[i] = event[c].delta[i]
    BY <1>3, <1>12 DEF OnlyEvent, CountedOf
  <2> QED BY <1>11, <2>1, TotalSame
<1>14. ASSUME NEW i \in BotsOf(b)
       PROVE  Total(event', i, CountedOf(i)') = Total(event, i, CountedOf(i)) + deltas[i]
  <2>1. CountedOf(i)' = CountedOf(i) \cup {b}
    <3>1. b \in CountedOf(i)'
      BY <1>1, <1>5 DEF CountedOf
    <3> QED BY <1>1, <1>3, <3>1, OthersCounted
  <2>2. \A c \in CountedOf(i) \cup {b} : event'[c].delta[i] \in Int
    <3>1. event'[b].delta[i] \in Int
      BY <1>3, <1>4 DEF Booked
    <3>2. ASSUME NEW c \in CountedOf(i) PROVE event'[c].delta[i] \in Int
      BY <1>3, <1>12, DeltasWhole DEF LInv, OnlyEvent, CountedOf
    <3> QED BY <3>1, <3>2
  <2>3. Total(event', i, CountedOf(i) \cup {b}) = Total(event', i, CountedOf(i)) + event'[b].delta[i]
    BY <1>11, <1>12, <2>2, TotalAdd
  <2> QED BY <1>3, <1>4, <1>13, <2>1, <2>3
<1>15. ASSUME NEW i \in BotsOf(b), NEW s \in Counters
       PROVE  IF s = Score(b, i) THEN Cardinality(Ended(i, s)') = Floor(Cardinality(Ended(i, s)) + 1)
              ELSE Ended(i, s)' = Ended(i, s)
  <2>1. Score(b, i)' = Score(b, i)
    BY <1>1, <1>3, ScoreSame DEF OnlyEvent
  <2>2. b \in Ended(i, s)' <=> s = Score(b, i)
    BY <1>1, <1>5, <2>1 DEF Ended, CountedOf
  <2>3. Ended(i, s)' = IF s = Score(b, i) THEN Ended(i, s) \cup {b} ELSE Ended(i, s)
    BY SMTT(60), ZenonT(60), <1>1, <1>3, <1>12, <2>2, OthersCounted
  <2>4. /\ Cardinality(Ended(i, s)) \in Nat
        /\ Cardinality(Ended(i, s) \cup {b}) = Cardinality(Ended(i, s)) + 1
    BY <1>11, <1>12, FS_AddElement, FS_CardinalityType
  <2> QED BY <2>3, <2>4 DEF Floor
<1>16. \A i \in BotsOf(b) : deltas[i] \in Int
  BY <1>4 DEF Booked
<1>17. \A i : i \notin BotsOf(b) =>
          /\ CountedOf(i)' = CountedOf(i)
          /\ Total(event', i, CountedOf(i)) = Total(event, i, CountedOf(i))
          /\ \A s : Ended(i, s)' = Ended(i, s)
  BY <1>1, <1>3, <1>13, OthersCounted
<1> QED
  <2>1. PICK gain : gain = deltas
    OBVIOUS
  <2>2. MoveAll(b, gain, 1) /\ \A i \in BotsOf(b) : gain[i] \in Int
    BY <1>2, <1>16, <2>1
  <2>3. \A i \in BotsOf(b) :
           /\ Total(event', i, CountedOf(i)') = Total(event, i, CountedOf(i)) + gain[i]
           /\ \A s \in Counters :
                 IF s = Score(b, i)
                 THEN Cardinality(Ended(i, s)') = Floor(Cardinality(Ended(i, s)) + 1)
                 ELSE Ended(i, s)' = Ended(i, s)
    BY <1>14, <1>15, <2>1
  <2> QED BY <1>1, <1>8, <1>10, <1>17, <2>2, <2>3, LedgerMoves DEF LInv
LEMMA UndoLedger ==
    ASSUME LInv, NEW p \in Proc, Undo(p)
    PROVE  Ledger'
<1>0. PICK b : b = proc[p].b
  OBVIOUS
<1>1. b \in Battle
  BY <1>0, Here DEF Undo, At, Sound, LInv
<1>2. \A c \in Battle : battle'[c].result = battle[c].result
  <2>1. battle' = [battle EXCEPT ![b].reverted = TRUE] \/ UNCHANGED battle
    BY <1>0 DEF Undo
  <2> QED BY <1>1, <2>1 DEF LInv, RInv, Typed, BattleTyped
<1>3. CASE ~Counted(b)
  <2>1. UNCHANGED <<event, rating>>
    BY <1>0, <1>3 DEF Undo
  <2> QED BY <1>2, <2>1, LedgerSame DEF LInv, SameResults
<1>4. CASE Counted(b)
  <2> DEFINE loss == [i \in DOMAIN event[b].delta |-> -event[b].delta[i]]
             e == [event[b] EXCEPT !.reverted = TRUE]
  <2>1. MoveAll(b, loss, -1) /\ event' = [event EXCEPT ![b] = e]
    BY <1>0, <1>4 DEF Undo
  <2>2. /\ b \in RatedBattles /\ Booked(event[b], b) /\ IsFiniteSet(RatedBattles)
        /\ BotsOf(b) \subseteq DOMAIN rating
    BY <1>1, <1>4 DEF Counted, RatedBattles, LInv, Ledger
  <2>3. e.delta = event[b].delta /\ e.reverted = TRUE /\ e # NoEvent
    <3>1. event[b] = Event(event[b].delta, event[b].before, event[b].reverted)
      BY <1>1 DEF LInv, RInv, Typed, EventTyped
    <3>2. PICK d, f, x : event[b].delta = d /\ event[b].before = f /\ event[b].reverted = x
      OBVIOUS
    <3>3. event[b] = Event(d, f, x)
      BY <3>1, <3>2
    <3>4. \A v : [Event(d, f, x) EXCEPT !.reverted = v] = Event(d, f, v)
      BY DEF Event
    <3>5. e = Event(d, f, TRUE)
      BY <3>3, <3>4
    <3> HIDE DEF e
    <3> QED BY <3>2, <3>5 DEF Event, NoEvent
  <2>4. \A i \in BotsOf(b) : loss[i] = -event[b].delta[i] /\ loss[i] \in Int
    BY <2>2 DEF Booked
  <2> HIDE DEF e, loss
  <2>5. event'[b] = e /\ OnlyEvent(b)
    BY <1>1, <1>2, <2>1 DEF LInv, RInv, Typed, EventTyped, OnlyEvent
  <2>6. Rated(b)' /\ ~Counted(b)'
    BY <2>3, <2>5 DEF Rated, Counted, NoEvent
  <2>7. RatedBattles' = RatedBattles
    BY <1>1, <2>2, <2>5, <2>6, OthersCounted DEF RatedBattles
  <2>8. DOMAIN rating' = DOMAIN rating \cup BotsOf(b)
    BY <2>1, MoveAllIs
  <2>9. ASSUME NEW c \in RatedBattles'
        PROVE  Booked(event'[c], c) /\ BotsOf(c) \subseteq DOMAIN rating'
    <3>1. CASE c = b
      BY <2>2, <2>3, <2>5, <2>8, <3>1 DEF Booked
    <3>2. CASE c # b
      BY <2>5, <2>7, <2>8, <3>2 DEF LInv, Ledger, OnlyEvent, RatedBattles
    <3> QED BY <3>1, <3>2
  <2>10. \A i : IsFiniteSet(CountedOf(i)) /\ \A s : IsFiniteSet(Ended(i, s))
    BY CountedFinite DEF LInv
  <2>11. \A i, c : c \in CountedOf(i) => event'[c].delta[i] = event[c].delta[i]
    BY <2>3, <2>5 DEF OnlyEvent, CountedOf
  <2>12. ASSUME NEW i \in BotsOf(b)
         PROVE  /\ b \in CountedOf(i)
                /\ CountedOf(i)' = CountedOf(i) \ {b}
                /\ IsFiniteSet(CountedOf(i) \ {b})
    <3>1. b \in CountedOf(i) /\ b \notin CountedOf(i)'
      BY <1>1, <1>4, <2>6 DEF CountedOf
    <3>2. CountedOf(i)' \ {b} = CountedOf(i) \ {b}
      BY <1>1, <2>5, OthersCounted
    <3> QED BY <2>10, <3>1, <3>2, FS_RemoveElement
  <2>13. ASSUME NEW i \in BotsOf(b)
         PROVE  Total(event', i, CountedOf(i)') = Total(event, i, CountedOf(i)) + loss[i]
    <3> DEFINE rest == CountedOf(i) \ {b}
    <3>1. b \notin rest /\ rest \cup {b} = CountedOf(i)
      BY <2>12
    <3>2. \A c \in CountedOf(i) : event[c].delta[i] \in Int
      BY DeltasWhole DEF LInv
    <3>3. IsFiniteSet(rest)
      BY <2>12
    <3>4. Total(event, i, rest \cup {b}) = Total(event, i, rest) + event[b].delta[i]
          /\ Total(event, i, rest) \in Int
      <4> HIDE DEF rest
      <4> QED BY <3>1, <3>2, <3>3, TotalAdd
    <3>5. Total(event', i, rest) = Total(event, i, rest)
      BY <2>11, <3>3, TotalSame
    <3>6. event[b].delta[i] \in Int
      BY <2>12, <3>2
    <3>7. CountedOf(i)' = rest
      BY <2>12
    <3> HIDE DEF rest
    <3>8. PICK x \in Int, d \in Int : x = Total(event, i, rest) /\ d = event[b].delta[i]
      BY <3>4, <3>6
    <3>9. Total(event, i, CountedOf(i)) = x + d /\ Total(event', i, CountedOf(i)') = x
      BY <3>1, <3>4, <3>5, <3>7, <3>8
    <3>10. loss[i] = -d
      BY <2>4, <3>8
    <3> QED BY <3>9, <3>10
  <2>14. ASSUME NEW i \in BotsOf(b), NEW s \in Counters
         PROVE  IF s = Score(b, i)
                THEN Cardinality(Ended(i, s)') = Floor(Cardinality(Ended(i, s)) + (-1))
                ELSE Ended(i, s)' = Ended(i, s)
    <3>1. b \in Ended(i, s) <=> s = Score(b, i)
      BY <2>12 DEF Ended
    <3>2. b \notin Ended(i, s)'
      BY <2>12 DEF Ended
    <3>3. Ended(i, s)' \ {b} = Ended(i, s) \ {b}
      BY <1>1, <2>5, OthersCounted
    <3>4. CASE s = Score(b, i)
      <4>1. Ended(i, s)' = Ended(i, s) \ {b} /\ b \in Ended(i, s)
        BY <3>1, <3>2, <3>3, <3>4
      <4>2. IsFiniteSet(Ended(i, s))
        BY <2>10
      <4>3. /\ Cardinality(Ended(i, s)) \in Nat
            /\ Cardinality(Ended(i, s) \ {b}) = Cardinality(Ended(i, s)) - 1
            /\ Cardinality(Ended(i, s) \ {b}) \in Nat
        BY <4>1, <4>2, FS_RemoveElement, FS_CardinalityType
      <4>4. Floor(Cardinality(Ended(i, s)) + (-1)) = Cardinality(Ended(i, s)) - 1
        BY <4>3 DEF Floor
      <4> QED BY <3>4, <4>1, <4>3, <4>4
    <3>5. CASE s # Score(b, i)
      BY <3>1, <3>2, <3>3, <3>5
    <3> QED BY <3>4, <3>5
  <2>15. \A i : i \notin BotsOf(b) =>
            /\ CountedOf(i)' = CountedOf(i)
            /\ Total(event', i, CountedOf(i)) = Total(event, i, CountedOf(i))
            /\ \A s : Ended(i, s)' = Ended(i, s)
    <3>1. \A i : Total(event', i, CountedOf(i)) = Total(event, i, CountedOf(i))
      BY <2>10, <2>11, TotalSame
    <3> QED BY <1>1, <2>5, <3>1, OthersCounted
  <2>16. PICK gain : gain = loss
    OBVIOUS
  <2>17. MoveAll(b, gain, -1) /\ \A i \in BotsOf(b) : gain[i] \in Int
    BY <2>1, <2>4, <2>16
  <2>18. \A i \in BotsOf(b) :
            /\ Total(event', i, CountedOf(i)') = Total(event, i, CountedOf(i)) + gain[i]
            /\ \A s \in Counters :
                  IF s = Score(b, i)
                  THEN Cardinality(Ended(i, s)') = Floor(Cardinality(Ended(i, s)) + (-1))
                  ELSE Ended(i, s)' = Ended(i, s)
    BY <2>13, <2>14, <2>16
  <2>19. IsFiniteSet(RatedBattles')
    BY <2>2, <2>7
  <2> QED BY <1>1, <2>9, <2>15, <2>17, <2>18, <2>19, LedgerMoves DEF LInv
<1> QED BY <1>3, <1>4

LEMMA LedgerKept == LInv /\ [Next]_vars => LInv'
<1> SUFFICES ASSUME LInv, [Next]_vars PROVE Ledger'
  BY Inductive DEF LInv, ExchangeIsWhole
<1>1. CASE \E p \in Proc : ApplyRating(p) \/ Undo(p)
  BY <1>1, ApplyLedger, UndoLedger
<1>2. CASE UNCHANGED <<event, rating>> /\ SameResults
  BY <1>2, LedgerSame DEF LInv
<1>3. ASSUME NEW b \in Battle, NEW result \in Outcomes, FinishBattle(b, result)
      PROVE  UNCHANGED <<event, rating>> /\ SameResults
  <2>1. ~Rated(b)
    BY <1>3 DEF FinishBattle, LInv, RInv, Rows, Final
  <2>2. \A c \in Battle : c # b => battle'[c] = battle[c]
    <3>1. battle = [c \in Battle |-> battle[c]]
      BY DEF LInv, RInv, Typed, BattleTyped
    <3>2. battle' = [battle EXCEPT ![b].result = result]
      BY <1>3 DEF FinishBattle
    <3>3. PICK v : battle' = [battle EXCEPT ![b] = v]
      BY <3>2, Zenon
    <3> QED BY <3>1, <3>3
  <2>3. UNCHANGED <<event, rating>>
    BY <1>3 DEF FinishBattle
  <2> QED BY <2>1, <2>2, <2>3 DEF SameResults
<1>4. ASSUME Next, ~\E b \in Battle, result \in Outcomes : FinishBattle(b, result),
             ~\E p \in Proc : ApplyRating(p) \/ Undo(p)
      PROVE  UNCHANGED <<battle, event, rating>>
  BY <1>4, ZenonT(20)
     DEF Next, Step, ProcessResult, Enqueue, Claim, ClaimAgain, Revert, LockBattle, LockRating, LockForReversal,
     LockTable, ReadEvents, ReadMatches, ReadRatings, WriteTable, CompleteJob, FailJob, EndJob, Crash, StatementFails
<1>5. UNCHANGED vars => UNCHANGED <<battle, event, rating>>
  BY DEF vars
<1>6. UNCHANGED <<battle, event, rating>> => UNCHANGED <<event, rating>> /\ SameResults
  BY DEF SameResults
<1>7. CASE \E b \in Battle, result \in Outcomes : FinishBattle(b, result)
  BY <1>2, <1>3, <1>7
<1>8. CASE Next /\ ~\E b \in Battle, result \in Outcomes : FinishBattle(b, result)
  BY <1>1, <1>2, <1>4, <1>6, <1>8
<1>9. CASE UNCHANGED vars
  BY <1>2, <1>5, <1>6, <1>9
<1> QED BY <1>7, <1>8, <1>9

LEMMA LedgerInitially == Init /\ ExchangeIsWhole => LInv
<1> SUFFICES ASSUME Init PROVE Ledger
  BY Initially DEF LInv
<1>1. RatedBattles = {} /\ DOMAIN rating = {}
  BY DEF Init, RatedBattles, Rated
<1> QED BY <1>1, FS_EmptySet DEF Ledger

(* The ratings and the counters are those of the ledger: of what was        *)
(* applied and not reverted, however applications, reversals, second       *)
(* deliveries and failures come between each other.  Points are whole.     *)
THEOREM LedgerCorrect == ExchangeIsWhole /\ Spec => []LedgerAgrees
<1>1. LInv => LedgerAgrees
  BY DEF LInv, Ledger, Agrees, Total, Counters, Ended, RInv, Rows, LedgerAgrees
<1> QED BY <1>1, LedgerInitially, LedgerKept, PTL DEF Spec

-----------------------------------------------------------------------------
(* The table *)

Open == {"treated", "queued", "running", "needs_review"}
AtTable == {"table"} \cup Tabling

(* The exceptions of TableIsCurrent that stay once they are there. *)
Excused ==
    \/ faults > 0 /\ \E b \in Battle : battle[b].reverted
    \/ \E b \in Battle : event[b].reverted /\ ~battle[b].reverted

(* A job that has still to compute the table. *)
Busy(b) == jobs[b] \in Open /\ \A p \in Loop : proc[p].b = b => ~At(p, "done")

(* What counts, with games of open series or without them. *)
InSeries == {b \in CountingBattles : battle[b].match \notin closed}
Enough(bs) == bs \subseteq CountingBattles /\ CountingBattles \ bs \subseteq InSeries

Settled(t) == Enough(t.battles) /\ t = TableOf(t.battles)

(* What r has read of the table is what there is. *)
SoFar(r) ==
    /\ r.pc = "events" => Enough({b \in r.table.battles : ~event[b].reverted})
    /\ r.pc = "matches" => Enough(r.table.battles)
    /\ r.pc = "ratings" => Enough(r.table.battles) /\ r.table.closed = ClosedOf(r.table.battles)
    /\ r.pc = "write" => Settled(r.table)

(* Either the table is right or somebody is about to compute it. *)
StandingsCovered ==
    \/ Excused \/ Settled(standings)
    \/ \E b \in Battle : Busy(b)
    \/ \E p \in Staff : proc[p].pc \in AtTable

TableCovered(q, r) ==
    \/ Excused \/ SoFar(r)
    \/ \E b \in Battle : Busy(b) /\ (q \in Loop => b # r.b)
    \/ \E p \in Staff : p # q /\ At(p, "table")

Covered == StandingsCovered /\ \A q \in Proc : TableCovered(q, proc[q])

TInv == RInv /\ Covered

LEMMA CoveredAfter ==
    ASSUME StandingsCovered', \A q \in Proc : \A s : s = proc'[q] => TableCovered(q, s)'
    PROVE  Covered'
<1>1. ASSUME NEW q \in Proc PROVE TableCovered(q, proc[q])'
  <2>1. \A s : s = proc'[q] => TableCovered(q, s)'
    OBVIOUS
  <2> QED BY <2>1 DEF TableCovered
<1> QED BY <1>1 DEF Covered

LEMMA ExcusedCovers ==
    ASSUME Excused'
    PROVE  Covered'
  BY DEF Covered, StandingsCovered, TableCovered

LEMMA SameWorld ==
    ASSUME UNCHANGED <<battle, closed, event, rating>>, faults \in Nat, faults' \in Nat,
           faults <= faults'
    PROVE  /\ \A t : Settled(t)' <=> Settled(t)
           /\ \A r : SoFar(r)' <=> SoFar(r)
           /\ Excused => Excused'
<1>1. CountingBattles' = CountingBattles /\ InSeries' = InSeries
  BY DEF CountingBattles, Played, InSeries
<1>2. \A bs : (Enough(bs)' <=> Enough(bs)) /\ TableOf(bs)' = TableOf(bs)
             /\ ClosedOf(bs)' = ClosedOf(bs)
  BY <1>1 DEF Enough, TableOf, ClosedOf, RatingsOf, RatingOf
<1>3. \A t : Settled(t)' <=> Settled(t)
  BY <1>2 DEF Settled
<1> QED BY <1>2, <1>3 DEF SoFar, Excused

LEMMA BusyStays ==
    ASSUME RInv, NEW p \in Proc, NEW r, IsRecord(r), Put(p, r), NEW b \in Battle, Busy(b),
           jobs'[b] \in Open, p \in Loop /\ r.b = b => r.pc # "done"
    PROVE  Busy(b)'
<1>1. proc'[p] = r /\ \A q \in Proc : q # p => proc'[q] = proc[q]
  BY PutIs DEF RInv, Typed
<1>2. \A q \in Loop : proc'[q].b = b => proc'[q].pc # "done"
  BY <1>1 DEF Busy, At, Proc
<1> QED BY <1>2 DEF Busy, At

(* A step of who is not about to compute the table, or of a loop that then  *)
(* has its job.                                                            *)
LEMMA QuietCovers ==
    ASSUME TInv, NEW p \in Proc, p \in Staff => proc[p].pc \notin AtTable,
           NEW r, IsRecord(r), Put(p, r), r.pc \notin Tabling \cup {"done"},
           UNCHANGED <<battle, closed, event, rating, standings>>, faults' \in Nat, faults <= faults',
           \A b \in Battle : Busy(b) => jobs'[b] \in Open
    PROVE  Covered'
<1>1. proc'[p] = r /\ \A q \in Proc : q # p => proc'[q] = proc[q]
  BY PutIs DEF TInv, RInv, Typed
<1>2. faults \in Nat
  BY DEF TInv, RInv, Typed
<1>3. \A b \in Battle : Busy(b) => Busy(b)'
  <2>1. ASSUME NEW b \in Battle, Busy(b) PROVE Busy(b)'
    BY <2>1, BusyStays DEF TInv
  <2> QED BY <2>1
<1>4. \A q \in Staff : proc[q].pc \in AtTable => proc'[q] = proc[q]
  BY <1>1 DEF Proc
<1>5. StandingsCovered'
  <2>1. CASE Excused \/ Settled(standings)
    BY <1>2, <2>1, SameWorld DEF StandingsCovered
  <2>2. CASE \E b \in Battle : Busy(b)
    BY <1>3, <2>2 DEF StandingsCovered
  <2>3. CASE \E q \in Staff : proc[q].pc \in AtTable
    BY <1>4, <2>3 DEF StandingsCovered
  <2> QED BY <2>1, <2>2, <2>3 DEF TInv, Covered, StandingsCovered
<1>6. ASSUME NEW q \in Proc, NEW s, s = proc'[q] PROVE TableCovered(q, s)'
  <2>1. CASE q = p
    BY <1>1, <1>6, <2>1 DEF TableCovered, SoFar, Tabling
  <2>2. CASE q # p
    <3>1. TableCovered(q, s)
      BY <1>1, <1>6, <2>2 DEF TInv, Covered
    <3>2. CASE Excused \/ SoFar(s)
      BY <1>2, <3>2, SameWorld DEF TableCovered
    <3>3. CASE \E b \in Battle : Busy(b) /\ (q \in Loop => b # s.b)
      BY <1>3, <3>3 DEF TableCovered
    <3>4. CASE \E x \in Staff : x # q /\ At(x, "table")
      BY <1>4, <3>4 DEF TableCovered, At, AtTable
    <3> QED BY <3>1, <3>2, <3>3, <3>4 DEF TableCovered
  <2> QED BY <2>1, <2>2
<1> QED BY <1>5, <1>6, CoveredAfter

(* Who computes the table is alone with it. *)
LEMMA AloneAtTable ==
    ASSUME RInv, NEW p \in Proc, proc[p].pc \in Tabling \/ Free(TableLock), NEW q \in Proc, q # p
    PROVE  proc[q].pc \notin Tabling
<1>1. SUFFICES ASSUME proc[q].pc \in Tabling PROVE FALSE
  OBVIOUS
<1>2. TableLock \in HeldBy(proc[q]) /\ (proc[p].pc \in Tabling => TableLock \in HeldBy(proc[p]))
  BY <1>1 DEF HeldBy, Inside, Tabling
<1>3. lock[TableLock] = q /\ (proc[p].pc \in Tabling => lock[TableLock] = p)
  BY <1>2, LocksApart DEF RInv, LocksHeld
<1>4. q # Nobody
  BY RatingsAssumption
<1> QED BY <1>3, <1>4 DEF Free

LEMMA TablingCovers ==
    ASSUME TInv, NEW p \in Proc, proc[p].pc \in Tabling \/ Free(TableLock),
           proc[p].pc \in AtTable, NEW r, IsRecord(r), Put(p, r), r.pc \in Tabling,
           r.b = proc[p].b, SoFar(proc[p]) => SoFar(r),
           UNCHANGED <<battle, closed, event, rating, standings, jobs, faults>>
    PROVE  Covered'
<1>1. proc'[p] = r /\ \A q \in Proc : q # p => proc'[q] = proc[q]
  BY PutIs DEF TInv, RInv, Typed
<1>2. faults \in Nat /\ faults' \in Nat /\ faults <= faults'
  BY DEF TInv, RInv, Typed
<1>3. \A b \in Battle : Busy(b) => Busy(b)'
  <2>1. ASSUME NEW b \in Battle, Busy(b) PROVE Busy(b)'
    <3>1. jobs'[b] \in Open /\ r.pc # "done"
      BY <2>1 DEF Busy, Tabling
    <3> QED BY <2>1, <3>1, BusyStays DEF TInv
  <2> QED BY <2>1
<1>4. StandingsCovered'
  <2>1. CASE Excused \/ Settled(standings)
    BY <1>2, <2>1, SameWorld DEF StandingsCovered
  <2>2. CASE \E b \in Battle : Busy(b)
    BY <1>3, <2>2 DEF StandingsCovered
  <2>3. CASE \E q \in Staff : proc[q].pc \in AtTable
    <3>1. PICK q \in Staff : proc[q].pc \in AtTable
      BY <2>3
    <3>2. proc'[q].pc \in AtTable
      BY <1>1, <3>1 DEF AtTable, Proc
    <3> QED BY <3>2 DEF StandingsCovered
  <2> QED BY <2>1, <2>2, <2>3 DEF TInv, Covered, StandingsCovered
<1>5. ASSUME NEW q \in Proc, NEW s, s = proc'[q] PROVE TableCovered(q, s)'
  <2>1. CASE q = p
    <3>1. TableCovered(p, proc[p]) /\ s = r
      BY <1>1, <1>5, <2>1 DEF TInv, Covered
    <3>2. CASE Excused \/ SoFar(r)
      BY <1>2, <3>1, <3>2, SameWorld DEF TableCovered
    <3>3. CASE \E b \in Battle : Busy(b) /\ (p \in Loop => b # r.b)
      BY <1>3, <2>1, <3>1, <3>3 DEF TableCovered
    <3>4. CASE \E x \in Staff : x # p /\ At(x, "table")
      BY <1>1, <2>1, <3>1, <3>4 DEF TableCovered, At, Proc
    <3> QED BY <3>1, <3>2, <3>3, <3>4 DEF TableCovered
  <2>2. CASE q # p
    <3>1. proc'[q].pc \notin Tabling
      BY <1>1, <2>2, AloneAtTable DEF TInv
    <3> QED BY <1>5, <3>1 DEF TableCovered, SoFar, Tabling
  <2> QED BY <2>1, <2>2
<1> QED BY <1>4, <1>5, CoveredAfter
(* A game that ends is one of an open series, and may be missing. *)
LEMMA OneMore ==
    ASSUME TInv, NEW b \in Battle, NEW result \in Outcome, FinishBattle(b, result)
    PROVE  /\ \A bs : Enough(bs) => Enough(bs)' /\ TableOf(bs)' = TableOf(bs)
           /\ \A bs : Enough({c \in bs : ~event[c].reverted})
                       => Enough({c \in bs : ~event[c].reverted})'
<1>1. /\ battle[b].result = "none" /\ battle[b].match \notin closed
      /\ UNCHANGED <<closed, event, rating>>
  BY DEF FinishBattle, TInv, RInv, Rows
<1>2. /\ battle'[b].match = battle[b].match /\ battle'[b].reverted = battle[b].reverted
      /\ \A c \in Battle : c # b => battle'[c] = battle[c]
  BY DEF FinishBattle, TInv, RInv, Typed, BattleTyped
<1>3. CountingBattles \subseteq CountingBattles' /\ CountingBattles' \subseteq CountingBattles \cup {b}
  <2>1. \A c \in Battle : c # b => (c \in CountingBattles' <=> c \in CountingBattles)
    BY <1>1, <1>2 DEF CountingBattles, Played
  <2>2. b \notin CountingBattles
    BY <1>1 DEF CountingBattles, Played
  <2>3. CountingBattles \subseteq Battle /\ CountingBattles' \subseteq Battle
    BY DEF CountingBattles, Played
  <2> QED BY <2>1, <2>2, <2>3
<1>4. InSeries' = {c \in CountingBattles' : battle[c].match \notin closed}
  <2>1. \A c \in Battle : battle'[c].match = battle[c].match
    BY <1>2
  <2>2. CountingBattles' \subseteq Battle
    BY DEF CountingBattles, Played
  <2> QED BY <1>1, <2>1, <2>2 DEF InSeries
<1>5. ASSUME NEW bs, Enough(bs) PROVE Enough(bs)' /\ TableOf(bs)' = TableOf(bs)
  <2>1. bs \subseteq Battle
    BY <1>5 DEF Enough, CountingBattles, Played
  <2>2. ClosedOf(bs)' = ClosedOf(bs)
    <3>1. \A c \in bs : battle'[c].match = battle[c].match
      BY <1>2, <2>1
    <3> QED BY <1>1, <3>1 DEF ClosedOf
  <2>3. RatingsOf(bs)' = RatingsOf(bs)
    BY <1>1 DEF RatingsOf, RatingOf
  <2>4. Enough(bs)'
    <3>1. bs \subseteq CountingBattles'
      BY <1>3, <1>5 DEF Enough
    <3>2. CountingBattles' \ bs \subseteq InSeries'
      BY <1>1, <1>3, <1>4, <1>5 DEF Enough, InSeries
    <3> QED BY <3>1, <3>2 DEF Enough
  <2> QED BY <2>2, <2>3, <2>4 DEF TableOf
<1>6. ASSUME NEW bs, Enough({c \in bs : ~event[c].reverted})
      PROVE  Enough({c \in bs : ~event[c].reverted})'
  <2>1. PICK cs : cs = {c \in bs : ~event[c].reverted}
    OBVIOUS
  <2>2. {c \in bs : ~event'[c].reverted} = cs
    BY <1>1, <2>1
  <2>3. Enough(cs)'
    BY <1>5, <1>6, <2>1
  <2> QED BY <2>2, <2>3 DEF Enough
<1> QED BY <1>5, <1>6

LEMMA FinishBattleCovers ==
    ASSUME TInv, NEW b \in Battle, NEW result \in Outcome, FinishBattle(b, result)
    PROVE  Covered'
<1>1. /\ jobs[b] = "none" /\ jobs' = [jobs EXCEPT ![b] = "announced"]
      /\ UNCHANGED <<closed, event, rating, standings, proc, faults>>
  BY DEF FinishBattle, TInv, RInv, Rows
<1>2. \A c \in Battle : Busy(c) => Busy(c)'
  BY <1>1 DEF Busy, Open, At, TInv, RInv, Typed, JobsTyped
<1>3. \A t : Settled(t) => Settled(t)'
  BY OneMore DEF Settled
<1>4. \A r : SoFar(r) => SoFar(r)'
  <2>1. ASSUME NEW r, SoFar(r) PROVE SoFar(r)'
    <3>1. \A bs : TableOf(bs)' = TableOf(bs) => ClosedOf(bs)' = ClosedOf(bs)
      BY DEF TableOf
    <3> QED BY <1>3, <2>1, <3>1, OneMore DEF SoFar
  <2> QED BY <2>1
<1>5. Excused => Excused'
  BY <1>1 DEF FinishBattle, Excused, TInv, RInv, Typed, BattleTyped
<1>6. StandingsCovered'
  BY <1>1, <1>2, <1>3, <1>5 DEF TInv, Covered, StandingsCovered
<1>7. ASSUME NEW q \in Proc, NEW s, s = proc'[q] PROVE TableCovered(q, s)'
  <2>1. TableCovered(q, s)
    BY <1>1, <1>7 DEF TInv, Covered
  <2> QED BY <1>1, <1>2, <1>4, <1>5, <2>1 DEF TableCovered, At
<1> QED BY <1>6, <1>7, CoveredAfter

(* A match that closes has its job, which will compute the table. *)
LEMMA ResultCovers ==
    ASSUME TInv, NEW b \in Battle, ProcessResult(b) \/ Enqueue(b)
    PROVE  Covered'
<1>1. /\ jobs[b] \in {"announced", "treated"}
      /\ UNCHANGED <<battle, event, rating, standings, proc, faults>>
  BY DEF ProcessResult, Enqueue
<1>2. \A q \in Loop : proc[q].b # b
  <2>1. ASSUME NEW q \in Loop PROVE proc[q].b # b
    <3>1. q \in Proc
      BY DEF Proc
    <3>2. proc[q].pc = "idle" => proc[q].b = Nobody
      BY <3>1, Here, IdleIs DEF Sound, TInv
    <3> QED BY <1>1, <3>1, <3>2, Here, RatingsAssumption DEF Current, Pending, TInv
  <2> QED BY <2>1
<1>3. CASE jobs' = [jobs EXCEPT ![b] = "left"] /\ UNCHANGED closed /\ jobs[b] = "announced"
  <2>1. \A c \in Battle : Busy(c) => Busy(c)'
    BY <1>1, <1>3 DEF Busy, Open, At, TInv, RInv, Typed, JobsTyped
  <2>2. faults \in Nat
    BY DEF TInv, RInv, Typed
  <2>3. StandingsCovered'
    BY <1>1, <1>3, <2>1, <2>2, SameWorld DEF TInv, Covered, StandingsCovered
  <2>4. ASSUME NEW q \in Proc, NEW s, s = proc'[q] PROVE TableCovered(q, s)'
    <3>1. TableCovered(q, s)
      BY <1>1, <2>4 DEF TInv, Covered
    <3> QED BY <1>1, <1>3, <2>1, <2>2, <3>1, SameWorld DEF TableCovered, At
  <2> QED BY <2>3, <2>4, CoveredAfter
<1>4. CASE \E s \in {"treated", "queued"} : jobs' = [jobs EXCEPT ![b] = s]
  <2>1. jobs'[b] \in Open
    BY <1>4 DEF Open, TInv, RInv, Typed, JobsTyped
  <2>2. Busy(b)'
    BY <1>1, <1>2, <2>1 DEF Busy
  <2>3. StandingsCovered'
    BY <2>2 DEF StandingsCovered
  <2>4. ASSUME NEW q \in Proc, NEW s, s = proc'[q] PROVE TableCovered(q, s)'
    BY <1>1, <1>2, <2>2, <2>4 DEF TableCovered
  <2> QED BY <2>3, <2>4, CoveredAfter
<1> QED BY <1>3, <1>4 DEF ProcessResult, Enqueue

LEMMA ClaimCovers ==
    ASSUME TInv, NEW p \in Loop, NEW b \in Battle, Claim(p, b) \/ ClaimAgain(p, b)
    PROVE  Covered'
<1>1. p \in Proc /\ p \notin Staff
  BY RatingsAssumption DEF Proc
<1>2. UNCHANGED <<battle, closed, event, rating, standings>> /\ Begin(p, b)
  BY DEF Claim, ClaimAgain
<1>3. faults' \in Nat /\ faults <= faults'
  BY SMTT(60), ZenonT(60) DEF Claim, ClaimAgain, Strikes, TInv, RInv, Typed
<1>4. \A c \in Battle : Busy(c) => jobs'[c] \in Open
  BY SMTT(60), ZenonT(60) DEF Claim, ClaimAgain, Busy, Open, TInv, RInv, Typed, JobsTyped
<1> DEFINE pc == IF battle[b].result = "technical" THEN "table" ELSE "battle"
           r == [Idle EXCEPT !.b = b, !.kind = "update", !.pc = pc]
<1>5. pc \in PC /\ "update" \in Kind
  BY SMTT(60), ZenonT(60) DEF PC, Kind
<1>6. IsFresh(r, pc, b, "update")
  BY <1>5, FreshIs
<1>7. Put(p, r)
  BY <1>2 DEF Begin, Continue, Put
<1> HIDE DEF r
<1>8. IsRecord(r) /\ r.pc \notin Tabling \cup {"done"}
  BY <1>6 DEF IsFresh, Tabling
<1> QED BY <1>1, <1>2, <1>3, <1>4, <1>7, <1>8, QuietCovers

(* A step that leaves the jobs and does not come to the table. *)
LEMMA AsideCovers ==
    ASSUME TInv, NEW p \in Proc, p \in Staff => proc[p].pc \notin AtTable,
           NEW r, IsRecord(r), Put(p, r), r.pc \notin Tabling \cup {"done"},
           UNCHANGED <<battle, closed, event, rating, standings, jobs, faults>>
    PROVE  Covered'
<1>1. faults' \in Nat /\ faults <= faults'
  BY DEF TInv, RInv, Typed
<1>2. \A b \in Battle : Busy(b) => jobs'[b] \in Open
  BY DEF Busy
<1> QED BY <1>1, <1>2, QuietCovers

LEMMA EndCovers ==
    ASSUME TInv, NEW p \in Proc, CompleteJob(p) \/ FailJob(p)
    PROVE  Covered'
<1>1. /\ proc[p].pc \in {"done", "failed"} /\ Put(p, Idle)
      /\ UNCHANGED <<battle, closed, event, rating, standings, faults>>
  BY DEF CompleteJob, FailJob, EndJob, At, Continue, Put
<1>2. p \in Loop /\ proc[p].b \in Battle
  BY <1>1, Here DEF Sound, TInv
<1>3. jobs' = [jobs EXCEPT ![proc[p].b] = IF proc[p].pc = "done" THEN "done" ELSE "needs_review"]
  BY DEF CompleteJob, FailJob, EndJob, At
<1>4. ASSUME NEW b \in Battle, Busy(b) PROVE jobs'[b] \in Open
  <2>1. CASE b = proc[p].b
    BY <1>1, <1>2, <1>3, <1>4, <2>1 DEF Busy, At, Open, TInv, RInv, Typed, JobsTyped
  <2>2. CASE b # proc[p].b
    BY <1>3, <1>4, <2>2 DEF Busy, TInv, RInv, Typed, JobsTyped
  <2> QED BY <2>1, <2>2
<1>5. faults' \in Nat /\ faults <= faults'
  BY <1>1 DEF TInv, RInv, Typed
<1>6. IsRecord(Idle) /\ Idle.pc \notin Tabling \cup {"done"}
  BY IdleIs DEF Tabling
<1> QED BY <1>1, <1>4, <1>5, <1>6, QuietCovers DEF AtTable, Tabling

LEMMA LockBattleCovers ==
    ASSUME TInv, NEW p \in Proc, LockBattle(p) \/ LockForReversal(p)
    PROVE  Covered'
<1>1. /\ proc[p].pc \in {"battle", "revert"}
      /\ UNCHANGED <<battle, closed, event, rating, standings, jobs, faults>>
  BY DEF LockBattle, LockForReversal, At
<1>2. PICK b : b = proc[p].b
  OBVIOUS
<1> DEFINE rated == WithTodo(WithPc(proc[p], "rating"), InOrder(b))
           undo == WithPc(proc[p], "undo")
<1>3. ToTable(p) \/ Put(p, Idle) \/ Put(p, rated) \/ Put(p, undo)
  BY <1>2 DEF LockBattle, LockForReversal, Continue, Put, WithTodo, WithPc
<1>4. "rating" \in PC /\ "undo" \in PC
  BY DEF PC
<1>5. IsRecord(undo) /\ undo.pc = "undo"
  BY <1>4, Here, WithPcIs DEF TInv
<1>6. IsRecord(rated) /\ rated.pc = "rating"
  BY <1>4, Here, WithPcIs, WithTodoIs DEF TInv
<1> HIDE DEF rated, undo
<1>7. PICK r : IsRecord(r) /\ Put(p, r) /\ r.pc \in {"idle", "rating", "undo", "table"}
  BY <1>1, <1>3, <1>5, <1>6, ToTableIs, IdleIs DEF TInv
<1> QED BY <1>1, <1>7, AsideCovers DEF AtTable, Tabling

LEMMA LockRatingCovers ==
    ASSUME TInv, NEW p \in Proc, LockRating(p)
    PROVE  Covered'
<1> DEFINE i == Head(proc[p].todo)
           rest == Tail(proc[p].todo)
           pc == IF rest # <<>> THEN "rating"
                 ELSE IF proc[p].kind = "update" THEN "apply" ELSE "undo"
           read == ReadAlso(proc[p].read, i)
           r == WithPc(WithTodo(WithRead(proc[p], read), rest), pc)
<1>1. proc[p].pc = "rating" /\ UNCHANGED <<battle, closed, event, rating, standings, jobs, faults>>
  BY DEF LockRating, At
<1>2. Put(p, r)
  BY DEF LockRating, Continue, Put, WithTodo, WithPc, WithRead, ReadAlso
<1>3. pc \in PC /\ pc \in Inside /\ IsRecord(proc[p])
  BY SMTT(60), ZenonT(60), Here DEF PC, Inside, TInv
<1> HIDE DEF pc, rest, read
<1>4. IsRecord(r) /\ r.pc = pc
  BY SMTT(60), ZenonT(60), <1>3, ReadMoves
<1> HIDE DEF r
<1> QED BY <1>1, <1>2, <1>3, <1>4, AsideCovers DEF AtTable, Tabling, Inside

LEMMA RevertCovers ==
    ASSUME TInv, NEW p \in Staff, NEW b \in Battle, NEW kind \in {"revert", "eloOnly"},
           Revert(p, b, kind)
    PROVE  Covered'
<1> DEFINE r == [Idle EXCEPT !.pc = "revert", !.b = b, !.kind = kind]
<1>1. /\ p \in Proc /\ proc[p].pc = "idle" /\ Put(p, r)
      /\ UNCHANGED <<battle, closed, event, rating, standings, jobs, faults>>
  BY SMTT(60), ZenonT(60) DEF Revert, At, Continue, Put, Proc
<1>2. IsFresh(r, "revert", b, kind)
  <2>1. "revert" \in PC /\ kind \in Kind /\ b \in Battle \cup {Nobody}
    BY DEF PC, Kind
  <2> QED BY <2>1, FreshIs
<1> HIDE DEF r
<1> QED BY SMTT(60), ZenonT(60), <1>1, <1>2, AsideCovers DEF IsFresh, AtTable, Tabling

(* The Elo of a battle leaves its job to compute the table. *)
LEMMA ApplyCovers ==
    ASSUME TInv, NEW p \in Proc, ApplyRating(p)
    PROVE  Covered'
<1>1. PICK b : b = proc[p].b
  OBVIOUS
<1>2. /\ proc[p].pc = "apply" /\ p \in Loop /\ b \in Battle /\ ~RatedOrOut(b)
      /\ jobs[b] \notin Pending /\ UNCHANGED <<battle, closed, jobs>>
  BY <1>1, Here DEF ApplyRating, At, Sound, Current, TInv
<1>3. ToTable(p)
  BY <1>1, <1>2 DEF ApplyRating, RatedOrOut
<1>4. PICK r : IsRecord(r) /\ Put(p, r) /\ r.pc = "table" /\ r.b = b
  BY <1>1, <1>2, <1>3, ToTableIs DEF TInv
<1>5. proc'[p] = r /\ \A q \in Proc : q # p => proc'[q] = proc[q]
  BY <1>4, PutIs DEF TInv, RInv, Typed
<1>6. Busy(b)
  <2>1. jobs[b] \in Open
    BY <1>2 DEF TInv, RInv, Rows, Typed, JobsTyped, JobState, Pending, Open
  <2>2. ASSUME NEW q \in Loop, proc[q].b = b PROVE ~At(q, "done")
    BY <1>2, <2>2, Here DEF Current, At, Proc, TInv
  <2> QED BY <2>1, <2>2 DEF Busy
<1>7. Busy(b)'
  BY <1>2, <1>4, <1>6, BusyStays DEF Busy, TInv
<1>8. StandingsCovered'
  BY <1>2, <1>7 DEF StandingsCovered
<1>9. ASSUME NEW q \in Proc, NEW s, s = proc'[q] PROVE TableCovered(q, s)'
  <2>1. CASE q \in Loop /\ s.b = b
    <3>1. s.pc \notin Tabling
      <4>1. CASE q = p
        BY <1>4, <1>5, <1>9, <4>1 DEF Tabling
      <4>2. CASE q # p
        BY <1>2, <1>5, <1>9, <2>1, <4>2, Here DEF Current, TInv
      <4> QED BY <4>1, <4>2
    <3> QED BY <3>1 DEF TableCovered, SoFar, Tabling
  <2>2. CASE q \in Loop => s.b # b
    BY <1>2, <1>7, <2>2 DEF TableCovered
  <2> QED BY <2>1, <2>2
<1> QED BY <1>8, <1>9, CoveredAfter

(* A reversal computes the table itself, unless it is of the Elo alone. *)
LEMMA UndoCovers ==
    ASSUME TInv, NEW p \in Proc, Undo(p)
    PROVE  Covered'
<1>1. PICK b : b = proc[p].b
  OBVIOUS
<1>2. proc[p].pc = "undo" /\ p \in Staff /\ b \in Battle /\ UNCHANGED <<closed, standings, jobs, faults>>
  BY <1>1, Here DEF Undo, At, Sound, TInv
<1>3. CASE proc[p].kind = "revert"
  <2>1. ToTable(p)
    BY <1>1, <1>3 DEF Undo
  <2>2. PICK r : IsRecord(r) /\ Put(p, r) /\ r.pc = "table"
    BY <1>2, <2>1, ToTableIs DEF TInv
  <2>3. proc'[p] = r
    BY <2>2, PutIs DEF TInv, RInv, Typed
  <2>4. StandingsCovered'
    BY <1>2, <2>2, <2>3 DEF StandingsCovered, AtTable
  <2>5. ASSUME NEW q \in Proc, NEW s, s = proc'[q] PROVE TableCovered(q, s)'
    <3>1. CASE q = p
      BY <2>2, <2>3, <2>5, <3>1 DEF TableCovered, SoFar
    <3>2. CASE q # p
      BY <1>2, <2>2, <2>3, <3>2 DEF TableCovered, At
    <3> QED BY <3>1, <3>2
  <2> QED BY <2>4, <2>5, CoveredAfter
<1>4. CASE proc[p].kind # "revert" /\ Counted(b)
  <2>1. UNCHANGED battle /\ event' = [event EXCEPT ![b].reverted = TRUE]
    BY <1>1, <1>4 DEF Undo
  <2>2. event'[b].reverted
    <3>1. event[b] = Event(event[b].delta, event[b].before, event[b].reverted)
      BY <1>2 DEF TInv, RInv, Typed, EventTyped
    <3>2. PICK d, f, x : event[b].delta = d /\ event[b].before = f /\ event[b].reverted = x
      OBVIOUS
    <3>3. event[b] = Event(d, f, x)
      BY <3>1, <3>2
    <3>4. \A v : [Event(d, f, x) EXCEPT !.reverted = v] = Event(d, f, v)
      BY DEF Event
    <3>5. event'[b] = [event[b] EXCEPT !.reverted = TRUE]
      BY <1>2, <2>1 DEF TInv, RInv, Typed, EventTyped
    <3>6. event'[b] = Event(d, f, TRUE)
      BY <3>3, <3>4, <3>5
    <3> QED BY <3>6 DEF Event
  <2>3. ~battle[b].reverted
    BY <1>2, <1>4 DEF TInv, RInv, Rows
  <2>4. Excused'
    BY <1>2, <2>1, <2>2, <2>3 DEF Excused
  <2> QED BY <2>4, ExcusedCovers
<1>5. CASE proc[p].kind # "revert" /\ ~Counted(b)
  <2>1. Put(p, Idle) /\ UNCHANGED <<battle, closed, event, rating>>
    BY <1>1, <1>5 DEF Undo, Continue, Put
  <2> QED BY <1>2, <2>1, IdleIs, AsideCovers DEF AtTable, Tabling
<1> QED BY <1>3, <1>4, <1>5
LEMMA LockTableCovers ==
    ASSUME TInv, NEW p \in Proc, LockTable(p)
    PROVE  Covered'
<1> DEFINE r == WithBattles(WithPc(proc[p], "events"), Played)
<1>1. /\ proc[p].pc = "table" /\ Free(TableLock)
      /\ UNCHANGED <<battle, closed, event, rating, standings, jobs, faults>>
  BY DEF LockTable, At
<1>2. Put(p, r)
  BY DEF LockTable, Continue, Put, WithBattles, WithPc
<1>3. IsRecord(r) /\ r.pc = "events" /\ r.b = proc[p].b /\ r.table.battles = Played
  <2>1. IsRecord(proc[p])
    BY Here DEF TInv
  <2> QED BY <2>1, WithPcIs, WithBattlesIs DEF PC
<1> HIDE DEF r
<1>4. SoFar(r)
  <2>1. {b \in Played : ~event[b].reverted} = CountingBattles
    BY DEF CountingBattles
  <2> QED BY <1>3, <2>1 DEF SoFar, Enough
<1> QED BY <1>1, <1>2, <1>3, <1>4, TablingCovers DEF Tabling, AtTable

LEMMA ReadEventsCovers ==
    ASSUME TInv, NEW p \in Proc, ReadEvents(p)
    PROVE  Covered'
<1> DEFINE s == WithPc(proc[p], "matches")
           r == WithBattles(s, {b \in s.table.battles : ~event[b].reverted})
<1>1. /\ proc[p].pc = "events"
      /\ UNCHANGED <<battle, closed, event, rating, standings, jobs, faults>>
  BY DEF ReadEvents, At
<1>2. Put(p, r)
  BY DEF ReadEvents, Continue, Put, WithBattles, WithPc
<1>3. /\ IsRecord(s) /\ s.pc = "matches" /\ s.b = proc[p].b /\ s.table = proc[p].table
  <2>1. IsRecord(proc[p])
    BY Here DEF TInv
  <2> QED BY <2>1, WithPcIs DEF PC
<1> HIDE DEF s
<1>4. /\ IsRecord(r) /\ r.pc = "matches" /\ r.b = proc[p].b
      /\ r.table.battles = {b \in s.table.battles : ~event[b].reverted}
  BY <1>3, WithBattlesIs
<1> HIDE DEF r
<1>5. SoFar(proc[p]) => SoFar(r)
  BY <1>1, <1>3, <1>4 DEF SoFar
<1> QED BY <1>1, <1>2, <1>4, <1>5, TablingCovers DEF Tabling, AtTable

LEMMA ReadMatchesCovers ==
    ASSUME TInv, NEW p \in Proc, ReadMatches(p)
    PROVE  Covered'
<1> DEFINE s == WithPc(proc[p], "ratings")
           r == WithClosed(s, ClosedOf(proc[p].table.battles))
<1>1. /\ proc[p].pc = "matches"
      /\ UNCHANGED <<battle, closed, event, rating, standings, jobs, faults>>
  BY DEF ReadMatches, At
<1>2. Put(p, r)
  BY DEF ReadMatches, Continue, Put, WithClosed, WithPc
<1>3. /\ IsRecord(s) /\ s.pc = "ratings" /\ s.b = proc[p].b /\ s.table = proc[p].table
  <2>1. IsRecord(proc[p])
    BY Here DEF TInv
  <2> QED BY <2>1, WithPcIs DEF PC
<1> HIDE DEF s
<1>4. /\ IsRecord(r) /\ r.pc = "ratings" /\ r.b = proc[p].b
      /\ r.table.battles = proc[p].table.battles
      /\ r.table.closed = ClosedOf(proc[p].table.battles)
  BY <1>3, WithClosedIs
<1> HIDE DEF r
<1>5. SoFar(proc[p]) => SoFar(r)
  BY <1>1, <1>4 DEF SoFar
<1> QED BY <1>1, <1>2, <1>4, <1>5, TablingCovers DEF Tabling, AtTable

LEMMA ReadRatingsCovers ==
    ASSUME TInv, NEW p \in Proc, ReadRatings(p)
    PROVE  Covered'
<1> DEFINE s == WithPc(proc[p], "write")
           r == WithRatings(s, RatingsOf(proc[p].table.battles))
<1>1. /\ proc[p].pc = "ratings"
      /\ UNCHANGED <<battle, closed, event, rating, standings, jobs, faults>>
  BY DEF ReadRatings, At
<1>2. Put(p, r)
  BY DEF ReadRatings, Continue, Put, WithRatings, WithPc
<1>3. /\ IsRecord(s) /\ s.pc = "write" /\ s.b = proc[p].b /\ s.table = proc[p].table
  <2>1. IsRecord(proc[p])
    BY Here DEF TInv
  <2> QED BY <2>1, WithPcIs DEF PC
<1> HIDE DEF s
<1>4. /\ IsRecord(r) /\ r.pc = "write" /\ r.b = proc[p].b
      /\ r.table = Table(proc[p].table.battles, proc[p].table.closed,
                         RatingsOf(proc[p].table.battles))
  BY <1>3, WithRatingsIs
<1> HIDE DEF r
<1>5. SoFar(proc[p]) => SoFar(r)
  <2>1. PICK bs, cs : bs = proc[p].table.battles /\ cs = proc[p].table.closed
    OBVIOUS
  <2>2. r.table.battles = bs /\ r.table = Table(bs, cs, RatingsOf(bs))
    BY <1>4, <2>1 DEF Table
  <2>3. cs = ClosedOf(bs) => r.table = TableOf(bs)
    BY <2>2 DEF Table, TableOf
  <2> QED BY <1>1, <1>4, <2>1, <2>2, <2>3 DEF SoFar, Settled
<1> QED BY <1>1, <1>2, <1>4, <1>5, TablingCovers DEF Tabling, AtTable

LEMMA WriteTableCovers ==
    ASSUME TInv, NEW p \in Proc, WriteTable(p)
    PROVE  Covered'
<1>1. /\ proc[p].pc = "write" /\ standings' = proc[p].table
      /\ UNCHANGED <<battle, closed, event, rating, jobs, faults>>
  BY DEF WriteTable, At
<1>2. PICK t : t = proc[p].table
  OBVIOUS
<1>3. PICK r : IsRecord(r) /\ Put(p, r) /\ r.pc \in {"idle", "done"} /\ (p \in Loop => r.b = proc[p].b)
  <2>1. IsRecord(proc[p])
    BY Here DEF TInv
  <2>2. "done" \in PC
    BY DEF PC
  <2>3. /\ IsRecord(WithPc(proc[p], "done")) /\ WithPc(proc[p], "done").pc = "done"
        /\ WithPc(proc[p], "done").b = proc[p].b
    BY <2>1, <2>2, WithPcIs
  <2>4. CASE p \in Loop
    BY <2>3, <2>4 DEF WriteTable, Continue, Put, WithPc
  <2>5. CASE p \notin Loop
    BY <2>5, IdleIs DEF WriteTable, Continue, Put
  <2> QED BY <2>4, <2>5
<1>4. proc'[p] = r /\ \A q \in Proc : q # p => proc'[q] = proc[q]
  BY <1>3, PutIs DEF TInv, RInv, Typed
<1>5. faults \in Nat /\ faults' \in Nat /\ faults <= faults'
  BY <1>1 DEF TInv, RInv, Typed
<1>6. StandingsCovered'
  <2>1. TableCovered(p, proc[p])
    BY DEF TInv, Covered
  <2>2. CASE Excused
    BY <1>1, <1>5, <2>2, SameWorld DEF StandingsCovered
  <2>3. CASE SoFar(proc[p])
    <3>1. Settled(t)
      BY <1>1, <1>2, <2>3 DEF SoFar
    <3>2. Settled(t)'
      BY <1>1, <1>5, <3>1, SameWorld
    <3>3. standings' = t
      BY <1>1, <1>2
    <3>4. Settled(standings)'
      BY <3>2, <3>3 DEF Settled
    <3> QED BY <3>4 DEF StandingsCovered
  <2>4. CASE \E b \in Battle : Busy(b) /\ (p \in Loop => b # proc[p].b)
    <3>1. PICK b \in Battle : Busy(b) /\ (p \in Loop => b # proc[p].b)
      BY <2>4
    <3>2. Busy(b)'
      BY <1>1, <1>3, <3>1, BusyStays DEF Busy, TInv
    <3> QED BY <3>2 DEF StandingsCovered
  <2>5. CASE \E x \in Staff : x # p /\ At(x, "table")
    BY <1>4, <2>5 DEF StandingsCovered, At, AtTable, Proc
  <2> QED BY <2>1, <2>2, <2>3, <2>4, <2>5 DEF TableCovered
<1>7. ASSUME NEW q \in Proc, NEW s, s = proc'[q] PROVE TableCovered(q, s)'
  <2>1. s.pc \notin Tabling
    <3>1. CASE q = p
      BY <1>3, <1>4, <1>7, <3>1 DEF Tabling
    <3>2. CASE q # p
      BY <1>1, <1>4, <1>7, <3>2, AloneAtTable DEF TInv, Tabling
    <3> QED BY <3>1, <3>2
  <2> QED BY <2>1 DEF TableCovered, SoFar, Tabling
<1> QED BY <1>6, <1>7, CoveredAfter

(* A reversal that is cut after its COMMIT is an exception. *)
LEMMA FaultCovers ==
    ASSUME TInv, NEW p \in Proc, Crash(p) \/ StatementFails(p)
    PROVE  Covered'
<1>1. /\ faults < MaxFaults /\ faults' = faults + 1
      /\ UNCHANGED <<battle, closed, event, rating, standings, jobs>>
  BY DEF Crash, StatementFails, Strikes
<1>2. faults \in Nat /\ faults' \in Nat /\ faults <= faults' /\ faults' > 0
  BY <1>1, RatingsAssumption DEF TInv, RInv, Typed
<1>3. CASE p \in Staff /\ proc[p].pc \in AtTable
  <2>1. proc[p].b \in Battle /\ battle[proc[p].b].reverted
    BY <1>3, Here DEF Current, Sound, AtTable, Tabling, TInv
  <2>2. \E b \in Battle : battle'[b].reverted
    BY <1>1, <2>1
  <2>3. Excused'
    BY <1>2, <2>2 DEF Excused
  <2> QED BY <2>3, ExcusedCovers
<1>4. CASE p \in Staff => proc[p].pc \notin AtTable
  <2>1. \A b \in Battle : Busy(b) => jobs'[b] \in Open
    BY <1>1 DEF Busy
  <2>2. PICK r : IsRecord(r) /\ Put(p, r) /\ r.pc \in {"idle", "failed"}
    <3>1. IsRecord(proc[p])
      BY Here DEF TInv
    <3>2. IsRecord(WithPc(proc[p], "failed")) /\ WithPc(proc[p], "failed").pc = "failed"
      BY <3>1, WithPcIs DEF PC
    <3>3. Put(p, Idle) \/ Put(p, WithPc(proc[p], "failed"))
      BY DEF Crash, StatementFails, Continue, Put, WithPc
    <3> QED BY <3>2, <3>3, IdleIs
  <2> QED BY <1>1, <1>2, <1>4, <2>1, <2>2, QuietCovers DEF Tabling
<1> QED BY <1>3, <1>4

LEMMA TableKept == TInv /\ [Next]_vars => TInv'
<1> SUFFICES ASSUME TInv, [Next]_vars PROVE Covered'
  BY Inductive DEF TInv
<1>1. ASSUME NEW b \in Battle, NEW result \in Outcomes, FinishBattle(b, result) PROVE Covered'
  BY <1>1, FinishBattleCovers, RatingsAssumption
<1>2. ASSUME NEW p \in Loop, NEW b \in Battle, Claim(p, b) \/ ClaimAgain(p, b) PROVE Covered'
  BY <1>2, ClaimCovers
<1>3. ASSUME NEW p \in Staff, NEW b \in Battle, NEW kind \in {"revert", "eloOnly"},
             Revert(p, b, kind)
      PROVE  Covered'
  BY <1>3, RevertCovers
<1>4. ASSUME NEW p \in Proc, Step(p) PROVE Covered'
  BY <1>4, LockBattleCovers, LockRatingCovers, ApplyCovers, UndoCovers, LockTableCovers,
     ReadEventsCovers, ReadMatchesCovers, ReadRatingsCovers, WriteTableCovers, EndCovers DEF Step
<1>5. ASSUME NEW p \in Proc, Crash(p) \/ StatementFails(p) PROVE Covered'
  BY <1>5, FaultCovers
<1>6. ASSUME NEW b \in Battle, ProcessResult(b) \/ Enqueue(b) PROVE Covered'
  BY <1>6, ResultCovers
<1>7. CASE UNCHANGED vars
  <2>1. faults \in Nat /\ UNCHANGED <<battle, closed, event, rating, standings, jobs, proc, faults>>
    BY <1>7 DEF vars, TInv, RInv, Typed
  <2>2. \A b \in Battle : Busy(b)' <=> Busy(b)
    BY <2>1 DEF Busy, At
  <2>3. StandingsCovered'
    BY <2>1, <2>2, SameWorld DEF TInv, Covered, StandingsCovered
  <2>4. ASSUME NEW q \in Proc, NEW s, s = proc'[q] PROVE TableCovered(q, s)'
    <3>1. TableCovered(q, s)
      BY <2>1, <2>4 DEF TInv, Covered
    <3>2. \A x \in Staff : At(x, "table")' <=> At(x, "table")
      BY <2>1 DEF At
    <3> QED BY <2>1, <2>2, <3>1, <3>2, SameWorld DEF TableCovered
  <2> QED BY <2>3, <2>4, CoveredAfter
<1> QED BY <1>1, <1>2, <1>3, <1>4, <1>5, <1>6, <1>7 DEF Next

LEMMA TableInitially == Init => TInv
<1> SUFFICES ASSUME Init PROVE Covered
  BY Initially DEF TInv
<1>1. CountingBattles = {}
  BY DEF Init, CountingBattles, Played
<1>2. RatingsOf({}) = <<>> /\ ClosedOf({}) = {}
  <2>1. UNION {BotsOf(b) : b \in {}} = {}
    OBVIOUS
  <2> QED BY <2>1 DEF RatingsOf, ClosedOf
<1>3. Settled(standings)
  <2>1. TableOf({}) = EmptyTable
    BY <1>2 DEF TableOf, EmptyTable
  <2>2. EmptyTable.battles = {}
    BY DEF EmptyTable
  <2> QED BY <1>1, <2>1, <2>2 DEF Init, Settled, Enough
<1>4. ASSUME NEW q \in Proc PROVE TableCovered(q, proc[q])
  BY IdleIs DEF Init, TableCovered, SoFar
<1> QED BY <1>3, <1>4 DEF Covered, StandingsCovered

(* When nothing is under way, the table is that of the results, the matches *)
(* and the ratings, but for the exceptions and for games of open series:    *)
(* until then a job that has not computed it since, or who reverts, is on   *)
(* the way to it.                                                           *)
THEOREM TableCorrect == Spec => []TableIsCurrent
<1>1. TInv => TableIsCurrent
  <2> SUFFICES ASSUME TInv, \A p \in Proc : At(p, "idle"),
                      \A b \in Battle : jobs[b] \notin Open, ~Excused
               PROVE  \E left \in SUBSET InSeries : standings = TableOf(CountingBattles \ left)
    BY DEF TableIsCurrent, Excused, InSeries, Open
  <2>1. \A b \in Battle : ~Busy(b)
    BY DEF Busy
  <2>2. \A p \in Staff : proc[p].pc \notin AtTable
    BY DEF At, AtTable, Tabling, Proc
  <2>3. Settled(standings)
    BY <2>1, <2>2 DEF TInv, Covered, StandingsCovered
  <2>4. PICK bs : bs = standings.battles
    OBVIOUS
  <2>5. Enough(bs) /\ standings = TableOf(bs)
    BY <2>3, <2>4 DEF Settled
  <2>6. CountingBattles \ bs \in SUBSET InSeries /\ CountingBattles \ (CountingBattles \ bs) = bs
    BY <2>5 DEF Enough
  <2> QED BY <2>5, <2>6
<1> QED BY <1>1, TableInitially, TableKept, PTL DEF Spec
=============================================================================
