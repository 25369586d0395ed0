--------------------------- MODULE CalendarProofs ---------------------------
(***************************************************************************)
(* What Calendar promises, for any entrants: its theorems are at the end.  *)
(* The lemmas before them are about Formats: what each generator draws is  *)
(* well-formed (SinglesDrawn, DoublesDrawn, LeaguesDrawn), a round robin   *)
(* and a league seat everybody fairly (RoundRobinFair, LeagueFair), the    *)
(* exchanges of a first round separate owners (SingleSeparates), and a     *)
(* bracket, played in any order and whoever wins, adds up the defeats of   *)
(* everybody (InPlayStill) and keeps the best seeds apart (SidesClimb),    *)
(* and the backtracking of a swiss round finds a way to pair everybody if  *)
(* there is one (FoundIfAny). Recursive functions and folds are treated by *)
(* a least counterexample, a minimal set of sets, which needs no operator  *)
(* argument.                                                               *)
(***************************************************************************)
EXTENDS Calendar, FiniteSetTheorems, TLAPS

-----------------------------------------------------------------------------
(* Finite sets and numbers *)

LEMMA Least ==
    ASSUME NEW S, S \subseteq Nat, S # {}
    PROVE  \E n \in S : \A m \in S : n <= m
<1> DEFINE R == {ss \in Nat \X Nat : ss[1] < ss[2]}
<1>1. IsWellFoundedOn(R, Nat)
  BY NatLessThanWellFounded DEF OpToRel
<1>2. \A m, n \in Nat : m < n => <<m, n>> \in R
  OBVIOUS
<1> HIDE DEF R
<1>3. PICK n \in S : \A m \in S : ~(<<m, n>> \in R)
  BY <1>1, WFMin
<1>4. ASSUME NEW m \in S PROVE n <= m
  <2>1. ~(m < n)
    BY <1>2, <1>3
  <2> QED BY <2>1
<1> QED BY <1>4

Minimal(T, C) == \A U \in C : U \subseteq T => U = T

(* A collection of subsets of a finite set has a smallest one. *)
LEMMA Smallest ==
    ASSUME NEW S, IsFiniteSet(S), NEW C, C \subseteq SUBSET S, C # {}
    PROVE  \E T \in C : Minimal(T, C)
<1>1. IsWellFoundedOn(StrictSubsetOrdering(S), SUBSET S)
  BY FS_StrictSubsetOrderingWellFounded, FS_FiniteSubsetsOfFinite
<1>2. PICK T \in C : \A U \in C : ~(<<U, T>> \in StrictSubsetOrdering(S))
  BY <1>1, WFMin
<1>3. \A U \in C : U \subseteq T /\ U # T => <<U, T>> \in StrictSubsetOrdering(S)
  BY DEF StrictSubsetOrdering
<1>4. Minimal(T, C)
  BY <1>2, <1>3 DEF Minimal
<1> QED BY <1>4

(* A finite set of numbers that is not empty has a last one. *)
LEMMA Greatest ==
    ASSUME NEW S, IsFiniteSet(S), S \subseteq Nat, S # {}
    PROVE  \E n \in S : \A m \in S : m <= n
<1> DEFINE Above(n) == {m \in S : m > n}
<1>1. PICK C : C = {T \in SUBSET S : \E n \in S : T = Above(n)}
  OBVIOUS
<1>2. PICK T \in C : Minimal(T, C)
  <2>1. C \subseteq SUBSET S
    BY <1>1
  <2>2. C # {}
    BY <1>1
  <2> QED BY <2>1, <2>2, Smallest
<1>3. PICK n \in S : T = Above(n)
  BY <1>1
<1>4. ASSUME NEW m \in S PROVE m <= n
  <2>1. SUFFICES ASSUME m > n PROVE FALSE
    OBVIOUS
  <2>2. Above(m) \in C /\ Above(m) \subseteq Above(n)
    <3>1. \A k \in S : k > m => k > n
      BY <2>1
    <3> QED BY <1>1, <3>1
  <2>3. Above(m) = Above(n)
    BY <1>2, <1>3, <2>2 DEF Minimal
  <2>4. m \in Above(n) /\ m \notin Above(m)
    BY <2>1
  <2> QED BY <2>3, <2>4
<1> QED BY <1>4

-----------------------------------------------------------------------------
(* Calendars, of what was entered as t *)

(* The calendar of what was entered, and who and what may occur in it.     *)
ScheduleOf(t) == InitialSchedule(t.format, t.entries, t.owner)
SlotsOf(ps) == {p.slot : p \in ps}
Slots(t) == SlotsOf(ScheduleOf(t))
Seats(t) == {NoOne} \cup Range(t.entries) \cup {p.home : p \in ScheduleOf(t)} \cup {p.away : p \in ScheduleOf(t)}
Sources(t) == {NoSource} \cup {p.homeSource : p \in ScheduleOf(t)} \cup {p.awaySource : p \in ScheduleOf(t)}
Conditions(t) == {<<>>} \cup {p.conditionalOn : p \in ScheduleOf(t)}
Byes(t) == {p \in ScheduleOf(t) : p.bye}
Origin(t, s) == CHOOSE p \in ScheduleOf(t) : p.slot = s

Pairings(t) ==
    [slot : Slots(t) \cup {<<>>}, home : Seats(t), away : Seats(t),
     homeSource : Sources(t), awaySource : Sources(t),
     bye : BOOLEAN, final : BOOLEAN, conditionalOn : Conditions(t)]

(* What is drawn is well-formed. *)
WellDrawn(t) ==
    /\ ScheduleOf(t) # {}
    /\ \A p \in ScheduleOf(t) : p \in Pairings(t) /\ p.slot # <<>>
    /\ \A p, q \in ScheduleOf(t) : p.slot = q.slot => p = q
    /\ \A p \in ScheduleOf(t) :
        \/ /\ p.homeSource = NoSource /\ p.awaySource = NoSource /\ p.conditionalOn = <<>>
           /\ p.bye => p.away = NoOne
        \/ /\ p.homeSource # NoSource /\ p.awaySource # NoSource
           /\ {p.homeSource.take, p.awaySource.take} \subseteq {"winner", "loser"}
           /\ p.home = NoOne /\ p.away = NoOne /\ ~p.bye
           /\ p.conditionalOn # <<>> =>
                \E q \in ScheduleOf(t) : /\ q.slot = p.homeSource.slot
                                         /\ q.homeSource # NoSource
                                         /\ q.homeSource.slot = p.conditionalOn

LEMMA OriginIs ==
    ASSUME NEW t, WellDrawn(t), NEW p \in ScheduleOf(t)
    PROVE  Origin(t, p.slot) = p /\ p.slot \in Slots(t)
<1>1. \A q \in ScheduleOf(t) : q.slot = p.slot => q = p
  BY DEF WellDrawn
<1> QED BY <1>1 DEF Origin, Slots, SlotsOf

LEMMA OriginOf ==
    ASSUME NEW t, WellDrawn(t), NEW s \in Slots(t)
    PROVE  Origin(t, s) \in ScheduleOf(t) /\ Origin(t, s).slot = s
<1>1. PICK p \in ScheduleOf(t) : p.slot = s
  BY DEF Slots, SlotsOf
<1> QED BY <1>1, OriginIs

LEMMA SlotsAreSlots ==
    ASSUME NEW t, WellDrawn(t), NEW s \in Slots(t)
    PROVE  s # <<>>
  BY OriginOf DEF WellDrawn

(* Every pairing is known when it is drawn, or waits for both sides. *)
IsKnown(p) ==
    /\ p.homeSource = NoSource /\ p.awaySource = NoSource /\ p.conditionalOn = <<>>
    /\ p.bye => p.away = NoOne

IsWaiting(t, p) ==
    /\ p.homeSource # NoSource /\ p.awaySource # NoSource
    /\ {p.homeSource.take, p.awaySource.take} \subseteq {"winner", "loser"}
    /\ p.home = NoOne /\ p.away = NoOne /\ ~p.bye
    /\ p.conditionalOn # <<>> =>
         \E q \in ScheduleOf(t) : /\ q.slot = p.homeSource.slot
                                  /\ q.homeSource # NoSource
                                  /\ q.homeSource.slot = p.conditionalOn

LEMMA DrawnIs ==
    ASSUME NEW t, WellDrawn(t), NEW p \in ScheduleOf(t)
    PROVE  (IsKnown(p) \/ IsWaiting(t, p)) /\ p \in Pairings(t)
  BY DEF WellDrawn, IsKnown, IsWaiting

-----------------------------------------------------------------------------
(* The calendars: powers of two *)

LEMMA PowerIs ==
    ASSUME NEW k \in Nat
    PROVE  2^k \in Nat /\ 2^k >= 1 /\ 2^k >= k
<1>1. IsFiniteSet(1..k) /\ Cardinality(1..k) = k
  BY FS_Interval
<1>2. IsFiniteSet(SUBSET (1..k)) /\ Cardinality(SUBSET (1..k)) = 2^k
  BY <1>1, FS_SUBSET
<1>3. 2^k \in Nat /\ 2^k # 0
  BY <1>2, FS_CardinalityType, FS_EmptySet
<1>4. [x \in 1..k |-> {x}] \in Injection(1..k, SUBSET (1..k))
  BY DEF Injection, IsInjective
<1>5. k <= 2^k
  BY <1>1, <1>2, <1>4, FS_Injection
<1> QED BY <1>3, <1>5

LEMMA PowerDoubles ==
    ASSUME NEW k \in Nat
    PROVE  2^(k + 1) = 2 * 2^k
<1> DEFINE A == SUBSET (1..k)
           f == [s \in A |-> s \cup {k + 1}]
           B == {s \cup {k + 1} : s \in A}
<1>1. IsFiniteSet(1..k) /\ Cardinality(1..k) = k /\ IsFiniteSet(1..(k + 1)) /\ Cardinality(1..(k + 1)) = k + 1
  BY FS_Interval
<1>2. IsFiniteSet(A) /\ Cardinality(A) = 2^k /\ Cardinality(SUBSET (1..(k + 1))) = 2^(k + 1)
  BY <1>1, FS_SUBSET
<1>3. f \in Bijection(A, B)
  <2>1. f \in [A -> B]
    OBVIOUS
  <2>2. ASSUME NEW s \in A, NEW u \in A, f[s] = f[u] PROVE s = u
    <3>1. k + 1 \notin s /\ k + 1 \notin u
      OBVIOUS
    <3> QED BY <2>2, <3>1
  <2>3. \A b \in B : \E s \in A : f[s] = b
    OBVIOUS
  <2> HIDE DEF f, A, B
  <2> QED BY <2>1, <2>2, <2>3 DEF Bijection, Injection, Surjection, IsInjective
<1>4. IsFiniteSet(B) /\ Cardinality(B) = Cardinality(A)
  <2> HIDE DEF A, B
  <2>1. ExistsBijection(A, B)
    BY <1>3 DEF ExistsBijection
  <2> QED BY <1>2, <2>1, FS_Bijection
<1>5. A \cap B = {}
  <2>1. \A s \in A : k + 1 \notin s
    OBVIOUS
  <2> QED BY <2>1
<1>6. A \cup B = SUBSET (1..(k + 1))
  <2>1. ASSUME NEW s \in SUBSET (1..(k + 1)) PROVE s \in A \cup B
    <3>1. 1..(k + 1) = (1..k) \cup {k + 1}
      OBVIOUS
    <3>2. CASE k + 1 \notin s
      BY <3>1, <3>2
    <3>3. CASE k + 1 \in s
      <4>1. s \ {k + 1} \in A /\ s = (s \ {k + 1}) \cup {k + 1}
        BY <3>1, <3>3
      <4> QED BY <4>1
    <3> QED BY <3>2, <3>3
  <2>2. ASSUME NEW s \in A PROVE s \in SUBSET (1..(k + 1)) /\ s \cup {k + 1} \in SUBSET (1..(k + 1))
    OBVIOUS
  <2>3. ASSUME NEW x \in A \cup B PROVE x \in SUBSET (1..(k + 1))
    <3>1. CASE x \in A
      BY <2>2, <3>1
    <3>2. CASE x \in B
      <4>1. PICK s \in A : x = s \cup {k + 1}
        BY <3>2
      <4> QED BY <2>2, <4>1
    <3> QED BY <2>3, <3>1, <3>2
  <2> HIDE DEF A, B
  <2> QED BY <2>1, <2>3
<1>7. Cardinality(A \cup B) = Cardinality(A) + Cardinality(B)
  <2> HIDE DEF A, B
  <2>1. Cardinality(A \cap B) = 0
    BY <1>5, FS_EmptySet
  <2>2. Cardinality(A \cup B) = Cardinality(A) + Cardinality(B) - Cardinality(A \cap B)
    BY <1>2, <1>4, FS_Union
  <2>3. Cardinality(A) \in Nat /\ Cardinality(B) \in Nat
    BY <1>2, <1>4, FS_CardinalityType
  <2> QED BY <2>1, <2>2, <2>3
<1>8. Cardinality(A \cup B) = 2^(k + 1)
  BY <1>2, <1>6
<1> HIDE DEF A, B
<1>9. 2^k \in Nat
  BY PowerIs
<1> QED BY <1>2, <1>4, <1>7, <1>8, <1>9

LEMMA Log2UpIs ==
    ASSUME NEW n \in Nat, n >= 2
    PROVE  Log2Up(n) \in 1..n /\ 2^Log2Up(n) >= n
<1> DEFINE S == {k \in Nat : 2^k >= n}
           Fits(k) == 2^k >= n /\ \A i \in 0..(k - 1) : 2^i < n
<1>1. n \in S
  BY PowerIs
<1>2. PICK k \in S : \A m \in S : k <= m
  BY <1>1, Least
<1>3. k \in 0..n
  BY <1>1, <1>2
<1>4. ASSUME NEW i \in 0..(k - 1) PROVE 2^i < n
  <2>1. i \in Nat /\ ~(k <= i) /\ 2^i \in Nat
    BY <1>3, PowerIs
  <2>2. i \notin S
    BY <1>2, <2>1
  <2> QED BY <2>1, <2>2
<1>5. \E m \in 0..n : Fits(m)
  BY <1>2, <1>3, <1>4
<1>6. PICK j : j = Log2Up(n)
  OBVIOUS
<1>7. j \in 0..n /\ Fits(j)
  BY <1>5, <1>6 DEF Log2Up
<1>8. j # 0
  <2> SUFFICES ASSUME j = 0 PROVE FALSE
    OBVIOUS
  <2>1. 2^j >= n
    BY <1>7
  <2>2. 2^j = 2^0 /\ 2^0 = 1
    OBVIOUS
  <2>3. 1 >= n
    BY <2>1, <2>2
  <2> QED BY <2>3
<1> QED BY <1>6, <1>7, <1>8

-----------------------------------------------------------------------------
(* The calendars: what is drawn is well-formed *)

IsPairing(p) ==
    /\ p = [slot |-> p.slot, home |-> p.home, away |-> p.away,
            homeSource |-> p.homeSource, awaySource |-> p.awaySource,
            bye |-> p.bye, final |-> p.final, conditionalOn |-> p.conditionalOn]
    /\ p.bye \in BOOLEAN /\ p.final \in BOOLEAN

LEMMA KnownShape ==
    ASSUME NEW slot, NEW home, NEW away, NEW p, p = Known(slot, home, away)
    PROVE  IsPairing(p) /\ IsKnown(p) /\ p.slot = slot /\ p.home = home /\ p.away = away /\ ~p.bye /\ ~p.final
  BY DEF Known, IsPairing, IsKnown

LEMMA RestingShape ==
    ASSUME NEW slot, NEW id, NEW p, p = Resting(slot, id)
    PROVE  IsPairing(p) /\ IsKnown(p) /\ p.slot = slot /\ p.home = id /\ p.away = NoOne /\ p.bye /\ ~p.final
  BY DEF Known, Resting, IsPairing, IsKnown

(* A pairing of the draw that waits for two matches, and on no condition.  *)
IsOpen(p) ==
    /\ p.homeSource # NoSource /\ p.awaySource # NoSource
    /\ {p.homeSource.take, p.awaySource.take} \subseteq {"winner", "loser"}
    /\ p.home = NoOne /\ p.away = NoOne /\ ~p.bye

LEMMA SourceIs ==
    ASSUME NEW slot
    PROVE  /\ WinnerOf(slot) # NoSource /\ WinnerOf(slot).take = "winner" /\ WinnerOf(slot).slot = slot
           /\ LoserOf(slot) # NoSource /\ LoserOf(slot).take = "loser" /\ LoserOf(slot).slot = slot
<1>1. WinnerOf(slot).take = "winner" /\ LoserOf(slot).take = "loser" /\ NoSource.take = "none"
  BY DEF WinnerOf, LoserOf, NoSource
<1> QED BY <1>1 DEF WinnerOf, LoserOf

IsSource(s) == s # NoSource /\ s.take \in {"winner", "loser"}

LEMMA AwaitingShape ==
    ASSUME NEW slot, NEW x, IsSource(x), NEW y, IsSource(y), NEW p, p = Awaiting(slot, x, y)
    PROVE  /\ IsPairing(p) /\ IsOpen(p) /\ p.slot = slot /\ p.homeSource = x /\ p.awaySource = y
           /\ p.conditionalOn = <<>> /\ ~p.final
  BY DEF Known, Awaiting, IsPairing, IsOpen, IsSource

LEMMA FinalShape ==
    ASSUME NEW p, IsPairing(p), NEW final \in BOOLEAN, NEW q, q = [p EXCEPT !.final = final]
    PROVE  /\ IsPairing(q) /\ q.slot = p.slot /\ q.home = p.home /\ q.away = p.away /\ q.bye = p.bye
           /\ q.homeSource = p.homeSource /\ q.awaySource = p.awaySource
           /\ q.conditionalOn = p.conditionalOn /\ q.final = final
<1>1. PICK slot, home, away, hs, as, bye, f, c :
        p = [slot |-> slot, home |-> home, away |-> away, homeSource |-> hs, awaySource |-> as,
             bye |-> bye, final |-> f, conditionalOn |-> c]
  BY DEF IsPairing
<1>2. q = [slot |-> slot, home |-> home, away |-> away, homeSource |-> hs, awaySource |-> as,
           bye |-> bye, final |-> final, conditionalOn |-> c]
  BY <1>1
<1> QED BY <1>1, <1>2 DEF IsPairing

(* A drawn pairing, and a calendar of such pairings. *)
IsDrawn(p) ==
    /\ IsPairing(p) /\ p.slot # <<>>
    /\ IsKnown(p) \/ (IsOpen(p) /\ p.conditionalOn = <<>>)

Distinct(ps) == \A p, q \in ps : p.slot = q.slot => p = q

LEMMA DrawnCalendar ==
    ASSUME NEW t, ScheduleOf(t) # {}, Distinct(ScheduleOf(t)),
           \A p \in ScheduleOf(t) :
              IsDrawn(p) \/ (IsPairing(p) /\ p.slot # <<>> /\ IsOpen(p) /\ IsWaiting(t, p))
    PROVE  WellDrawn(t)
<1>1. ASSUME NEW p \in ScheduleOf(t), IsPairing(p) PROVE p \in Pairings(t)
  <2>1. /\ p.slot \in Slots(t) /\ p.home \in Seats(t) /\ p.away \in Seats(t)
        /\ p.homeSource \in Sources(t) /\ p.awaySource \in Sources(t) /\ p.conditionalOn \in Conditions(t)
    BY DEF Slots, SlotsOf, Seats, Sources, Conditions
  <2>2. p.bye \in BOOLEAN /\ p.final \in BOOLEAN
    BY <1>1 DEF IsPairing
  <2>3. [slot |-> p.slot, home |-> p.home, away |-> p.away,
            homeSource |-> p.homeSource, awaySource |-> p.awaySource,
            bye |-> p.bye, final |-> p.final, conditionalOn |-> p.conditionalOn] \in Pairings(t)
    BY <2>1, <2>2 DEF Pairings
  <2> QED BY <1>1, <2>3 DEF IsPairing
<1>2. ASSUME NEW p \in ScheduleOf(t)
      PROVE  IsPairing(p) /\ p.slot # <<>> /\ (IsKnown(p) \/ IsWaiting(t, p))
  <2>1. CASE IsDrawn(p)
    BY <2>1 DEF IsDrawn, IsOpen, IsWaiting
  <2>2. CASE IsPairing(p) /\ p.slot # <<>> /\ IsOpen(p) /\ IsWaiting(t, p)
    BY <2>2
  <2> QED BY <2>1, <2>2
<1>3. \A p \in ScheduleOf(t) : p \in Pairings(t) /\ p.slot # <<>>
  BY <1>1, <1>2
<1>4. \A p, q \in ScheduleOf(t) : p.slot = q.slot => p = q
  BY DEF Distinct
<1>5. \A p \in ScheduleOf(t) :
        \/ /\ p.homeSource = NoSource /\ p.awaySource = NoSource /\ p.conditionalOn = <<>>
           /\ p.bye => p.away = NoOne
        \/ /\ p.homeSource # NoSource /\ p.awaySource # NoSource
           /\ {p.homeSource.take, p.awaySource.take} \subseteq {"winner", "loser"}
           /\ p.home = NoOne /\ p.away = NoOne /\ ~p.bye
           /\ p.conditionalOn # <<>> =>
                \E q \in ScheduleOf(t) : /\ q.slot = p.homeSource.slot
                                         /\ q.homeSource # NoSource
                                         /\ q.homeSource.slot = p.conditionalOn
  BY <1>2 DEF IsKnown, IsWaiting
<1> QED BY <1>3, <1>4, <1>5 DEF WellDrawn

-----------------------------------------------------------------------------
(* The calendars: round robin and league *)

(* Who takes part. *)
IsField(ids) == ids \in Seq(Range(ids)) /\ Len(ids) >= 2

Circle(ids) == IF Len(ids) % 2 = 1 THEN Append(ids, NoOne) ELSE ids

Full(ids) == IF Len(ids) % 2 = 1 THEN Len(ids) + 1 ELSE Len(ids)

(* The pairing of a table of the circle is one of four. *)
IsTable(slot, a, b, p) ==
    p \in {Resting(slot, a), Resting(slot, b), Known(slot, a, b), Known(slot, b, a)}

Met(all, startRound, swapSides, r, i) ==
    LET a == all[Seat(Len(all), r, i) + 1]
        b == all[Seat(Len(all), r, Len(all) - 1 - i) + 1]
        slot == <<"RR", startRound + r, i + 1>>
    IN CASE a = NoOne -> Resting(slot, b)
         [] b = NoOne -> Resting(slot, a)
         [] OTHER -> IF ((r + i) % 2 = 0) # swapSides THEN Known(slot, a, b) ELSE Known(slot, b, a)

Rounds(n) == 0..(n - 2)
Tables(n) == 0..((n \div 2) - 1)

LEMMA CircleIs ==
    ASSUME NEW ids, IsField(ids)
    PROVE  /\ Circle(ids) \in Seq({NoOne} \cup Range(ids))
           /\ Len(Circle(ids)) = Full(ids) /\ Full(ids) \in Nat /\ Full(ids) >= 2
<1>1. Len(ids) \in Nat /\ Len(ids) >= 2
  BY DEF IsField
<1>2. ids \in Seq({NoOne} \cup Range(ids))
  BY DEF IsField
<1>3. Append(ids, NoOne) \in Seq({NoOne} \cup Range(ids)) /\ Len(Append(ids, NoOne)) = Len(ids) + 1
  BY <1>2
<1> QED BY <1>1, <1>2, <1>3 DEF Circle, Full

LEMMA RoundRobinIs ==
    ASSUME NEW ids, NEW startRound, NEW swapSides
    PROVE  RoundRobin(ids, startRound, swapSides) =
             {Met(Circle(ids), startRound, swapSides, r, i) :
                r \in Rounds(Len(Circle(ids))), i \in Tables(Len(Circle(ids)))}
  BY DEF RoundRobin, Circle, Met, Rounds, Tables

LEMMA TableShape ==
    ASSUME NEW S, NEW slot, NEW a \in S, NEW b \in S, NoOne \in S, NEW p, IsTable(slot, a, b, p)
    PROVE  IsPairing(p) /\ IsKnown(p) /\ p.slot = slot /\ p.home \in S /\ p.away \in S /\ ~p.final
<1>1. CASE p = Resting(slot, b)
  BY <1>1, RestingShape
<1>2. CASE p = Resting(slot, a)
  BY <1>2, RestingShape
<1>3. CASE p = Known(slot, a, b)
  BY <1>3, KnownShape
<1>4. CASE p = Known(slot, b, a)
  BY <1>4, KnownShape
<1> QED BY <1>1, <1>2, <1>3, <1>4 DEF IsTable

LEMMA MetIs ==
    ASSUME NEW all, NEW startRound, NEW swapSides, NEW r, NEW i
    PROVE  IsTable(<<"RR", startRound + r, i + 1>>, all[Seat(Len(all), r, i) + 1],
                   all[Seat(Len(all), r, Len(all) - 1 - i) + 1], Met(all, startRound, swapSides, r, i))
<1>1. PICK a, b : a = all[Seat(Len(all), r, i) + 1] /\ b = all[Seat(Len(all), r, Len(all) - 1 - i) + 1]
  OBVIOUS
<1>2. PICK slot : slot = <<"RR", startRound + r, i + 1>>
  OBVIOUS
<1>3. PICK first : first = (((r + i) % 2 = 0) # swapSides)
  OBVIOUS
<1>4. PICK p : p = Met(all, startRound, swapSides, r, i)
  OBVIOUS
<1>5. CASE a = NoOne
  <2>1. p = Resting(slot, b)
    BY <1>1, <1>2, <1>4, <1>5 DEF Met
  <2> QED BY <1>1, <1>2, <1>4, <2>1 DEF IsTable
<1>6. CASE a # NoOne /\ b = NoOne
  <2>1. p = Resting(slot, a)
    BY <1>1, <1>2, <1>4, <1>6 DEF Met
  <2> QED BY <1>1, <1>2, <1>4, <2>1 DEF IsTable
<1>7. CASE a # NoOne /\ b # NoOne
  <2>1. p = Known(slot, a, b) \/ p = Known(slot, b, a)
    BY <1>1, <1>2, <1>4, <1>7 DEF Met
  <2> QED BY <1>1, <1>2, <1>4, <2>1 DEF IsTable
<1> QED BY <1>5, <1>6, <1>7

LEMMA SeatIs ==
    ASSUME NEW n \in Nat, n >= 2, NEW r \in Int, NEW i \in Int
    PROVE  Seat(n, r, i) + 1 \in 1..n
<1>1. (i - 1 - r) % (n - 1) \in 0..(n - 2)
  OBVIOUS
<1> QED BY <1>1 DEF Seat

(* What a double round of pairings is, drawn on the field ids from a round on. *)
IsRoundRobin(ids, start, A) ==
    /\ A # {} /\ Distinct(A)
    /\ \A p \in A : /\ IsDrawn(p) /\ ~p.final
                    /\ p.home \in {NoOne} \cup Range(ids) /\ p.away \in {NoOne} \cup Range(ids)
                    /\ \E r \in Rounds(Full(ids)), i \in Tables(Full(ids)) : p.slot = <<"RR", start + r, i + 1>>

LEMMA RoundRobinShape ==
    ASSUME NEW ids, IsField(ids), NEW start \in Nat, NEW swapSides
    PROVE  IsRoundRobin(ids, start, RoundRobin(ids, start, swapSides))
<1>1. PICK all : all = Circle(ids)
  OBVIOUS
<1>2. PICK n : n = Full(ids)
  OBVIOUS
<1>3. PICK S : S = {NoOne} \cup Range(ids)
  OBVIOUS
<1>4. all \in Seq(S) /\ Len(all) = n /\ n \in Nat /\ n >= 2
  BY <1>1, <1>2, <1>3, CircleIs
<1>5. PICK A : A = RoundRobin(ids, start, swapSides)
  OBVIOUS
<1>6. A = {Met(all, start, swapSides, r, i) : r \in Rounds(n), i \in Tables(n)}
  BY <1>1, <1>4, <1>5, RoundRobinIs
<1>7. A # {}
  <2>1. 0 \in Rounds(n) /\ 0 \in Tables(n)
    BY <1>4 DEF Rounds, Tables
  <2> QED BY <1>6, <2>1
<1>8. ASSUME NEW r \in Rounds(n), NEW i \in Tables(n), NEW p, p = Met(all, start, swapSides, r, i)
      PROVE  /\ IsPairing(p) /\ IsKnown(p) /\ p.slot = <<"RR", start + r, i + 1>>
             /\ p.home \in S /\ p.away \in S /\ ~p.final
  <2>1. r \in Int /\ i \in Int /\ n - 1 - i \in Int
    BY <1>4 DEF Rounds, Tables
  <2>2. Seat(n, r, i) + 1 \in 1..n /\ Seat(n, r, n - 1 - i) + 1 \in 1..n
    BY <1>4, <2>1, SeatIs
  <2>3. PICK a, b : a = all[Seat(n, r, i) + 1] /\ b = all[Seat(n, r, n - 1 - i) + 1]
    OBVIOUS
  <2>4. a \in S /\ b \in S /\ NoOne \in S
    BY <1>3, <1>4, <2>2, <2>3
  <2>5. IsTable(<<"RR", start + r, i + 1>>, a, b, p)
    BY <1>4, <1>8, <2>3, MetIs
  <2> QED BY <2>4, <2>5, TableShape
<1>9. ASSUME NEW p \in A
      PROVE  /\ IsDrawn(p) /\ ~p.final /\ p.home \in S /\ p.away \in S
             /\ \E r \in Rounds(n), i \in Tables(n) : p.slot = <<"RR", start + r, i + 1>>
  <2>1. PICK r \in Rounds(n), i \in Tables(n) : p = Met(all, start, swapSides, r, i)
    BY <1>6
  <2>2. /\ IsPairing(p) /\ IsKnown(p) /\ p.slot = <<"RR", start + r, i + 1>>
        /\ p.home \in S /\ p.away \in S /\ ~p.final
    BY <1>8, <2>1
  <2>3. p.slot # <<>>
    BY <2>2
  <2> QED BY <2>2, <2>3 DEF IsDrawn
<1>10. ASSUME NEW p \in A, NEW q \in A, p.slot = q.slot PROVE p = q
  <2>1. PICK r \in Rounds(n), i \in Tables(n) : p = Met(all, start, swapSides, r, i)
    BY <1>6
  <2>2. PICK s \in Rounds(n), j \in Tables(n) : q = Met(all, start, swapSides, s, j)
    BY <1>6
  <2>3. p.slot = <<"RR", start + r, i + 1>> /\ q.slot = <<"RR", start + s, j + 1>>
    BY <1>8, <2>1, <2>2
  <2>31. <<"RR", start + r, i + 1>> = <<"RR", start + s, j + 1>>
    BY <1>10, <2>3
  <2>4. start + r = start + s /\ i + 1 = j + 1
    BY <2>31
  <2>5. r = s /\ i = j
    BY <1>4, <2>4 DEF Rounds, Tables
  <2> QED BY <2>1, <2>2, <2>5
<1>11. Distinct(A)
  BY <1>10 DEF Distinct
<1> QED BY <1>2, <1>3, <1>5, <1>7, <1>9, <1>11 DEF IsRoundRobin

Leg(ids) == IF Len(ids) % 2 = 0 THEN Len(ids) - 1 ELSE Len(ids)

LEMMA LeagueIs ==
    ASSUME NEW ids
    PROVE  League(ids, 2) = UNION {RoundRobin(ids, leg * Leg(ids) + 1, leg % 2 = 1) : leg \in {0, 1}}
<1>1. 0..(2 - 1) = {0, 1}
  OBVIOUS
<1> QED BY <1>1 DEF League, Leg

LEMMA LegOf ==
    ASSUME NEW ids, NEW p \in League(ids, 2)
    PROVE  \/ p \in RoundRobin(ids, 0 * Leg(ids) + 1, 0 % 2 = 1)
           \/ p \in RoundRobin(ids, 1 * Leg(ids) + 1, 1 % 2 = 1)
  BY LeagueIs

LEMMA FirstLegIn ==
    ASSUME NEW ids
    PROVE  RoundRobin(ids, 0 * Leg(ids) + 1, 0 % 2 = 1) \subseteq League(ids, 2)
  BY LeagueIs

(* Every pairing of a league is one of its two legs, which have no slot in common. *)
LEMMA LeagueShape ==
    ASSUME NEW ids, IsField(ids)
    PROVE  /\ League(ids, 2) # {} /\ Distinct(League(ids, 2))
           /\ \A p \in League(ids, 2) : /\ IsDrawn(p) /\ ~p.final
                    /\ p.home \in {NoOne} \cup Range(ids) /\ p.away \in {NoOne} \cup Range(ids)
<1>1. Len(ids) \in Nat /\ Len(ids) >= 2
  BY DEF IsField
<1>2. Leg(ids) \in Nat /\ Full(ids) = Leg(ids) + 1 /\ Leg(ids) >= 1
  BY <1>1 DEF Leg, Full
<1>3. PICK a, b : a = 0 * Leg(ids) + 1 /\ b = 1 * Leg(ids) + 1
  OBVIOUS
<1>4. a \in Nat /\ b \in Nat /\ a = 1 /\ b = Leg(ids) + 1
  BY <1>2, <1>3
<1>5. PICK A : A = RoundRobin(ids, a, 0 % 2 = 1)
  OBVIOUS
<1>6. PICK B : B = RoundRobin(ids, b, 1 % 2 = 1)
  OBVIOUS
<1>7. IsRoundRobin(ids, a, A)
  BY <1>4, <1>5, RoundRobinShape
<1>8. IsRoundRobin(ids, b, B)
  BY <1>4, <1>6, RoundRobinShape
<1>9. League(ids, 2) \subseteq A \cup B
  BY <1>3, <1>5, <1>6, LegOf
<1>10. League(ids, 2) # {}
  BY <1>3, <1>5, <1>7, FirstLegIn DEF IsRoundRobin
<1>11. ASSUME NEW p \in A, NEW q \in B PROVE p.slot # q.slot
  <2>1. PICK r \in Rounds(Full(ids)), i \in Tables(Full(ids)) : p.slot = <<"RR", a + r, i + 1>>
    BY <1>7 DEF IsRoundRobin
  <2>2. PICK s \in Rounds(Full(ids)), j \in Tables(Full(ids)) : q.slot = <<"RR", b + s, j + 1>>
    BY <1>8 DEF IsRoundRobin
  <2>3. a + r # b + s
    BY <1>2, <1>4 DEF Rounds
  <2> QED BY <2>1, <2>2, <2>3
<1>12. Distinct(League(ids, 2))
  BY <1>7, <1>8, <1>9, <1>11 DEF IsRoundRobin, Distinct
<1> QED BY <1>7, <1>8, <1>9, <1>10, <1>12 DEF IsRoundRobin

LEMMA LeaguesDrawn ==
    ASSUME NEW t, IsField(t.entries),
           t.format \in {"league", "round_robin"}
    PROVE  /\ WellDrawn(t) /\ Seats(t) \subseteq {NoOne} \cup Range(t.entries)
           /\ \A p \in ScheduleOf(t) : ~p.final
<1>1. PICK ids : ids = t.entries
  OBVIOUS
<1>2. PICK A : A = ScheduleOf(t)
  OBVIOUS
<1>3. /\ A # {} /\ Distinct(A)
      /\ \A p \in A : /\ IsDrawn(p) /\ ~p.final
                      /\ p.home \in {NoOne} \cup Range(ids) /\ p.away \in {NoOne} \cup Range(ids)
  <2>1. CASE t.format = "league"
    <3>1. A = League(ids, 2)
      BY <1>1, <1>2, <2>1 DEF ScheduleOf, InitialSchedule
    <3> QED BY <1>1, <3>1, LeagueShape
  <2>2. CASE t.format = "round_robin"
    <3>1. A = RoundRobin(ids, 1, FALSE)
      BY <1>1, <1>2, <2>2 DEF ScheduleOf, InitialSchedule
    <3>2. IsRoundRobin(ids, 1, RoundRobin(ids, 1, FALSE))
      BY <1>1, RoundRobinShape
    <3> QED BY <3>1, <3>2 DEF IsRoundRobin
  <2> QED BY <2>1, <2>2
<1>4. WellDrawn(t)
  BY <1>2, <1>3, DrawnCalendar
<1>5. Seats(t) \subseteq {NoOne} \cup Range(t.entries)
  BY <1>1, <1>2, <1>3 DEF Seats
<1> QED BY <1>2, <1>3, <1>4, <1>5

-----------------------------------------------------------------------------
(* The calendars: the seeds of a bracket *)

Doubled(seeds, i) ==
    [j \in 1..2^i |-> LET x == seeds[(j + 1) \div 2] IN IF j % 2 = 1 THEN x ELSE 2^i + 1 - x]

SeedsAt(f, i) == IF i = 1 THEN <<1, 2>> ELSE Doubled(f[i - 1], i)

IsSeeding(f, k) == f = [i \in 1..k |-> SeedsAt(f, i)]

LEMMA SeedPositionsIs ==
    ASSUME NEW k
    PROVE  SeedPositions(k) = (CHOOSE f : IsSeeding(f, k))[k]
  BY DEF SeedPositions, IsSeeding, SeedsAt, Doubled

LEMMA SeedingExists ==
    ASSUME NEW k \in Nat
    PROVE  \E f : IsSeeding(f, k)
<1> DEFINE S == {n \in Nat : ~\E f : IsSeeding(f, n)}
<1> SUFFICES ASSUME S # {} PROVE FALSE
  OBVIOUS
<1>1. PICK n \in S : \A m \in S : n <= m
  <2>1. S \subseteq Nat
    OBVIOUS
  <2> HIDE DEF S
  <2> QED BY <2>1, Least
<1>2. CASE n = 0
  <2>1. IsSeeding([i \in 1..0 |-> i], 0)
    BY DEF IsSeeding
  <2> QED BY <1>2, <2>1
<1>3. CASE n # 0
  <2>1. n - 1 \in Nat /\ ~(n <= n - 1)
    BY <1>3
  <2>2. PICK g : IsSeeding(g, n - 1)
    BY <1>1, <2>1
  <2>3. PICK v : v = SeedsAt(g, n)
    OBVIOUS
  <2>4. PICK f : f = [i \in 1..n |-> IF i < n THEN g[i] ELSE v]
    OBVIOUS
  <2>5. ASSUME NEW i \in 1..n PROVE f[i] = SeedsAt(f, i)
    <3>1. i # 1 => i - 1 \in 1..(n - 1)
      OBVIOUS
    <3>2. i # 1 => f[i - 1] = g[i - 1]
      BY <2>4, <3>1
    <3>3. SeedsAt(f, i) = SeedsAt(g, i)
      BY <3>2 DEF SeedsAt
    <3>4. CASE i < n
      <4>1. i \in 1..(n - 1)
        BY <3>4
      <4>2. g[i] = SeedsAt(g, i)
        BY <2>2, <4>1 DEF IsSeeding
      <4> QED BY <2>4, <3>3, <3>4, <4>2
    <3>5. CASE ~(i < n)
      <4>1. i = n
        BY <3>5
      <4> QED BY <2>3, <2>4, <3>3, <4>1
    <3> QED BY <3>4, <3>5
  <2>6. f = [i \in 1..n |-> SeedsAt(f, i)]
    <3>1. f = [i \in 1..n |-> f[i]]
      BY <2>4
    <3> QED BY <2>5, <3>1
  <2>7. IsSeeding(f, n)
    BY <2>6 DEF IsSeeding
  <2> QED BY <2>7
<1> QED BY <1>2, <1>3

LEMMA DoubledIs ==
    ASSUME NEW i \in Nat, NEW seeds \in [1..2^i -> 1..2^i]
    PROVE  Doubled(seeds, i + 1) \in [1..2^(i + 1) -> 1..2^(i + 1)]
<1>1. PICK h : h = 2^i
  OBVIOUS
<1>2. PICK n : n = 2^(i + 1)
  OBVIOUS
<1>3. h \in Nat /\ n = 2 * h
  BY <1>1, <1>2, PowerIs, PowerDoubles
<1>4. seeds \in [1..h -> 1..h]
  BY <1>1
<1>5. ASSUME NEW j \in 1..n
      PROVE  (IF j % 2 = 1 THEN seeds[(j + 1) \div 2] ELSE n + 1 - seeds[(j + 1) \div 2]) \in 1..n
  <2>1. (j + 1) \div 2 \in 1..h
    BY <1>3
  <2>2. PICK x : x = seeds[(j + 1) \div 2]
    OBVIOUS
  <2>3. x \in 1..h
    BY <1>4, <2>1, <2>2
  <2>4. x \in 1..n /\ n + 1 - x \in 1..n
    BY <1>3, <2>3
  <2> QED BY <2>2, <2>4
<1>6. Doubled(seeds, i + 1) =
        [j \in 1..n |-> IF j % 2 = 1 THEN seeds[(j + 1) \div 2] ELSE n + 1 - seeds[(j + 1) \div 2]]
  BY <1>2 DEF Doubled
<1> QED BY <1>2, <1>5, <1>6

(* Every place of the bracket has a seed of it. *)
LEMMA SeedPositionsType ==
    ASSUME NEW k \in Nat, k >= 1
    PROVE  SeedPositions(k) \in [1..2^k -> 1..2^k]
<1>1. PICK f : f = CHOOSE g : IsSeeding(g, k)
  OBVIOUS
<1>2. IsSeeding(f, k)
  BY <1>1, SeedingExists
<1>3. \A i \in 1..k : f[i] = SeedsAt(f, i)
  BY <1>2 DEF IsSeeding
<1> DEFINE S == {i \in 1..k : f[i] \notin [1..2^i -> 1..2^i]}
<1>4. S = {}
  <2> SUFFICES ASSUME S # {} PROVE FALSE
    OBVIOUS
  <2>1. PICK i \in S : \A m \in S : i <= m
    <3>1. S \subseteq Nat
      OBVIOUS
    <3> HIDE DEF S
    <3> QED BY <3>1, Least
  <2>2. CASE i = 1
    <3>1. 2^1 = 2 /\ f[1] = <<1, 2>>
      BY <1>3, <2>2 DEF SeedsAt
    <3>2. <<1, 2>> \in [1..2 -> 1..2]
      OBVIOUS
    <3> QED BY <2>1, <2>2, <3>1, <3>2
  <2>3. CASE i # 1
    <3>1. PICK j : j = i - 1
      OBVIOUS
    <3>2. j \in 1..k /\ j \in Nat /\ i = j + 1 /\ ~(i <= j)
      BY <2>3, <3>1
    <3>3. f[j] \in [1..2^j -> 1..2^j]
      BY <2>1, <3>2
    <3>4. Doubled(f[j], j + 1) \in [1..2^(j + 1) -> 1..2^(j + 1)]
      BY <3>2, <3>3, DoubledIs
    <3>5. f[i] = Doubled(f[j], i)
      BY <1>3, <2>3, <3>1 DEF SeedsAt
    <3>6. f[i] \in [1..2^i -> 1..2^i]
      BY <3>2, <3>4, <3>5
    <3> QED BY <3>6
  <2> QED BY <2>2, <2>3
<1> QED BY <1>1, <1>4, SeedPositionsIs

-----------------------------------------------------------------------------
(* The calendars: the first round of a bracket, after the exchanges *)

Plain(D) == [i \in D |-> i]

SwapBody(owner, base, D, h, s) ==
    IF s = {} THEN base ELSE AvoidAt(owner, h[s \ {Max(s)}], Plain(D)[Max(s)])

IsSwapping(owner, base, D, h) == h = [s \in SUBSET DOMAIN Plain(D) |-> SwapBody(owner, base, D, h, s)]

Swapped(owner, tables, D) == (CHOOSE h : IsSwapping(owner, tables, D, h))[DOMAIN Plain(D)]

Placed(ids, k) ==
    [m \in 1..2^(k - 1) |->
        <<IF SeedPositions(k)[2 * m - 1] <= Len(ids) THEN ids[SeedPositions(k)[2 * m - 1]] ELSE NoOne,
          IF SeedPositions(k)[2 * m] <= Len(ids) THEN ids[SeedPositions(k)[2 * m]] ELSE NoOne>>]

LEMMA FirstRoundIs ==
    ASSUME NEW ids, NEW owner, NEW k
    PROVE  FirstRound(ids, owner, k) = Swapped(owner, Placed(ids, k), DOMAIN Placed(ids, k))
  BY DEF FirstRound, Placed, FoldLeftDomain, FoldLeft, MapThenFoldSet, Swapped, IsSwapping, SwapBody, Plain

(* The fold over the subsets of T. *)
IsFold(owner, base, D, T, h) == h = [s \in SUBSET T |-> SwapBody(owner, base, D, h, s)]

FoldValue(owner, base, D, T) == (CHOOSE h : IsFold(owner, base, D, T, h))[T]

Indices(D) == IsFiniteSet(D) /\ D \subseteq Nat

LEMMA LastIn ==
    ASSUME NEW D, Indices(D), NEW s \in SUBSET D, s # {}
    PROVE  Max(s) \in s
<1>1. IsFiniteSet(s) /\ s \subseteq Nat
  BY FS_Subset DEF Indices
<1>2. \E n \in s : \A m \in s : m <= n
  BY <1>1, Greatest
<1>3. \E n \in s : \A m \in s : n >= m
  BY <1>1, <1>2
<1> QED BY <1>3 DEF Max

LEMMA FoldUnique ==
    ASSUME NEW owner, NEW base, NEW D, Indices(D), NEW T \in SUBSET D,
           NEW g, NEW h, IsFold(owner, base, D, T, g), IsFold(owner, base, D, T, h)
    PROVE  \A s \in SUBSET T : g[s] = h[s]
<1> SUFFICES ASSUME NEW s0 \in SUBSET T, g[s0] # h[s0] PROVE FALSE
  OBVIOUS
<1> DEFINE W == {s \in SUBSET T : g[s] # h[s]}
<1>1. PICK U \in W : Minimal(U, W)
  <2>1. W \subseteq SUBSET T /\ W # {} /\ IsFiniteSet(T)
    BY FS_Subset DEF Indices
  <2> HIDE DEF W
  <2> QED BY <2>1, Smallest
<1>2. g[U] = SwapBody(owner, base, D, g, U) /\ h[U] = SwapBody(owner, base, D, h, U)
  BY DEF IsFold
<1>3. CASE U = {}
  BY <1>2, <1>3 DEF SwapBody
<1>4. CASE U # {}
  <2>1. Max(U) \in U
    BY <1>4, LastIn
  <2>2. g[U \ {Max(U)}] = h[U \ {Max(U)}]
    BY <1>1, <2>1 DEF Minimal
  <2> QED BY <1>2, <1>4, <2>2 DEF SwapBody
<1> QED BY <1>3, <1>4

LEMMA FoldRestricted ==
    ASSUME NEW owner, NEW base, NEW D, Indices(D), NEW S \in SUBSET D,
           NEW g, IsFold(owner, base, D, S, g), NEW T \in SUBSET S
    PROVE  g[T] = FoldValue(owner, base, D, T)
<1> DEFINE r == [s \in SUBSET T |-> g[s]]
<1>1. IsFold(owner, base, D, T, r)
  <2>1. ASSUME NEW s \in SUBSET T PROVE r[s] = SwapBody(owner, base, D, r, s)
    <3>1. g[s] = SwapBody(owner, base, D, g, s)
      BY DEF IsFold
    <3>2. s # {} => Max(s) \in s
      BY LastIn
    <3> QED BY <3>1, <3>2 DEF SwapBody
  <2> QED BY <2>1 DEF IsFold
<1> HIDE DEF r
<1>2. IsFold(owner, base, D, T, CHOOSE h : IsFold(owner, base, D, T, h))
  BY <1>1
<1>3. r[T] = FoldValue(owner, base, D, T)
  BY <1>1, <1>2, FoldUnique DEF FoldValue
<1> QED BY <1>3 DEF r

LEMMA FoldExists ==
    ASSUME NEW owner, NEW base, NEW D, Indices(D), NEW S \in SUBSET D
    PROVE  \E h : IsFold(owner, base, D, S, h)
<1> DEFINE W == {T \in SUBSET S : ~\E h : IsFold(owner, base, D, T, h)}
<1> SUFFICES ASSUME W # {} PROVE FALSE
  OBVIOUS
<1>1. PICK T \in W : Minimal(T, W)
  <2>1. W \subseteq SUBSET S /\ IsFiniteSet(S)
    BY FS_Subset DEF Indices
  <2> HIDE DEF W
  <2> QED BY <2>1, Smallest
<1> DEFINE h == [s \in SUBSET T |-> IF s = {} THEN base
                                    ELSE AvoidAt(owner, FoldValue(owner, base, D, s \ {Max(s)}), Plain(D)[Max(s)])]
<1>2. ASSUME NEW u \in SUBSET T, u # T
      PROVE  h[u] = FoldValue(owner, base, D, u)
  <2>1. PICK g : IsFold(owner, base, D, u, g)
    BY <1>1, <1>2 DEF Minimal
  <2>2. \A s \in SUBSET u : g[s] = FoldValue(owner, base, D, s)
    BY <2>1, FoldRestricted
  <2>3. g[u] = SwapBody(owner, base, D, g, u)
    BY <2>1 DEF IsFold
  <2>4. u # {} => g[u \ {Max(u)}] = FoldValue(owner, base, D, u \ {Max(u)})
    BY <2>2
  <2> QED BY <2>2, <2>3, <2>4 DEF SwapBody
<1>3. ASSUME NEW s \in SUBSET T PROVE h[s] = SwapBody(owner, base, D, h, s)
  <2>1. CASE s = {}
    BY <2>1 DEF SwapBody
  <2>2. CASE s # {}
    <3>1. Max(s) \in s
      BY <2>2, LastIn
    <3>2. h[s \ {Max(s)}] = FoldValue(owner, base, D, s \ {Max(s)})
      BY <1>2, <3>1
    <3> QED BY <2>2, <3>2 DEF SwapBody
  <2> QED BY <2>1, <2>2
<1>4. IsFold(owner, base, D, T, h)
  BY <1>3 DEF IsFold
<1> QED BY <1>1, <1>4

(* An exchange moves who sits at the tables, and brings nobody in. *)
LEMMA AvoidAtType ==
    ASSUME NEW owner, NEW D, Indices(D), NEW S, NEW tables \in [D -> S \X S], NEW i \in D
    PROVE  AvoidAt(owner, tables, i) \in [D -> S \X S]
<1>1. PICK fits : fits = {j \in DOMAIN tables \ {i} :
                    /\ tables[j][2] # NoOne
                    /\ ~SameOwner(owner, tables[j][1], tables[i][2])
                    /\ ~SameOwner(owner, tables[i][1], tables[j][2])}
  OBVIOUS
<1>2. PICK j : j = Min(fits)
  OBVIOUS
<1>3. AvoidAt(owner, tables, i) =
        IF SameOwner(owner, tables[i][1], tables[i][2]) /\ fits # {}
        THEN [tables EXCEPT ![i] = <<tables[i][1], tables[j][2]>>, ![j] = <<tables[j][1], tables[i][2]>>]
        ELSE tables
  BY <1>1, <1>2 DEF AvoidAt
<1>4. CASE fits = {}
  BY <1>3, <1>4
<1>5. CASE fits # {}
  <2>1. fits \subseteq Nat /\ fits \subseteq D
    BY <1>1 DEF Indices
  <2>2. \E n \in fits : \A m \in fits : n <= m
    BY <1>5, <2>1, Least
  <2>3. j \in D
    BY <1>2, <2>1, <2>2 DEF Min
  <2>4. <<tables[i][1], tables[j][2]>> \in S \X S /\ <<tables[j][1], tables[i][2]>> \in S \X S
    BY <2>3
  <2> QED BY <1>3, <2>3, <2>4
<1> QED BY <1>4, <1>5

LEMMA SwappedType ==
    ASSUME NEW owner, NEW D, Indices(D), NEW S, NEW base \in [D -> S \X S]
    PROVE  Swapped(owner, base, D) \in [D -> S \X S]
<1>1. PICK h : h = CHOOSE g : IsFold(owner, base, D, D, g)
  OBVIOUS
<1>2. IsFold(owner, base, D, D, h)
  BY <1>1, FoldExists
<1>3. DOMAIN Plain(D) = D
  BY DEF Plain
<1>4. Swapped(owner, base, D) = h[D]
  BY <1>1, <1>3 DEF Swapped, IsSwapping, IsFold
<1> DEFINE W == {s \in SUBSET D : h[s] \notin [D -> S \X S]}
<1>5. W = {}
  <2> SUFFICES ASSUME W # {} PROVE FALSE
    OBVIOUS
  <2>1. PICK U \in W : Minimal(U, W)
    <3>1. W \subseteq SUBSET D /\ IsFiniteSet(D)
      BY DEF Indices
    <3> HIDE DEF W
    <3> QED BY <3>1, Smallest
  <2>2. h[U] = SwapBody(owner, base, D, h, U)
    BY <1>2 DEF IsFold
  <2>3. CASE U = {}
    BY <2>1, <2>2, <2>3 DEF SwapBody
  <2>4. CASE U # {}
    <3>1. Max(U) \in U
      BY <2>4, LastIn
    <3>2. PICK v : v = h[U \ {Max(U)}]
      OBVIOUS
    <3>3. v \in [D -> S \X S]
      <4>1. U \ {Max(U)} \in SUBSET D /\ U \ {Max(U)} \notin W
        BY <2>1, <3>1 DEF Minimal
      <4> QED BY <3>2, <4>1
    <3>4. Max(U) \in D /\ Plain(D)[Max(U)] = Max(U)
      BY <3>1 DEF Plain
    <3>5. h[U] = AvoidAt(owner, v, Max(U))
      BY <2>2, <2>4, <3>2, <3>4 DEF SwapBody
    <3>6. PICK i \in D : i = Max(U)
      BY <3>4
    <3>7. AvoidAt(owner, v, i) \in [D -> S \X S]
      BY <3>3, AvoidAtType
    <3>8. h[U] \in [D -> S \X S]
      BY <3>5, <3>6, <3>7
    <3> QED BY <2>1, <3>8
  <2> QED BY <2>3, <2>4
<1> QED BY <1>4, <1>5

(* Who sits at the tables of the first round is an entrant, or nobody. *)
LEMMA FirstRoundType ==
    ASSUME NEW ids, IsField(ids), NEW owner, NEW k \in Nat, k >= 1, NEW S, S = {NoOne} \cup Range(ids)
    PROVE  FirstRound(ids, owner, k) \in [1..2^(k - 1) -> S \X S]
<1>1. PICK h : h = 2^(k - 1)
  OBVIOUS
<1>2. PICK n : n = 2^k
  OBVIOUS
<1>3. h \in Nat /\ n = 2 * h
  <2>1. PICK j : j = k - 1
    OBVIOUS
  <2>2. j \in Nat /\ k = j + 1
    BY <2>1
  <2>3. 2^j \in Nat /\ 2^(j + 1) = 2 * 2^j
    BY <2>2, PowerIs, PowerDoubles
  <2> QED BY <1>1, <1>2, <2>1, <2>2, <2>3
<1>4. PICK f : f = SeedPositions(k)
  OBVIOUS
<1>5. f \in [1..n -> 1..n]
  BY <1>2, <1>4, SeedPositionsType
<1>6. ASSUME NEW x \in 1..n PROVE (IF x <= Len(ids) THEN ids[x] ELSE NoOne) \in S
  <2>1. CASE x <= Len(ids)
    <3>1. x \in 1..Len(ids)
      BY <1>3, <2>1 DEF IsField
    <3>2. ids[x] \in Range(ids)
      BY <3>1 DEF IsField
    <3> QED BY <2>1, <3>2
  <2>2. CASE ~(x <= Len(ids))
    BY <2>2
  <2> QED BY <2>1, <2>2
<1>7. Placed(ids, k) \in [1..h -> S \X S]
  <2>1. ASSUME NEW m \in 1..h
        PROVE  <<IF f[2 * m - 1] <= Len(ids) THEN ids[f[2 * m - 1]] ELSE NoOne,
                 IF f[2 * m] <= Len(ids) THEN ids[f[2 * m]] ELSE NoOne>> \in S \X S
    <3>1. 2 * m - 1 \in 1..n /\ 2 * m \in 1..n
      BY <1>3
    <3>2. f[2 * m - 1] \in 1..n /\ f[2 * m] \in 1..n
      BY <1>5, <3>1
    <3> QED BY <1>6, <3>2
  <2>2. Placed(ids, k) = [m \in 1..h |->
          <<IF f[2 * m - 1] <= Len(ids) THEN ids[f[2 * m - 1]] ELSE NoOne,
            IF f[2 * m] <= Len(ids) THEN ids[f[2 * m]] ELSE NoOne>>]
    BY <1>1, <1>4 DEF Placed
  <2> QED BY <2>1, <2>2
<1>8. DOMAIN Placed(ids, k) = 1..h
  BY <1>7
<1>9. Indices(1..h)
  BY <1>3, FS_Interval DEF Indices
<1>10. Swapped(owner, Placed(ids, k), 1..h) \in [1..h -> S \X S]
  BY <1>7, <1>9, SwappedType
<1> QED BY <1>1, <1>8, <1>10, FirstRoundIs

-----------------------------------------------------------------------------
(* The calendars: elimination brackets *)

FinalOf(p, k) == [p EXCEPT !.final = p.slot[2] = k]

FirstTable(tables, m) ==
    CASE tables[m][2] = NoOne -> Resting(<<"W", 1, m>>, tables[m][1])
      [] tables[m][1] = NoOne -> Resting(<<"W", 1, m>>, tables[m][2])
      [] OTHER -> Known(<<"W", 1, m>>, tables[m][1], tables[m][2])

(* Table m of round r of the bracket. *)
WTable(tables, k, r, m) ==
    FinalOf(IF r = 1 THEN FirstTable(tables, m) ELSE FedByWinners("W", r, m, "W"), k)

SingleOf(tables, k) ==
    {FinalOf(FirstTable(tables, m), k) : m \in 1..2^(k - 1)}
      \cup UNION {{FinalOf(FedByWinners("W", r, m, "W"), k) : m \in 1..2^(k - r)} : r \in 2..k}

LEMMA SingleIs ==
    ASSUME NEW ids, NEW owner
    PROVE  SingleElimination(ids, owner) =
             SingleOf(FirstRound(ids, owner, Log2Up(Len(ids))), Log2Up(Len(ids)))
  BY DEF SingleElimination, SingleOf, FinalOf, FirstTable

LEMMA SingleMember ==
    ASSUME NEW tables, NEW k \in Nat, k >= 1
    PROVE  /\ \A p \in SingleOf(tables, k) : \E r \in 1..k : \E m \in 1..2^(k - r) : p = WTable(tables, k, r, m)
           /\ \A r \in 1..k : \A m \in 1..2^(k - r) : WTable(tables, k, r, m) \in SingleOf(tables, k)
<1>1. ASSUME NEW p \in SingleOf(tables, k)
      PROVE  \E r \in 1..k : \E m \in 1..2^(k - r) : p = WTable(tables, k, r, m)
  <2>1. CASE p \in {FinalOf(FirstTable(tables, m), k) : m \in 1..2^(k - 1)}
    <3>1. PICK m \in 1..2^(k - 1) : p = FinalOf(FirstTable(tables, m), k)
      BY <2>1
    <3>2. p = WTable(tables, k, 1, m)
      BY <3>1 DEF WTable
    <3>3. 1 \in 1..k
      OBVIOUS
    <3> QED BY <3>2, <3>3
  <2>2. CASE p \in UNION {{FinalOf(FedByWinners("W", r, m, "W"), k) : m \in 1..2^(k - r)} : r \in 2..k}
    <3>1. PICK r \in 2..k : p \in {FinalOf(FedByWinners("W", r, m, "W"), k) : m \in 1..2^(k - r)}
      BY <2>2
    <3>2. PICK m \in 1..2^(k - r) : p = FinalOf(FedByWinners("W", r, m, "W"), k)
      BY <3>1
    <3>3. p = WTable(tables, k, r, m)
      BY <3>2 DEF WTable
    <3>4. r \in 1..k
      OBVIOUS
    <3> QED BY <3>3, <3>4
  <2> QED BY <2>1, <2>2 DEF SingleOf
<1>2. ASSUME NEW r \in 1..k, NEW m \in 1..2^(k - r)
      PROVE  WTable(tables, k, r, m) \in SingleOf(tables, k)
  <2>1. CASE r = 1
    <3>1. WTable(tables, k, r, m) = FinalOf(FirstTable(tables, m), k) /\ m \in 1..2^(k - 1)
      BY <2>1 DEF WTable
    <3> QED BY <3>1 DEF SingleOf
  <2>2. CASE r # 1
    <3>1. WTable(tables, k, r, m) = FinalOf(FedByWinners("W", r, m, "W"), k) /\ r \in 2..k
      BY <2>2 DEF WTable
    <3>2. WTable(tables, k, r, m) \in {FinalOf(FedByWinners("W", r, n, "W"), k) : n \in 1..2^(k - r)}
      BY <3>1
    <3> QED BY <3>1, <3>2 DEF SingleOf
  <2> QED BY <2>1, <2>2
<1> QED BY <1>1, <1>2

LEMMA FedByWinnersShape ==
    ASSUME NEW b, NEW r, NEW m, NEW sub, NEW p, p = FedByWinners(b, r, m, sub)
    PROVE  IsPairing(p) /\ IsOpen(p) /\ p.slot = <<b, r, m>> /\ p.conditionalOn = <<>> /\ ~p.final
<1>1. PICK x, y : x = WinnerOf(<<sub, r - 1, 2 * m - 1>>) /\ y = WinnerOf(<<sub, r - 1, 2 * m>>)
  OBVIOUS
<1>2. IsSource(x) /\ IsSource(y)
  BY <1>1, SourceIs DEF IsSource
<1>3. p = Awaiting(<<b, r, m>>, x, y)
  BY <1>1 DEF FedByWinners
<1> QED BY <1>2, <1>3, AwaitingShape

(* A table of a bracket: whoever sits there from the draw is one of S. *)
AreTables(tables, k, S) == tables \in [1..2^(k - 1) -> S \X S]
IsFirst(k, r, m) == r = 1 => m \in 1..2^(k - 1)

LEMMA WTableShape ==
    ASSUME NEW S, NoOne \in S, NEW k \in Nat, NEW tables, AreTables(tables, k, S),
           NEW r \in Nat, r >= 1, NEW m, IsFirst(k, r, m), NEW p, p = WTable(tables, k, r, m)
    PROVE  /\ IsDrawn(p) /\ p.slot = <<"W", r, m>> /\ p.home \in S /\ p.away \in S
           /\ p.final = (r = k)
<1>1. PICK q : q = IF r = 1 THEN FirstTable(tables, m) ELSE FedByWinners("W", r, m, "W")
  OBVIOUS
<1>2. /\ IsPairing(q) /\ q.slot = <<"W", r, m>> /\ q.home \in S /\ q.away \in S
      /\ IsKnown(q) \/ (IsOpen(q) /\ q.conditionalOn = <<>>)
  <2>1. CASE r = 1
    <3>1. PICK a, b : a = tables[m][1] /\ b = tables[m][2]
      OBVIOUS
    <3>2. a \in S /\ b \in S
      BY <2>1, <3>1 DEF AreTables, IsFirst
    <3>3. q = Resting(<<"W", 1, m>>, a) \/ q = Resting(<<"W", 1, m>>, b) \/ q = Known(<<"W", 1, m>>, a, b)
      <4>1. q = FirstTable(tables, m)
        BY <1>1, <2>1
      <4>2. CASE b = NoOne
        BY <3>1, <4>1, <4>2 DEF FirstTable
      <4>3. CASE b # NoOne /\ a = NoOne
        BY <3>1, <4>1, <4>3 DEF FirstTable
      <4>4. CASE b # NoOne /\ a # NoOne
        BY <3>1, <4>1, <4>4 DEF FirstTable
      <4> QED BY <4>2, <4>3, <4>4
    <3>4. IsPairing(q) /\ IsKnown(q) /\ q.slot = <<"W", 1, m>> /\ q.home \in S /\ q.away \in S
      BY <3>2, <3>3, RestingShape, KnownShape
    <3> QED BY <2>1, <3>4
  <2>2. CASE r # 1
    <3>1. q = FedByWinners("W", r, m, "W")
      BY <1>1, <2>2
    <3>2. IsPairing(q) /\ IsOpen(q) /\ q.slot = <<"W", r, m>> /\ q.conditionalOn = <<>>
      BY <3>1, FedByWinnersShape
    <3> QED BY <3>2 DEF IsOpen
  <2> QED BY <2>1, <2>2
<1>3. PICK final \in BOOLEAN : final = (r = k)
  OBVIOUS
<1>4. p = [q EXCEPT !.final = final]
  <2>1. q.slot[2] = r
    BY <1>2
  <2> QED BY <1>1, <1>3, <2>1 DEF WTable, FinalOf
<1>5. /\ IsPairing(p) /\ p.slot = q.slot /\ p.home = q.home /\ p.away = q.away /\ p.bye = q.bye
      /\ p.homeSource = q.homeSource /\ p.awaySource = q.awaySource
      /\ p.conditionalOn = q.conditionalOn /\ p.final = final
  BY <1>2, <1>4, FinalShape
<1>6. p.slot # <<>>
  BY <1>2, <1>5
<1>7. IsKnown(q) => IsKnown(p)
  BY <1>5 DEF IsKnown
<1>8. IsOpen(q) => IsOpen(p)
  BY <1>5 DEF IsOpen
<1> QED BY <1>2, <1>3, <1>5, <1>6, <1>7, <1>8 DEF IsDrawn

(* A bracket of W: distinct tables, for S. *)
IsBracket(A, S) ==
    /\ A # {} /\ Distinct(A)
    /\ \A p \in A : /\ IsDrawn(p) /\ p.home \in S /\ p.away \in S
                    /\ \E r, m : p.slot = <<"W", r, m>>

LEMMA SingleShape ==
    ASSUME NEW S, NoOne \in S, NEW k \in Nat, k >= 1, NEW tables \in [1..2^(k - 1) -> S \X S],
           NEW A, A = SingleOf(tables, k)
    PROVE  IsBracket(A, S)
<1>1. A # {}
  <2>1. 2^(k - 1) \in Nat /\ 2^(k - 1) >= 1
    BY PowerIs
  <2>2. 1 \in 1..2^(k - 1) /\ 1 \in 1..k
    BY <2>1
  <2> QED BY <2>2, SingleMember
<1>2. ASSUME NEW r \in 1..k, NEW m \in 1..2^(k - r), NEW p, p = WTable(tables, k, r, m)
      PROVE  IsDrawn(p) /\ p.slot = <<"W", r, m>> /\ p.home \in S /\ p.away \in S
  <2>1. r \in Nat /\ r >= 1 /\ (r = 1 => m \in 1..2^(k - 1))
    OBVIOUS
  <2>2. AreTables(tables, k, S) /\ IsFirst(k, r, m)
    BY <2>1 DEF AreTables, IsFirst
  <2> QED BY <1>2, <2>1, <2>2, WTableShape
<1>3. ASSUME NEW p \in A PROVE \E r \in 1..k : \E m \in 1..2^(k - r) : p = WTable(tables, k, r, m)
  BY SingleMember
<1>4. ASSUME NEW p \in A, NEW q \in A, p.slot = q.slot PROVE p = q
  <2>1. PICK r \in 1..k : \E m \in 1..2^(k - r) : p = WTable(tables, k, r, m)
    BY <1>3
  <2>11. PICK m \in 1..2^(k - r) : p = WTable(tables, k, r, m)
    BY <2>1
  <2>2. PICK s \in 1..k : \E n \in 1..2^(k - s) : q = WTable(tables, k, s, n)
    BY <1>3
  <2>21. PICK n \in 1..2^(k - s) : q = WTable(tables, k, s, n)
    BY <2>2
  <2>3. p.slot = <<"W", r, m>> /\ q.slot = <<"W", s, n>>
    BY <1>2, <2>11, <2>21
  <2>4. <<"W", r, m>> = <<"W", s, n>>
    BY <1>4, <2>3
  <2>5. r = s /\ m = n
    BY <2>4
  <2> QED BY <2>11, <2>21, <2>5
<1>5. Distinct(A)
  BY <1>4 DEF Distinct
<1>6. ASSUME NEW p \in A
      PROVE  /\ IsDrawn(p) /\ p.home \in S /\ p.away \in S
             /\ \E r, m : p.slot = <<"W", r, m>>
  <2>1. PICK r \in 1..k : \E m \in 1..2^(k - r) : p = WTable(tables, k, r, m)
    BY <1>3
  <2>11. PICK m \in 1..2^(k - r) : p = WTable(tables, k, r, m)
    BY <2>1
  <2> QED BY <1>2, <2>11
<1> QED BY <1>1, <1>5, <1>6 DEF IsBracket

-----------------------------------------------------------------------------
(* The calendars: the bracket of the losers and the grand final *)

LTable(a, m) ==
    IF a = 1 THEN Awaiting(<<"L", 1, m>>, LoserOf(<<"W", 1, 2 * m - 1>>), LoserOf(<<"W", 1, 2 * m>>))
    ELSE IF a % 2 = 0 THEN Awaiting(<<"L", a, m>>, WinnerOf(<<"L", a - 1, m>>), LoserOf(<<"W", (a \div 2) + 1, m>>))
    ELSE FedByWinners("L", a, m, "L")

FirstLosers(k) ==
    {Awaiting(<<"L", 1, m>>, LoserOf(<<"W", 1, 2 * m - 1>>), LoserOf(<<"W", 1, 2 * m>>)) :
                     m \in 1..2^(k - 2)}

DroppingIn(k) ==
    UNION {{Awaiting(<<"L", 2 * (wr - 1), m>>, WinnerOf(<<"L", 2 * wr - 3, m>>),
                            LoserOf(<<"W", wr, m>>)) : m \in 1..2^(k - wr)} : wr \in 2..k}

Surviving(k) ==
    UNION {{FedByWinners("L", 2 * wr - 1, m, "L") : m \in 1..2^(k - wr - 1)} : wr \in 2..(k - 1)}

LEMMA LosersIs ==
    ASSUME NEW k
    PROVE  LosersBracket(k) = FirstLosers(k) \cup DroppingIn(k) \cup Surviving(k)
  BY DEF LosersBracket, FirstLosers, DroppingIn, Surviving

LEMMA LosersMember ==
    ASSUME NEW k, NEW p \in LosersBracket(k)
    PROVE  \E a \in Nat : \E m \in Int : p = LTable(a, m)
<1>1. CASE p \in FirstLosers(k)
  <2>1. PICK m \in 1..2^(k - 2) :
          p = Awaiting(<<"L", 1, m>>, LoserOf(<<"W", 1, 2 * m - 1>>), LoserOf(<<"W", 1, 2 * m>>))
    BY <1>1 DEF FirstLosers
  <2>2. p = LTable(1, m) /\ 1 \in Nat /\ m \in Int
    BY <2>1 DEF LTable
  <2> QED BY <2>2
<1>2. CASE p \in DroppingIn(k)
  <2>1. PICK wr \in 2..k : p \in {Awaiting(<<"L", 2 * (wr - 1), m>>, WinnerOf(<<"L", 2 * wr - 3, m>>),
                            LoserOf(<<"W", wr, m>>)) : m \in 1..2^(k - wr)}
    BY <1>2 DEF DroppingIn
  <2>2. PICK m \in 1..2^(k - wr) : p = Awaiting(<<"L", 2 * (wr - 1), m>>, WinnerOf(<<"L", 2 * wr - 3, m>>),
                            LoserOf(<<"W", wr, m>>))
    BY <2>1
  <2>3. PICK a : a = 2 * (wr - 1)
    OBVIOUS
  <2>4. a \in Nat /\ a # 1 /\ a % 2 = 0 /\ a - 1 = 2 * wr - 3 /\ (a \div 2) + 1 = wr /\ m \in Int
    BY <2>3
  <2>5. p = LTable(a, m)
    BY <2>2, <2>3, <2>4 DEF LTable
  <2> QED BY <2>4, <2>5
<1>3. CASE p \in Surviving(k)
  <2>1. PICK wr \in 2..(k - 1) : p \in {FedByWinners("L", 2 * wr - 1, m, "L") : m \in 1..2^(k - wr - 1)}
    BY <1>3 DEF Surviving
  <2>2. PICK m \in 1..2^(k - wr - 1) : p = FedByWinners("L", 2 * wr - 1, m, "L")
    BY <2>1
  <2>3. PICK a : a = 2 * wr - 1
    OBVIOUS
  <2>4. a \in Nat /\ a # 1 /\ a % 2 # 0 /\ m \in Int
    BY <2>3
  <2>5. p = LTable(a, m)
    BY <2>2, <2>3, <2>4 DEF LTable
  <2> QED BY <2>4, <2>5
<1> QED BY <1>1, <1>2, <1>3, LosersIs

LEMMA LTableShape ==
    ASSUME NEW a, NEW m, NEW p, p = LTable(a, m)
    PROVE  IsPairing(p) /\ IsOpen(p) /\ p.slot = <<"L", a, m>> /\ p.conditionalOn = <<>>
<1>1. CASE a = 1
  <2>1. PICK x, y : x = LoserOf(<<"W", 1, 2 * m - 1>>) /\ y = LoserOf(<<"W", 1, 2 * m>>)
    OBVIOUS
  <2>2. IsSource(x) /\ IsSource(y)
    BY <2>1, SourceIs DEF IsSource
  <2>3. p = Awaiting(<<"L", a, m>>, x, y)
    BY <1>1, <2>1 DEF LTable
  <2> QED BY <2>2, <2>3, AwaitingShape
<1>2. CASE a # 1 /\ a % 2 = 0
  <2>1. PICK x, y : x = WinnerOf(<<"L", a - 1, m>>) /\ y = LoserOf(<<"W", (a \div 2) + 1, m>>)
    OBVIOUS
  <2>2. IsSource(x) /\ IsSource(y)
    BY <2>1, SourceIs DEF IsSource
  <2>3. p = Awaiting(<<"L", a, m>>, x, y)
    BY <1>2, <2>1 DEF LTable
  <2> QED BY <2>2, <2>3, AwaitingShape
<1>3. CASE a # 1 /\ a % 2 # 0
  <2>1. p = FedByWinners("L", a, m, "L")
    BY <1>3 DEF LTable
  <2> QED BY <2>1, FedByWinnersShape
<1> QED BY <1>1, <1>2, <1>3

LEMMA LosersShape ==
    ASSUME NEW k, NEW B, B = LosersBracket(k)
    PROVE  /\ Distinct(B)
           /\ \A p \in B : /\ IsPairing(p) /\ IsOpen(p) /\ p.conditionalOn = <<>>
                           /\ \E a, m : p.slot = <<"L", a, m>>
<1>1. ASSUME NEW p \in B, NEW q \in B, p.slot = q.slot PROVE p = q
  <2>1. PICK a \in Nat : \E m \in Int : p = LTable(a, m)
    BY LosersMember
  <2>2. PICK m \in Int : p = LTable(a, m)
    BY <2>1
  <2>3. PICK b \in Nat : \E n \in Int : q = LTable(b, n)
    BY LosersMember
  <2>4. PICK n \in Int : q = LTable(b, n)
    BY <2>3
  <2>5. p.slot = <<"L", a, m>> /\ q.slot = <<"L", b, n>>
    BY <2>2, <2>4, LTableShape
  <2>6. <<"L", a, m>> = <<"L", b, n>>
    BY <1>1, <2>5
  <2>7. a = b /\ m = n
    BY <2>6
  <2> QED BY <2>2, <2>4, <2>7
<1>2. Distinct(B)
  BY <1>1 DEF Distinct
<1>3. ASSUME NEW p \in B
      PROVE  /\ IsPairing(p) /\ IsOpen(p) /\ p.conditionalOn = <<>>
             /\ \E a, m : p.slot = <<"L", a, m>>
  <2>1. PICK a \in Nat : \E m \in Int : p = LTable(a, m)
    BY LosersMember
  <2>2. PICK m \in Int : p = LTable(a, m)
    BY <2>1
  <2> QED BY <2>2, LTableShape
<1> QED BY <1>2, <1>3

GrandFinal(k) ==
    Awaiting(<<"GF", 1, 1>>, WinnerOf(<<"W", k, 1>>),
             IF k < 2 THEN LoserOf(<<"W", k, 1>>) ELSE WinnerOf(<<"L", 2 * (k - 1), 1>>))

Reset(k) ==
    [Awaiting(<<"GF", 2, 1>>, WinnerOf(<<"GF", 1, 1>>), LoserOf(<<"GF", 1, 1>>)) EXCEPT
        !.conditionalOn = <<"W", k, 1>>, !.final = TRUE]

NotFinal(ps) == {[p EXCEPT !.final = FALSE] : p \in ps}

LEMMA DoubleIs ==
    ASSUME NEW ids, NEW owner, NEW k, k = Log2Up(Len(ids))
    PROVE  DoubleElimination(ids, owner) =
             NotFinal(SingleElimination(ids, owner)) \cup (IF k < 2 THEN {} ELSE LosersBracket(k))
               \cup {GrandFinal(k), Reset(k)}
  BY DEF DoubleElimination, GrandFinal, Reset, NotFinal

LEMMA GrandFinalShape ==
    ASSUME NEW k, NEW p, p = GrandFinal(k)
    PROVE  /\ IsPairing(p) /\ IsOpen(p) /\ p.slot = <<"GF", 1, 1>> /\ p.conditionalOn = <<>>
           /\ p.homeSource # NoSource /\ p.homeSource.slot = <<"W", k, 1>>
<1>1. PICK x : x = WinnerOf(<<"W", k, 1>>)
  OBVIOUS
<1>2. PICK y : y = IF k < 2 THEN LoserOf(<<"W", k, 1>>) ELSE WinnerOf(<<"L", 2 * (k - 1), 1>>)
  OBVIOUS
<1>3. IsSource(x) /\ IsSource(y) /\ x.slot = <<"W", k, 1>>
  BY <1>1, <1>2, SourceIs DEF IsSource
<1>4. p = Awaiting(<<"GF", 1, 1>>, x, y)
  BY <1>1, <1>2 DEF GrandFinal
<1>5. IsPairing(p) /\ IsOpen(p) /\ p.slot = <<"GF", 1, 1>> /\ p.homeSource = x /\ p.conditionalOn = <<>>
  BY <1>3, <1>4, AwaitingShape
<1> QED BY <1>3, <1>5 DEF IsSource

LEMMA ResetShape ==
    ASSUME NEW k, NEW p, p = Reset(k)
    PROVE  /\ IsPairing(p) /\ IsOpen(p) /\ p.slot = <<"GF", 2, 1>> /\ p.conditionalOn = <<"W", k, 1>>
           /\ p.homeSource.slot = <<"GF", 1, 1>> /\ p.final
<1>1. PICK x, y : x = WinnerOf(<<"GF", 1, 1>>) /\ y = LoserOf(<<"GF", 1, 1>>)
  OBVIOUS
<1>2. IsSource(x) /\ IsSource(y) /\ x.slot = <<"GF", 1, 1>>
  BY <1>1, SourceIs DEF IsSource
<1>3. p = [slot |-> <<"GF", 2, 1>>, home |-> NoOne, away |-> NoOne, homeSource |-> x, awaySource |-> y,
           bye |-> FALSE, final |-> TRUE, conditionalOn |-> <<"W", k, 1>>]
  BY <1>1 DEF Reset, Awaiting, Known
<1>4. p.homeSource = x /\ p.awaySource = y
  BY <1>3
<1> QED BY <1>2, <1>3, <1>4 DEF IsPairing, IsOpen, IsSource

-----------------------------------------------------------------------------
(* The calendars: every draw is well-formed *)

LEMMA NotFinalShape ==
    ASSUME NEW S, NEW A, IsBracket(A, S), NEW B, B = NotFinal(A)
    PROVE  IsBracket(B, S)
<1>1. ASSUME NEW p \in A, NEW q, q = [p EXCEPT !.final = FALSE]
      PROVE  IsDrawn(q) /\ q.slot = p.slot /\ q.home = p.home /\ q.away = p.away
  <2>1. IsPairing(p) /\ FALSE \in BOOLEAN /\ IsDrawn(p)
    BY DEF IsDrawn, IsBracket
  <2>2. /\ IsPairing(q) /\ q.slot = p.slot /\ q.home = p.home /\ q.away = p.away /\ q.bye = p.bye
        /\ q.homeSource = p.homeSource /\ q.awaySource = p.awaySource
        /\ q.conditionalOn = p.conditionalOn
    BY <1>1, <2>1, FinalShape
  <2>3. IsKnown(p) => IsKnown(q)
    BY <2>2 DEF IsKnown
  <2>4. IsOpen(p) => IsOpen(q)
    BY <2>2 DEF IsOpen
  <2> QED BY <2>1, <2>2, <2>3, <2>4 DEF IsDrawn
<1>2. ASSUME NEW q \in B PROVE \E p \in A : q = [p EXCEPT !.final = FALSE]
  BY DEF NotFinal
<1>3. ASSUME NEW q \in B, NEW r \in B, q.slot = r.slot PROVE q = r
  <2>1. PICK p \in A : q = [p EXCEPT !.final = FALSE]
    BY <1>2
  <2>2. PICK s \in A : r = [s EXCEPT !.final = FALSE]
    BY <1>2
  <2>3. p.slot = s.slot
    BY <1>1, <1>3, <2>1, <2>2
  <2>4. p = s
    BY <2>3 DEF Distinct, IsBracket
  <2> QED BY <2>1, <2>2, <2>4
<1>4. Distinct(B)
  BY <1>3 DEF Distinct
<1>5. ASSUME NEW q \in B
      PROVE  IsDrawn(q) /\ q.home \in S /\ q.away \in S /\ \E r, m : q.slot = <<"W", r, m>>
  <2>1. PICK p \in A : q = [p EXCEPT !.final = FALSE]
    BY <1>2
  <2>2. p.home \in S /\ p.away \in S /\ \E r, m : p.slot = <<"W", r, m>>
    BY DEF IsBracket
  <2> QED BY <1>1, <2>1, <2>2
<1>6. B # {}
  BY DEF NotFinal, IsBracket
<1> QED BY <1>4, <1>5, <1>6 DEF IsBracket

LEMMA SinglesShape ==
    ASSUME NEW ids, IsField(ids), NEW owner, NEW S, S = {NoOne} \cup Range(ids),
           NEW A, A = SingleElimination(ids, owner)
    PROVE  IsBracket(A, S)
<1>0. PICK k : k = Log2Up(Len(ids))
  OBVIOUS
<1>1. k \in Nat /\ k >= 1
  <2>1. Len(ids) \in Nat /\ Len(ids) >= 2
    BY DEF IsField
  <2>2. k \in 1..Len(ids)
    BY <1>0, <2>1, Log2UpIs
  <2> QED BY <2>1, <2>2
<1>2. PICK tables : tables = FirstRound(ids, owner, k)
  OBVIOUS
<1>3. tables \in [1..2^(k - 1) -> S \X S] /\ NoOne \in S
  BY <1>1, <1>2, FirstRoundType
<1>4. A = SingleOf(tables, k)
  BY <1>0, <1>2, SingleIs
<1> QED BY <1>1, <1>3, <1>4, SingleShape

LEMMA SinglesDrawn ==
    ASSUME NEW t, IsField(t.entries), t.format = "single_elimination"
    PROVE  WellDrawn(t) /\ Seats(t) \subseteq {NoOne} \cup Range(t.entries)
<1>1. PICK ids, owner : ids = t.entries /\ owner = t.owner
  OBVIOUS
<1>2. PICK A : A = ScheduleOf(t)
  OBVIOUS
<1>3. A = SingleElimination(ids, owner)
  BY <1>1, <1>2 DEF ScheduleOf, InitialSchedule
<1>4. PICK S : S = {NoOne} \cup Range(ids)
  OBVIOUS
<1>5. A # {} /\ Distinct(A) /\ \A p \in A : IsDrawn(p) /\ p.home \in S /\ p.away \in S
  <2>1. IsBracket(A, S)
    BY <1>1, <1>3, <1>4, SinglesShape
  <2> QED BY <2>1 DEF IsBracket
<1>6. WellDrawn(t)
  BY <1>2, <1>5, DrawnCalendar
<1>7. Seats(t) \subseteq {NoOne} \cup Range(t.entries)
  BY <1>1, <1>2, <1>4, <1>5 DEF Seats
<1> QED BY <1>6, <1>7

LEMMA DoublesDrawn ==
    ASSUME NEW t, IsField(t.entries), t.format = "double_elimination"
    PROVE  WellDrawn(t) /\ Seats(t) \subseteq {NoOne} \cup Range(t.entries)
<1>1. PICK ids, owner : ids = t.entries /\ owner = t.owner
  OBVIOUS
<1>2. PICK A : A = ScheduleOf(t)
  OBVIOUS
<1>3. PICK k : k = Log2Up(Len(ids))
  OBVIOUS
<1>4. PICK S : S = {NoOne} \cup Range(ids)
  OBVIOUS
<1>5. PICK W : W = NotFinal(SingleElimination(ids, owner))
  OBVIOUS
<1>6. PICK L : L = IF k < 2 THEN {} ELSE LosersBracket(k)
  OBVIOUS
<1>7. PICK g, h : g = GrandFinal(k) /\ h = Reset(k)
  OBVIOUS
<1>8. A = W \cup L \cup {g, h}
  <2>1. A = DoubleElimination(ids, owner)
    BY <1>1, <1>2 DEF ScheduleOf, InitialSchedule
  <2> QED BY <1>3, <1>5, <1>6, <1>7, <2>1, DoubleIs
<1>9. /\ Distinct(W)
      /\ \A p \in W : IsDrawn(p) /\ p.home \in S /\ p.away \in S /\ \E r, m : p.slot = <<"W", r, m>>
  <2>1. PICK V : V = SingleElimination(ids, owner)
    OBVIOUS
  <2>2. IsBracket(V, S)
    BY <1>1, <1>4, <2>1, SinglesShape
  <2>3. W = NotFinal(V)
    BY <1>5, <2>1
  <2>4. IsBracket(W, S)
    BY <2>2, <2>3, NotFinalShape
  <2> QED BY <2>4 DEF IsBracket
<1>10. /\ Distinct(L)
       /\ \A p \in L : IsPairing(p) /\ IsOpen(p) /\ p.conditionalOn = <<>> /\ \E r, m : p.slot = <<"L", r, m>>
  <2>1. CASE k < 2
    BY <1>6, <2>1 DEF Distinct
  <2>2. CASE ~(k < 2)
    <3>1. L = LosersBracket(k)
      BY <1>6, <2>2
    <3> QED BY <3>1, LosersShape
  <2> QED BY <2>1, <2>2
<1>11. /\ IsPairing(g) /\ IsOpen(g) /\ g.slot = <<"GF", 1, 1>> /\ g.conditionalOn = <<>>
       /\ g.homeSource # NoSource /\ g.homeSource.slot = <<"W", k, 1>>
  BY <1>7, GrandFinalShape
<1>12. /\ IsPairing(h) /\ IsOpen(h) /\ h.slot = <<"GF", 2, 1>> /\ h.conditionalOn = <<"W", k, 1>>
       /\ h.homeSource.slot = <<"GF", 1, 1>>
  BY <1>7, ResetShape
<1>13. \A p \in A : \/ p \in W /\ \E r, m : p.slot = <<"W", r, m>>
                    \/ p \in L /\ \E r, m : p.slot = <<"L", r, m>>
                    \/ p = g /\ p.slot = <<"GF", 1, 1>>
                    \/ p = h /\ p.slot = <<"GF", 2, 1>>
  BY <1>8, <1>9, <1>10, <1>11, <1>12
<1>14. /\ \A r, m, s, n : <<"W", r, m>> # <<"L", s, n>>
       /\ \A r, m, s, n : <<"W", r, m>> # <<"GF", s, n>> /\ <<"L", r, m>> # <<"GF", s, n>>
       /\ <<"GF", 1, 1>> # <<"GF", 2, 1>>
  OBVIOUS
<1>15. ASSUME NEW p \in A, NEW q \in A, p.slot = q.slot PROVE p = q
  <2>1. CASE p \in W /\ \E r, m : p.slot = <<"W", r, m>>
    <3>1. q \in W
      BY ZenonT(60), SMTT(60), <1>13, <1>14, <1>15, <2>1
    <3> QED BY <1>9, <1>15, <2>1, <3>1 DEF Distinct
  <2>2. CASE p \in L /\ \E r, m : p.slot = <<"L", r, m>>
    <3>1. q \in L
      BY ZenonT(60), SMTT(60), <1>13, <1>14, <1>15, <2>2
    <3> QED BY <1>10, <1>15, <2>2, <3>1 DEF Distinct
  <2>3. CASE p = g /\ p.slot = <<"GF", 1, 1>>
    BY <1>13, <1>14, <1>15, <2>3
  <2>4. CASE p = h /\ p.slot = <<"GF", 2, 1>>
    BY <1>13, <1>14, <1>15, <2>4
  <2> QED BY <1>13, <2>1, <2>2, <2>3, <2>4
<1>16. Distinct(A)
  BY <1>15 DEF Distinct
<1>17. ASSUME NEW p \in A
       PROVE  IsDrawn(p) \/ (IsPairing(p) /\ p.slot # <<>> /\ IsOpen(p) /\ IsWaiting(t, p))
  <2>1. CASE p \in W
    BY <1>9, <2>1
  <2>2. CASE p \in L
    <3>1. p.slot # <<>>
      <4>1. PICK r, m : p.slot = <<"L", r, m>>
        BY <1>10, <2>2
      <4> QED BY <4>1
    <3> QED BY <1>10, <2>2, <3>1 DEF IsDrawn
  <2>3. CASE p = g
    <3>1. p.slot # <<>>
      BY <1>11, <2>3
    <3> QED BY <1>11, <2>3, <3>1 DEF IsDrawn
  <2>4. CASE p = h
    <3>1. p.slot # <<>>
      BY <1>12, <2>4
    <3>2. g \in ScheduleOf(t)
      BY <1>2, <1>8
    <3>3. IsWaiting(t, p)
      BY <1>11, <1>12, <2>4, <3>2 DEF IsWaiting, IsOpen
    <3> QED BY <1>12, <2>4, <3>1, <3>3
  <2> QED BY <1>8, <2>1, <2>2, <2>3, <2>4
<1>18. WellDrawn(t)
  <2>1. ScheduleOf(t) # {} /\ Distinct(ScheduleOf(t))
    BY <1>2, <1>8, <1>16
  <2> QED BY <1>2, <1>17, <2>1, DrawnCalendar
<1>19. \A p \in A : p.home \in S /\ p.away \in S
  <2>1. NoOne \in S
    BY <1>4
  <2>2. \A p \in A : IsOpen(p) => p.home \in S /\ p.away \in S
    BY <2>1 DEF IsOpen
  <2> QED BY <1>8, <1>9, <1>10, <1>11, <1>12, <2>2
<1>20. Seats(t) \subseteq {NoOne} \cup Range(t.entries)
  BY <1>1, <1>2, <1>4, <1>19 DEF Seats
<1> QED BY <1>18, <1>20

-----------------------------------------------------------------------------
(* The circle of n places, of which all but the first turn *)

Turned(n, r, i) == IF i = 0 THEN 0 ELSE IF i - 1 >= r THEN i - r ELSE i - r + n - 1

LEMMA ModIs ==
    ASSUME NEW m \in Nat, m >= 1, NEW x \in Int, -m < x, x < m
    PROVE  x % m = IF x >= 0 THEN x ELSE x + m
<1>1. CASE x >= 0
  BY <1>1
<1>2. CASE x < 0
  BY <1>2
<1> QED BY <1>1, <1>2

LEMMA SeatTurned ==
    ASSUME NEW n \in Nat, n >= 2, NEW r \in Rounds(n), NEW i \in 0..(n - 1)
    PROVE  Seat(n, r, i) = Turned(n, r, i) /\ Turned(n, r, i) \in 0..(n - 1)
<1>1. r \in Int /\ i \in Int /\ 0 <= r /\ r <= n - 2
  BY DEF Rounds
<1>2. CASE i = 0
  BY <1>2 DEF Seat, Turned
<1>3. CASE i # 0
  <2>0. PICK x \in Int, m \in Nat : x = i - 1 - r /\ m = n - 1
    BY <1>1
  <2>1. x % m = IF x >= 0 THEN x ELSE x + m
    <3>1. m >= 1 /\ -m < x /\ x < m
      BY <1>1, <1>3, <2>0
    <3> QED BY <3>1, ModIs
  <2> QED BY <1>1, <1>3, <2>0, <2>1 DEF Seat, Turned
<1> QED BY <1>2, <1>3

IsEven(n) == \E h \in Nat : h >= 1 /\ n = 2 * h

(* At table i of round r meet the places s and s2 of the circle. *)
Meet(n, r, i, s, s2) ==
    \/ Turned(n, r, i) = s /\ Turned(n, r, n - 1 - i) = s2
    \/ Turned(n, r, i) = s2 /\ Turned(n, r, n - 1 - i) = s

Sits(n, r, i, s) == Turned(n, r, i) = s \/ Turned(n, r, n - 1 - i) = s

(* Every place is at one table of a round. *)
LEMMA SitsOnce ==
    ASSUME NEW n, IsEven(n), NEW r \in Rounds(n), NEW s \in 0..(n - 1)
    PROVE  /\ \E i \in Tables(n) : Sits(n, r, i, s)
           /\ \A i, j \in Tables(n) : Sits(n, r, i, s) /\ Sits(n, r, j, s) => i = j
<1>0. PICK h \in Nat : h >= 1 /\ n = 2 * h
  BY DEF IsEven
<1>1. Tables(n) = 0..(h - 1) /\ n \in Nat /\ r \in Int /\ 0 <= r /\ r <= n - 2 /\ n = 2 * h
  BY <1>0 DEF Rounds, Tables
<1>2. ASSUME NEW i \in 0..(n - 1), NEW j \in 0..(n - 1), Turned(n, r, i) = Turned(n, r, j) PROVE i = j
  BY <1>1, <1>2 DEF Turned
<1>3. \E k \in 0..(n - 1) : Turned(n, r, k) = s
  <2>1. CASE s = 0
    BY <1>1, <2>1 DEF Turned
  <2>2. CASE s # 0 /\ s + r <= n - 1
    <3>1. s + r \in 0..(n - 1) /\ Turned(n, r, s + r) = s
      BY <1>1, <2>2 DEF Turned
    <3> QED BY <3>1
  <2>3. CASE s # 0 /\ s + r > n - 1
    <3>1. s + r - (n - 1) \in 0..(n - 1) /\ Turned(n, r, s + r - (n - 1)) = s
      BY <1>1, <2>3 DEF Turned
    <3> QED BY <3>1
  <2> QED BY <1>1, <2>1, <2>2, <2>3
<1>4. \E i \in Tables(n) : Sits(n, r, i, s)
  <2>1. PICK k \in 0..(n - 1) : Turned(n, r, k) = s
    BY <1>3
  <2>2. CASE k <= h - 1
    <3>1. k \in Tables(n) /\ Sits(n, r, k, s)
      BY <1>1, <2>1, <2>2 DEF Sits
    <3> QED BY <3>1
  <2>3. CASE k > h - 1
    <3>1. n - 1 - k \in 0..(h - 1) /\ n - 1 - (n - 1 - k) = k
      BY <1>1, <2>1, <2>3
    <3> QED BY <1>1, <2>1, <3>1 DEF Sits
  <2> QED BY <1>1, <2>1, <2>2, <2>3
<1>5. ASSUME NEW i \in Tables(n), NEW j \in Tables(n), Sits(n, r, i, s), Sits(n, r, j, s) PROVE i = j
  <2>1. /\ i \in 0..(n - 1) /\ j \in 0..(n - 1) /\ n - 1 - i \in 0..(n - 1) /\ n - 1 - j \in 0..(n - 1)
        /\ i <= h - 1 /\ j <= h - 1
    BY <1>1, <1>5
  <2>2. \E x \in {i, n - 1 - i}, y \in {j, n - 1 - j} : Turned(n, r, x) = Turned(n, r, y)
    BY <1>5 DEF Sits
  <2>3. \E x \in {i, n - 1 - i}, y \in {j, n - 1 - j} : x = y
    BY <1>2, <2>1, <2>2
  <2> QED BY <1>1, <2>1, <2>3
<1> QED BY <1>4, <1>5

(* The round r in which two places meet that both turn. *)
InRound(n, r, s, s2) == s + s2 + 2 * r \in {n - 1, 2 * (n - 1), 3 * (n - 1)}

(* Two places meet at one table of one round. *)
LEMMA MeetAt ==
    ASSUME NEW n, IsEven(n),
           NEW s \in 0..(n - 1), NEW s2 \in 0..(n - 1), s < s2
    PROVE  \E r \in Rounds(n), k \in 0..(n - 1) :
              Turned(n, r, k) = s /\ Turned(n, r, n - 1 - k) = s2
<1>0. PICK h \in Nat : h >= 1 /\ n = 2 * h
  BY DEF IsEven
<1>1. CASE s = 0
  <2>1. n - 1 - s2 \in Rounds(n) /\ 0 \in 0..(n - 1)
    BY <1>0, <1>1 DEF Rounds
  <2>2. Turned(n, n - 1 - s2, 0) = 0 /\ Turned(n, n - 1 - s2, n - 1 - 0) = s2
    BY <1>0, <1>1 DEF Turned
  <2> QED BY <1>1, <2>1, <2>2
<1>2. ASSUME NEW r \in Rounds(n), s > 0, InRound(n, r, s, s2)
      PROVE  \E k \in 0..(n - 1) : Turned(n, r, k) = s /\ Turned(n, r, n - 1 - k) = s2
  <2>0. /\ r \in Int /\ 0 <= r /\ r <= n - 2 /\ n \in Nat /\ n = 2 * h
        /\ s + s2 + 2 * r \in {n - 1, 2 * (n - 1), 3 * (n - 1)}
    BY <1>0, <1>2 DEF Rounds, InRound
  <2>1. CASE s + r <= n - 1 /\ n - 1 - (s + r) # 0
    <3>1. s + r \in 0..(n - 1) /\ Turned(n, r, s + r) = s
      BY <1>2, <2>0, <2>1 DEF Turned
    <3>2. Turned(n, r, n - 1 - (s + r)) = s2
      BY <1>2, <2>0, <2>1 DEF Turned
    <3> QED BY <3>1, <3>2
  <2>2. CASE s + r > n - 1
    <3>1. s + r - (n - 1) \in 0..(n - 1) /\ Turned(n, r, s + r - (n - 1)) = s
      BY <1>2, <2>0, <2>2 DEF Turned
    <3>2. Turned(n, r, n - 1 - (s + r - (n - 1))) = s2
      BY <1>2, <2>0, <2>2 DEF Turned
    <3> QED BY <3>1, <3>2
  <2>3. s + r # n - 1
    BY <1>2, <2>0
  <2> QED BY <1>2, <2>0, <2>1, <2>2, <2>3
<1>3. ASSUME s > 0 PROVE \E r \in Rounds(n) : InRound(n, r, s, s2)
  <2>1. CASE (s + s2) % 2 = 0
    <3>1. PICK q \in Int : s + s2 = 2 * q
      BY <2>1
    <3>2. n - 1 - q \in Rounds(n) /\ InRound(n, n - 1 - q, s, s2)
      BY <1>0, <1>3, <3>1 DEF Rounds, InRound
    <3> QED BY <3>2
  <2>2. CASE (s + s2) % 2 = 1
    <3>1. PICK q \in Int : s + s2 = 2 * q + 1
      BY <2>2
    <3>2. CASE s + s2 <= n - 1
      <4>1. h - 1 - q \in Rounds(n) /\ InRound(n, h - 1 - q, s, s2)
        BY <1>0, <1>3, <3>1, <3>2 DEF Rounds, InRound
      <4> QED BY <4>1
    <3>3. CASE s + s2 > n - 1
      <4>1. 3 * h - 2 - q \in Rounds(n) /\ InRound(n, 3 * h - 2 - q, s, s2)
        BY <1>0, <1>3, <3>1, <3>3 DEF Rounds, InRound
      <4> QED BY <4>1
    <3> QED BY <1>0, <3>2, <3>3
  <2> QED BY <2>1, <2>2
<1>4. CASE s > 0
  BY <1>2, <1>3, <1>4
<1> QED BY <1>1, <1>4

(* Two places are opposite each other in round r, the first at the k-th turned place; *)
(* and what that says of the round.                                                  *)
Opposite(n, r, k, s, s2) == k \in 0..(n - 1) /\ Turned(n, r, k) = s /\ Turned(n, r, n - 1 - k) = s2
MeetIn(n, r, s, s2) == IF s = 0 THEN s2 + r = n - 1 ELSE InRound(n, r, s, s2)

(* The round in which two places meet. *)
LEMMA Balance ==
    ASSUME NEW n \in Nat, n >= 2, NEW s \in 0..(n - 1), NEW s2 \in 0..(n - 1), s < s2,
           NEW r \in 0..(n - 2), NEW k, Opposite(n, r, k, s, s2)
    PROVE  MeetIn(n, r, s, s2)
<1>0. k \in 0..(n - 1) /\ Turned(n, r, k) = s /\ Turned(n, r, n - 1 - k) = s2
  BY DEF Opposite
<1>1. CASE k = 0
  BY <1>0, <1>1 DEF Turned, MeetIn
<1>2. CASE k # 0 /\ n - 1 - k # 0
  <2>1. /\ s = IF k - 1 >= r THEN k - r ELSE k - r + n - 1
        /\ s2 = IF n - 1 - k - 1 >= r THEN n - 1 - k - r ELSE n - 1 - k - r + n - 1
    BY <1>0, <1>2 DEF Turned
  <2>2. s > 0
    BY <1>0, <2>1
  <2>3. \/ s + s2 + 2 * r = n - 1
        \/ s + s2 + 2 * r = 2 * (n - 1)
        \/ s + s2 + 2 * r = 3 * (n - 1)
    BY <1>0, <2>1
  <2> QED BY <2>2, <2>3 DEF InRound, MeetIn
<1>3. CASE n - 1 - k = 0
  BY <1>0, <1>3 DEF Turned, MeetIn
<1> QED BY <1>0, <1>1, <1>2, <1>3

LEMMA MeetOnce ==
    ASSUME NEW n, IsEven(n),
           NEW s \in 0..(n - 1), NEW s2 \in 0..(n - 1), s < s2
    PROVE  /\ \E r \in Rounds(n), i \in Tables(n) : Meet(n, r, i, s, s2)
           /\ \A r, q \in Rounds(n), i, j \in Tables(n) :
                Meet(n, r, i, s, s2) /\ Meet(n, q, j, s, s2) => r = q /\ i = j
<1>0. PICK h \in Nat : h >= 1 /\ n = 2 * h
  BY DEF IsEven
<1>1. Tables(n) = 0..(h - 1) /\ n \in Nat /\ n >= 2 /\ Rounds(n) = 0..(n - 2) /\ n = 2 * h
  BY <1>0 DEF Rounds, Tables
<1>2. \E r \in Rounds(n), i \in Tables(n) : Meet(n, r, i, s, s2)
  <2>1. PICK r \in Rounds(n), k \in 0..(n - 1) : Turned(n, r, k) = s /\ Turned(n, r, n - 1 - k) = s2
    BY MeetAt
  <2>2. CASE k <= h - 1
    <3>1. k \in Tables(n) /\ Meet(n, r, k, s, s2)
      BY <1>1, <2>1, <2>2 DEF Meet
    <3> QED BY <3>1
  <2>3. CASE k > h - 1
    <3>1. n - 1 - k \in 0..(h - 1) /\ n - 1 - (n - 1 - k) = k
      BY <1>1, <2>1, <2>3
    <3>2. n - 1 - k \in Tables(n) /\ Meet(n, r, n - 1 - k, s, s2)
      BY <1>1, <2>1, <3>1 DEF Meet
    <3> QED BY <3>2
  <2> QED BY <1>1, <2>1, <2>2, <2>3
<1>3. ASSUME NEW r \in Rounds(n), NEW i \in Tables(n), Meet(n, r, i, s, s2)
      PROVE  MeetIn(n, r, s, s2)
  <2>0. r \in 0..(n - 2) /\ n \in Nat /\ n >= 2
    BY <1>1
  <2>1. CASE Turned(n, r, i) = s /\ Turned(n, r, n - 1 - i) = s2
    <3>1. i \in 0..(n - 1) /\ n - 1 - (n - 1 - i) = i
      BY <1>1
    <3>2. Opposite(n, r, i, s, s2)
      BY <2>1, <3>1 DEF Opposite
    <3> QED BY <2>0, <3>2, Balance
  <2>2. CASE Turned(n, r, i) = s2 /\ Turned(n, r, n - 1 - i) = s
    <3>1. PICK k : k = n - 1 - i
      OBVIOUS
    <3>2. k \in 0..(n - 1) /\ n - 1 - k = i
      BY <1>1, <3>1
    <3>3. Opposite(n, r, k, s, s2)
      BY <2>2, <3>1, <3>2 DEF Opposite
    <3> QED BY <2>0, <3>3, Balance
  <2> QED BY <1>3, <2>1, <2>2 DEF Meet
<1>4. ASSUME NEW r \in Rounds(n), NEW q \in Rounds(n), NEW i \in Tables(n), NEW j \in Tables(n),
             Meet(n, r, i, s, s2), Meet(n, q, j, s, s2)
      PROVE  r = q /\ i = j
  <2>1. ASSUME s = 0 PROVE r = q
    <3>1. s2 + r = n - 1 /\ s2 + q = n - 1
      BY <1>3, <1>4, <2>1 DEF MeetIn
    <3> QED BY <1>1, <3>1
  <2>2. ASSUME s # 0 PROVE r = q
    <3>1. InRound(n, r, s, s2) /\ InRound(n, q, s, s2)
      BY <1>3, <1>4, <2>2 DEF MeetIn
    <3>2. r \in Int /\ q \in Int /\ 0 <= r /\ r <= n - 2 /\ 0 <= q /\ q <= n - 2 /\ n = 2 * h
      BY <1>1
    <3>3. PICK u, v : u = s + s2 + 2 * r /\ v = s + s2 + 2 * q
      OBVIOUS
    <3>4. u \in Int /\ v \in Int /\ u - v = 2 * (r - q)
      BY <3>2, <3>3
    <3>5. u \in {n - 1, 2 * (n - 1), 3 * (n - 1)} /\ v \in {n - 1, 2 * (n - 1), 3 * (n - 1)}
      BY <3>1, <3>3 DEF InRound
    (* n - 1 is odd, and the two rounds are less than n - 1 apart. *)
    <3>6. u = v
      BY SMTT(60), <3>2, <3>4, <3>5
    <3> QED BY <3>2, <3>4, <3>6
  <2>3. r = q
    BY <2>1, <2>2
  <2>4. Sits(n, r, i, s) /\ Sits(n, r, j, s)
    BY <1>4, <2>3 DEF Meet, Sits
  <2> QED BY <2>3, <2>4, SitsOnce
<1> QED BY <1>2, <1>4

LEMMA HalfIs ==
    ASSUME NEW k \in Nat, k >= 2
    PROVE  IF k % 2 = 1 THEN IsEven(k + 1) ELSE IsEven(k)
<1>1. CASE k % 2 = 1
  <2>1. PICK h \in Nat : h = (k + 1) \div 2
    OBVIOUS
  <2>2. h >= 1 /\ k + 1 = 2 * h
    BY <1>1, <2>1
  <2>3. IsEven(k + 1)
    BY <2>2 DEF IsEven
  <2> QED BY <1>1, <2>3
<1>2. CASE k % 2 # 1
  <2>1. PICK h \in Nat : h = k \div 2
    OBVIOUS
  <2>2. h >= 1 /\ k = 2 * h
    BY <1>2, <2>1
  <2>3. IsEven(k)
    BY <2>2 DEF IsEven
  <2> QED BY <1>2, <2>3
<1> QED BY <1>1, <1>2

(* Everybody has one place of the circle. *)
LEMMA PlacesAre ==
    ASSUME NEW ids, IsField(ids), IsInjective(ids), NoOne \notin Range(ids),
           NEW all, all = Circle(ids), NEW n, n = Full(ids)
    PROVE  /\ IsEven(n)
           /\ \A x \in Range(ids) : \E s \in 0..(n - 1) : all[s + 1] = x
           /\ \A s, s2 \in 0..(n - 1) : all[s + 1] = all[s2 + 1] => s = s2
           /\ \A s \in 0..(n - 1) : all[s + 1] \in {NoOne} \cup Range(ids)
<1>0. PICK k \in Nat : k = Len(ids) /\ k >= 2
  BY DEF IsField
<1>1. /\ Len(ids) = k /\ k >= 2 /\ ids \in Seq(Range(ids)) /\ DOMAIN ids = 1..k
      /\ \A i \in 1..k : ids[i] \in Range(ids)
  BY <1>0 DEF IsField
<1>2. n = IF k % 2 = 1 THEN k + 1 ELSE k
  BY <1>0 DEF Full
<1>3. IsEven(n)
  BY <1>0, <1>2, HalfIs
<1>4. /\ \A s \in 0..(k - 1) : all[s + 1] = ids[s + 1]
      /\ k % 2 = 1 => all[k + 1] = NoOne
  BY <1>1 DEF Circle
<1>5. \A s \in 0..(n - 1) : s \in 0..(k - 1) \/ (s = k /\ all[s + 1] = NoOne)
  BY <1>1, <1>2, <1>4
<1>6. \A i, j \in 1..k : ids[i] = ids[j] => i = j
  BY <1>1 DEF IsInjective
<1>7. \A x \in Range(ids) : \E s \in 0..(n - 1) : all[s + 1] = x
  <2> SUFFICES ASSUME NEW x \in Range(ids) PROVE \E s \in 0..(n - 1) : all[s + 1] = x
    OBVIOUS
  <2>1. PICK i \in 1..k : ids[i] = x
    BY <1>1 DEF Range
  <2>2. i - 1 \in 0..(n - 1) /\ i - 1 \in 0..(k - 1) /\ (i - 1) + 1 = i
    BY <1>1, <1>2, <2>1
  <2> QED BY <1>4, <2>1, <2>2
<1>8. ASSUME NEW s \in 0..(n - 1), NEW s2 \in 0..(n - 1), all[s + 1] = all[s2 + 1] PROVE s = s2
  <2>1. CASE s \in 0..(k - 1) /\ s2 \in 0..(k - 1)
    <3>1. s + 1 \in 1..k /\ s2 + 1 \in 1..k /\ ids[s + 1] = ids[s2 + 1]
      BY <1>1, <1>4, <1>8, <2>1
    <3>2. s + 1 = s2 + 1
      BY <1>6, <3>1
    <3> QED BY <1>1, <2>1, <3>2
  <2>2. ASSUME NEW j \in 0..(k - 1) PROVE all[j + 1] # NoOne
    <3>1. j + 1 \in 1..k /\ all[j + 1] = ids[j + 1]
      BY <1>1, <1>4
    <3> QED BY <1>1, <3>1
  <2> QED BY <1>5, <1>8, <2>1, <2>2
<1>9. ASSUME NEW s \in 0..(n - 1) PROVE all[s + 1] \in {NoOne} \cup Range(ids)
  <2>1. CASE s \in 0..(k - 1)
    <3>1. s + 1 \in 1..k /\ all[s + 1] = ids[s + 1]
      BY <1>1, <1>4, <2>1
    <3> QED BY <1>1, <3>1
  <2> QED BY <1>5, <2>1
<1> QED BY <1>3, <1>7, <1>8, <1>9

(* Whether the first of a table is at home. *)
FirstAtHome(r, i, swapSides) == ((r + i) % 2 = 0) # swapSides

(* Who is at a table. *)
Both(p) == {p.home, p.away} \ {NoOne}

IsMet(p, start, swapSides, r, i, a, b) ==
    /\ p.slot = <<"RR", start + r, i + 1>>
    /\ Both(p) = {a, b} \ {NoOne}
    /\ a # NoOne /\ b # NoOne => p.home = IF FirstAtHome(r, i, swapSides) THEN a ELSE b

LEMMA MetBoth ==
    ASSUME NEW all, NEW start, NEW swapSides, NEW r, NEW i
    PROVE  IsMet(Met(all, start, swapSides, r, i), start, swapSides, r, i,
                 all[Seat(Len(all), r, i) + 1], all[Seat(Len(all), r, Len(all) - 1 - i) + 1])
<1>0. PICK a, b, p : /\ a = all[Seat(Len(all), r, i) + 1] /\ b = all[Seat(Len(all), r, Len(all) - 1 - i) + 1]
                     /\ p = Met(all, start, swapSides, r, i)
  OBVIOUS
<1> SUFFICES IsMet(p, start, swapSides, r, i, a, b)
  BY <1>0
<1>1. PICK slot : slot = <<"RR", start + r, i + 1>>
  OBVIOUS
<1>2. PICK first : first = FirstAtHome(r, i, swapSides)
  OBVIOUS
<1>3. p = CASE a = NoOne -> Resting(slot, b)
            [] b = NoOne -> Resting(slot, a)
            [] OTHER -> IF first THEN Known(slot, a, b) ELSE Known(slot, b, a)
  BY <1>0, <1>1, <1>2, Zenon DEF Met, FirstAtHome
<1>4. CASE a = NoOne
  <2>1. p = Resting(slot, b)
    BY <1>3, <1>4
  <2>2. p.slot = slot /\ p.home = b /\ p.away = NoOne
    BY <2>1, RestingShape
  <2> QED BY <1>1, <1>4, <2>2 DEF Both, IsMet
<1>5. CASE a # NoOne /\ b = NoOne
  <2>1. p = Resting(slot, a)
    BY <1>3, <1>5
  <2>2. p.slot = slot /\ p.home = a /\ p.away = NoOne
    BY <2>1, RestingShape
  <2> QED BY <1>1, <1>5, <2>2 DEF Both, IsMet
<1>6. CASE a # NoOne /\ b # NoOne
  <2>1. p = IF first THEN Known(slot, a, b) ELSE Known(slot, b, a)
    BY <1>3, <1>6
  <2>2. p.slot = slot /\ p.home = (IF first THEN a ELSE b) /\ p.away = (IF first THEN b ELSE a)
    BY <2>1, KnownShape
  <2> QED BY <1>1, <1>2, <1>6, <2>2 DEF Both, IsMet
<1> QED BY <1>4, <1>5, <1>6

IsEntry(ids) == IsField(ids) /\ IsInjective(ids) /\ NoOne \notin Range(ids)

SeatAt(all, n, r, i) == all[Seat(n, r, i) + 1]

Couple(all, n, r, i, x, y) == {SeatAt(all, n, r, i), SeatAt(all, n, r, n - 1 - i)} = {x, y}

(* Who sits at table i of round r. *)
LEMMA SeatedAt ==
    ASSUME NEW ids, IsEntry(ids), NEW all, all = Circle(ids), NEW n, n = Full(ids),
           NEW r \in Rounds(n), NEW i \in Tables(n), NEW s \in 0..(n - 1)
    PROVE  /\ SeatAt(all, n, r, i) = all[s + 1] <=> Turned(n, r, i) = s
           /\ SeatAt(all, n, r, n - 1 - i) = all[s + 1] <=> Turned(n, r, n - 1 - i) = s
<1>1. IsEven(n) /\ \A j, k \in 0..(n - 1) : all[j + 1] = all[k + 1] => j = k
  BY PlacesAre DEF IsEntry
<1>2. i \in 0..(n - 1) /\ n - 1 - i \in 0..(n - 1) /\ n \in Nat /\ n >= 2
  BY <1>1 DEF IsEven, Tables
<1>3. /\ Seat(n, r, i) = Turned(n, r, i) /\ Turned(n, r, i) \in 0..(n - 1)
      /\ Seat(n, r, n - 1 - i) = Turned(n, r, n - 1 - i) /\ Turned(n, r, n - 1 - i) \in 0..(n - 1)
  BY <1>2, SeatTurned
<1> QED BY <1>1, <1>3 DEF SeatAt

LEMMA AtOnce ==
    ASSUME NEW ids, IsEntry(ids), NEW all, all = Circle(ids), NEW n, n = Full(ids),
           NEW r \in Rounds(n), NEW x \in Range(ids)
    PROVE  /\ \E i \in Tables(n) : x \in {SeatAt(all, n, r, i), SeatAt(all, n, r, n - 1 - i)}
           /\ \A i, j \in Tables(n) :
                x \in {SeatAt(all, n, r, i), SeatAt(all, n, r, n - 1 - i)}
                    /\ x \in {SeatAt(all, n, r, j), SeatAt(all, n, r, n - 1 - j)} => i = j
<1>1. IsEven(n) /\ \E s \in 0..(n - 1) : all[s + 1] = x
  BY PlacesAre DEF IsEntry
<1>2. PICK s \in 0..(n - 1) : all[s + 1] = x
  BY <1>1
<1>3. ASSUME NEW i \in Tables(n)
      PROVE  x \in {SeatAt(all, n, r, i), SeatAt(all, n, r, n - 1 - i)} <=> Sits(n, r, i, s)
  BY <1>2, SeatedAt DEF Sits
<1> QED BY <1>1, <1>3, SitsOnce

(* Two entrants are at one table once. *)
LEMMA TogetherOnce ==
    ASSUME NEW ids, IsEntry(ids), NEW all, all = Circle(ids), NEW n, n = Full(ids),
           NEW x \in Range(ids), NEW y \in Range(ids), x # y
    PROVE  /\ \E r \in Rounds(n), i \in Tables(n) : Couple(all, n, r, i, x, y)
           /\ \A r, q \in Rounds(n), i, j \in Tables(n) :
                Couple(all, n, r, i, x, y)
                    /\ Couple(all, n, q, j, x, y) => r = q /\ i = j
<1>1. IsEven(n) /\ \A z \in Range(ids) : \E s \in 0..(n - 1) : all[s + 1] = z
  BY PlacesAre DEF IsEntry
<1>2. PICK s \in 0..(n - 1), s2 \in 0..(n - 1) : s < s2 /\ {all[s + 1], all[s2 + 1]} = {x, y}
  <2>1. PICK j \in 0..(n - 1), k \in 0..(n - 1) : all[j + 1] = x /\ all[k + 1] = y
    BY <1>1
  <2>2. n \in Nat
    BY <1>1 DEF IsEven
  <2>3. j # k
    BY <2>1
  <2>4. j < k \/ k < j
    BY <2>2, <2>3
  <2> QED BY <2>1, <2>4
<1>3. ASSUME NEW r \in Rounds(n), NEW i \in Tables(n)
      PROVE  Couple(all, n, r, i, x, y) <=> Meet(n, r, i, s, s2)
  <2>1. /\ SeatAt(all, n, r, i) = all[s + 1] <=> Turned(n, r, i) = s
        /\ SeatAt(all, n, r, n - 1 - i) = all[s + 1] <=> Turned(n, r, n - 1 - i) = s
        /\ SeatAt(all, n, r, i) = all[s2 + 1] <=> Turned(n, r, i) = s2
        /\ SeatAt(all, n, r, n - 1 - i) = all[s2 + 1] <=> Turned(n, r, n - 1 - i) = s2
    BY SeatedAt
  <2> QED BY <1>2, <2>1 DEF Meet, Couple
<1>4. /\ \E r \in Rounds(n), i \in Tables(n) : Meet(n, r, i, s, s2)
      /\ \A r, q \in Rounds(n), i, j \in Tables(n) :
            Meet(n, r, i, s, s2) /\ Meet(n, q, j, s, s2) => r = q /\ i = j
  BY <1>1, <1>2, MeetOnce
<1>5. \E r \in Rounds(n), i \in Tables(n) : Couple(all, n, r, i, x, y)
  <2>1. PICK r \in Rounds(n), i \in Tables(n) : Meet(n, r, i, s, s2)
    BY <1>4
  <2> QED BY <1>3, <2>1
<1>6. ASSUME NEW r \in Rounds(n), NEW q \in Rounds(n), NEW i \in Tables(n), NEW j \in Tables(n),
             Couple(all, n, r, i, x, y),
             Couple(all, n, q, j, x, y)
      PROVE  r = q /\ i = j
  <2>1. Meet(n, r, i, s, s2) /\ Meet(n, q, j, s, s2)
    BY <1>3, <1>6
  <2> QED BY <1>4, <2>1
<1> QED BY <1>5, <1>6

-----------------------------------------------------------------------------
(* The pairings of one leg *)

IsLeg(A, ids, start, swapSides) ==
    A = {Met(Circle(ids), start, swapSides, r, i) : r \in Rounds(Full(ids)), i \in Tables(Full(ids))}

HomeAt(ids, r, i, swapSides) ==
    IF FirstAtHome(r, i, swapSides)
    THEN SeatAt(Circle(ids), Full(ids), r, i) ELSE SeatAt(Circle(ids), Full(ids), r, Full(ids) - 1 - i)

Facing(ids, r, i) == {SeatAt(Circle(ids), Full(ids), r, i), SeatAt(Circle(ids), Full(ids), r, Full(ids) - 1 - i)}

IsTableOf(p, ids, start, swapSides, r, i) == p = Met(Circle(ids), start, swapSides, r, i)

IsHome(p, ids, r, i, swapSides) == p.home = HomeAt(ids, r, i, swapSides)

MeetThere(ids, r, i, x, y) == Facing(ids, r, i) = {x, y}

LEMMA LegIs ==
    ASSUME NEW ids, IsEntry(ids), NEW start, NEW swapSides
    PROVE  IsLeg(RoundRobin(ids, start, swapSides), ids, start, swapSides)
<1>1. Len(Circle(ids)) = Full(ids)
  BY CircleIs DEF IsEntry
<1> QED BY <1>1, RoundRobinIs DEF IsLeg

LEMMA LegTable ==
    ASSUME NEW ids, IsEntry(ids), NEW start, NEW swapSides, NEW r, NEW i,
           NEW p, p = Met(Circle(ids), start, swapSides, r, i)
    PROVE  /\ p.slot[2] = start + r
           /\ Both(p) = Facing(ids, r, i) \ {NoOne}
           /\ NoOne \notin Facing(ids, r, i) => p.home = HomeAt(ids, r, i, swapSides)
<1>0. PICK all, n : all = Circle(ids) /\ n = Full(ids)
  OBVIOUS
<1>1. Len(all) = n
  BY <1>0, CircleIs DEF IsEntry
<1>2. IsMet(p, start, swapSides, r, i, SeatAt(all, n, r, i), SeatAt(all, n, r, n - 1 - i))
  BY <1>0, <1>1, MetBoth DEF SeatAt
<1>3. p.slot[2] = start + r
  BY <1>2 DEF IsMet
<1> QED BY <1>0, <1>2, <1>3 DEF IsMet, Facing, HomeAt

(* In each round of a leg everybody is at one table. *)
AtOneTable(A, k, x) ==
    \E p \in A : /\ p.slot[2] = k /\ x \in Both(p)
                 /\ \A q \in A : q.slot[2] = k /\ x \in Both(q) => q = p

LEMMA LegSeatsAll ==
    ASSUME NEW ids, IsEntry(ids), NEW A, NEW start \in Nat, NEW swapSides, IsLeg(A, ids, start, swapSides),
           NEW k \in start..(start + Full(ids) - 2), NEW x \in Range(ids)
    PROVE  AtOneTable(A, k, x)
<1>0. PICK all, n : all = Circle(ids) /\ n = Full(ids)
  OBVIOUS
<1>2. A = {Met(all, start, swapSides, r, i) : r \in Rounds(n), i \in Tables(n)}
  BY <1>0 DEF IsLeg
<1>3. n \in Nat /\ n >= 2 /\ x # NoOne
  BY <1>0, CircleIs DEF IsEntry
<1>4. PICK r \in Rounds(n) : k = start + r
  <2>1. k - start \in Rounds(n) /\ k = start + (k - start)
    BY <1>0, <1>3 DEF Rounds
  <2> QED BY <2>1
<1>5. PICK i \in Tables(n) : x \in Facing(ids, r, i)
  BY <1>0, AtOnce DEF Facing
<1>6. PICK p : p = Met(all, start, swapSides, r, i)
  OBVIOUS
<1>7. p \in A /\ p.slot[2] = k /\ x \in Both(p)
  BY <1>0, <1>2, <1>3, <1>4, <1>5, <1>6, LegTable
<1>8. ASSUME NEW q \in A, q.slot[2] = k, x \in Both(q) PROVE q = p
  <2>1. PICK s \in Rounds(n), j \in Tables(n) : q = Met(all, start, swapSides, s, j)
    BY <1>2
  <2>2. q.slot[2] = start + s /\ x \in Facing(ids, s, j)
    BY <1>0, <1>8, <2>1, LegTable
  <2>3. s = r
    BY <1>3, <1>4, <1>8, <2>2 DEF Rounds
  <2>4. j = i
    BY <1>0, <1>5, <2>2, <2>3, AtOnce DEF Facing
  <2> QED BY <1>6, <2>1, <2>3, <2>4
<1> QED BY <1>7, <1>8 DEF AtOneTable

LEMMA LegRounds ==
    ASSUME NEW ids, IsEntry(ids), NEW A, NEW start \in Nat, NEW swapSides, IsLeg(A, ids, start, swapSides),
           NEW p \in A
    PROVE  p.slot[2] \in start..(start + Full(ids) - 2)
<1>2. PICK r \in Rounds(Full(ids)), i \in Tables(Full(ids)) : p = Met(Circle(ids), start, swapSides, r, i)
  BY DEF IsLeg
<1>3. p.slot[2] = start + r
  BY <1>2, LegTable
<1>4. Full(ids) \in Nat /\ Full(ids) >= 2
  BY CircleIs DEF IsEntry
<1> QED BY <1>3, <1>4 DEF Rounds

(* Where two entrants meet, and who is at home there. *)
OnlyMeeting(A, x, y, p) == p \in A /\ \A q \in A : Both(q) = {x, y} <=> q = p

LEMMA LegMeeting ==
    ASSUME NEW ids, IsEntry(ids), NEW x \in Range(ids), NEW y \in Range(ids), x # y,
           NEW r \in Rounds(Full(ids)), NEW i \in Tables(Full(ids)), MeetThere(ids, r, i, x, y),
           NEW A, NEW start, NEW swapSides, IsLeg(A, ids, start, swapSides),
           NEW p, IsTableOf(p, ids, start, swapSides, r, i)
    PROVE  OnlyMeeting(A, x, y, p) /\ IsHome(p, ids, r, i, swapSides)
<1>0. PICK all, n : all = Circle(ids) /\ n = Full(ids) /\ Facing(ids, r, i) = {x, y}
  BY DEF MeetThere
<1>1. x # NoOne /\ y # NoOne
  BY DEF IsEntry
<1>2. p \in A
  BY DEF IsLeg, IsTableOf
<1>3. Both(p) = {x, y} /\ p.home = HomeAt(ids, r, i, swapSides)
  BY <1>0, <1>1, LegTable DEF IsTableOf
<1>4. ASSUME NEW p1 \in A, Both(p1) = {x, y} PROVE p1 = p
  <2>1. PICK q \in Rounds(n), j \in Tables(n) : p1 = Met(all, start, swapSides, q, j)
    BY <1>0 DEF IsLeg
  <2>2. Both(p1) = Facing(ids, q, j) \ {NoOne}
    BY <1>0, <2>1, LegTable
  <2>3. Couple(all, n, q, j, x, y) /\ Couple(all, n, r, i, x, y)
    BY <1>0, <1>1, <1>4, <2>2 DEF Couple, Facing
  <2>4. \A r1, q1 \in Rounds(n), i1, j1 \in Tables(n) :
             Couple(all, n, r1, i1, x, y) /\ Couple(all, n, q1, j1, x, y) => r1 = q1 /\ i1 = j1
    BY <1>0, TogetherOnce
  <2>5. q = r /\ j = i
    BY <1>0, <2>3, <2>4
  <2> QED BY <1>0, <2>1, <2>5 DEF IsTableOf
<1> QED BY <1>2, <1>3, <1>4 DEF OnlyMeeting, IsHome

LEMMA SeatedOnce ==
    ASSUME NEW ids, IsEntry(ids), NEW x \in Range(ids), NEW y \in Range(ids), x # y
    PROVE  \E r \in Rounds(Full(ids)), i \in Tables(Full(ids)) : MeetThere(ids, r, i, x, y)
<1>0. PICK all, n : all = Circle(ids) /\ n = Full(ids)
  OBVIOUS
<1>1. PICK r \in Rounds(n), i \in Tables(n) : Couple(all, n, r, i, x, y)
  BY <1>0, TogetherOnce
<1>2. Facing(ids, r, i) = {x, y}
  BY <1>0, <1>1 DEF Couple, Facing
<1> QED BY <1>0, <1>2 DEF MeetThere

(* In the second leg the other one is at home. *)
EachAtHome(p, q, x, y) == {p.home, q.home} = {x, y}

LEMMA HomeTurns ==
    ASSUME NEW ids, NEW x, NEW y, x # y, NEW r, NEW i, MeetThere(ids, r, i, x, y),
           NEW p, IsHome(p, ids, r, i, FALSE), NEW q, IsHome(q, ids, r, i, TRUE)
    PROVE  EachAtHome(p, q, x, y)
<1>1. PICK a, b : a = SeatAt(Circle(ids), Full(ids), r, i) /\ b = SeatAt(Circle(ids), Full(ids), r, Full(ids) - 1 - i)
  OBVIOUS
<1>2. {a, b} = {x, y}
  BY <1>1 DEF Facing, MeetThere
<1>3. \/ HomeAt(ids, r, i, FALSE) = a /\ HomeAt(ids, r, i, TRUE) = b
      \/ HomeAt(ids, r, i, FALSE) = b /\ HomeAt(ids, r, i, TRUE) = a
  <2>1. CASE (r + i) % 2 = 0
    BY <1>1, <2>1 DEF HomeAt, FirstAtHome
  <2>2. CASE (r + i) % 2 # 0
    BY <1>1, <2>2 DEF HomeAt, FirstAtHome
  <2> QED BY <2>1, <2>2
<1>4. p.home = HomeAt(ids, r, i, FALSE) /\ q.home = HomeAt(ids, r, i, TRUE)
  BY DEF IsHome
<1> QED BY <1>2, <1>3, <1>4 DEF EachAtHome

-----------------------------------------------------------------------------
(* Every round of a round robin and of a league *)

Meeting(A, x, y) == {p \in A : Both(p) = {x, y}}
InRoundOf(A, k, x) == {q \in A : q.slot[2] = k /\ x \in Both(q)}

(* What EverybodyMeets says of a calendar. *)
MeetsFairly(ids, A, legs) ==
    /\ \A x \in Range(ids), y \in Range(ids) : x # y =>
          /\ Cardinality(Meeting(A, x, y)) = legs
          /\ legs = 2 => Cardinality({p \in Meeting(A, x, y) : p.home = x}) = 1
    /\ \A p \in A, x \in Range(ids) : Cardinality(InRoundOf(A, p.slot[2], x)) = 1

LEMMA OneOf ==
    ASSUME NEW S, NEW x \in S, \A y \in S : y = x
    PROVE  Cardinality(S) = 1
<1>1. S = {x}
  OBVIOUS
<1> QED BY <1>1, FS_Singleton

LEMMA PairHasTwo ==
    ASSUME NEW x, NEW y, x # y
    PROVE  Cardinality({x, y}) = 2
<1>1. IsFiniteSet({x}) /\ Cardinality({x}) = 1
  BY FS_Singleton
<1>2. Cardinality({x} \cup {y}) = Cardinality({x}) + 1
  BY <1>1, FS_AddElement
<1>3. {x, y} = {x} \cup {y}
  OBVIOUS
<1> QED BY <1>1, <1>2, <1>3

LEMMA TableCounts ==
    ASSUME NEW A, NEW k, NEW x, AtOneTable(A, k, x)
    PROVE  Cardinality(InRoundOf(A, k, x)) = 1
<1>1. PICK q \in A : /\ q.slot[2] = k /\ x \in Both(q)
                     /\ \A q2 \in A : q2.slot[2] = k /\ x \in Both(q2) => q2 = q
  BY DEF AtOneTable
<1>2. q \in InRoundOf(A, k, x) /\ \A q2 \in InRoundOf(A, k, x) : q2 = q
  BY <1>1 DEF InRoundOf
<1> QED BY <1>2, OneOf

LEMMA MeetingIs ==
    ASSUME NEW A, NEW x, NEW y, NEW p, OnlyMeeting(A, x, y, p)
    PROVE  Meeting(A, x, y) = {p}
  BY DEF OnlyMeeting, Meeting

LEMMA MeetingOfTwo ==
    ASSUME NEW A, NEW B, NEW x, NEW y
    PROVE  Meeting(A \cup B, x, y) = Meeting(A, x, y) \cup Meeting(B, x, y)
  BY DEF Meeting

LEMMA RoundRobinFair ==
    ASSUME NEW ids, IsEntry(ids)
    PROVE  MeetsFairly(ids, RoundRobin(ids, 1, FALSE), 1)
<1>1. PICK A : A = RoundRobin(ids, 1, FALSE)
  OBVIOUS
<1>2. IsLeg(A, ids, 1, FALSE)
  BY <1>1, LegIs
<1>3. ASSUME NEW x \in Range(ids), NEW y \in Range(ids), x # y PROVE Cardinality(Meeting(A, x, y)) = 1
  <2>1. PICK r \in Rounds(Full(ids)), i \in Tables(Full(ids)) : MeetThere(ids, r, i, x, y)
    BY <1>3, SeatedOnce
  <2>2. PICK p : IsTableOf(p, ids, 1, FALSE, r, i)
    BY DEF IsTableOf
  <2>3. OnlyMeeting(A, x, y, p)
    BY <1>2, <1>3, <2>1, <2>2, LegMeeting
  <2> QED BY <2>3, MeetingIs, FS_Singleton
<1>4. ASSUME NEW p \in A, NEW x \in Range(ids) PROVE Cardinality(InRoundOf(A, p.slot[2], x)) = 1
  <2>1. p.slot[2] \in 1..(1 + Full(ids) - 2)
    BY <1>2, LegRounds
  <2>2. AtOneTable(A, p.slot[2], x)
    BY <1>2, <2>1, LegSeatsAll
  <2> QED BY <2>2, TableCounts
<1>5. MeetsFairly(ids, A, 1)
  BY <1>3, <1>4 DEF MeetsFairly
<1> QED BY <1>1, <1>5, Zenon

LEMMA LeagueLegs ==
    ASSUME NEW ids, IsField(ids)
    PROVE  League(ids, 2) = RoundRobin(ids, 1, FALSE) \cup RoundRobin(ids, Full(ids), TRUE)
<1>1. Len(ids) \in Nat /\ Len(ids) >= 2
  BY DEF IsField
<1>2. PICK m : m = Leg(ids)
  OBVIOUS
<1>3. m \in Nat /\ Full(ids) = m + 1
  BY <1>1, <1>2 DEF Leg, Full
<1>4. 0 * m + 1 = 1 /\ 1 * m + 1 = Full(ids) /\ 0 % 2 = 0 /\ 1 % 2 = 1
  BY <1>3
<1>5. (0 % 2 = 1) = FALSE /\ (1 % 2 = 1) = TRUE
  BY <1>4
<1>6. League(ids, 2) = RoundRobin(ids, 0 * m + 1, 0 % 2 = 1) \cup RoundRobin(ids, 1 * m + 1, 1 % 2 = 1)
  BY <1>2, LeagueIs
<1> QED BY <1>4, <1>5, <1>6

(* A round of two legs of which the second comes after the first. *)
LEMMA InOneLeg ==
    ASSUME NEW A, NEW B, NEW n \in Nat, NEW k, NEW x,
           \A p \in A : p.slot[2] \in 1..(n - 1), \A p \in B : p.slot[2] \in n..(n + n - 2),
           \/ k \in 1..(n - 1) /\ AtOneTable(A, k, x)
           \/ k \in n..(n + n - 2) /\ AtOneTable(B, k, x)
    PROVE  AtOneTable(A \cup B, k, x)
<1>1. ASSUME k \in 1..(n - 1) PROVE \A p \in B : p.slot[2] # k
  BY <1>1
<1>2. ASSUME k \in n..(n + n - 2) PROVE \A p \in A : p.slot[2] # k
  BY <1>2
<1>3. CASE k \in 1..(n - 1) /\ AtOneTable(A, k, x)
  <2>1. PICK p \in A : /\ p.slot[2] = k /\ x \in Both(p)
                       /\ \A q \in A : q.slot[2] = k /\ x \in Both(q) => q = p
    BY <1>3 DEF AtOneTable
  <2> QED BY <1>1, <1>3, <2>1 DEF AtOneTable
<1>4. CASE k \in n..(n + n - 2) /\ AtOneTable(B, k, x)
  <2>1. PICK p \in B : /\ p.slot[2] = k /\ x \in Both(p)
                       /\ \A q \in B : q.slot[2] = k /\ x \in Both(q) => q = p
    BY <1>4 DEF AtOneTable
  <2> QED BY <1>2, <1>4, <2>1 DEF AtOneTable
<1> QED BY <1>3, <1>4

LEMMA LeagueFair ==
    ASSUME NEW ids, IsEntry(ids)
    PROVE  MeetsFairly(ids, League(ids, 2), 2)
<1>1. PICK n \in Nat : n = Full(ids) /\ n >= 2
  BY CircleIs DEF IsEntry
<1>2. PICK A, B : A = RoundRobin(ids, 1, FALSE) /\ B = RoundRobin(ids, n, TRUE)
  OBVIOUS
<1>3. League(ids, 2) = A \cup B
  BY <1>1, <1>2, LeagueLegs DEF IsEntry
<1>4. IsLeg(A, ids, 1, FALSE) /\ IsLeg(B, ids, n, TRUE)
  BY <1>2, LegIs
<1>5. \A p \in A : p.slot[2] \in 1..(n - 1)
  <2>1. \A p \in A : p.slot[2] \in 1..(1 + Full(ids) - 2)
    BY <1>4, LegRounds
  <2>2. 1 + Full(ids) - 2 = n - 1
    BY <1>1
  <2> QED BY <2>1, <2>2
<1>6. \A p \in B : p.slot[2] \in n..(n + n - 2)
  BY <1>1, <1>4, LegRounds
<1>7. \A p \in A : p \notin B
  <2>1. ASSUME NEW p, p \in A, p \in B PROVE FALSE
    <3>1. PICK k : k = p.slot[2]
      OBVIOUS
    <3>2. k \in 1..(n - 1) /\ k \in n..(n + n - 2)
      BY <1>5, <1>6, <2>1, <3>1
    <3> QED BY <3>2
  <2> QED BY <2>1
<1>8. ASSUME NEW x \in Range(ids), NEW y \in Range(ids), x # y
      PROVE  /\ Cardinality(Meeting(A \cup B, x, y)) = 2
             /\ Cardinality({p \in Meeting(A \cup B, x, y) : p.home = x}) = 1
  <2>1. PICK r \in Rounds(Full(ids)), i \in Tables(Full(ids)) : MeetThere(ids, r, i, x, y)
    BY <1>8, SeatedOnce
  <2>2. PICK p, q : IsTableOf(p, ids, 1, FALSE, r, i) /\ IsTableOf(q, ids, n, TRUE, r, i)
    BY DEF IsTableOf
  <2>3. OnlyMeeting(A, x, y, p) /\ IsHome(p, ids, r, i, FALSE)
    BY <1>4, <1>8, <2>1, <2>2, LegMeeting
  <2>4. OnlyMeeting(B, x, y, q) /\ IsHome(q, ids, r, i, TRUE)
    BY <1>4, <1>8, <2>1, <2>2, LegMeeting
  <2>5. EachAtHome(p, q, x, y)
    BY <1>8, <2>1, <2>3, <2>4, HomeTurns
  <2>6. p # q
    BY <1>7, <2>3, <2>4 DEF OnlyMeeting
  <2>7. Meeting(A \cup B, x, y) = {p, q}
    <3>1. Meeting(A, x, y) = {p} /\ Meeting(B, x, y) = {q}
      BY <2>3, <2>4, MeetingIs
    <3>2. Meeting(A \cup B, x, y) = Meeting(A, x, y) \cup Meeting(B, x, y)
      BY MeetingOfTwo
    <3>3. {p} \cup {q} = {p, q}
      OBVIOUS
    <3> QED BY <3>1, <3>2, <3>3, Zenon
  <2>8. Cardinality({p, q}) = 2
    BY <2>6, PairHasTwo
  <2>9. PICK z : z \in {p, q} /\ z.home = x /\ \A w \in {p, q} : w.home = x => w = z
    BY <1>8, <2>5 DEF EachAtHome
  <2>10. Cardinality({w \in Meeting(A \cup B, x, y) : w.home = x}) = 1
    <3>1. PICK S : S = {w \in Meeting(A \cup B, x, y) : w.home = x}
      OBVIOUS
    <3>2. z \in S /\ \A w \in S : w = z
      BY <2>7, <2>9, <3>1
    <3> QED BY <3>1, <3>2, OneOf
  <2> QED BY <2>7, <2>8, <2>10
<1>9. ASSUME NEW p \in A \cup B, NEW x \in Range(ids)
      PROVE  Cardinality(InRoundOf(A \cup B, p.slot[2], x)) = 1
  <2>0. PICK k : k = p.slot[2]
    OBVIOUS
  <2>1. k \in 1..(n - 1) \/ k \in n..(n + n - 2)
    BY <1>5, <1>6, <2>0
  <2>2. ASSUME k \in 1..(n - 1) PROVE AtOneTable(A, k, x)
    <3>1. k \in 1..(1 + Full(ids) - 2)
      BY <1>1, <2>2
    <3> QED BY <1>4, <3>1, LegSeatsAll
  <2>3. ASSUME k \in n..(n + n - 2) PROVE AtOneTable(B, k, x)
    BY <1>1, <1>4, <2>3, LegSeatsAll
  <2>4. AtOneTable(A \cup B, k, x)
    BY <1>5, <1>6, <2>1, <2>2, <2>3, InOneLeg
  <2> QED BY <2>0, <2>4, TableCounts
<1> QED BY ZenonT(60), SMTT(60), <1>3, <1>8, <1>9 DEF MeetsFairly

-----------------------------------------------------------------------------
(* The exchanges of the first round: where an owner still meets himself no *)
(* exchange is left that separates him                                     *)

Conflict(owner, tables, i) == SameOwner(owner, tables[i][1], tables[i][2])

(* Tables i and j can change visitors. *)
Fits(owner, tables, i, j) ==
    /\ tables[j][2] # NoOne
    /\ ~SameOwner(owner, tables[j][1], tables[i][2])
    /\ ~SameOwner(owner, tables[i][1], tables[j][2])

Stuck(owner, tables, D, i) ==
    Conflict(owner, tables, i) => \A j \in D \ {i} : ~Fits(owner, tables, i, j)

(* Tables i and j have changed visitors, for the owner of table i. *)
Exchanged(owner, D, tables, after, i, j) ==
    /\ Conflict(owner, tables, i) /\ Fits(owner, tables, i, j)
    /\ after[i] = <<tables[i][1], tables[j][2]>>
    /\ after[j] = <<tables[j][1], tables[i][2]>>
    /\ \A l \in D \ {i, j} : after[l] = tables[l]

(* What an exchange does: either nothing fits, or two tables are cured. *)
LEMMA ExchangeIs ==
    ASSUME NEW owner, NEW D, Indices(D), NEW S, NEW tables \in [D -> S \X S], NEW i \in D,
           NEW after, after = AvoidAt(owner, tables, i)
    PROVE  \/ after = tables /\ Stuck(owner, tables, D, i)
           \/ \E j \in D \ {i} : Exchanged(owner, D, tables, after, i, j)
<1>1. PICK fits : fits = {j \in DOMAIN tables \ {i} : Fits(owner, tables, i, j)}
  OBVIOUS
<1>2. PICK j : j = Min(fits)
  OBVIOUS
<1>3. AvoidAt(owner, tables, i) =
        IF Conflict(owner, tables, i) /\ fits # {}
        THEN [tables EXCEPT ![i] = <<tables[i][1], tables[j][2]>>, ![j] = <<tables[j][1], tables[i][2]>>]
        ELSE tables
  BY <1>1, <1>2 DEF AvoidAt, Conflict, Fits
<1>4. DOMAIN tables = D
  OBVIOUS
<1>5. CASE ~(Conflict(owner, tables, i) /\ fits # {})
  <2>1. after = tables
    BY <1>3, <1>5
  <2>2. Stuck(owner, tables, D, i)
    BY <1>1, <1>4, <1>5 DEF Stuck
  <2> QED BY <2>1, <2>2
<1>6. CASE Conflict(owner, tables, i) /\ fits # {}
  <2>1. fits \subseteq Nat /\ fits \subseteq D
    BY <1>1, <1>4 DEF Indices
  <2>2. \E n \in fits : \A m \in fits : n <= m
    BY <1>6, <2>1, Least
  <2>3. j \in fits
    BY <1>2, <2>1, <2>2 DEF Min
  <2>4. j \in D \ {i} /\ Fits(owner, tables, i, j)
    BY <1>1, <1>4, <2>3
  <2>5. after = [tables EXCEPT ![i] = <<tables[i][1], tables[j][2]>>, ![j] = <<tables[j][1], tables[i][2]>>]
    BY <1>3, <1>6
  <2>6. /\ after[i] = <<tables[i][1], tables[j][2]>>
        /\ after[j] = <<tables[j][1], tables[i][2]>>
        /\ \A l \in D \ {i, j} : after[l] = tables[l]
    BY <2>4, <2>5
  <2> QED BY <1>6, <2>4, <2>6 DEF Exchanged
<1> QED BY <1>5, <1>6

(* A table that was left stays left: two bots of one owner sit at the      *)
(* table that is treated, and none of them at the one it changes with.     *)
LEMMA StuckStays ==
    ASSUME NEW owner, NEW D, Indices(D), NEW S, NEW tables \in [D -> S \X S], NEW i \in D,
           NEW after, after = AvoidAt(owner, tables, i),
           NEW l \in D, l = i \/ Stuck(owner, tables, D, l)
    PROVE  Stuck(owner, after, D, l)
<1>1. CASE after = tables /\ Stuck(owner, tables, D, i)
  BY <1>1
<1>2. ASSUME NEW j \in D \ {i}, Exchanged(owner, D, tables, after, i, j)
      PROVE  Stuck(owner, after, D, l)
  <2>0. /\ Conflict(owner, tables, i) /\ Fits(owner, tables, i, j)
        /\ after[i] = <<tables[i][1], tables[j][2]>> /\ after[j] = <<tables[j][1], tables[i][2]>>
        /\ \A n \in D \ {i, j} : after[n] = tables[n]
    BY <1>2 DEF Exchanged
  <2>1. ~Conflict(owner, after, i) /\ ~Conflict(owner, after, j)
    BY <2>0 DEF Conflict, Fits
  <2>2. ASSUME l # i, l # j, Conflict(owner, after, l) PROVE FALSE
    <3>1. Conflict(owner, tables, l)
      BY <2>0, <2>2 DEF Conflict
    <3>2. ~Fits(owner, tables, l, i) /\ ~Fits(owner, tables, l, j)
      BY <2>2, <3>1 DEF Stuck
    <3>3. PICK a, b, c, d, u, v : /\ a = tables[i][1] /\ b = tables[i][2] /\ c = tables[j][1]
                                  /\ d = tables[j][2] /\ u = tables[l][1] /\ v = tables[l][2]
      OBVIOUS
    <3>4. /\ SameOwner(owner, a, b) /\ SameOwner(owner, u, v)
          /\ d # NoOne /\ ~SameOwner(owner, c, b) /\ ~SameOwner(owner, a, d)
      BY <2>0, <3>1, <3>3 DEF Conflict, Fits
    <3>5. SameOwner(owner, a, v) \/ SameOwner(owner, u, b)
      BY <3>2, <3>3, <3>4 DEF Fits, SameOwner
    <3>6. SameOwner(owner, c, v) \/ SameOwner(owner, u, d)
      BY <3>2, <3>3, <3>4 DEF Fits
    <3> QED BY <3>4, <3>5, <3>6 DEF SameOwner
  <2> QED BY <2>1, <2>2 DEF Stuck
<1>3. \/ after = tables /\ Stuck(owner, tables, D, i)
      \/ \E j \in D \ {i} : Exchanged(owner, D, tables, after, i, j)
  BY ExchangeIs
<1> QED BY <1>1, <1>2, <1>3

LEMMA SwappedStuck ==
    ASSUME NEW owner, NEW D, Indices(D), NEW S, NEW base \in [D -> S \X S], NEW i \in D
    PROVE  Stuck(owner, Swapped(owner, base, D), D, i)
<1>1. PICK h : h = CHOOSE g : IsFold(owner, base, D, D, g)
  OBVIOUS
<1>2. IsFold(owner, base, D, D, h)
  BY <1>1, FoldExists
<1>3. DOMAIN Plain(D) = D
  BY DEF Plain
<1>4. Swapped(owner, base, D) = h[D]
  BY <1>1, <1>3 DEF Swapped, IsSwapping, IsFold
<1> DEFINE Good(s) == h[s] \in [D -> S \X S] /\ \A l \in s : Stuck(owner, h[s], D, l)
           W == {s \in SUBSET D : ~Good(s)}
<1>5. W = {}
  <2> SUFFICES ASSUME W # {} PROVE FALSE
    OBVIOUS
  <2>1. PICK U \in W : Minimal(U, W)
    <3>1. W \subseteq SUBSET D /\ IsFiniteSet(D)
      BY DEF Indices
    <3> HIDE DEF W
    <3> QED BY <3>1, Smallest
  <2>2. h[U] = SwapBody(owner, base, D, h, U)
    BY <1>2 DEF IsFold
  <2>3. CASE U = {}
    BY <2>1, <2>2, <2>3 DEF SwapBody
  <2>4. CASE U # {}
    <3>1. Max(U) \in U
      BY <2>4, LastIn
    <3>2. PICK v : v = h[U \ {Max(U)}]
      OBVIOUS
    <3>3. v \in [D -> S \X S] /\ \A l \in U \ {Max(U)} : Stuck(owner, v, D, l)
      <4>1. U \ {Max(U)} \in SUBSET D /\ U \ {Max(U)} \notin W
        BY <2>1, <3>1 DEF Minimal
      <4> QED BY <3>2, <4>1
    <3>4. Max(U) \in D /\ Plain(D)[Max(U)] = Max(U)
      BY <3>1 DEF Plain
    <3>5. h[U] = AvoidAt(owner, v, Max(U))
      BY <2>2, <2>4, <3>2, <3>4 DEF SwapBody
    <3>6. PICK n \in D : n = Max(U)
      BY <3>4
    <3>7. PICK after : after = AvoidAt(owner, v, n)
      OBVIOUS
    <3>8. after \in [D -> S \X S]
      BY <3>3, <3>7, AvoidAtType
    <3>9. \A l \in U : Stuck(owner, after, D, l)
      BY <3>3, <3>6, <3>7, StuckStays
    <3>10. h[U] = after
      BY <3>5, <3>6, <3>7
    <3> QED BY <2>1, <3>8, <3>9, <3>10
  <2> QED BY <2>3, <2>4
<1>6. D \in SUBSET D
  OBVIOUS
<1>7. Good(D)
  BY <1>5, <1>6
<1> QED BY <1>4, <1>7

(* The tables of the first round before the exchanges. *)
LEMMA PlacedType ==
    ASSUME NEW ids, IsField(ids), NEW k \in Nat, k >= 1, NEW S, S = {NoOne} \cup Range(ids)
    PROVE  Placed(ids, k) \in [1..2^(k - 1) -> S \X S] /\ Indices(1..2^(k - 1))
<1>1. PICK h : h = 2^(k - 1)
  OBVIOUS
<1>2. PICK n : n = 2^k
  OBVIOUS
<1>3. h \in Nat /\ n = 2 * h
  <2>1. PICK j : j = k - 1
    OBVIOUS
  <2>2. j \in Nat /\ k = j + 1
    BY <2>1
  <2>3. 2^j \in Nat /\ 2^(j + 1) = 2 * 2^j
    BY <2>2, PowerIs, PowerDoubles
  <2> QED BY <1>1, <1>2, <2>1, <2>2, <2>3
<1>4. PICK f : f = SeedPositions(k)
  OBVIOUS
<1>5. f \in [1..n -> 1..n]
  BY <1>2, <1>4, SeedPositionsType
<1>6. ASSUME NEW x \in 1..n PROVE (IF x <= Len(ids) THEN ids[x] ELSE NoOne) \in S
  <2>1. CASE x <= Len(ids)
    <3>1. x \in 1..Len(ids)
      BY <1>3, <2>1 DEF IsField
    <3>2. ids[x] \in Range(ids)
      BY <3>1 DEF IsField
    <3> QED BY <2>1, <3>2
  <2>2. CASE ~(x <= Len(ids))
    BY <2>2
  <2> QED BY <2>1, <2>2
<1>7. ASSUME NEW m \in 1..h
      PROVE  <<IF f[2 * m - 1] <= Len(ids) THEN ids[f[2 * m - 1]] ELSE NoOne,
               IF f[2 * m] <= Len(ids) THEN ids[f[2 * m]] ELSE NoOne>> \in S \X S
  <2>1. 2 * m - 1 \in 1..n /\ 2 * m \in 1..n
    BY <1>3
  <2>2. f[2 * m - 1] \in 1..n /\ f[2 * m] \in 1..n
    BY <1>5, <2>1
  <2> QED BY <1>6, <2>2
<1>8. Placed(ids, k) = [m \in 1..h |->
          <<IF f[2 * m - 1] <= Len(ids) THEN ids[f[2 * m - 1]] ELSE NoOne,
            IF f[2 * m] <= Len(ids) THEN ids[f[2 * m]] ELSE NoOne>>]
  BY <1>1, <1>4 DEF Placed
<1>9. Indices(1..h)
  BY <1>3, FS_Interval DEF Indices
<1> QED BY <1>1, <1>7, <1>8, <1>9

LEMMA FirstRoundStuck ==
    ASSUME NEW ids, IsField(ids), NEW owner, NEW k \in Nat, k >= 1, NEW i \in 1..2^(k - 1)
    PROVE  Stuck(owner, FirstRound(ids, owner, k), 1..2^(k - 1), i)
<1>1. PICK D, base, S : D = 1..2^(k - 1) /\ base = Placed(ids, k) /\ S = {NoOne} \cup Range(ids)
  OBVIOUS
<1>2. base \in [D -> S \X S] /\ Indices(D) /\ i \in D
  BY <1>1, PlacedType
<1>3. DOMAIN base = D
  BY <1>2
<1>4. Stuck(owner, Swapped(owner, base, D), D, i)
  BY <1>2, SwappedStuck
<1> QED BY <1>1, <1>3, <1>4, FirstRoundIs

(* A table of the first round that is played is the table of two entrants. *)
LEMMA PlayedFirst ==
    ASSUME NEW S, NoOne \in S, NEW k \in Nat, k >= 1, NEW tables \in [1..2^(k - 1) -> S \X S],
           NEW p \in SingleOf(tables, k), p.slot[2] = 1, ~p.bye
    PROVE  \E m \in 1..2^(k - 1) : /\ p = WTable(tables, k, 1, m)
                                   /\ p.home = tables[m][1] /\ p.away = tables[m][2]
                                   /\ p.home # NoOne /\ p.away # NoOne
<1>1. PICK r \in 1..k : \E m \in 1..2^(k - r) : p = WTable(tables, k, r, m)
  BY SingleMember
<1>2. PICK m \in 1..2^(k - r) : p = WTable(tables, k, r, m)
  BY <1>1
<1>3. r \in Nat /\ r >= 1 /\ (r = 1 => m \in 1..2^(k - 1))
  OBVIOUS
<1>4. p.slot = <<"W", r, m>>
  <2>1. AreTables(tables, k, S) /\ IsFirst(k, r, m)
    BY <1>3 DEF AreTables, IsFirst
  <2> QED BY <1>2, <1>3, <2>1, WTableShape
<1>5. r = 1
  BY <1>4
<1>6. PICK q : q = FirstTable(tables, m)
  OBVIOUS
<1>7. p = FinalOf(q, k) /\ m \in 1..2^(k - 1)
  BY <1>2, <1>5, <1>6 DEF WTable
<1>8. PICK a, b : a = tables[m][1] /\ b = tables[m][2]
  OBVIOUS
<1>9. \/ (q = Resting(<<"W", 1, m>>, a) \/ q = Resting(<<"W", 1, m>>, b))
      \/ (q = Known(<<"W", 1, m>>, a, b) /\ a # NoOne /\ b # NoOne)
  <2>1. CASE b = NoOne
    BY <1>6, <1>8, <2>1 DEF FirstTable
  <2>2. CASE b # NoOne /\ a = NoOne
    BY <1>6, <1>8, <2>2 DEF FirstTable
  <2>3. CASE b # NoOne /\ a # NoOne
    BY <1>6, <1>8, <2>3 DEF FirstTable
  <2> QED BY <2>1, <2>2, <2>3
<1>10. IsPairing(q) /\ (q.bye \/ (q.home = a /\ q.away = b /\ a # NoOne /\ b # NoOne))
  BY <1>9, RestingShape, KnownShape
<1>11. PICK final \in BOOLEAN : final = (q.slot[2] = k)
  OBVIOUS
<1>12. p.bye = q.bye /\ p.home = q.home /\ p.away = q.away
  <2>1. p = [q EXCEPT !.final = final]
    BY <1>7, <1>11 DEF FinalOf
  <2> QED BY <1>10, <2>1, FinalShape
<1> QED BY <1>2, <1>5, <1>7, <1>8, <1>10, <1>12

(* OwnersApart of a calendar. *)
Separates(owner, A) ==
    \A p, q \in {t \in A : t.slot[2] = 1 /\ ~t.bye} :
        p # q /\ SameOwner(owner, p.home, p.away) =>
            SameOwner(owner, q.home, p.away) \/ SameOwner(owner, p.home, q.away)

LEMMA SingleSeparates ==
    ASSUME NEW ids, IsField(ids), NEW owner, NEW A, A = SingleElimination(ids, owner)
    PROVE  Separates(owner, A)
<1>0. PICK k : k = Log2Up(Len(ids))
  OBVIOUS
<1>1. k \in Nat /\ k >= 1
  <2>1. Len(ids) \in Nat /\ Len(ids) >= 2
    BY DEF IsField
  <2>2. k \in 1..Len(ids)
    BY <1>0, <2>1, Log2UpIs
  <2> QED BY <2>1, <2>2
<1>2. PICK tables, S : tables = FirstRound(ids, owner, k) /\ S = {NoOne} \cup Range(ids)
  OBVIOUS
<1>3. tables \in [1..2^(k - 1) -> S \X S] /\ NoOne \in S
  BY <1>1, <1>2, FirstRoundType
<1>4. A = SingleOf(tables, k)
  BY <1>0, <1>2, SingleIs
<1>5. \A i \in 1..2^(k - 1) : Stuck(owner, tables, 1..2^(k - 1), i)
  BY <1>1, <1>2, FirstRoundStuck
<1>6. ASSUME NEW p \in A, p.slot[2] = 1, ~p.bye, NEW q \in A, q.slot[2] = 1, ~q.bye,
             p # q, SameOwner(owner, p.home, p.away)
      PROVE  SameOwner(owner, q.home, p.away) \/ SameOwner(owner, p.home, q.away)
  <2>1. PICK m \in 1..2^(k - 1) : /\ p = WTable(tables, k, 1, m)
                                  /\ p.home = tables[m][1] /\ p.away = tables[m][2]
    BY SMTT(60), ZenonT(60), <1>1, <1>3, <1>4, <1>6, PlayedFirst
  <2>2. PICK n \in 1..2^(k - 1) : /\ q = WTable(tables, k, 1, n)
                                  /\ q.home = tables[n][1] /\ q.away = tables[n][2]
                                  /\ q.home # NoOne /\ q.away # NoOne
    BY <1>1, <1>3, <1>4, <1>6, PlayedFirst
  <2>3. m # n
    BY <1>6, <2>1, <2>2
  <2>4. ~Fits(owner, tables, m, n)
    BY <1>5, <1>6, <2>1, <2>3 DEF Stuck, Conflict
  <2> QED BY <2>1, <2>2, <2>4 DEF Fits
<1> QED BY <1>6 DEF Separates

-----------------------------------------------------------------------------
(* Places of a bracket: the sides of its tables, which are drawn or come   *)
(* from another table                                                      *)

BeatenIn(r) == IF r.home = r.winner THEN r.away ELSE r.home

DrawnAt(slot, side) == [slot |-> slot, take |-> side]

HomePlace(p) == IF p.homeSource = NoSource THEN DrawnAt(p.slot, "home") ELSE p.homeSource
AwayPlace(p) == IF p.awaySource = NoSource THEN DrawnAt(p.slot, "away") ELSE p.awaySource

ComesFrom(p, d) == d = HomePlace(p) \/ d = AwayPlace(p)

(* Whom a place holds, whether or not he has gone on from there. *)
DrawnThere(A, d, x) ==
    \E p \in A : /\ p.homeSource = NoSource /\ p.awaySource = NoSource
                 /\ \/ d = DrawnAt(p.slot, "home") /\ x = p.home
                    \/ d = DrawnAt(p.slot, "away") /\ x = p.away

CameOut(R, d, x) ==
    /\ d.slot \in DOMAIN R
    /\ \/ d = WinnerOf(d.slot) /\ x = R[d.slot].winner
       \/ d = LoserOf(d.slot) /\ x = BeatenIn(R[d.slot])

Holds(A, R, d, x) == DrawnThere(A, d, x) \/ CameOut(R, d, x)

Free(A, R, d) == \A q \in A : ComesFrom(q, d) => q.slot \notin DOMAIN R

(* Where x is. *)
IsAt(A, R, d, x) == Holds(A, R, d, x) /\ Free(A, R, d)

IsEnd(d) == d \in {WinnerOf(d.slot), LoserOf(d.slot)}

(* What a bracket is, as far as it says who goes where. *)
Joined(A) ==
    /\ Distinct(A)
    /\ \A p \in A : IsKnown(p) \/ (IsOpen(p) /\ IsEnd(p.homeSource) /\ IsEnd(p.awaySource))
    /\ \A p, q \in A : \A d : ComesFrom(p, d) /\ ComesFrom(q, d) => p = q
    /\ \A p \in A : HomePlace(p) # AwayPlace(p)

(* A match is decided after the ones its sides come from. *)
InOrder(A, R) ==
    \A q \in A : q.slot \in DOMAIN R =>
        /\ q.homeSource # NoSource => q.homeSource.slot \in DOMAIN R
        /\ q.awaySource # NoSource => q.awaySource.slot \in DOMAIN R

SeatedBy(R, known, source) ==
    IF source = NoSource THEN known
    ELSE IF source.take = "winner" THEN R[source.slot].winner ELSE BeatenIn(R[source.slot])

(* The verdicts of a bracket. *)
IsFormal(R, p, home) == p.conditionalOn # <<>> /\ R[p.conditionalOn].winner = home

IsVerdict(R, p, home, away, w) ==
    /\ home = NoOne => w = away
    /\ home # NoOne /\ away = NoOne => w = home
    /\ home # NoOne /\ away # NoOne => w = home \/ (w = away /\ ~IsFormal(R, p, home))

Grows(R, R2, s, home, away, w) ==
    /\ DOMAIN R2 = DOMAIN R \cup {s}
    /\ R2[s].home = home /\ R2[s].away = away /\ R2[s].winner = w
    /\ \A m \in DOMAIN R : m # s => R2[m] = R[m]

IsPlayed(A, R, p, home, away, w, R2) ==
    /\ p \in A /\ p.slot \notin DOMAIN R
    /\ p.homeSource # NoSource => p.homeSource.slot \in DOMAIN R
    /\ p.awaySource # NoSource => p.awaySource.slot \in DOMAIN R
    /\ home = SeatedBy(R, p.home, p.homeSource)
    /\ away = SeatedBy(R, p.away, p.awaySource)
    /\ IsVerdict(R, p, home, away, w)
    /\ Grows(R, R2, p.slot, home, away, w)

LEMMA InOrderStill ==
    ASSUME NEW A, Joined(A), NEW R, InOrder(A, R), NEW p, NEW home, NEW away, NEW w, NEW R2,
           IsPlayed(A, R, p, home, away, w, R2)
    PROVE  InOrder(A, R2)
<1>1. DOMAIN R2 = DOMAIN R \cup {p.slot} /\ p \in A
  BY DEF IsPlayed, Grows
<1>2. \A q \in A : q.slot = p.slot => q = p
  BY <1>1 DEF Joined, Distinct
<1> QED BY <1>1, <1>2 DEF InOrder, IsPlayed

LEMMA DrawnAtIs ==
    ASSUME NEW slot, NEW side, NEW s
    PROVE  /\ DrawnAt(slot, side).slot = slot /\ DrawnAt(slot, side).take = side
           /\ side \in {"home", "away"} => DrawnAt(slot, side) # WinnerOf(s) /\ DrawnAt(slot, side) # LoserOf(s)
<1>1. DrawnAt(slot, side).slot = slot /\ DrawnAt(slot, side).take = side
  BY DEF DrawnAt
<1>2. WinnerOf(s).take = "winner" /\ LoserOf(s).take = "loser"
  BY SourceIs
<1> QED BY <1>1, <1>2

(* Who sits at a table came from its two places. *)
LEMMA SidesAreThere ==
    ASSUME NEW A, Joined(A), NEW R, NEW p, NEW home, NEW away, NEW w, NEW R2,
           IsPlayed(A, R, p, home, away, w, R2)
    PROVE  IsAt(A, R, HomePlace(p), home) /\ IsAt(A, R, AwayPlace(p), away)
<1>1. p \in A /\ p.slot \notin DOMAIN R
  BY DEF IsPlayed
<1>2. \A q \in A : \A d : ComesFrom(q, d) /\ ComesFrom(p, d) => q = p
  BY <1>1 DEF Joined
<1>3. Free(A, R, HomePlace(p)) /\ Free(A, R, AwayPlace(p))
  BY <1>1, <1>2 DEF Free, ComesFrom
<1>4. home = SeatedBy(R, p.home, p.homeSource) /\ away = SeatedBy(R, p.away, p.awaySource)
  BY DEF IsPlayed
<1>5. CASE IsKnown(p)
  <2>1. p.homeSource = NoSource /\ p.awaySource = NoSource
    BY <1>5 DEF IsKnown
  <2>2. home = p.home /\ away = p.away
    BY <1>4, <2>1 DEF SeatedBy
  <2>3. HomePlace(p) = DrawnAt(p.slot, "home") /\ AwayPlace(p) = DrawnAt(p.slot, "away")
    BY <2>1 DEF HomePlace, AwayPlace
  <2>4. DrawnThere(A, HomePlace(p), home) /\ DrawnThere(A, AwayPlace(p), away)
    BY <1>1, <2>1, <2>2, <2>3 DEF DrawnThere
  <2> QED BY <1>3, <2>4 DEF IsAt, Holds
<1>6. CASE IsOpen(p) /\ IsEnd(p.homeSource) /\ IsEnd(p.awaySource)
  <2>1. p.homeSource # NoSource /\ p.awaySource # NoSource
    BY <1>6 DEF IsOpen
  <2>2. PICK x, y : x = p.homeSource /\ y = p.awaySource
    OBVIOUS
  <2>3. HomePlace(p) = x /\ AwayPlace(p) = y /\ x.slot \in DOMAIN R /\ y.slot \in DOMAIN R
    BY <2>1, <2>2 DEF HomePlace, AwayPlace, IsPlayed
  <2>4. ASSUME NEW d, NEW known, d # NoSource, d \in {WinnerOf(d.slot), LoserOf(d.slot)}, d.slot \in DOMAIN R
        PROVE  CameOut(R, d, SeatedBy(R, known, d))
    <3>1. CASE d = WinnerOf(d.slot)
      <4>1. d.take = "winner"
        BY <3>1, SourceIs
      <4> QED BY <2>4, <3>1, <4>1 DEF CameOut, SeatedBy
    <3>2. CASE d = LoserOf(d.slot)
      <4>1. d.take = "loser"
        BY <3>2, SourceIs
      <4> QED BY <2>4, <3>2, <4>1 DEF CameOut, SeatedBy
    <3> QED BY <2>4, <3>1, <3>2
  <2>5. x \in {WinnerOf(x.slot), LoserOf(x.slot)} /\ y \in {WinnerOf(y.slot), LoserOf(y.slot)}
    BY <1>6, <2>2 DEF IsEnd
  <2>6. CameOut(R, x, home) /\ CameOut(R, y, away)
    BY <1>4, <2>1, <2>2, <2>3, <2>4, <2>5
  <2> QED BY <1>3, <2>3, <2>6 DEF IsAt, Holds
<1> QED BY <1>1, <1>5, <1>6 DEF Joined

(* Who moves when a match is decided: its two sides, to its two ends. *)
LEMMA Moves ==
    ASSUME NEW A, Joined(A), NEW R, InOrder(A, R), NEW p, NEW home, NEW away, NEW w, NEW R2,
           IsPlayed(A, R, p, home, away, w, R2), NEW d, NEW x
    PROVE  IsAt(A, R2, d, x) <=> \/ IsAt(A, R, d, x) /\ ~ComesFrom(p, d)
                                 \/ d = WinnerOf(p.slot) /\ x = w
                                 \/ d = LoserOf(p.slot) /\ x = IF home = w THEN away ELSE home
<1>1. PICK s : s = p.slot
  OBVIOUS
<1>2. /\ p \in A /\ s \notin DOMAIN R /\ DOMAIN R2 = DOMAIN R \cup {s}
      /\ R2[s].winner = w /\ R2[s].home = home /\ R2[s].away = away
      /\ \A m \in DOMAIN R : R2[m] = R[m]
  BY <1>1 DEF IsPlayed, Grows
<1>3. \A q \in A : q.slot = s => q = p
  BY <1>1, <1>2 DEF Joined, Distinct
<1>4. Free(A, R2, d) <=> Free(A, R, d) /\ ~ComesFrom(p, d)
  BY <1>1, <1>2, <1>3 DEF Free
<1>5. BeatenIn(R2[s]) = IF home = w THEN away ELSE home
  BY <1>2 DEF BeatenIn
<1>6. WinnerOf(s).slot = s /\ LoserOf(s).slot = s
  BY SourceIs
<1>7. CameOut(R2, d, x) <=> \/ CameOut(R, d, x)
                            \/ d = WinnerOf(s) /\ x = w
                            \/ d = LoserOf(s) /\ x = IF home = w THEN away ELSE home
  BY <1>2, <1>5, <1>6 DEF CameOut
<1>8. ASSUME d = WinnerOf(s) \/ d = LoserOf(s) PROVE Free(A, R, d) /\ ~ComesFrom(p, d)
  <2>1. d.slot = s
    BY <1>6, <1>8
  <2>2. \A q \in A : ComesFrom(q, d) => d = q.homeSource \/ d = q.awaySource
    BY <1>8, DrawnAtIs DEF ComesFrom, HomePlace, AwayPlace
  <2>3. d # NoSource
    BY <1>8, SourceIs
  <2>4. \A q \in A : q.slot \in DOMAIN R => ~ComesFrom(q, d)
    BY <1>2, <2>1, <2>2, <2>3 DEF InOrder
  <2>5. ~ComesFrom(p, d)
    BY <1>2, <2>1, <2>2, <2>3 DEF IsPlayed
  <2> QED BY <2>4, <2>5 DEF Free
<1>9. IsAt(A, R2, d, x) <=> (DrawnThere(A, d, x) \/ CameOut(R2, d, x)) /\ Free(A, R, d) /\ ~ComesFrom(p, d)
  BY <1>4 DEF IsAt, Holds
<1>10. IsAt(A, R, d, x) <=> (DrawnThere(A, d, x) \/ CameOut(R, d, x)) /\ Free(A, R, d)
  BY DEF IsAt, Holds
<1> QED BY <1>1, <1>7, <1>8, <1>9, <1>10

-----------------------------------------------------------------------------
(* Knockouts: how often the side at a place has lost *)

GrandSlot == <<"GF", 1, 1>>
ResetSlot == <<"GF", 2, 1>>
LastSlot(k) == <<"W", k, 1>>

LevelOf(R, k, d) ==
    IF d.take \in {"home", "away"} THEN 0
    ELSE IF d.slot[1] = "W" THEN IF d.take = "winner" THEN 0 ELSE 1
    ELSE IF d.slot[1] = "L" THEN IF d.take = "winner" THEN 1 ELSE 2
    ELSE IF d.slot = GrandSlot
         THEN IF R[d.slot].winner = R[d.slot].home THEN IF d.take = "winner" THEN 0 ELSE 2 ELSE 1
    ELSE IF d.take = "winner" THEN IF R[LastSlot(k)].winner = R[d.slot].home THEN 0 ELSE 1 ELSE 2

LEMMA LevelIs ==
    ASSUME NEW R, NEW k, NEW s
    PROVE  /\ LevelOf(R, k, DrawnAt(s, "home")) = 0 /\ LevelOf(R, k, DrawnAt(s, "away")) = 0
           /\ s[1] = "W" => LevelOf(R, k, WinnerOf(s)) = 0 /\ LevelOf(R, k, LoserOf(s)) = 1
           /\ s[1] = "L" => LevelOf(R, k, WinnerOf(s)) = 1 /\ LevelOf(R, k, LoserOf(s)) = 2
           /\ s = GrandSlot =>
                 /\ LevelOf(R, k, WinnerOf(s)) = IF R[s].winner = R[s].home THEN 0 ELSE 1
                 /\ LevelOf(R, k, LoserOf(s)) = IF R[s].winner = R[s].home THEN 2 ELSE 1
           /\ s = ResetSlot =>
                 /\ LevelOf(R, k, WinnerOf(s)) = IF R[LastSlot(k)].winner = R[s].home THEN 0 ELSE 1
                 /\ LevelOf(R, k, LoserOf(s)) = 2
<1>1. LevelOf(R, k, DrawnAt(s, "home")) = 0 /\ LevelOf(R, k, DrawnAt(s, "away")) = 0
  BY DrawnAtIs DEF LevelOf
<1>2. PICK x, y : x = WinnerOf(s) /\ y = LoserOf(s)
  OBVIOUS
<1>3. x.slot = s /\ y.slot = s /\ x.take = "winner" /\ y.take = "loser"
  BY <1>2, SourceIs
<1>4. CASE s[1] = "W"
  <2>1. LevelOf(R, k, x) = 0 /\ LevelOf(R, k, y) = 1
    BY <1>3, <1>4 DEF LevelOf
  <2>2. s # GrandSlot /\ s # ResetSlot
    BY <1>4 DEF GrandSlot, ResetSlot
  <2> QED BY <1>1, <1>2, <1>4, <2>1, <2>2
<1>5. CASE s[1] = "L"
  <2>1. LevelOf(R, k, x) = 1 /\ LevelOf(R, k, y) = 2
    BY <1>3, <1>5 DEF LevelOf
  <2>2. s # GrandSlot /\ s # ResetSlot
    BY <1>5 DEF GrandSlot, ResetSlot
  <2> QED BY <1>1, <1>2, <1>5, <2>1, <2>2
<1>6. CASE s = GrandSlot
  <2>1. s[1] = "GF" /\ s # ResetSlot
    BY <1>6 DEF GrandSlot, ResetSlot
  <2>2. /\ LevelOf(R, k, x) = IF R[s].winner = R[s].home THEN 0 ELSE 1
        /\ LevelOf(R, k, y) = IF R[s].winner = R[s].home THEN 2 ELSE 1
    BY <1>3, <1>6, <2>1 DEF LevelOf
  <2> QED BY <1>1, <1>2, <1>6, <2>1, <2>2
<1>7. CASE s = ResetSlot
  <2>1. s[1] = "GF" /\ s # GrandSlot
    BY <1>7 DEF GrandSlot, ResetSlot
  <2>2. /\ LevelOf(R, k, x) = IF R[LastSlot(k)].winner = R[s].home THEN 0 ELSE 1
        /\ LevelOf(R, k, y) = 2
    BY <1>3, <1>7, <2>1 DEF LevelOf
  <2> QED BY <1>1, <1>2, <1>7, <2>1, <2>2
<1> QED BY <1>1, <1>4, <1>5, <1>6, <1>7

-----------------------------------------------------------------------------
(* Knockouts: the tables *)

FromBelow(d) == (d = LoserOf(d.slot) /\ d.slot[1] = "W") \/ (d = WinnerOf(d.slot) /\ d.slot[1] = "L")

Opens(p) == IsKnown(p) /\ p.slot[1] = "W"

InW(p) ==
    /\ IsOpen(p) /\ p.slot[1] = "W" /\ p.conditionalOn = <<>>
    /\ p.homeSource = WinnerOf(p.homeSource.slot) /\ p.homeSource.slot[1] = "W"
    /\ p.awaySource = WinnerOf(p.awaySource.slot) /\ p.awaySource.slot[1] = "W"

InL(p) ==
    /\ IsOpen(p) /\ p.slot[1] = "L" /\ p.conditionalOn = <<>>
    /\ FromBelow(p.homeSource) /\ FromBelow(p.awaySource)

IsGrandFinal(p, k) ==
    /\ IsOpen(p) /\ p.slot = GrandSlot /\ p.conditionalOn = <<>>
    /\ p.homeSource = WinnerOf(LastSlot(k)) /\ FromBelow(p.awaySource)

IsReset(p, k) ==
    /\ IsOpen(p) /\ p.slot = ResetSlot /\ p.conditionalOn = LastSlot(k)
    /\ p.homeSource = WinnerOf(GrandSlot) /\ p.awaySource = LoserOf(GrandSlot)

IsStage(p, k) == Opens(p) \/ InW(p) \/ InL(p) \/ IsGrandFinal(p, k) \/ IsReset(p, k)

IsKnockout(A, X, k) ==
    /\ NoOne \notin X /\ Joined(A)
    /\ \A p \in A : IsStage(p, k)
    /\ \A p \in A : IsKnown(p) => p.home \in X /\ p.away \in X \cup {NoOne}
    /\ \A p \in A : IsReset(p, k) => \E g \in A : IsGrandFinal(g, k)

(* The slots of a table, told apart by their bracket. *)
LEMMA StageSlot ==
    ASSUME NEW p, NEW k, IsStage(p, k)
    PROVE  /\ Opens(p) \/ InW(p) => p.slot[1] = "W"
           /\ InL(p) => p.slot[1] = "L"
           /\ IsGrandFinal(p, k) => p.slot = GrandSlot /\ p.slot[1] = "GF"
           /\ IsReset(p, k) => p.slot = ResetSlot /\ p.slot[1] = "GF"
           /\ p.slot[1] \in {"W", "GF"} => ~InL(p)
           /\ p.slot = GrandSlot => IsGrandFinal(p, k)
           /\ LastSlot(k)[1] = "W" /\ GrandSlot[1] = "GF" /\ ResetSlot[1] = "GF" /\ GrandSlot # ResetSlot
<1>1. /\ GrandSlot[1] = "GF" /\ ResetSlot[1] = "GF" /\ GrandSlot # ResetSlot /\ LastSlot(k)[1] = "W"
  BY DEF GrandSlot, ResetSlot, LastSlot
<1>2. /\ Opens(p) \/ InW(p) => p.slot[1] = "W"
      /\ InL(p) => p.slot[1] = "L"
      /\ IsGrandFinal(p, k) => p.slot = GrandSlot
      /\ IsReset(p, k) => p.slot = ResetSlot
  BY DEF Opens, InW, InL, IsGrandFinal, IsReset
<1> QED BY <1>1, <1>2 DEF IsStage

-----------------------------------------------------------------------------
(* Knockouts: what the verdicts keep to *)

(* Who is in a decided match, and that the bracket of the winners and the  *)
(* finals have somebody at home.                                           *)
SoundMatch(X, R, m) ==
    /\ R[m].winner \in {R[m].home, R[m].away}
    /\ R[m].home \in X \cup {NoOne} /\ R[m].away \in X \cup {NoOne}
    /\ R[m].winner = NoOne => R[m].home = NoOne /\ R[m].away = NoOne
    /\ m[1] \in {"W", "GF"} => R[m].home \in X

Sound(X, R) == \A m \in DOMAIN R : SoundMatch(X, R, m)

(* The finals follow the last match of W, and its winner is at home. *)
FinalsLast(R, k) ==
    /\ \A m \in DOMAIN R : m[1] \in {"W", "L"} \/ m = GrandSlot \/ m = ResetSlot
    /\ GrandSlot \in DOMAIN R => LastSlot(k) \in DOMAIN R /\ R[GrandSlot].home = R[LastSlot(k)].winner
    /\ ResetSlot \in DOMAIN R => GrandSlot \in DOMAIN R

LEMMA FinalsLastStill ==
    ASSUME NEW A, NEW X, NEW k, IsKnockout(A, X, k), NEW R, InOrder(A, R), FinalsLast(R, k),
           NEW p, NEW home, NEW away, NEW w, NEW R2, IsPlayed(A, R, p, home, away, w, R2)
    PROVE  FinalsLast(R2, k)
<1>1. PICK s : s = p.slot
  OBVIOUS
<1>2. /\ p \in A /\ s \notin DOMAIN R /\ DOMAIN R2 = DOMAIN R \cup {s}
      /\ R2[s].home = home /\ \A m \in DOMAIN R : R2[m] = R[m]
  BY <1>1 DEF IsPlayed, Grows
<1>3. IsStage(p, k)
  BY <1>2 DEF IsKnockout
<1>4. s[1] \in {"W", "L"} \/ s = GrandSlot \/ s = ResetSlot
  BY <1>1, <1>3, StageSlot DEF IsStage
<1>5. ASSUME s = GrandSlot PROVE LastSlot(k) \in DOMAIN R /\ home = R[LastSlot(k)].winner
  <2>1. p.homeSource = WinnerOf(LastSlot(k))
    BY <1>1, <1>3, <1>5, StageSlot DEF IsGrandFinal
  <2>2. p.homeSource # NoSource /\ p.homeSource.take = "winner" /\ p.homeSource.slot = LastSlot(k)
    BY <2>1, SourceIs
  <2> QED BY <2>2 DEF IsPlayed, SeatedBy
<1>6. ASSUME s = ResetSlot PROVE GrandSlot \in DOMAIN R
  <2>1. IsReset(p, k)
    BY <1>1, <1>3, <1>6, StageSlot DEF IsStage
  <2>2. p.homeSource # NoSource /\ p.homeSource.slot = GrandSlot
    BY <2>1, SourceIs DEF IsReset
  <2> QED BY <2>2 DEF IsPlayed
<1>7. GrandSlot \in DOMAIN R2 => LastSlot(k) \in DOMAIN R2 /\ R2[GrandSlot].home = R2[LastSlot(k)].winner
  BY <1>2, <1>5 DEF FinalsLast
<1>8. ResetSlot \in DOMAIN R2 => GrandSlot \in DOMAIN R2
  BY <1>2, <1>6 DEF FinalsLast
<1> QED BY <1>2, <1>4, <1>7, <1>8 DEF FinalsLast

(* Whom a side gets from a decided match. *)
LEMMA SeatIsSound ==
    ASSUME NEW X, NoOne \notin X, NEW R, Sound(X, R), NEW known, NEW d, d # NoSource, d.slot \in DOMAIN R
    PROVE  /\ SeatedBy(R, known, d) \in X \cup {NoOne}
           /\ d.take = "winner" /\ d.slot[1] \in {"W", "GF"} => SeatedBy(R, known, d) \in X
<1>1. PICK m : m = d.slot
  OBVIOUS
<1>2. SoundMatch(X, R, m)
  BY <1>1 DEF Sound
<1>3. R[m].winner \in X \cup {NoOne} /\ BeatenIn(R[m]) \in X \cup {NoOne}
  BY <1>2 DEF SoundMatch, BeatenIn
<1>4. m[1] \in {"W", "GF"} => R[m].winner \in X
  BY <1>2, <1>3 DEF SoundMatch
<1> QED BY <1>1, <1>3, <1>4 DEF SeatedBy

LEMMA SoundStill ==
    ASSUME NEW A, NEW X, NEW k, IsKnockout(A, X, k), NEW R, Sound(X, R),
           NEW p, NEW home, NEW away, NEW w, NEW R2, IsPlayed(A, R, p, home, away, w, R2)
    PROVE  /\ Sound(X, R2)
           /\ home \in X \cup {NoOne} /\ away \in X \cup {NoOne}
           /\ p.slot[1] \in {"W", "GF"} => home \in X
<1>1. PICK s : s = p.slot
  OBVIOUS
<1>2. /\ p \in A /\ s \notin DOMAIN R /\ DOMAIN R2 = DOMAIN R \cup {s}
      /\ R2[s].home = home /\ R2[s].away = away /\ R2[s].winner = w
      /\ \A m \in DOMAIN R : R2[m] = R[m]
  BY <1>1 DEF IsPlayed, Grows
<1>3. IsStage(p, k) /\ NoOne \notin X
  BY <1>2 DEF IsKnockout
<1>4. PICK x, y : x = p.homeSource /\ y = p.awaySource
  OBVIOUS
<1>5. home \in X \cup {NoOne} /\ away \in X \cup {NoOne}
  <2>1. CASE IsKnown(p)
    <3>1. x = NoSource /\ y = NoSource
      BY <1>4, <2>1 DEF IsKnown
    <3>2. home = p.home /\ away = p.away
      BY <1>4, <3>1 DEF IsPlayed, SeatedBy
    <3> QED BY <1>2, <2>1, <3>2 DEF IsKnockout
  <2>2. CASE IsOpen(p)
    <3>1. x # NoSource /\ y # NoSource
      BY <1>4, <2>2 DEF IsOpen
    <3>2. x.slot \in DOMAIN R /\ y.slot \in DOMAIN R
      BY <1>4, <3>1 DEF IsPlayed
    <3>3. home = SeatedBy(R, p.home, x) /\ away = SeatedBy(R, p.away, y)
      BY <1>4 DEF IsPlayed
    <3> QED BY <1>3, <3>1, <3>2, <3>3, SeatIsSound
  <2> QED BY <1>3, <2>1, <2>2 DEF IsStage, Opens, InW, InL, IsGrandFinal, IsReset
<1>6. ASSUME s[1] \in {"W", "GF"} PROVE home \in X
  <2>1. CASE Opens(p)
    <3>1. IsKnown(p) /\ x = NoSource
      BY <1>4, <2>1 DEF Opens, IsKnown
    <3>2. home = p.home
      BY <1>4, <3>1 DEF IsPlayed, SeatedBy
    <3> QED BY <1>2, <3>1, <3>2 DEF IsKnockout
  <2>2. CASE InW(p) \/ IsGrandFinal(p, k) \/ IsReset(p, k)
    <3>1. x = WinnerOf(x.slot) /\ x.slot[1] \in {"W", "GF"}
      <4>1. CASE InW(p)
        BY <1>4, <4>1 DEF InW
      <4>2. CASE IsGrandFinal(p, k) \/ IsReset(p, k)
        <5>1. x = WinnerOf(LastSlot(k)) \/ x = WinnerOf(GrandSlot)
          BY <1>4, <4>2 DEF IsGrandFinal, IsReset
        <5>2. x.slot \in {LastSlot(k), GrandSlot}
          BY <5>1, SourceIs
        <5> QED BY <1>3, <5>1, <5>2, StageSlot, SourceIs
      <4> QED BY <2>2, <4>1, <4>2
    <3>2. x # NoSource /\ x.take = "winner"
      BY <3>1, SourceIs
    <3>3. x.slot \in DOMAIN R /\ home = SeatedBy(R, p.home, x)
      BY <1>4, <3>2 DEF IsPlayed
    <3> QED BY <1>3, <3>1, <3>2, <3>3, SeatIsSound
  <2> QED BY <1>1, <1>3, <1>6, <2>1, <2>2, StageSlot DEF IsStage
<1>7. IsVerdict(R, p, home, away, w)
  BY DEF IsPlayed
<1>8. w \in {home, away} /\ (w = NoOne => home = NoOne /\ away = NoOne)
  BY <1>7 DEF IsVerdict
<1>9. SoundMatch(X, R2, s)
  BY <1>2, <1>5, <1>6, <1>8 DEF SoundMatch
<1>10. ASSUME NEW m \in DOMAIN R PROVE SoundMatch(X, R2, m)
  BY <1>2 DEF Sound, SoundMatch
<1> QED BY <1>1, <1>2, <1>5, <1>6, <1>9, <1>10 DEF Sound

-----------------------------------------------------------------------------
(* Knockouts: a match adds one defeat to the level of its loser *)

LevelStill(R, R2, k, d) == LevelOf(R2, k, d) = LevelOf(R, k, d)

(* Places that are held keep their level. *)
LEMMA LevelsStill ==
    ASSUME NEW A, NEW X, NEW k, IsKnockout(A, X, k), NEW R, FinalsLast(R, k),
           NEW p, NEW home, NEW away, NEW w, NEW R2, IsPlayed(A, R, p, home, away, w, R2),
           NEW d, NEW x, Holds(A, R, d, x)
    PROVE  LevelStill(R, R2, k, d)
<1>1. \A m \in DOMAIN R : R2[m] = R[m]
  BY DEF IsPlayed, Grows
<1>2. CASE DrawnThere(A, d, x)
  <2>1. PICK q \in A : d = DrawnAt(q.slot, "home") \/ d = DrawnAt(q.slot, "away")
    BY <1>2 DEF DrawnThere
  <2>2. LevelOf(R, k, d) = 0 /\ LevelOf(R2, k, d) = 0
    BY <2>1, LevelIs
  <2> QED BY <2>2 DEF LevelStill
<1>3. CASE CameOut(R, d, x)
  <2>1. PICK s : s = d.slot
    OBVIOUS
  <2>2. s \in DOMAIN R /\ (d = WinnerOf(s) \/ d = LoserOf(s))
    BY <1>3, <2>1 DEF CameOut
  <2>3. CASE s[1] = "W" \/ s[1] = "L"
    BY <2>2, <2>3, LevelIs DEF LevelStill
  <2>4. CASE s = GrandSlot
    <3>1. R2[s] = R[s]
      BY <1>1, <2>2
    <3> QED BY <2>2, <2>4, <3>1, LevelIs DEF LevelStill
  <2>5. CASE s = ResetSlot
    <3>1. LastSlot(k) \in DOMAIN R
      BY <2>2, <2>5 DEF FinalsLast
    <3>2. R2[s] = R[s] /\ R2[LastSlot(k)] = R[LastSlot(k)]
      BY <1>1, <2>2, <3>1
    <3> QED BY <2>2, <2>5, <3>2, LevelIs DEF LevelStill
  <2> QED BY <2>2, <2>3, <2>4, <2>5 DEF FinalsLast
<1> QED BY <1>2, <1>3 DEF Holds

(* The winner keeps the level of his side, the loser has one defeat more   *)
(* unless the match was a formality.                                       *)
MovesUp(R, R2, k, p, home, away, w) ==
    /\ w = home => LevelOf(R2, k, WinnerOf(p.slot)) = LevelOf(R, k, HomePlace(p))
    /\ w # home => LevelOf(R2, k, WinnerOf(p.slot)) = LevelOf(R, k, AwayPlace(p))
    /\ w = home => LevelOf(R2, k, LoserOf(p.slot)) =
                      LevelOf(R, k, AwayPlace(p)) + (IF IsFormal(R, p, home) THEN 0 ELSE 1)
    /\ w # home => /\ LevelOf(R2, k, LoserOf(p.slot)) = LevelOf(R, k, HomePlace(p)) + 1
                   /\ ~IsFormal(R, p, home) \/ home = NoOne \/ away = NoOne

LEMMA FromBelowLevel ==
    ASSUME NEW R, NEW k, NEW d, FromBelow(d)
    PROVE  LevelOf(R, k, d) = 1 /\ d # NoSource
<1>1. PICK s : s = d.slot
  OBVIOUS
<1>2. CASE d = LoserOf(s) /\ s[1] = "W"
  BY <1>2, LevelIs, SourceIs
<1>3. CASE d = WinnerOf(s) /\ s[1] = "L"
  BY <1>3, LevelIs, SourceIs
<1> QED BY <1>1, <1>2, <1>3 DEF FromBelow

LEMMA FromW ==
    ASSUME NEW R, NEW k, NEW d, d = WinnerOf(d.slot), d.slot[1] = "W"
    PROVE  LevelOf(R, k, d) = 0 /\ d # NoSource
<1>1. PICK s : s = d.slot
  OBVIOUS
<1>2. d = WinnerOf(s) /\ s[1] = "W"
  BY <1>1
<1> QED BY <1>2, LevelIs, SourceIs

LEMMA LevelsMove ==
    ASSUME NEW A, NEW X, NEW k, IsKnockout(A, X, k), NEW R, FinalsLast(R, k), Sound(X, R),
           NEW p, NEW home, NEW away, NEW w, NEW R2, IsPlayed(A, R, p, home, away, w, R2)
    PROVE  MovesUp(R, R2, k, p, home, away, w)
<1>1. PICK s, c, e : s = p.slot /\ c = HomePlace(p) /\ e = AwayPlace(p)
  OBVIOUS
<1>2. /\ p \in A /\ s \notin DOMAIN R
      /\ R2[s].home = home /\ R2[s].away = away /\ R2[s].winner = w
      /\ \A m \in DOMAIN R : R2[m] = R[m]
  BY <1>1 DEF IsPlayed, Grows
<1>3. IsStage(p, k)
  BY <1>2 DEF IsKnockout
<1>4. IsVerdict(R, p, home, away, w)
  BY DEF IsPlayed
<1>5. CASE Opens(p)
  <2>1. p.homeSource = NoSource /\ p.awaySource = NoSource /\ p.conditionalOn = <<>> /\ s[1] = "W"
    BY <1>1, <1>5 DEF Opens, IsKnown
  <2>2. c = DrawnAt(s, "home") /\ e = DrawnAt(s, "away")
    BY <1>1, <2>1 DEF HomePlace, AwayPlace
  <2>3. LevelOf(R, k, c) = 0 /\ LevelOf(R, k, e) = 0
    BY <2>2, LevelIs
  <2>4. LevelOf(R2, k, WinnerOf(s)) = 0 /\ LevelOf(R2, k, LoserOf(s)) = 1 /\ ~IsFormal(R, p, home)
    BY <2>1, LevelIs DEF IsFormal
  <2> QED BY <1>1, <2>3, <2>4 DEF MovesUp
<1>6. CASE InW(p)
  <2>1. s[1] = "W" /\ p.conditionalOn = <<>>
    BY <1>1, <1>6 DEF InW
  <2>2. /\ LevelOf(R, k, p.homeSource) = 0 /\ LevelOf(R, k, p.awaySource) = 0
        /\ p.homeSource # NoSource /\ p.awaySource # NoSource
    BY <1>6, FromW DEF InW
  <2>3. LevelOf(R, k, c) = 0 /\ LevelOf(R, k, e) = 0
    BY <1>1, <2>2 DEF HomePlace, AwayPlace
  <2>4. LevelOf(R2, k, WinnerOf(s)) = 0 /\ LevelOf(R2, k, LoserOf(s)) = 1 /\ ~IsFormal(R, p, home)
    BY <2>1, LevelIs DEF IsFormal
  <2> QED BY <1>1, <2>3, <2>4 DEF MovesUp
<1>7. CASE InL(p)
  <2>1. s[1] = "L" /\ p.conditionalOn = <<>>
    BY <1>1, <1>7 DEF InL
  <2>2. /\ LevelOf(R, k, p.homeSource) = 1 /\ LevelOf(R, k, p.awaySource) = 1
        /\ p.homeSource # NoSource /\ p.awaySource # NoSource
    BY <1>7, FromBelowLevel DEF InL
  <2>3. LevelOf(R, k, c) = 1 /\ LevelOf(R, k, e) = 1
    BY <1>1, <2>2 DEF HomePlace, AwayPlace
  <2>4. LevelOf(R2, k, WinnerOf(s)) = 1 /\ LevelOf(R2, k, LoserOf(s)) = 2 /\ ~IsFormal(R, p, home)
    BY <2>1, LevelIs DEF IsFormal
  <2> QED BY <1>1, <2>3, <2>4 DEF MovesUp
<1>8. CASE IsGrandFinal(p, k)
  <2>1. s = GrandSlot /\ p.conditionalOn = <<>>
    BY <1>1, <1>8 DEF IsGrandFinal
  <2>2. LevelOf(R, k, p.awaySource) = 1 /\ p.awaySource # NoSource
    BY <1>8, FromBelowLevel DEF IsGrandFinal
  <2>3. LevelOf(R, k, p.homeSource) = 0 /\ p.homeSource # NoSource
    <3>1. p.homeSource = WinnerOf(LastSlot(k)) /\ LastSlot(k)[1] = "W"
      BY <1>3, <1>8, StageSlot DEF IsGrandFinal
    <3> QED BY <3>1, LevelIs, SourceIs
  <2>4. LevelOf(R, k, c) = 0 /\ LevelOf(R, k, e) = 1
    BY <1>1, <2>2, <2>3 DEF HomePlace, AwayPlace
  <2>5. /\ LevelOf(R2, k, WinnerOf(s)) = IF w = home THEN 0 ELSE 1
        /\ LevelOf(R2, k, LoserOf(s)) = IF w = home THEN 2 ELSE 1
    BY <1>2, <2>1, LevelIs
  <2>6. ~IsFormal(R, p, home)
    BY <2>1 DEF IsFormal
  <2> QED BY <1>1, <2>4, <2>5, <2>6 DEF MovesUp
<1>9. CASE IsReset(p, k)
  <2>1. /\ s = ResetSlot /\ p.conditionalOn = LastSlot(k) /\ LastSlot(k) # <<>>
        /\ p.homeSource = WinnerOf(GrandSlot) /\ p.awaySource = LoserOf(GrandSlot)
    BY <1>1, <1>9 DEF IsReset, LastSlot
  <2>2. /\ p.homeSource # NoSource /\ p.homeSource.slot = GrandSlot /\ p.homeSource.take = "winner"
        /\ p.awaySource # NoSource /\ p.awaySource.slot = GrandSlot
    BY <2>1, SourceIs
  <2>3. c = WinnerOf(GrandSlot) /\ e = LoserOf(GrandSlot)
    BY <1>1, <2>1, <2>2 DEF HomePlace, AwayPlace
  <2>4. GrandSlot \in DOMAIN R
    BY <2>2 DEF IsPlayed
  <2>5. home = R[GrandSlot].winner
    BY <2>2 DEF IsPlayed, SeatedBy
  <2>6. LastSlot(k) \in DOMAIN R /\ R[GrandSlot].home = R[LastSlot(k)].winner
    BY <2>4 DEF FinalsLast
  <2>7. IsFormal(R, p, home) <=> R[GrandSlot].home = home
    BY <2>1, <2>6 DEF IsFormal
  <2>8. /\ LevelOf(R, k, c) = IF home = R[GrandSlot].home THEN 0 ELSE 1
        /\ LevelOf(R, k, e) = IF home = R[GrandSlot].home THEN 2 ELSE 1
    BY <2>3, <2>5, LevelIs
  <2>9. R2[LastSlot(k)].winner = R[GrandSlot].home
    BY <1>2, <2>6
  <2>10. /\ LevelOf(R2, k, WinnerOf(s)) = IF R[GrandSlot].home = home THEN 0 ELSE 1
         /\ LevelOf(R2, k, LoserOf(s)) = 2
    BY <1>2, <2>1, <2>9, LevelIs
  <2>11. w # home => ~IsFormal(R, p, home) \/ home = NoOne \/ away = NoOne
    BY <1>4 DEF IsVerdict
  <2>12. home \in X
    <3>1. p.slot[1] = "GF"
      BY <1>3, <1>9, StageSlot
    <3> QED BY <3>1, SoundStill
  <2>13. home # NoOne
    BY <2>12 DEF IsKnockout
  <2>14. w # home => ~IsFormal(R, p, home)
    BY <1>4, <2>13 DEF IsVerdict
  <2> QED BY <1>1, <2>7, <2>8, <2>10, <2>11, <2>14 DEF MovesUp
<1> QED BY <1>3, <1>5, <1>6, <1>7, <1>8, <1>9 DEF IsStage

-----------------------------------------------------------------------------
(* Knockouts: everybody is at one place, with as many defeats as it says *)

Counts(A, R, m) ==
    /\ NoOne \notin {R[m].home, R[m].away}
    /\ ~\E p \in A : p.slot = m /\ IsFormal(R, p, R[m].home)

LostBy(A, R, x) == {m \in DOMAIN R : Counts(A, R, m) /\ BeatenIn(R[m]) = x}

HasLost(A, R, x, n) == IsFiniteSet(LostBy(A, R, x)) /\ Cardinality(LostBy(A, R, x)) = n

OnePlace(A, R, x) == \E d : IsAt(A, R, d, x) /\ \A e : IsAt(A, R, e, x) => e = d

Stands(A, R, k, x) == \A d : IsAt(A, R, d, x) => HasLost(A, R, x, LevelOf(R, k, d))

InPlay(A, X, R, k) ==
    /\ \A m \in DOMAIN R : \E p \in A : p.slot = m
    /\ InOrder(A, R) /\ FinalsLast(R, k) /\ Sound(X, R)
    /\ \A x \in X : OnePlace(A, R, x) /\ Stands(A, R, k, x)

(* The matches that count stay, and the new one is the defeat of one side. *)
LEMMA LostByThen ==
    ASSUME NEW A, NEW X, NEW k, IsKnockout(A, X, k), NEW R, InOrder(A, R), FinalsLast(R, k),
           NEW p, NEW home, NEW away, NEW w, NEW R2, IsPlayed(A, R, p, home, away, w, R2),
           NEW beaten, beaten = (IF home = w THEN away ELSE home), NEW x
    PROVE  LostBy(A, R2, x) = LostBy(A, R, x) \cup
              (IF x = beaten /\ home # NoOne /\ away # NoOne /\ ~IsFormal(R, p, home) THEN {p.slot} ELSE {})
<1>1. PICK s : s = p.slot
  OBVIOUS
<1>2. /\ p \in A /\ s \notin DOMAIN R /\ DOMAIN R2 = DOMAIN R \cup {s}
      /\ R2[s].home = home /\ R2[s].away = away /\ R2[s].winner = w
      /\ \A m \in DOMAIN R : R2[m] = R[m]
  BY <1>1 DEF IsPlayed, Grows
<1>3. FinalsLast(R2, k)
  BY FinalsLastStill
<1>4. ASSUME NEW q \in A, q.slot \in DOMAIN R2
      PROVE  q.conditionalOn = <<>> \/ q.conditionalOn \in DOMAIN R
  <2>1. CASE IsReset(q, k)
    <3>1. q.slot = ResetSlot /\ q.conditionalOn = LastSlot(k)
      BY <2>1 DEF IsReset
    <3>2. ResetSlot # GrandSlot /\ ResetSlot # LastSlot(k) /\ GrandSlot # LastSlot(k)
      BY DEF ResetSlot, GrandSlot, LastSlot
    <3>3. GrandSlot \in DOMAIN R2
      BY <1>3, <1>4, <3>1 DEF FinalsLast
    <3>4. LastSlot(k) \in DOMAIN R2
      BY <1>3, <3>3 DEF FinalsLast
    <3>5. CASE s = LastSlot(k)
      <4>1. GrandSlot \in DOMAIN R
        BY <1>2, <3>2, <3>3, <3>5
      <4> QED BY <3>1, <4>1 DEF FinalsLast
    <3>6. CASE s # LastSlot(k)
      BY <1>2, <3>1, <3>4, <3>6
    <3> QED BY <3>5, <3>6
  <2>2. CASE ~IsReset(q, k)
    <3>1. IsStage(q, k)
      BY DEF IsKnockout
    <3> QED BY <2>2, <3>1 DEF IsStage, Opens, IsKnown, InW, InL, IsGrandFinal
  <2> QED BY <2>1, <2>2
<1>5. ASSUME NEW q \in A, q.slot \in DOMAIN R2, NEW h PROVE IsFormal(R2, q, h) <=> IsFormal(R, q, h)
  BY <1>2, <1>4, <1>5 DEF IsFormal
<1>6. ASSUME NEW m \in DOMAIN R PROVE m \in LostBy(A, R2, x) <=> m \in LostBy(A, R, x)
  <2>1. R2[m] = R[m] /\ m \in DOMAIN R2
    BY <1>2
  <2>2. Counts(A, R2, m) <=> Counts(A, R, m)
    BY <1>5, <2>1 DEF Counts
  <2> QED BY <2>1, <2>2 DEF LostBy
<1>7. s \in LostBy(A, R2, x) <=> x = beaten /\ home # NoOne /\ away # NoOne /\ ~IsFormal(R, p, home)
  <2>1. \A q \in A : q.slot = s => q = p
    BY <1>1, <1>2 DEF IsKnockout, Joined, Distinct
  <2>2. p.slot \in DOMAIN R2
    BY <1>1, <1>2
  <2>3. IsFormal(R2, p, home) <=> IsFormal(R, p, home)
    BY <1>2, <1>5, <2>2
  <2>4. Counts(A, R2, s) <=> home # NoOne /\ away # NoOne /\ ~IsFormal(R, p, home)
    BY <1>1, <1>2, <2>1, <2>3 DEF Counts
  <2>5. BeatenIn(R2[s]) = beaten
    BY <1>2 DEF BeatenIn
  <2> QED BY <1>2, <2>4, <2>5 DEF LostBy
<1>8. s \notin LostBy(A, R, x) /\ LostBy(A, R, x) \subseteq DOMAIN R /\ LostBy(A, R2, x) \subseteq DOMAIN R2
  BY <1>2 DEF LostBy
<1> QED BY <1>1, <1>2, <1>6, <1>7, <1>8

LEMMA HasLostThen ==
    ASSUME NEW A, NEW X, NEW k, IsKnockout(A, X, k), NEW R, InOrder(A, R), FinalsLast(R, k),
           NEW p, NEW home, NEW away, NEW w, NEW R2, IsPlayed(A, R, p, home, away, w, R2),
           NEW beaten, beaten = (IF home = w THEN away ELSE home), NEW x, NEW n, HasLost(A, R, x, n)
    PROVE  /\ x # beaten \/ home = NoOne \/ away = NoOne \/ IsFormal(R, p, home) => HasLost(A, R2, x, n)
           /\ x = beaten /\ home # NoOne /\ away # NoOne /\ ~IsFormal(R, p, home) => HasLost(A, R2, x, n + 1)
<1>1. PICK S, T : S = LostBy(A, R, x) /\ T = LostBy(A, R2, x)
  OBVIOUS
<1>2. T = S \cup (IF x = beaten /\ home # NoOne /\ away # NoOne /\ ~IsFormal(R, p, home) THEN {p.slot} ELSE {})
  BY <1>1, LostByThen
<1>3. IsFiniteSet(S) /\ Cardinality(S) = n
  BY <1>1 DEF HasLost
<1>4. p.slot \notin S
  BY <1>1 DEF LostBy, IsPlayed
<1>5. IsFiniteSet(S \cup {p.slot}) /\ Cardinality(S \cup {p.slot}) = n + 1
  BY <1>3, <1>4, FS_AddElement
<1>6. ASSUME x # beaten \/ home = NoOne \/ away = NoOne \/ IsFormal(R, p, home)
      PROVE  HasLost(A, R2, x, n)
  <2>1. T = S
    BY <1>2, <1>6
  <2> QED BY <1>1, <1>3, <2>1 DEF HasLost
<1>7. ASSUME x = beaten, home # NoOne, away # NoOne, ~IsFormal(R, p, home)
      PROVE  HasLost(A, R2, x, n + 1)
  <2>1. T = S \cup {p.slot}
    BY <1>2, <1>7
  <2> QED BY <1>1, <1>5, <2>1 DEF HasLost
<1> QED BY <1>6, <1>7

(* A place of a match holds nobody but the side that comes from it. *)
LEMMA HoldsOnly ==
    ASSUME NEW A, Joined(A), NEW R, NEW d, NEW x, NEW y, Holds(A, R, d, x), Holds(A, R, d, y)
    PROVE  x = y
<1>1. ASSUME DrawnThere(A, d, x) PROVE DrawnThere(A, d, y)
  <2>1. PICK q \in A : d = DrawnAt(q.slot, "home") \/ d = DrawnAt(q.slot, "away")
    BY <1>1 DEF DrawnThere
  <2>2. PICK s : s = d.slot
    OBVIOUS
  <2>3. d # WinnerOf(s) /\ d # LoserOf(s)
    BY <2>1, DrawnAtIs
  <2> QED BY <2>2, <2>3 DEF Holds, CameOut
<1>2. ASSUME DrawnThere(A, d, y) PROVE DrawnThere(A, d, x)
  <2>1. PICK q \in A : d = DrawnAt(q.slot, "home") \/ d = DrawnAt(q.slot, "away")
    BY <1>2 DEF DrawnThere
  <2>2. PICK s : s = d.slot
    OBVIOUS
  <2>3. d # WinnerOf(s) /\ d # LoserOf(s)
    BY <2>1, DrawnAtIs
  <2> QED BY <2>2, <2>3 DEF Holds, CameOut
<1>3. CASE DrawnThere(A, d, x) /\ DrawnThere(A, d, y)
  <2>1. PICK q \in A : \/ d = DrawnAt(q.slot, "home") /\ x = q.home
                       \/ d = DrawnAt(q.slot, "away") /\ x = q.away
    BY <1>3 DEF DrawnThere
  <2>2. PICK r \in A : \/ d = DrawnAt(r.slot, "home") /\ y = r.home
                       \/ d = DrawnAt(r.slot, "away") /\ y = r.away
    BY <1>3 DEF DrawnThere
  <2>3. d.slot = q.slot /\ d.slot = r.slot
    BY <2>1, <2>2, DrawnAtIs
  <2>4. q = r
    BY <2>3 DEF Joined, Distinct
  <2>5. DrawnAt(q.slot, "home") # DrawnAt(q.slot, "away")
    BY DEF DrawnAt
  <2> QED BY <2>1, <2>2, <2>4, <2>5
<1>4. CASE CameOut(R, d, x) /\ CameOut(R, d, y)
  <2>1. PICK s : s = d.slot
    OBVIOUS
  <2>2. WinnerOf(s) # LoserOf(s)
    BY SourceIs
  <2> QED BY <1>4, <2>1, <2>2 DEF CameOut
<1> QED BY <1>1, <1>2, <1>3, <1>4 DEF Holds

(* The sides of a match, told by their places. *)
LEMMA SidesAre ==
    ASSUME NEW A, NEW X, NEW k, IsKnockout(A, X, k), NEW R,
           NEW p, NEW home, NEW away, NEW w, NEW R2, IsPlayed(A, R, p, home, away, w, R2),
           NEW x, OnePlace(A, R, x), NEW d, IsAt(A, R, d, x)
    PROVE  /\ IsAt(A, R, HomePlace(p), home) /\ IsAt(A, R, AwayPlace(p), away)
           /\ HomePlace(p) # AwayPlace(p)
           /\ d = HomePlace(p) <=> x = home
           /\ d = AwayPlace(p) <=> x = away
           /\ ~(x = home /\ x = away)
<1>1. Joined(A) /\ p \in A
  BY DEF IsKnockout, IsPlayed
<1>2. IsAt(A, R, HomePlace(p), home) /\ IsAt(A, R, AwayPlace(p), away)
  BY <1>1, SidesAreThere
<1>3. HomePlace(p) # AwayPlace(p)
  BY <1>1 DEF Joined
<1>4. \A e : IsAt(A, R, e, x) => e = d
  BY DEF OnePlace
<1>5. \A e, y, z : IsAt(A, R, e, y) /\ IsAt(A, R, e, z) => y = z
  BY <1>1, HoldsOnly DEF IsAt
<1> QED BY <1>2, <1>3, <1>4, <1>5

LEMMA PlaceThen ==
    ASSUME NEW A, NEW X, NEW k, IsKnockout(A, X, k), NEW R, InOrder(A, R),
           NEW p, NEW home, NEW away, NEW w, NEW R2, IsPlayed(A, R, p, home, away, w, R2),
           NEW x, OnePlace(A, R, x)
    PROVE  OnePlace(A, R2, x)
<1>1. PICK d : IsAt(A, R, d, x) /\ \A e : IsAt(A, R, e, x) => e = d
  BY DEF OnePlace
<1>2. /\ HomePlace(p) # AwayPlace(p)
      /\ d = HomePlace(p) <=> x = home
      /\ d = AwayPlace(p) <=> x = away
      /\ ~(x = home /\ x = away)
  BY <1>1, SidesAre
<1>3. w \in {home, away}
  BY DEF IsPlayed, IsVerdict
<1>4. PICK b : b = IF home = w THEN away ELSE home
  OBVIOUS
<1>5. \A e : IsAt(A, R2, e, x) <=> \/ IsAt(A, R, e, x) /\ ~ComesFrom(p, e)
                                   \/ e = WinnerOf(p.slot) /\ x = w
                                   \/ e = LoserOf(p.slot) /\ x = b
  <2>1. Joined(A)
    BY DEF IsKnockout
  <2> QED BY <1>4, <2>1, Moves
<1>6. ComesFrom(p, d) <=> x = home \/ x = away
  BY <1>2 DEF ComesFrom
<1>7. CASE x # home /\ x # away
  <2>1. x # w /\ x # b /\ ~ComesFrom(p, d)
    BY <1>3, <1>4, <1>6, <1>7
  <2>2. \A e : IsAt(A, R2, e, x) <=> e = d
    BY <1>1, <1>5, <2>1
  <2>3. IsAt(A, R2, d, x) /\ \A e : IsAt(A, R2, e, x) => e = d
    BY <2>2
  <2> QED BY <2>3, Zenon DEF OnePlace
<1>8. CASE x = home \/ x = away
  <2>1. \A e : ~(IsAt(A, R, e, x) /\ ~ComesFrom(p, e))
    BY <1>1, <1>6, <1>8
  <2>2. CASE x = w
    <3>1. x # b
      BY <1>2, <1>4, <1>8, <2>2
    <3>2. \A e : IsAt(A, R2, e, x) <=> e = WinnerOf(p.slot)
      BY <1>5, <2>1, <2>2, <3>1
    <3> QED BY <3>2 DEF OnePlace
  <2>3. CASE x # w
    <3>1. x = b
      BY <1>3, <1>4, <1>8, <2>3
    <3>2. \A e : IsAt(A, R2, e, x) <=> e = LoserOf(p.slot)
      BY <1>5, <2>1, <2>3, <3>1
    <3> QED BY <3>2 DEF OnePlace
  <2> QED BY <2>2, <2>3
<1> QED BY <1>7, <1>8

LEMMA StandsThen ==
    ASSUME NEW A, NEW X, NEW k, IsKnockout(A, X, k), NEW R, InPlay(A, X, R, k),
           NEW p, NEW home, NEW away, NEW w, NEW R2, IsPlayed(A, R, p, home, away, w, R2),
           NEW x \in X
    PROVE  Stands(A, R2, k, x)
<1>0. NoOne \notin X /\ Joined(A)
  BY DEF IsKnockout
<1>1. InOrder(A, R) /\ FinalsLast(R, k) /\ Sound(X, R) /\ OnePlace(A, R, x) /\ Stands(A, R, k, x)
  BY DEF InPlay
<1>2. PICK d : IsAt(A, R, d, x) /\ \A e : IsAt(A, R, e, x) => e = d
  BY <1>1 DEF OnePlace
<1>3. /\ d = HomePlace(p) <=> x = home
      /\ d = AwayPlace(p) <=> x = away
      /\ ~(x = home /\ x = away)
  BY <1>1, <1>2, SidesAre
<1>4. /\ w \in {home, away} /\ (home = NoOne => w = away) /\ (away = NoOne /\ home # NoOne => w = home)
      /\ home # NoOne /\ away # NoOne /\ w # home => ~IsFormal(R, p, home)
  BY DEF IsPlayed, IsVerdict
<1>5. PICK b : b = IF home = w THEN away ELSE home
  OBVIOUS
<1>6. PICK n : n = LevelOf(R, k, d)
  OBVIOUS
<1>7. HasLost(A, R, x, n)
  BY <1>1, <1>2, <1>6 DEF Stands
<1>8. /\ x # b \/ home = NoOne \/ away = NoOne \/ IsFormal(R, p, home) => HasLost(A, R2, x, n)
      /\ x = b /\ home # NoOne /\ away # NoOne /\ ~IsFormal(R, p, home) => HasLost(A, R2, x, n + 1)
  BY <1>1, <1>5, <1>7, HasLostThen
<1>9. MovesUp(R, R2, k, p, home, away, w)
  BY <1>1, LevelsMove
<1> SUFFICES ASSUME NEW e, IsAt(A, R2, e, x) PROVE HasLost(A, R2, x, LevelOf(R2, k, e))
  BY DEF Stands
<1>10. \/ IsAt(A, R, e, x) /\ ~ComesFrom(p, e)
       \/ e = WinnerOf(p.slot) /\ x = w
       \/ e = LoserOf(p.slot) /\ x = b
  BY <1>0, <1>1, <1>5, Moves
<1>11. CASE IsAt(A, R, e, x) /\ ~ComesFrom(p, e)
  <2>1. e = d
    BY <1>2, <1>11
  <2>2. x # home /\ x # away
    BY <1>3, <1>11, <2>1 DEF ComesFrom
  <2>3. x # b
    BY <1>5, <2>2
  <2>4. LevelOf(R2, k, e) = n
    <3>1. Holds(A, R, e, x)
      BY <1>11 DEF IsAt
    <3>2. LevelStill(R, R2, k, e)
      BY <1>1, <3>1, LevelsStill
    <3> QED BY <1>6, <2>1, <3>2 DEF LevelStill
  <2> QED BY <1>8, <2>3, <2>4
<1>12. CASE e = WinnerOf(p.slot) /\ x = w
  <2>1. x # b
    BY <1>3, <1>4, <1>5, <1>12
  <2>2. LevelOf(R2, k, e) = n
    <3>1. CASE w = home
      <4>1. d = HomePlace(p)
        BY <1>3, <1>12, <3>1
      <4> QED BY <1>6, <1>9, <1>12, <3>1, <4>1 DEF MovesUp
    <3>2. CASE w # home
      <4>1. d = AwayPlace(p)
        BY <1>3, <1>4, <1>12, <3>2
      <4> QED BY <1>6, <1>9, <1>12, <3>2, <4>1 DEF MovesUp
    <3> QED BY <3>1, <3>2
  <2> QED BY <1>8, <2>1, <2>2
<1>13. CASE e = LoserOf(p.slot) /\ x = b
  <2>1. x # NoOne /\ home # NoOne /\ away # NoOne
    BY <1>0, <1>4, <1>5, <1>13
  <2>2. CASE w = home
    <3>1. d = AwayPlace(p)
      BY <1>3, <1>5, <1>13, <2>2
    <3>2. LevelOf(R2, k, e) = n + (IF IsFormal(R, p, home) THEN 0 ELSE 1)
      BY <1>6, <1>9, <1>13, <2>2, <3>1 DEF MovesUp
    <3>3. CASE IsFormal(R, p, home)
      <4>1. n + 0 = n
        <5>1. n \in Nat
          BY <1>7, FS_CardinalityType DEF HasLost
        <5> QED BY <5>1
      <4> QED BY <1>8, <3>2, <3>3, <4>1
    <3>4. CASE ~IsFormal(R, p, home)
      BY <1>8, <1>13, <2>1, <3>2, <3>4
    <3> QED BY <3>3, <3>4
  <2>3. CASE w # home
    <3>1. d = HomePlace(p)
      BY <1>3, <1>5, <1>13, <2>3
    <3>2. LevelOf(R2, k, e) = n + 1 /\ ~IsFormal(R, p, home)
      BY <1>4, <1>6, <1>9, <1>13, <2>1, <2>3, <3>1 DEF MovesUp
    <3> QED BY <1>8, <1>13, <2>1, <3>2
  <2> QED BY <2>2, <2>3
<1> QED BY <1>10, <1>11, <1>12, <1>13

(* A decision keeps it all. *)
LEMMA InPlayStill ==
    ASSUME NEW A, NEW X, NEW k, IsKnockout(A, X, k), NEW R, InPlay(A, X, R, k),
           NEW p, NEW home, NEW away, NEW w, NEW R2, IsPlayed(A, R, p, home, away, w, R2)
    PROVE  InPlay(A, X, R2, k)
<1>1. Joined(A)
  BY DEF IsKnockout
<1>2. InOrder(A, R) /\ FinalsLast(R, k) /\ Sound(X, R) /\ \A x \in X : OnePlace(A, R, x)
  BY DEF InPlay
<1>3. InOrder(A, R2)
  BY <1>1, <1>2, InOrderStill
<1>4. FinalsLast(R2, k)
  BY <1>2, FinalsLastStill
<1>5. Sound(X, R2)
  BY <1>2, SoundStill
<1>6. \A x \in X : OnePlace(A, R2, x)
  BY <1>2, PlaceThen
<1>7. \A x \in X : Stands(A, R2, k, x)
  BY StandsThen
<1>8. \A m \in DOMAIN R2 : \E q \in A : q.slot = m
  <2>1. p \in A /\ DOMAIN R2 = DOMAIN R \cup {p.slot}
    BY DEF IsPlayed, Grows
  <2> QED BY <2>1 DEF InPlay
<1> QED BY <1>3, <1>4, <1>5, <1>6, <1>7, <1>8 DEF InPlay

(* Everybody is drawn to one place. *)
DrawnOnce(A, x) == \E d : DrawnThere(A, d, x) /\ \A e : DrawnThere(A, e, x) => e = d

LEMMA InPlayFirst ==
    ASSUME NEW A, NEW X, NEW k, IsKnockout(A, X, k), NEW R, DOMAIN R = {},
           \A x \in X : DrawnOnce(A, x)
    PROVE  InPlay(A, X, R, k)
<1>1. InOrder(A, R) /\ FinalsLast(R, k) /\ Sound(X, R)
  BY DEF InOrder, FinalsLast, Sound
<1>2. \A d, x : IsAt(A, R, d, x) <=> DrawnThere(A, d, x)
  BY DEF IsAt, Holds, CameOut, Free
<1>3. ASSUME NEW x \in X PROVE OnePlace(A, R, x)
  BY <1>2 DEF OnePlace, DrawnOnce
<1>4. ASSUME NEW x \in X, NEW d, IsAt(A, R, d, x) PROVE HasLost(A, R, x, LevelOf(R, k, d))
  <2>1. PICK q \in A : d = DrawnAt(q.slot, "home") \/ d = DrawnAt(q.slot, "away")
    BY <1>2, <1>4 DEF DrawnThere
  <2>2. LevelOf(R, k, d) = 0
    BY <2>1, LevelIs
  <2>3. LostBy(A, R, x) = {}
    BY DEF LostBy
  <2>4. IsFiniteSet(LostBy(A, R, x)) /\ Cardinality(LostBy(A, R, x)) = 0
    BY <2>3, FS_EmptySet
  <2> QED BY <2>2, <2>4 DEF HasLost
<1>5. \A x \in X : Stands(A, R, k, x)
  BY <1>4 DEF Stands
<1> QED BY <1>1, <1>3, <1>5 DEF InPlay

-----------------------------------------------------------------------------
(* Knockouts: when all is decided *)

Goes(A, d) == \E q \in A : ComesFrom(q, d)

(* Where a bracket ends: one winner goes nowhere, and so do the losers of  *)
(* their last match.                                                       *)
EndsWith(A, f, lives) ==
    /\ f \in A /\ ~Goes(A, WinnerOf(f.slot))
    /\ \A p \in A \ {f} : Goes(A, WinnerOf(p.slot))
    /\ \A p \in A : \/ Goes(A, LoserOf(p.slot))
                    \/ lives = 1 /\ p.slot[1] = "W"
                    \/ lives = 2 /\ (p.slot[1] = "L" \/ p.slot = ResetSlot)
    /\ (lives = 1 /\ f.slot[1] = "W") \/ (lives = 2 /\ f.slot = ResetSlot)

OneIsLeft(A, X, R, c, lives) ==
    /\ c \in X /\ \E n : HasLost(A, R, c, n) /\ n < lives
    /\ \A x \in X \ {c} : HasLost(A, R, x, lives)

LEMMA OneLeft ==
    ASSUME NEW A, NEW X, NEW k, IsKnockout(A, X, k), NEW R, InPlay(A, X, R, k),
           \A p \in A : p.slot \in DOMAIN R,
           NEW f, NEW lives, EndsWith(A, f, lives), NEW c, c = R[f.slot].winner
    PROVE  OneIsLeft(A, X, R, c, lives)
<1>1. PICK s : s = f.slot
  OBVIOUS
<1>2. f \in A /\ s \in DOMAIN R /\ s[1] \in {"W", "GF"}
  <2>1. ResetSlot[1] = "GF"
    BY DEF ResetSlot
  <2> QED BY <1>1, <2>1 DEF EndsWith
<1>3. c \in X
  <2>1. SoundMatch(X, R, s) /\ NoOne \notin X
    BY <1>2 DEF InPlay, Sound, IsKnockout
  <2> QED BY <1>1, <1>2, <2>1 DEF SoundMatch
<1>4. \A d : Free(A, R, d) <=> ~Goes(A, d)
  BY DEF Free, Goes
<1>5. IsAt(A, R, WinnerOf(s), c)
  <2>1. CameOut(R, WinnerOf(s), c)
    BY <1>1, <1>2, SourceIs DEF CameOut
  <2>2. Free(A, R, WinnerOf(s))
    BY <1>1, <1>4 DEF EndsWith
  <2> QED BY <2>1, <2>2 DEF IsAt, Holds
<1>6. \E n : HasLost(A, R, c, n) /\ n < lives
  <2>1. PICK n : n = LevelOf(R, k, WinnerOf(s))
    OBVIOUS
  <2>2. HasLost(A, R, c, n)
    BY <1>3, <1>5, <2>1 DEF InPlay, Stands
  <2>3. n < lives
    <3>1. CASE lives = 1 /\ s[1] = "W"
      BY <2>1, <3>1, LevelIs
    <3>2. CASE lives = 2 /\ s = ResetSlot
      <4>1. n = 0 \/ n = 1
        BY <2>1, <3>2, LevelIs
      <4> QED BY <3>2, <4>1
    <3> QED BY <1>1, <3>1, <3>2 DEF EndsWith
  <2> QED BY <2>2, <2>3
<1>7. ASSUME NEW x \in X, x # c PROVE HasLost(A, R, x, lives)
  <2>1. PICK d : IsAt(A, R, d, x)
    BY DEF InPlay, OnePlace
  <2>2. Holds(A, R, d, x) /\ ~Goes(A, d)
    BY <1>4, <2>1 DEF IsAt
  <2>3. ~DrawnThere(A, d, x)
    <3> SUFFICES ASSUME NEW q \in A, q.homeSource = NoSource, q.awaySource = NoSource,
                        d = DrawnAt(q.slot, "home") \/ d = DrawnAt(q.slot, "away")
                 PROVE  FALSE
      BY DEF DrawnThere
    <3>1. ComesFrom(q, d)
      BY DEF ComesFrom, HomePlace, AwayPlace
    <3> QED BY <2>2, <3>1 DEF Goes
  <2>4. PICK m : m = d.slot
    OBVIOUS
  <2>5. m \in DOMAIN R /\ ((d = WinnerOf(m) /\ x = R[m].winner) \/ d = LoserOf(m))
    BY <2>2, <2>3, <2>4 DEF Holds, CameOut
  <2>6. PICK p \in A : p.slot = m
    BY <2>5 DEF InPlay
  <2>7. d = LoserOf(m)
    <3>1. ASSUME d = WinnerOf(m), x = R[m].winner PROVE FALSE
      <4>1. p = f
        BY <2>2, <2>6, <3>1 DEF EndsWith
      <4> QED BY <1>7, <2>6, <3>1, <4>1
    <3> QED BY <2>5, <3>1
  <2>8. \/ lives = 1 /\ m[1] = "W"
        \/ lives = 2 /\ (m[1] = "L" \/ m = ResetSlot)
    BY <2>2, <2>6, <2>7 DEF EndsWith
  <2>9. LevelOf(R, k, d) = lives
    BY <2>7, <2>8, LevelIs
  <2> QED BY <2>1, <2>9 DEF InPlay, Stands
<1> QED BY <1>3, <1>6, <1>7 DEF OneIsLeft

-----------------------------------------------------------------------------
(* Knockouts: the only table that a place can lead to *)

LeadsTo(k, d) ==
    IF d.take \in {"home", "away"} THEN d.slot
    ELSE IF d.slot[1] = "W"
    THEN IF d.take = "winner"
         THEN IF d.slot[2] < k THEN <<"W", d.slot[2] + 1, (d.slot[3] + 1) \div 2>> ELSE GrandSlot
         ELSE IF k < 2 THEN GrandSlot
              ELSE IF d.slot[2] = 1 THEN <<"L", 1, (d.slot[3] + 1) \div 2>>
                   ELSE <<"L", 2 * (d.slot[2] - 1), d.slot[3]>>
    ELSE IF d.slot[1] = "L"
    THEN IF d.slot[2] = 2 * (k - 1) THEN GrandSlot
         ELSE IF d.slot[2] % 2 = 1 THEN <<"L", d.slot[2] + 1, d.slot[3]>>
              ELSE <<"L", d.slot[2] + 1, (d.slot[3] + 1) \div 2>>
    ELSE IF d.slot = GrandSlot THEN ResetSlot ELSE <<>>

LEMMA FromDraw ==
    ASSUME NEW k, NEW s
    PROVE  LeadsTo(k, DrawnAt(s, "home")) = s /\ LeadsTo(k, DrawnAt(s, "away")) = s
  BY DrawnAtIs DEF LeadsTo

LEMMA FromWinnersOfW ==
    ASSUME NEW k \in Nat, NEW r \in Nat, NEW m \in Int
    PROVE  LeadsTo(k, WinnerOf(<<"W", r, m>>)) = IF r < k THEN <<"W", r + 1, (m + 1) \div 2>> ELSE GrandSlot
<1>1. PICK s, d : s = <<"W", r, m>> /\ d = WinnerOf(s)
  OBVIOUS
<1>2. d.take = "winner" /\ d.slot = s /\ s[1] = "W" /\ s[2] = r /\ s[3] = m
  BY <1>1, SourceIs
<1> QED BY <1>1, <1>2 DEF LeadsTo

LEMMA FromLosersOfW ==
    ASSUME NEW k \in Nat, NEW r \in Nat, NEW m \in Int
    PROVE  /\ k < 2 => LeadsTo(k, LoserOf(<<"W", r, m>>)) = GrandSlot
           /\ k >= 2 /\ r = 1 => LeadsTo(k, LoserOf(<<"W", r, m>>)) = <<"L", 1, (m + 1) \div 2>>
           /\ k >= 2 /\ r # 1 => LeadsTo(k, LoserOf(<<"W", r, m>>)) = <<"L", 2 * (r - 1), m>>
<1>1. PICK s, d : s = <<"W", r, m>> /\ d = LoserOf(s)
  OBVIOUS
<1>2. d.take = "loser" /\ d.slot = s /\ s[1] = "W" /\ s[2] = r /\ s[3] = m
  BY <1>1, SourceIs
<1>3. /\ k < 2 => LeadsTo(k, d) = GrandSlot
      /\ k >= 2 /\ r = 1 => LeadsTo(k, d) = <<"L", 1, (m + 1) \div 2>>
      /\ k >= 2 /\ r # 1 => LeadsTo(k, d) = <<"L", 2 * (r - 1), m>>
  <2>1. k < 2 => LeadsTo(k, d) = GrandSlot
    BY <1>2 DEF LeadsTo
  <2>2. k >= 2 /\ r = 1 => LeadsTo(k, d) = <<"L", 1, (m + 1) \div 2>>
    BY <1>2 DEF LeadsTo
  <2>3. k >= 2 /\ r # 1 => LeadsTo(k, d) = <<"L", 2 * (r - 1), m>>
    BY <1>2 DEF LeadsTo
  <2> QED BY <2>1, <2>2, <2>3
<1> QED BY <1>1, <1>3

LEMMA FromWinnersOfL ==
    ASSUME NEW k \in Nat, NEW a \in Nat, NEW m \in Int
    PROVE  /\ a = 2 * (k - 1) => LeadsTo(k, WinnerOf(<<"L", a, m>>)) = GrandSlot
           /\ a # 2 * (k - 1) /\ a % 2 = 1 => LeadsTo(k, WinnerOf(<<"L", a, m>>)) = <<"L", a + 1, m>>
           /\ a # 2 * (k - 1) /\ a % 2 # 1 =>
                 LeadsTo(k, WinnerOf(<<"L", a, m>>)) = <<"L", a + 1, (m + 1) \div 2>>
<1>1. PICK s, d : s = <<"L", a, m>> /\ d = WinnerOf(s)
  OBVIOUS
<1>2. d.take = "winner" /\ d.slot = s /\ s[1] = "L" /\ s[2] = a /\ s[3] = m
  BY <1>1, SourceIs
<1>3. a = 2 * (k - 1) => LeadsTo(k, d) = GrandSlot
  BY <1>2 DEF LeadsTo
<1>4. a # 2 * (k - 1) /\ a % 2 = 1 => LeadsTo(k, d) = <<"L", a + 1, m>>
  BY <1>2 DEF LeadsTo
<1>5. a # 2 * (k - 1) /\ a % 2 # 1 => LeadsTo(k, d) = <<"L", a + 1, (m + 1) \div 2>>
  BY <1>2 DEF LeadsTo
<1> QED BY <1>1, <1>3, <1>4, <1>5

LEMMA FromFinals ==
    ASSUME NEW k
    PROVE  /\ LeadsTo(k, WinnerOf(GrandSlot)) = ResetSlot /\ LeadsTo(k, LoserOf(GrandSlot)) = ResetSlot
           /\ LeadsTo(k, WinnerOf(ResetSlot)) = <<>>
<1>1. GrandSlot[1] = "GF" /\ ResetSlot[1] = "GF" /\ GrandSlot # ResetSlot
  BY DEF GrandSlot, ResetSlot
<1>2. PICK c, d, e : c = WinnerOf(GrandSlot) /\ d = LoserOf(GrandSlot) /\ e = WinnerOf(ResetSlot)
  OBVIOUS
<1>3. /\ c.take = "winner" /\ d.take = "loser" /\ e.take = "winner"
      /\ c.slot = GrandSlot /\ d.slot = GrandSlot /\ e.slot = ResetSlot
  BY <1>2, SourceIs
<1> QED BY <1>1, <1>2, <1>3 DEF LeadsTo

(* A table that stands where its places lead. *)
InItsPlace(p, k) ==
    /\ IsStage(p, k)
    /\ IsKnown(p) \/ (IsOpen(p) /\ IsEnd(p.homeSource) /\ IsEnd(p.awaySource))
    /\ LeadsTo(k, HomePlace(p)) = p.slot /\ LeadsTo(k, AwayPlace(p)) = p.slot
    /\ HomePlace(p) # AwayPlace(p)

LEMMA JoinedInPlace ==
    ASSUME NEW A, Distinct(A), NEW k, \A p \in A : InItsPlace(p, k)
    PROVE  Joined(A) /\ \A p \in A : \A d : ComesFrom(p, d) => p.slot = LeadsTo(k, d)
<1>1. \A p \in A : \A d : ComesFrom(p, d) => p.slot = LeadsTo(k, d)
  BY DEF InItsPlace, ComesFrom
<1>2. \A p, q \in A : \A d : ComesFrom(p, d) /\ ComesFrom(q, d) => p = q
  BY <1>1 DEF Distinct
<1>3. \A p \in A : /\ IsKnown(p) \/ (IsOpen(p) /\ IsEnd(p.homeSource) /\ IsEnd(p.awaySource))
                   /\ HomePlace(p) # AwayPlace(p)
  BY DEF InItsPlace
<1> QED BY <1>1, <1>2, <1>3 DEF Joined

-----------------------------------------------------------------------------
(* Knockouts: the tables of W, of L, and the finals, in their places *)

IsWTable(p, tables, r, m) ==
    /\ p.slot = <<"W", r, m>> /\ p.conditionalOn = <<>>
    /\ r = 1 => IsKnown(p) /\ p.home = tables[m][1] /\ p.away = tables[m][2]
    /\ r # 1 => /\ IsOpen(p)
                /\ p.homeSource = WinnerOf(<<"W", r - 1, 2 * m - 1>>)
                /\ p.awaySource = WinnerOf(<<"W", r - 1, 2 * m>>)

IsLTable(p, a, m) ==
    /\ IsOpen(p) /\ p.slot = <<"L", a, m>> /\ p.conditionalOn = <<>>
    /\ a = 1 => /\ p.homeSource = LoserOf(<<"W", 1, 2 * m - 1>>)
                /\ p.awaySource = LoserOf(<<"W", 1, 2 * m>>)
    /\ a # 1 /\ a % 2 = 0 => /\ p.homeSource = WinnerOf(<<"L", a - 1, m>>)
                             /\ p.awaySource = LoserOf(<<"W", (a \div 2) + 1, m>>)
    /\ a # 1 /\ a % 2 # 0 => /\ p.homeSource = WinnerOf(<<"L", a - 1, 2 * m - 1>>)
                             /\ p.awaySource = WinnerOf(<<"L", a - 1, 2 * m>>)

LEMMA WInPlace ==
    ASSUME NEW k \in Nat, NEW r \in 1..k, NEW m \in Int, NEW tables, NEW p, IsWTable(p, tables, r, m)
    PROVE  InItsPlace(p, k)
<1>1. CASE r = 1
  <2>1. PICK s : s = p.slot
    OBVIOUS
  <2>2. IsKnown(p) /\ s[1] = "W"
    BY <1>1, <2>1 DEF IsWTable
  <2>3. HomePlace(p) = DrawnAt(s, "home") /\ AwayPlace(p) = DrawnAt(s, "away")
    BY <2>1, <2>2 DEF IsKnown, HomePlace, AwayPlace
  <2>4. DrawnAt(s, "home") # DrawnAt(s, "away")
    BY DEF DrawnAt
  <2>5. IsStage(p, k)
    BY <2>1, <2>2 DEF IsStage, Opens
  <2> QED BY <2>1, <2>2, <2>3, <2>4, <2>5, FromDraw DEF InItsPlace
<1>2. CASE r # 1
  <2>1. PICK q, i, j : q = r - 1 /\ i = 2 * m - 1 /\ j = 2 * m
    OBVIOUS
  <2>2. q \in Nat /\ i \in Int /\ j \in Int /\ q < k /\ q + 1 = r /\ (i + 1) \div 2 = m /\ (j + 1) \div 2 = m /\ i # j
    BY <1>2, <2>1
  <2>3. PICK c, e : c = WinnerOf(<<"W", q, i>>) /\ e = WinnerOf(<<"W", q, j>>)
    OBVIOUS
  <2>4. IsOpen(p) /\ p.homeSource = c /\ p.awaySource = e /\ p.slot = <<"W", r, m>> /\ p.conditionalOn = <<>>
    BY <1>2, <2>1, <2>3 DEF IsWTable
  <2>5. c.slot = <<"W", q, i>> /\ e.slot = <<"W", q, j>> /\ c # NoSource /\ e # NoSource
    BY <2>3, SourceIs
  <2>6. HomePlace(p) = c /\ AwayPlace(p) = e
    BY <2>4, <2>5 DEF HomePlace, AwayPlace
  <2>7. LeadsTo(k, c) = p.slot /\ LeadsTo(k, e) = p.slot
    BY <2>2, <2>3, <2>4, FromWinnersOfW
  <2>8. c # e
    BY <2>2, <2>5
  <2>9. IsStage(p, k) /\ IsEnd(c) /\ IsEnd(e)
    BY <2>3, <2>4, <2>5 DEF IsStage, InW, IsEnd
  <2> QED BY <2>4, <2>6, <2>7, <2>8, <2>9 DEF InItsPlace
<1> QED BY <1>1, <1>2

LEMMA LInPlace ==
    ASSUME NEW k \in Nat, k >= 2, NEW a \in 1..(2 * (k - 1)), NEW m \in Int, NEW p, IsLTable(p, a, m)
    PROVE  InItsPlace(p, k)
<1>0. PICK c, e : c = p.homeSource /\ e = p.awaySource
  OBVIOUS
<1>1. IsOpen(p) /\ p.slot = <<"L", a, m>> /\ p.conditionalOn = <<>> /\ c # NoSource /\ e # NoSource
  BY <1>0 DEF IsLTable, IsOpen
<1>2. /\ FromBelow(c) /\ FromBelow(e) /\ c # e
      /\ LeadsTo(k, c) = p.slot /\ LeadsTo(k, e) = p.slot
  <2>1. CASE a = 1
    <3>1. PICK i, j : i = 2 * m - 1 /\ j = 2 * m
      OBVIOUS
    <3>2. i \in Int /\ j \in Int /\ (i + 1) \div 2 = m /\ (j + 1) \div 2 = m /\ i # j
      BY <3>1
    <3>3. c = LoserOf(<<"W", 1, i>>) /\ e = LoserOf(<<"W", 1, j>>)
      BY <1>0, <2>1, <3>1 DEF IsLTable
    <3>4. c.slot = <<"W", 1, i>> /\ e.slot = <<"W", 1, j>>
      BY <3>3, SourceIs
    <3>5. LeadsTo(k, c) = p.slot /\ LeadsTo(k, e) = p.slot
      <4>1. ASSUME NEW n \in Int, (n + 1) \div 2 = m PROVE LeadsTo(k, LoserOf(<<"W", 1, n>>)) = p.slot
        <5>1. PICK r \in Nat : r = 1
          OBVIOUS
        <5>2. LeadsTo(k, LoserOf(<<"W", r, n>>)) = <<"L", 1, (n + 1) \div 2>>
          BY <5>1, FromLosersOfW
        <5> QED BY <1>1, <2>1, <4>1, <5>1, <5>2
      <4> QED BY <3>2, <3>3, <4>1
    <3>6. c # e
      BY <3>2, <3>4
    <3>7. FromBelow(c) /\ FromBelow(e)
      BY <3>3, <3>4 DEF FromBelow
    <3> QED BY <3>5, <3>6, <3>7
  <2>2. CASE a # 1 /\ a % 2 = 0
    <3>1. PICK b, r : b = a - 1 /\ r = (a \div 2) + 1
      OBVIOUS
    <3>2. b \in Nat /\ r \in Nat /\ b % 2 = 1 /\ b + 1 = a /\ 2 * (r - 1) = a /\ r # 1 /\ b # 2 * (k - 1)
      BY <2>2, <3>1
    <3>3. c = WinnerOf(<<"L", b, m>>) /\ e = LoserOf(<<"W", r, m>>)
      BY <1>0, <2>2, <3>1 DEF IsLTable
    <3>4. c.slot = <<"L", b, m>> /\ e.slot = <<"W", r, m>>
      BY <3>3, SourceIs
    <3>5. LeadsTo(k, c) = p.slot
      <4>1. LeadsTo(k, WinnerOf(<<"L", b, m>>)) = <<"L", b + 1, m>>
        BY <3>2, FromWinnersOfL
      <4>2. <<"L", b + 1, m>> = <<"L", a, m>>
        BY <3>2
      <4> QED BY <1>1, <3>3, <4>1, <4>2
    <3>6. LeadsTo(k, e) = p.slot
      <4>1. r \in Nat /\ k >= 2 /\ r # 1
        BY <3>2
      <4>2. LeadsTo(k, LoserOf(<<"W", r, m>>)) = <<"L", 2 * (r - 1), m>>
        BY <4>1, FromLosersOfW
      <4>3. <<"L", 2 * (r - 1), m>> = <<"L", a, m>>
        BY <3>2
      <4> QED BY <1>1, <3>3, <4>2, <4>3
    <3> QED BY <3>3, <3>4, <3>5, <3>6 DEF FromBelow
  <2>3. CASE a # 1 /\ a % 2 # 0
    <3>1. PICK b, i, j : b = a - 1 /\ i = 2 * m - 1 /\ j = 2 * m
      OBVIOUS
    <3>2. /\ b \in Nat /\ b % 2 # 1 /\ b + 1 = a /\ b # 2 * (k - 1)
          /\ i \in Int /\ j \in Int /\ (i + 1) \div 2 = m /\ (j + 1) \div 2 = m /\ i # j
      BY <2>3, <3>1
    <3>3. c = WinnerOf(<<"L", b, i>>) /\ e = WinnerOf(<<"L", b, j>>)
      BY <1>0, <2>3, <3>1 DEF IsLTable
    <3>4. c.slot = <<"L", b, i>> /\ e.slot = <<"L", b, j>>
      BY <3>3, SourceIs
    <3>5. LeadsTo(k, c) = p.slot /\ LeadsTo(k, e) = p.slot
      <4>1. ASSUME NEW n \in Int, (n + 1) \div 2 = m PROVE LeadsTo(k, WinnerOf(<<"L", b, n>>)) = p.slot
        <5>1. LeadsTo(k, WinnerOf(<<"L", b, n>>)) = <<"L", b + 1, (n + 1) \div 2>>
          BY <3>2, FromWinnersOfL
        <5>2. <<"L", b + 1, (n + 1) \div 2>> = <<"L", a, m>>
          BY <3>2, <4>1
        <5> QED BY <1>1, <5>1, <5>2
      <4> QED BY <3>2, <3>3, <4>1
    <3> QED BY <3>2, <3>3, <3>4, <3>5 DEF FromBelow
  <2> QED BY <2>1, <2>2, <2>3
<1>3. HomePlace(p) = c /\ AwayPlace(p) = e
  BY <1>0, <1>1 DEF HomePlace, AwayPlace
<1>4. IsEnd(c) /\ IsEnd(e)
  BY <1>2 DEF FromBelow, IsEnd
<1>5. p.slot[1] = "L"
  BY <1>1
<1>6. IsStage(p, k)
  BY <1>0, <1>1, <1>2, <1>5 DEF IsStage, InL
<1> QED BY <1>0, <1>1, <1>2, <1>3, <1>4, <1>6 DEF InItsPlace

LEMMA GrandFinalInPlace ==
    ASSUME NEW k \in Nat, k >= 1, NEW p, p = GrandFinal(k)
    PROVE  InItsPlace(p, k) /\ IsGrandFinal(p, k) /\ ~p.final
<1>1. PICK a : a = 2 * (k - 1)
  OBVIOUS
<1>2. a \in Nat
  BY <1>1
<1>3. PICK c : c = WinnerOf(<<"W", k, 1>>)
  OBVIOUS
<1>4. PICK e : e = IF k < 2 THEN LoserOf(<<"W", k, 1>>) ELSE WinnerOf(<<"L", a, 1>>)
  OBVIOUS
<1>5. IsSource(c) /\ IsSource(e)
  BY <1>3, <1>4, SourceIs DEF IsSource
<1>6. p = Awaiting(GrandSlot, c, e)
  BY <1>1, <1>3, <1>4 DEF GrandFinal, GrandSlot
<1>7. /\ IsOpen(p) /\ p.slot = GrandSlot /\ p.homeSource = c /\ p.awaySource = e
      /\ p.conditionalOn = <<>> /\ ~p.final
  BY <1>5, <1>6, AwaitingShape
<1>8. LeadsTo(k, c) = GrandSlot
  <2>1. 1 \in Int /\ k \in Nat /\ ~(k < k)
    OBVIOUS
  <2> QED BY <1>3, <2>1, FromWinnersOfW
<1>9. LeadsTo(k, e) = GrandSlot /\ FromBelow(e) /\ c # e
  <2>1. CASE k < 2
    <3>1. e = LoserOf(<<"W", k, 1>>) /\ 1 \in Int
      BY <1>4, <2>1
    <3>2. e.slot = <<"W", k, 1>> /\ c.take = "winner" /\ e.take = "loser"
      BY <1>3, <3>1, SourceIs
    <3>3. FromBelow(e)
      BY <3>1, <3>2 DEF FromBelow
    <3> QED BY <2>1, <3>1, <3>2, <3>3, FromLosersOfW
  <2>2. CASE ~(k < 2)
    <3>1. e = WinnerOf(<<"L", a, 1>>) /\ 1 \in Int
      BY <1>4, <2>2
    <3>2. e.slot = <<"L", a, 1>> /\ c.slot = <<"W", k, 1>>
      BY <1>3, <3>1, SourceIs
    <3>3. c # e
      BY <3>2
    <3>4. FromBelow(e)
      BY <3>1, <3>2 DEF FromBelow
    <3>5. LeadsTo(k, e) = GrandSlot
      BY <1>1, <1>2, <3>1, FromWinnersOfL
    <3> QED BY <3>3, <3>4, <3>5
  <2> QED BY <2>1, <2>2
<1>10. HomePlace(p) = c /\ AwayPlace(p) = e
  BY <1>5, <1>7 DEF HomePlace, AwayPlace, IsSource
<1>11. IsGrandFinal(p, k)
  BY <1>3, <1>7, <1>9 DEF IsGrandFinal, LastSlot
<1>12. IsEnd(c) /\ IsEnd(e)
  <2>1. c.slot = <<"W", k, 1>>
    BY <1>3, SourceIs
  <2> QED BY <1>3, <1>9, <2>1 DEF FromBelow, IsEnd
<1> QED BY <1>7, <1>8, <1>9, <1>10, <1>11, <1>12 DEF InItsPlace, IsStage

LEMMA ResetInPlace ==
    ASSUME NEW k \in Nat, k >= 1, NEW p, p = Reset(k)
    PROVE  InItsPlace(p, k) /\ IsReset(p, k) /\ p.final
<1>1. PICK c, e : c = WinnerOf(GrandSlot) /\ e = LoserOf(GrandSlot)
  OBVIOUS
<1>2. p = [slot |-> ResetSlot, home |-> NoOne, away |-> NoOne, homeSource |-> c, awaySource |-> e,
           bye |-> FALSE, final |-> TRUE, conditionalOn |-> LastSlot(k)]
  BY <1>1 DEF Reset, Awaiting, Known, GrandSlot, ResetSlot, LastSlot
<1>3. /\ c # NoSource /\ e # NoSource /\ c.take = "winner" /\ e.take = "loser"
      /\ c.slot = GrandSlot /\ e.slot = GrandSlot
  BY <1>1, SourceIs
<1>4. /\ p.slot = ResetSlot /\ p.conditionalOn = LastSlot(k) /\ p.homeSource = c /\ p.awaySource = e
      /\ p.home = NoOne /\ p.away = NoOne /\ ~p.bye /\ p.final
  BY <1>2
<1>5. IsOpen(p)
  BY <1>3, <1>4 DEF IsOpen
<1>6. IsReset(p, k)
  BY <1>1, <1>4, <1>5 DEF IsReset
<1>7. HomePlace(p) = c /\ AwayPlace(p) = e /\ c # e
  BY <1>3, <1>4 DEF HomePlace, AwayPlace
<1>8. LeadsTo(k, c) = ResetSlot /\ LeadsTo(k, e) = ResetSlot
  BY <1>1, FromFinals
<1>9. IsEnd(c) /\ IsEnd(e)
  BY <1>1, <1>3 DEF IsEnd
<1> QED BY <1>4, <1>5, <1>6, <1>7, <1>8, <1>9 DEF InItsPlace, IsStage

-----------------------------------------------------------------------------
(* Knockouts: the brackets, table by table *)

TablesIn(k, r) == 1..2^(k - r)

HasW(A, tables, k) ==
    /\ \A p \in A : \E r \in 1..k : \E m \in TablesIn(k, r) : IsWTable(p, tables, r, m)
    /\ \A r \in 1..k : \A m \in TablesIn(k, r) : \E p \in A : IsWTable(p, tables, r, m)

(* Round a of L has the tables of round (a+3) div 2 of W. *)
HasL(A, k) ==
    /\ \A p \in A : \E a \in 1..(2 * (k - 1)) : \E m \in TablesIn(k - 1, (a + 1) \div 2) : IsLTable(p, a, m)
    /\ \A a \in 1..(2 * (k - 1)) : \A m \in TablesIn(k - 1, (a + 1) \div 2) : \E p \in A : IsLTable(p, a, m)

LEMMA TablesInIs ==
    ASSUME NEW k \in Nat, NEW r \in 1..k
    PROVE  /\ TablesIn(k, r) \subseteq Int
           /\ r < k => \A m \in TablesIn(k, r) : (m + 1) \div 2 \in TablesIn(k, r + 1)
           /\ TablesIn(k, k) = {1}
<1>1. PICK j : j = k - r
  OBVIOUS
<1>2. j \in Nat
  BY <1>1
<1>3. 2^j \in Nat
  BY <1>2, PowerIs
<1>4. TablesIn(k, r) = 1..2^j
  BY <1>1 DEF TablesIn
<1>5. ASSUME r < k, NEW m \in TablesIn(k, r) PROVE (m + 1) \div 2 \in TablesIn(k, r + 1)
  <2>1. PICK i : i = j - 1
    OBVIOUS
  <2>2. i \in Nat /\ j = i + 1 /\ k - (r + 1) = i
    BY <1>1, <1>5, <2>1
  <2>3. PICK h : h = 2^i
    OBVIOUS
  <2>4. h \in Nat /\ 2^j = 2 * h
    BY <2>2, <2>3, PowerIs, PowerDoubles
  <2>5. m \in 1..(2 * h)
    BY <1>4, <1>5, <2>4
  <2>6. (m + 1) \div 2 \in 1..h
    BY <2>4, <2>5
  <2>7. TablesIn(k, r + 1) = 1..h
    BY <2>2, <2>3 DEF TablesIn
  <2> QED BY <2>6, <2>7
<1>6. TablesIn(k, k) = {1}
  <2>1. k - k = 0 /\ 2^0 = 1
    OBVIOUS
  <2>2. TablesIn(k, k) = 1..1
    BY <2>1 DEF TablesIn
  <2> QED BY <2>2
<1> QED BY <1>3, <1>4, <1>5, <1>6

LEMMA WTableIs ==
    ASSUME NEW k \in Nat, NEW tables, NEW r \in 1..k, NEW m, r = 1 => tables[m][1] # NoOne,
           NEW p, p = WTable(tables, k, r, m)
    PROVE  IsPairing(p) /\ IsWTable(p, tables, r, m) /\ (p.final <=> r = k)
<1>1. PICK q : q = IF r = 1 THEN FirstTable(tables, m) ELSE FedByWinners("W", r, m, "W")
  OBVIOUS
<1>2. IsPairing(q) /\ IsWTable(q, tables, r, m)
  <2>1. CASE r = 1
    <3>1. PICK a, b : a = tables[m][1] /\ b = tables[m][2]
      OBVIOUS
    <3>2. q = FirstTable(tables, m) /\ a # NoOne
      BY <1>1, <2>1, <3>1
    <3>3. (q = Resting(<<"W", 1, m>>, a) /\ b = NoOne) \/ q = Known(<<"W", 1, m>>, a, b)
      <4>1. CASE b = NoOne
        BY <3>1, <3>2, <4>1 DEF FirstTable
      <4>2. CASE b # NoOne
        BY <3>1, <3>2, <4>2 DEF FirstTable
      <4> QED BY <4>1, <4>2
    <3>4. IsPairing(q) /\ IsKnown(q) /\ q.slot = <<"W", 1, m>> /\ q.home = a /\ q.away = b
      BY <3>3, RestingShape, KnownShape
    <3> QED BY <2>1, <3>1, <3>4 DEF IsWTable, IsKnown
  <2>2. CASE r # 1
    <3>1. PICK x, y : x = WinnerOf(<<"W", r - 1, 2 * m - 1>>) /\ y = WinnerOf(<<"W", r - 1, 2 * m>>)
      OBVIOUS
    <3>2. IsSource(x) /\ IsSource(y)
      BY <3>1, SourceIs DEF IsSource
    <3>3. q = Awaiting(<<"W", r, m>>, x, y)
      BY <1>1, <2>2, <3>1 DEF FedByWinners
    <3>4. /\ IsPairing(q) /\ IsOpen(q) /\ q.slot = <<"W", r, m>> /\ q.homeSource = x /\ q.awaySource = y
          /\ q.conditionalOn = <<>>
      BY <3>2, <3>3, AwaitingShape
    <3> QED BY <2>2, <3>1, <3>4 DEF IsWTable
  <2> QED BY <2>1, <2>2
<1>3. PICK final \in BOOLEAN : final = (r = k)
  OBVIOUS
<1>4. p = [q EXCEPT !.final = final]
  <2>1. q.slot[2] = r
    BY <1>2 DEF IsWTable
  <2> QED BY <1>1, <1>3, <2>1 DEF WTable, FinalOf
<1>5. /\ IsPairing(p) /\ p.slot = q.slot /\ p.home = q.home /\ p.away = q.away /\ p.bye = q.bye
      /\ p.homeSource = q.homeSource /\ p.awaySource = q.awaySource
      /\ p.conditionalOn = q.conditionalOn /\ p.final = final
  BY <1>2, <1>4, FinalShape
<1> QED BY <1>2, <1>3, <1>5 DEF IsWTable, IsKnown, IsOpen

(* Every table of the first round has somebody at home. *)
SomebodyHome(tables, k) == \A m \in 1..2^(k - 1) : tables[m][1] # NoOne

LEMMA SingleHasW ==
    ASSUME NEW k \in Nat, k >= 1, NEW tables, SomebodyHome(tables, k), NEW A, A = SingleOf(tables, k)
    PROVE  /\ HasW(A, tables, k)
           /\ \A p \in A : IsPairing(p) /\ (p.final <=> p.slot[2] = k)
<1>1. ASSUME NEW r \in 1..k, NEW m \in TablesIn(k, r), NEW p, p = WTable(tables, k, r, m)
      PROVE  IsPairing(p) /\ IsWTable(p, tables, r, m) /\ (p.final <=> p.slot[2] = k)
  <2>1. r = 1 => tables[m][1] # NoOne
    <3>1. ASSUME r = 1 PROVE m \in 1..2^(k - 1)
      <4>1. TablesIn(k, 1) = 1..2^(k - 1)
        BY DEF TablesIn
      <4> QED BY <3>1, <4>1
    <3>2. \A n \in 1..2^(k - 1) : tables[n][1] # NoOne
      BY DEF SomebodyHome
    <3>3. PICK S : S = 1..2^(k - 1)
      OBVIOUS
    <3>4. (r = 1 => m \in S) /\ \A n \in S : tables[n][1] # NoOne
      BY <3>1, <3>2, <3>3
    <3> QED BY <3>4
  <2>2. IsPairing(p) /\ IsWTable(p, tables, r, m) /\ (p.final <=> r = k)
    BY <1>1, <2>1, WTableIs
  <2>3. p.slot[2] = r
    BY <2>2 DEF IsWTable
  <2> QED BY <2>2, <2>3
<1>2. ASSUME NEW p \in A PROVE \E r \in 1..k : \E m \in TablesIn(k, r) : p = WTable(tables, k, r, m)
  BY SingleMember DEF TablesIn
<1>3. ASSUME NEW r \in 1..k, NEW m \in TablesIn(k, r) PROVE WTable(tables, k, r, m) \in A
  BY SingleMember DEF TablesIn
<1>4. \A p \in A : \E r \in 1..k : \E m \in TablesIn(k, r) : IsWTable(p, tables, r, m)
  BY <1>1, <1>2
<1>5. \A r \in 1..k : \A m \in TablesIn(k, r) : \E p \in A : IsWTable(p, tables, r, m)
  BY <1>1, <1>3
<1>6. \A p \in A : IsPairing(p) /\ (p.final <=> p.slot[2] = k)
  BY <1>1, <1>2
<1> QED BY <1>4, <1>5, <1>6 DEF HasW

LEMMA NotFinalHasW ==
    ASSUME NEW k, NEW tables, NEW A, HasW(A, tables, k), \A p \in A : IsPairing(p), NEW B, B = NotFinal(A)
    PROVE  HasW(B, tables, k) /\ \A p \in B : ~p.final
<1>1. ASSUME NEW p \in A, NEW q, q = [p EXCEPT !.final = FALSE], NEW r, NEW m
      PROVE  ~q.final /\ (IsWTable(p, tables, r, m) => IsWTable(q, tables, r, m))
  <2>1. IsPairing(p) /\ FALSE \in BOOLEAN
    OBVIOUS
  <2>2. /\ q.slot = p.slot /\ q.home = p.home /\ q.away = p.away /\ q.bye = p.bye
        /\ q.homeSource = p.homeSource /\ q.awaySource = p.awaySource
        /\ q.conditionalOn = p.conditionalOn /\ q.final = FALSE
    BY <1>1, <2>1, FinalShape
  <2> QED BY <2>2 DEF IsWTable, IsKnown, IsOpen
<1>2. ASSUME NEW q \in B PROVE \E p \in A : q = [p EXCEPT !.final = FALSE]
  BY DEF NotFinal
<1>3. ASSUME NEW p \in A PROVE [p EXCEPT !.final = FALSE] \in B
  BY DEF NotFinal
<1>4. \A q \in B : \E r \in 1..k : \E m \in TablesIn(k, r) : IsWTable(q, tables, r, m)
  BY <1>1, <1>2 DEF HasW
<1>5. \A r \in 1..k : \A m \in TablesIn(k, r) : \E q \in B : IsWTable(q, tables, r, m)
  BY <1>1, <1>3 DEF HasW
<1>6. \A q \in B : ~q.final
  BY <1>1, <1>2
<1> QED BY <1>4, <1>5, <1>6 DEF HasW

LEMMA LTableIs ==
    ASSUME NEW a \in Nat, a >= 1, NEW m, NEW p, p = LTable(a, m)
    PROVE  IsLTable(p, a, m) /\ ~p.final
<1>1. CASE a = 1
  <2>1. PICK x, y : x = LoserOf(<<"W", 1, 2 * m - 1>>) /\ y = LoserOf(<<"W", 1, 2 * m>>)
    OBVIOUS
  <2>2. IsSource(x) /\ IsSource(y)
    BY <2>1, SourceIs DEF IsSource
  <2>3. p = Awaiting(<<"L", a, m>>, x, y)
    BY <1>1, <2>1 DEF LTable
  <2>4. IsOpen(p) /\ p.slot = <<"L", a, m>> /\ p.homeSource = x /\ p.awaySource = y /\ p.conditionalOn = <<>> /\ ~p.final
    BY <2>2, <2>3, AwaitingShape
  <2> QED BY <1>1, <2>1, <2>4 DEF IsLTable
<1>2. CASE a # 1 /\ a % 2 = 0
  <2>1. PICK x, y : x = WinnerOf(<<"L", a - 1, m>>) /\ y = LoserOf(<<"W", (a \div 2) + 1, m>>)
    OBVIOUS
  <2>2. IsSource(x) /\ IsSource(y)
    BY <2>1, SourceIs DEF IsSource
  <2>3. p = Awaiting(<<"L", a, m>>, x, y)
    BY <1>2, <2>1 DEF LTable
  <2>4. IsOpen(p) /\ p.slot = <<"L", a, m>> /\ p.homeSource = x /\ p.awaySource = y /\ p.conditionalOn = <<>> /\ ~p.final
    BY <2>2, <2>3, AwaitingShape
  <2> QED BY <1>2, <2>1, <2>4 DEF IsLTable
<1>3. CASE a # 1 /\ a % 2 # 0
  <2>1. PICK x, y : x = WinnerOf(<<"L", a - 1, 2 * m - 1>>) /\ y = WinnerOf(<<"L", a - 1, 2 * m>>)
    OBVIOUS
  <2>2. IsSource(x) /\ IsSource(y)
    BY <2>1, SourceIs DEF IsSource
  <2>3. p = Awaiting(<<"L", a, m>>, x, y)
    BY <1>3, <2>1 DEF LTable, FedByWinners
  <2>4. IsOpen(p) /\ p.slot = <<"L", a, m>> /\ p.homeSource = x /\ p.awaySource = y /\ p.conditionalOn = <<>> /\ ~p.final
    BY <2>2, <2>3, AwaitingShape
  <2> QED BY <1>3, <2>1, <2>4 DEF IsLTable
<1> QED BY <1>1, <1>2, <1>3

LEMMA LosersTables ==
    ASSUME NEW k \in Nat, k >= 2
    PROVE  /\ \A p \in LosersBracket(k) :
                 \E a \in 1..(2 * (k - 1)) : \E m \in TablesIn(k - 1, (a + 1) \div 2) : p = LTable(a, m)
           /\ \A a \in 1..(2 * (k - 1)) : \A m \in TablesIn(k - 1, (a + 1) \div 2) : LTable(a, m) \in LosersBracket(k)
<1>1. ASSUME NEW p \in FirstLosers(k)
      PROVE  \E a \in 1..(2 * (k - 1)) : \E m \in TablesIn(k - 1, (a + 1) \div 2) : p = LTable(a, m)
  <2>1. PICK m \in 1..2^(k - 2) :
          p = Awaiting(<<"L", 1, m>>, LoserOf(<<"W", 1, 2 * m - 1>>), LoserOf(<<"W", 1, 2 * m>>))
    BY DEF FirstLosers
  <2>2. PICK a \in 1..(2 * (k - 1)) : a = 1
    OBVIOUS
  <2>3. (a + 1) \div 2 = 1 /\ (k - 1) - 1 = k - 2
    BY <2>2
  <2>4. m \in TablesIn(k - 1, (a + 1) \div 2)
    BY <2>3 DEF TablesIn
  <2>5. p = LTable(a, m)
    BY <2>1, <2>2 DEF LTable
  <2> QED BY <2>4, <2>5
<1>2. ASSUME NEW p \in DroppingIn(k)
      PROVE  \E a \in 1..(2 * (k - 1)) : \E m \in TablesIn(k - 1, (a + 1) \div 2) : p = LTable(a, m)
  <2>1. PICK wr \in 2..k : p \in {Awaiting(<<"L", 2 * (wr - 1), m>>, WinnerOf(<<"L", 2 * wr - 3, m>>),
                            LoserOf(<<"W", wr, m>>)) : m \in 1..2^(k - wr)}
    BY DEF DroppingIn
  <2>2. PICK m \in 1..2^(k - wr) : p = Awaiting(<<"L", 2 * (wr - 1), m>>, WinnerOf(<<"L", 2 * wr - 3, m>>),
                            LoserOf(<<"W", wr, m>>))
    BY <2>1
  <2>3. PICK a \in 1..(2 * (k - 1)) : a = 2 * (wr - 1)
    OBVIOUS
  <2>4. a # 1 /\ a % 2 = 0 /\ a - 1 = 2 * wr - 3 /\ (a \div 2) + 1 = wr /\ (k - 1) - ((a + 1) \div 2) = k - wr
    BY <2>3
  <2>5. p = LTable(a, m)
    BY <2>2, <2>3, <2>4 DEF LTable
  <2>6. m \in TablesIn(k - 1, (a + 1) \div 2)
    BY <2>4 DEF TablesIn
  <2> QED BY <2>5, <2>6
<1>3. ASSUME NEW p \in Surviving(k)
      PROVE  \E a \in 1..(2 * (k - 1)) : \E m \in TablesIn(k - 1, (a + 1) \div 2) : p = LTable(a, m)
  <2>1. PICK wr \in 2..(k - 1) : p \in {FedByWinners("L", 2 * wr - 1, m, "L") : m \in 1..2^(k - wr - 1)}
    BY DEF Surviving
  <2>2. PICK m \in 1..2^(k - wr - 1) : p = FedByWinners("L", 2 * wr - 1, m, "L")
    BY <2>1
  <2>3. PICK a \in 1..(2 * (k - 1)) : a = 2 * wr - 1
    OBVIOUS
  <2>4. a # 1 /\ a % 2 # 0 /\ (k - 1) - ((a + 1) \div 2) = k - wr - 1
    BY <2>3
  <2>5. p = LTable(a, m)
    BY <2>2, <2>3, <2>4 DEF LTable
  <2>6. m \in TablesIn(k - 1, (a + 1) \div 2)
    BY <2>4 DEF TablesIn
  <2> QED BY <2>5, <2>6
<1>4. ASSUME NEW a \in 1..(2 * (k - 1)), NEW m \in TablesIn(k - 1, (a + 1) \div 2)
      PROVE  LTable(a, m) \in FirstLosers(k) \cup DroppingIn(k) \cup Surviving(k)
  <2>1. CASE a = 1
    <3>1. (a + 1) \div 2 = 1 /\ (k - 1) - 1 = k - 2
      BY <2>1
    <3>2. m \in 1..2^(k - 2)
      BY <3>1 DEF TablesIn
    <3>3. LTable(a, m) = Awaiting(<<"L", 1, m>>, LoserOf(<<"W", 1, 2 * m - 1>>), LoserOf(<<"W", 1, 2 * m>>))
      BY <2>1 DEF LTable
    <3> QED BY <3>2, <3>3 DEF FirstLosers
  <2>2. CASE a # 1 /\ a % 2 = 0
    <3>1. PICK wr \in 2..k : wr = (a \div 2) + 1
      BY <2>2
    <3>2. /\ a = 2 * (wr - 1) /\ a - 1 = 2 * wr - 3
          /\ (k - 1) - ((a + 1) \div 2) = k - wr
      BY <2>2, <3>1
    <3>3. m \in 1..2^(k - wr)
      BY <3>2 DEF TablesIn
    <3>4. LTable(a, m) = Awaiting(<<"L", 2 * (wr - 1), m>>, WinnerOf(<<"L", 2 * wr - 3, m>>), LoserOf(<<"W", wr, m>>))
      BY <2>2, <3>1, <3>2 DEF LTable
    <3>5. LTable(a, m) \in {Awaiting(<<"L", 2 * (wr - 1), n>>, WinnerOf(<<"L", 2 * wr - 3, n>>),
                            LoserOf(<<"W", wr, n>>)) : n \in 1..2^(k - wr)}
      BY <3>3, <3>4
    <3> QED BY <3>5 DEF DroppingIn
  <2>3. CASE a # 1 /\ a % 2 # 0
    <3>1. PICK wr \in 2..(k - 1) : wr = (a + 1) \div 2
      BY <2>3
    <3>2. a = 2 * wr - 1 /\ (k - 1) - ((a + 1) \div 2) = k - wr - 1
      BY <2>3, <3>1
    <3>3. m \in 1..2^(k - wr - 1)
      BY <3>2 DEF TablesIn
    <3>4. LTable(a, m) = FedByWinners("L", 2 * wr - 1, m, "L")
      BY <2>3, <3>2 DEF LTable
    <3>5. LTable(a, m) \in {FedByWinners("L", 2 * wr - 1, n, "L") : n \in 1..2^(k - wr - 1)}
      BY <3>3, <3>4
    <3> QED BY <3>5 DEF Surviving
  <2> QED BY <2>1, <2>2, <2>3
<1> QED BY <1>1, <1>2, <1>3, <1>4, LosersIs

LEMMA LosersHaveL ==
    ASSUME NEW k \in Nat, k >= 2, NEW A, A = LosersBracket(k)
    PROVE  HasL(A, k) /\ \A p \in A : ~p.final
<1>1. ASSUME NEW a \in 1..(2 * (k - 1)), NEW m, NEW p, p = LTable(a, m)
      PROVE  IsLTable(p, a, m) /\ ~p.final
  <2>1. a \in Nat /\ a >= 1
    OBVIOUS
  <2> QED BY <1>1, <2>1, LTableIs
<1>2. \A p \in A : \E a \in 1..(2 * (k - 1)) : \E m \in TablesIn(k - 1, (a + 1) \div 2) : p = LTable(a, m)
  BY LosersTables
<1>3. \A a \in 1..(2 * (k - 1)) : \A m \in TablesIn(k - 1, (a + 1) \div 2) : LTable(a, m) \in A
  BY LosersTables
<1> QED BY <1>1, <1>2, <1>3 DEF HasL

-----------------------------------------------------------------------------
(* Knockouts: who goes on, and who does not *)

LEMMA OpenLeads ==
    ASSUME NEW A, NEW p \in A, IsOpen(p), NEW d, d = p.homeSource \/ d = p.awaySource
    PROVE  Goes(A, d)
<1>1. HomePlace(p) = p.homeSource /\ AwayPlace(p) = p.awaySource
  BY DEF IsOpen, HomePlace, AwayPlace
<1>2. ComesFrom(p, d)
  BY <1>1 DEF ComesFrom
<1> QED BY <1>2 DEF Goes

LEMMA HalfOf ==
    ASSUME NEW m \in Int, NEW j, j = (m + 1) \div 2
    PROVE  m = 2 * j - 1 \/ m = 2 * j
  OBVIOUS

LEMMA WinnersGo ==
    ASSUME NEW k \in Nat, NEW r \in 1..k, r < k, NEW m \in TablesIn(k, r),
           NEW A, NEW tables, HasW(A, tables, k)
    PROVE  Goes(A, WinnerOf(<<"W", r, m>>))
<1>1. PICK j : j = (m + 1) \div 2
  OBVIOUS
<1>2. m \in Int /\ j \in TablesIn(k, r + 1)
  BY <1>1, TablesInIs
<1>3. PICK s \in 1..k : s = r + 1
  OBVIOUS
<1>4. PICK p \in A : IsWTable(p, tables, s, j)
  BY <1>2, <1>3 DEF HasW
<1>5. s # 1 /\ s - 1 = r
  BY <1>3
<1>6. /\ IsOpen(p)
      /\ p.homeSource = WinnerOf(<<"W", r, 2 * j - 1>>) /\ p.awaySource = WinnerOf(<<"W", r, 2 * j>>)
  BY <1>4, <1>5 DEF IsWTable
<1>7. m = 2 * j - 1 \/ m = 2 * j
  BY <1>1, <1>2, HalfOf
<1>8. PICK d : d = WinnerOf(<<"W", r, m>>)
  OBVIOUS
<1>9. d = p.homeSource \/ d = p.awaySource
  BY <1>6, <1>7, <1>8
<1>10. Goes(A, d)
  BY <1>6, <1>9, OpenLeads
<1> QED BY <1>8, <1>10

LEMMA LosersGo ==
    ASSUME NEW k \in Nat, k >= 2, NEW r \in 1..k, NEW m \in TablesIn(k, r), NEW A, HasL(A, k)
    PROVE  Goes(A, LoserOf(<<"W", r, m>>))
<1>0. PICK d : d = LoserOf(<<"W", r, m>>)
  OBVIOUS
<1>1. CASE r = 1
  <2>1. PICK j : j = (m + 1) \div 2
    OBVIOUS
  <2>2. m \in Int /\ j \in TablesIn(k, 2)
    BY <1>1, <2>1, TablesInIs
  <2>3. PICK a \in 1..(2 * (k - 1)) : a = 1
    OBVIOUS
  <2>4. (a + 1) \div 2 = 1 /\ (k - 1) - 1 = k - 2
    BY <2>3
  <2>5. j \in TablesIn(k - 1, (a + 1) \div 2)
    BY <2>2, <2>4 DEF TablesIn
  <2>6. PICK p \in A : IsLTable(p, a, j)
    BY <2>5 DEF HasL
  <2>7. /\ IsOpen(p)
        /\ p.homeSource = LoserOf(<<"W", 1, 2 * j - 1>>) /\ p.awaySource = LoserOf(<<"W", 1, 2 * j>>)
    BY <2>3, <2>6 DEF IsLTable
  <2>8. m = 2 * j - 1 \/ m = 2 * j
    BY <2>1, <2>2, HalfOf
  <2>9. d = p.homeSource \/ d = p.awaySource
    BY <1>0, <1>1, <2>7, <2>8
  <2>10. Goes(A, d)
    BY <2>7, <2>9, OpenLeads
  <2> QED BY <1>0, <2>10
<1>2. CASE r # 1
  <2>1. PICK a \in 1..(2 * (k - 1)) : a = 2 * (r - 1)
    BY <1>2
  <2>2. (a + 1) \div 2 = r - 1 /\ (k - 1) - (r - 1) = k - r /\ a # 1 /\ a % 2 = 0 /\ (a \div 2) + 1 = r
    BY <1>2, <2>1
  <2>3. m \in TablesIn(k - 1, (a + 1) \div 2)
    BY <2>2 DEF TablesIn
  <2>4. PICK p \in A : IsLTable(p, a, m)
    BY <2>3 DEF HasL
  <2>5. IsOpen(p) /\ p.awaySource = LoserOf(<<"W", (a \div 2) + 1, m>>)
    BY <2>2, <2>4 DEF IsLTable
  <2>6. d = p.awaySource
    BY <1>0, <2>2, <2>5
  <2>7. Goes(A, d)
    BY <2>5, <2>6, OpenLeads
  <2> QED BY <1>0, <2>7
<1> QED BY <1>1, <1>2

LEMMA SurvivorsGo ==
    ASSUME NEW k \in Nat, k >= 2, NEW a \in 1..(2 * (k - 1)), a # 2 * (k - 1),
           NEW m \in TablesIn(k - 1, (a + 1) \div 2), NEW A, HasL(A, k)
    PROVE  Goes(A, WinnerOf(<<"L", a, m>>))
<1>0. PICK d : d = WinnerOf(<<"L", a, m>>)
  OBVIOUS
<1>1. PICK b \in 1..(2 * (k - 1)) : b = a + 1
  OBVIOUS
<1>2. b # 1 /\ b - 1 = a
  BY <1>1
<1>3. CASE a % 2 = 1
  <2>1. (b + 1) \div 2 = (a + 1) \div 2 /\ b % 2 = 0
    BY <1>1, <1>3
  <2>2. m \in TablesIn(k - 1, (b + 1) \div 2)
    BY <2>1
  <2>3. PICK p \in A : IsLTable(p, b, m)
    BY <2>2 DEF HasL
  <2>4. IsOpen(p) /\ p.homeSource = WinnerOf(<<"L", b - 1, m>>)
    BY <1>2, <2>1, <2>3 DEF IsLTable
  <2>5. d = p.homeSource
    BY <1>0, <1>2, <2>4
  <2>6. Goes(A, d)
    BY <2>4, <2>5, OpenLeads
  <2> QED BY <1>0, <2>6
<1>4. CASE a % 2 # 1
  <2>1. PICK h : h = (a + 1) \div 2
    OBVIOUS
  <2>2. PICK i \in Nat : i = k - 1
    OBVIOUS
  <2>3. h \in 1..i /\ h < i /\ (b + 1) \div 2 = h + 1 /\ b % 2 # 0
    BY <1>1, <1>4, <2>1, <2>2
  <2>4. PICK j : j = (m + 1) \div 2
    OBVIOUS
  <2>5. m \in TablesIn(i, h)
    BY <2>1, <2>2
  <2>6. m \in Int /\ j \in TablesIn(i, h + 1)
    BY <2>3, <2>4, <2>5, TablesInIs
  <2>7. j \in TablesIn(k - 1, (b + 1) \div 2)
    BY <2>2, <2>3, <2>6
  <2>8. PICK p \in A : IsLTable(p, b, j)
    BY <2>7 DEF HasL
  <2>9. /\ IsOpen(p)
        /\ p.homeSource = WinnerOf(<<"L", b - 1, 2 * j - 1>>) /\ p.awaySource = WinnerOf(<<"L", b - 1, 2 * j>>)
    BY <1>2, <2>3, <2>8 DEF IsLTable
  <2>10. m = 2 * j - 1 \/ m = 2 * j
    BY <2>4, <2>6, HalfOf
  <2>11. d = p.homeSource \/ d = p.awaySource
    BY <1>0, <1>2, <2>9, <2>10
  <2>12. Goes(A, d)
    BY <2>9, <2>11, OpenLeads
  <2> QED BY <1>0, <2>12
<1> QED BY <1>3, <1>4

LEMMA GoesIn ==
    ASSUME NEW A, NEW B, A \subseteq B, NEW d, Goes(A, d)
    PROVE  Goes(B, d)
  BY DEF Goes

(* Tables with somebody of X at home, and one of X or nobody beside him. *)
IsSeating(tables, k, X) ==
    /\ tables \in [1..2^(k - 1) -> (X \cup {NoOne}) \X (X \cup {NoOne})]
    /\ \A m \in 1..2^(k - 1) : tables[m][1] \in X

LEMMA SeatsOfX ==
    ASSUME NEW k \in Nat, k >= 1, NEW X, NoOne \notin X, NEW tables, IsSeating(tables, k, X),
           NEW r \in 1..k, NEW m \in TablesIn(k, r), NEW p, IsWTable(p, tables, r, m), IsKnown(p)
    PROVE  p.home \in X /\ p.away \in X \cup {NoOne}
<1>1. r = 1
  <2>1. ~IsOpen(p)
    BY DEF IsOpen, IsKnown
  <2> QED BY <2>1 DEF IsWTable
<1>2. m \in 1..2^(k - 1)
  BY <1>1 DEF TablesIn
<1>3. PICK D, S : D = 1..2^(k - 1) /\ S = X \cup {NoOne}
  OBVIOUS
<1>4. m \in D /\ tables \in [D -> S \X S] /\ \A n \in D : tables[n][1] \in X
  BY <1>2, <1>3 DEF IsSeating
<1>5. p.home = tables[m][1] /\ p.away = tables[m][2]
  BY <1>1 DEF IsWTable
<1> QED BY <1>3, <1>4, <1>5

LEMMA SeatingHome ==
    ASSUME NEW k \in Nat, k >= 1, NEW X, NoOne \notin X, NEW tables, IsSeating(tables, k, X)
    PROVE  SomebodyHome(tables, k)
  BY DEF IsSeating, SomebodyHome

-----------------------------------------------------------------------------
(* Knockouts: both brackets are knockouts, and end with one match *)

EndsAt(A, f, lives) == EndsWith(A, f, lives) /\ f.final /\ \A p \in A : p.final => p = f

LEMMA WStands ==
    ASSUME NEW k \in Nat, k >= 1, NEW X, NoOne \notin X, NEW tables, IsSeating(tables, k, X),
           NEW B, HasW(B, tables, k), NEW p \in B
    PROVE  /\ InItsPlace(p, k) /\ p.slot[1] = "W" /\ ~IsReset(p, k)
           /\ IsKnown(p) => p.home \in X /\ p.away \in X \cup {NoOne}
           /\ \E r \in 1..k : \E m \in TablesIn(k, r) : p.slot = <<"W", r, m>>
<1>1. PICK r \in 1..k : \E m \in TablesIn(k, r) : IsWTable(p, tables, r, m)
  BY DEF HasW
<1>2. PICK m \in TablesIn(k, r) : IsWTable(p, tables, r, m)
  BY <1>1
<1>3. m \in Int
  BY TablesInIs
<1>4. InItsPlace(p, k)
  BY <1>2, <1>3, WInPlace
<1>5. IsKnown(p) => p.home \in X /\ p.away \in X \cup {NoOne}
  BY <1>2, SeatsOfX
<1>6. p.slot = <<"W", r, m>>
  BY <1>2 DEF IsWTable
<1>7. p.slot[1] = "W" /\ ~IsReset(p, k)
  BY <1>6 DEF IsReset, ResetSlot
<1> QED BY <1>4, <1>5, <1>6, <1>7

LEMMA SingleDistinct ==
    ASSUME NEW k \in Nat, k >= 1, NEW X, NoOne \notin X, NEW tables, IsSeating(tables, k, X),
           NEW A, A = SingleOf(tables, k)
    PROVE  IsBracket(A, X \cup {NoOne})
<1>1. PICK S : S = X \cup {NoOne}
  OBVIOUS
<1>2. NoOne \in S /\ tables \in [1..2^(k - 1) -> S \X S]
  BY <1>1 DEF IsSeating
<1>3. IsBracket(A, S)
  BY <1>2, SingleShape
<1> QED BY <1>1, <1>3

LEMMA SingleKnockout ==
    ASSUME NEW k \in Nat, k >= 1, NEW X, NoOne \notin X, NEW tables, IsSeating(tables, k, X),
           NEW A, A = SingleOf(tables, k)
    PROVE  IsKnockout(A, X, k) /\ \E f : EndsAt(A, f, 1)
<1>1. HasW(A, tables, k) /\ \A p \in A : p.final <=> p.slot[2] = k
  BY SeatingHome, SingleHasW
<1>2. Distinct(A)
  BY SingleDistinct DEF IsBracket
<1>3. \A p \in A : /\ InItsPlace(p, k) /\ p.slot[1] = "W" /\ ~IsReset(p, k)
                   /\ IsKnown(p) => p.home \in X /\ p.away \in X \cup {NoOne}
                   /\ \E r \in 1..k : \E m \in TablesIn(k, r) : p.slot = <<"W", r, m>>
  BY <1>1, WStands
<1>4. Joined(A) /\ \A p \in A : \A d : ComesFrom(p, d) => p.slot = LeadsTo(k, d)
  BY <1>2, <1>3, JoinedInPlace
<1>5. \A p \in A : IsStage(p, k)
  BY <1>3 DEF InItsPlace
<1>6. IsKnockout(A, X, k)
  BY <1>3, <1>4, <1>5 DEF IsKnockout
<1>7. k \in 1..k /\ TablesIn(k, k) = {1}
  BY TablesInIs
<1>8. PICK f \in A : IsWTable(f, tables, k, 1)
  BY <1>1, <1>7 DEF HasW
<1>9. f.slot = <<"W", k, 1>>
  BY <1>8 DEF IsWTable
<1>10. \A p \in A : p.slot[2] = k => p = f
  <2>1. ASSUME NEW p \in A, p.slot[2] = k PROVE p.slot = f.slot
    <3>1. PICK r \in 1..k : \E m \in TablesIn(k, r) : p.slot = <<"W", r, m>>
      BY <1>3
    <3>2. PICK m \in TablesIn(k, r) : p.slot = <<"W", r, m>>
      BY <3>1
    <3>3. r = k
      BY <2>1, <3>2
    <3>4. m = 1
      BY <1>7, <3>3
    <3> QED BY <1>9, <3>2, <3>3, <3>4
  <2> QED BY <1>2, <2>1 DEF Distinct
<1>11. ~Goes(A, WinnerOf(f.slot))
  <2>1. PICK d : d = WinnerOf(f.slot)
    OBVIOUS
  <2>2. LeadsTo(k, d) = GrandSlot
    <3>1. PICK one \in Int : one = 1
      OBVIOUS
    <3>2. LeadsTo(k, WinnerOf(<<"W", k, one>>)) =
            IF k < k THEN <<"W", k + 1, (one + 1) \div 2>> ELSE GrandSlot
      BY FromWinnersOfW
    <3>3. ~(k < k)
      OBVIOUS
    <3> QED BY <1>9, <2>1, <3>1, <3>2, <3>3
  <2>3. ASSUME NEW p \in A, ComesFrom(p, d) PROVE FALSE
    <3>1. p.slot = GrandSlot
      BY <1>4, <2>2, <2>3
    <3> QED BY <1>3, <3>1 DEF GrandSlot
  <2>4. ~Goes(A, d)
    BY <2>3 DEF Goes
  <2> QED BY <2>1, <2>4
<1>12. \A p \in A \ {f} : Goes(A, WinnerOf(p.slot))
  <2>1. TAKE p \in A \ {f}
  <2>2. PICK r \in 1..k : \E m \in TablesIn(k, r) : p.slot = <<"W", r, m>>
    BY <1>3
  <2>3. PICK m \in TablesIn(k, r) : p.slot = <<"W", r, m>>
    BY <2>2
  <2>4. r < k
    BY <1>10, <2>3
  <2>5. Goes(A, WinnerOf(<<"W", r, m>>))
    BY <1>1, <2>4, WinnersGo
  <2> QED BY <2>3, <2>5
<1>13. f.slot[1] = "W" /\ f.slot[2] = k
  BY <1>9
<1>14. EndsWith(A, f, 1)
  BY <1>3, <1>8, <1>11, <1>12, <1>13 DEF EndsWith
<1>15. f.final /\ \A p \in A : p.final => p = f
  BY <1>1, <1>8, <1>10, <1>13
<1>16. EndsAt(A, f, 1)
  BY <1>14, <1>15 DEF EndsAt
<1> QED BY <1>6, <1>16

DoubleOf(tables, k) ==
    NotFinal(SingleOf(tables, k)) \cup (IF k < 2 THEN {} ELSE LosersBracket(k)) \cup {GrandFinal(k), Reset(k)}

(* The parts of a double elimination: W, L and the two finals. *)
IsDouble(A, B, L, g, f, tables, k, S) ==
    /\ A = B \cup L \cup {g, f}
    /\ IsBracket(B, S) /\ HasW(B, tables, k) /\ \A p \in B : ~p.final
    /\ k < 2 => L = {}
    /\ k >= 2 => HasL(L, k) /\ Distinct(L) /\ \A p \in L : ~p.final
    /\ g = GrandFinal(k) /\ f = Reset(k)

LEMMA DoubleParts ==
    ASSUME NEW k \in Nat, k >= 1, NEW X, NoOne \notin X, NEW tables, IsSeating(tables, k, X),
           NEW A, A = DoubleOf(tables, k)
    PROVE  \E B, L, g, f : IsDouble(A, B, L, g, f, tables, k, X \cup {NoOne})
<1>1. PICK E : E = SingleOf(tables, k)
  OBVIOUS
<1>2. IsBracket(E, X \cup {NoOne}) /\ HasW(E, tables, k) /\ \A p \in E : IsPairing(p)
  BY <1>1, SeatingHome, SingleDistinct, SingleHasW
<1>3. PICK B : B = NotFinal(E)
  OBVIOUS
<1>4. IsBracket(B, X \cup {NoOne}) /\ HasW(B, tables, k) /\ \A p \in B : ~p.final
  <2>1. PICK S : S = X \cup {NoOne}
    OBVIOUS
  <2>2. IsBracket(B, S)
    BY <1>2, <1>3, <2>1, NotFinalShape
  <2>3. HasW(B, tables, k) /\ \A p \in B : ~p.final
    BY <1>2, <1>3, NotFinalHasW
  <2> QED BY <2>1, <2>2, <2>3
<1>5. PICK L : L = (IF k < 2 THEN {} ELSE LosersBracket(k))
  OBVIOUS
<1>6. (k < 2 => L = {}) /\ (k >= 2 => L = LosersBracket(k))
  BY <1>5
<1>7. k >= 2 => HasL(L, k) /\ Distinct(L) /\ \A p \in L : ~p.final
  BY <1>6, LosersHaveL, LosersShape
<1>8. PICK g, f : g = GrandFinal(k) /\ f = Reset(k)
  OBVIOUS
<1>9. A = B \cup L \cup {g, f}
  BY <1>1, <1>3, <1>5, <1>8 DEF DoubleOf
<1>10. IsDouble(A, B, L, g, f, tables, k, X \cup {NoOne})
  <2>1. k < 2 => L = {}
    BY <1>6
  <2> QED BY <1>4, <1>7, <1>8, <1>9, <2>1 DEF IsDouble
<1> QED BY <1>10

LEMMA DoubleApart ==
    ASSUME NEW k \in Nat, k >= 1, NEW A, NEW B, NEW L, NEW g, NEW f, NEW tables, NEW S,
           IsDouble(A, B, L, g, f, tables, k, S)
    PROVE  /\ Distinct(A)
           /\ \A p \in L : p.slot[1] = "L"
           /\ \A p \in A : p.slot # <<>>
           /\ g.slot = GrandSlot /\ f.slot = ResetSlot
<1>0. /\ A = B \cup L \cup {g, f} /\ IsBracket(B, S) /\ g = GrandFinal(k) /\ f = Reset(k)
      /\ k < 2 => L = {}
      /\ k >= 2 => HasL(L, k) /\ Distinct(L)
  BY DEF IsDouble
<1>1. g.slot = GrandSlot /\ f.slot = ResetSlot
  BY <1>0, GrandFinalShape, ResetShape DEF GrandSlot, ResetSlot
<1>2. GrandSlot[1] = "GF" /\ ResetSlot[1] = "GF" /\ GrandSlot # ResetSlot
  BY DEF GrandSlot, ResetSlot
<1>3. \A p \in L : p.slot[1] = "L" /\ p.slot # <<>>
  <2>1. TAKE p \in L
  <2>2. k >= 2 /\ HasL(L, k)
    BY <1>0
  <2>3. PICK a \in 1..(2 * (k - 1)) : \E m \in TablesIn(k - 1, (a + 1) \div 2) : IsLTable(p, a, m)
    BY <2>2 DEF HasL
  <2>4. PICK m : IsLTable(p, a, m)
    BY <2>3
  <2> QED BY <2>4 DEF IsLTable
<1>4. Distinct(B) /\ \A p \in B : p.slot[1] = "W" /\ p.slot # <<>>
  <2>1. Distinct(B) /\ \A p \in B : IsDrawn(p) /\ \E r, m : p.slot = <<"W", r, m>>
    BY <1>0 DEF IsBracket
  <2>2. \A p \in B : p.slot # <<>>
    BY <2>1 DEF IsDrawn
  <2> QED BY <2>1, <2>2
<1>5. Distinct(L)
  <2>1. CASE k < 2
    BY <1>0, <2>1 DEF Distinct
  <2>2. CASE k >= 2
    BY <1>0, <2>2
  <2> QED BY <2>1, <2>2
<1>6. ASSUME NEW p \in A, NEW q \in A, p.slot = q.slot PROVE p = q
  <2>1. CASE p \in B
    <3>1. q \in B
      BY <1>0, <1>1, <1>2, <1>3, <1>4, <1>6, <2>1
    <3> QED BY <1>4, <1>6, <2>1, <3>1 DEF Distinct
  <2>2. CASE p \in L
    <3>1. q \in L
      BY <1>0, <1>1, <1>2, <1>3, <1>4, <1>6, <2>2
    <3> QED BY <1>5, <1>6, <2>2, <3>1 DEF Distinct
  <2>3. CASE p \in {g, f}
    <3>1. q \in {g, f}
      BY <1>0, <1>1, <1>2, <1>3, <1>4, <1>6, <2>3
    <3> QED BY <1>1, <1>2, <1>6, <2>3, <3>1
  <2> QED BY <1>0, <2>1, <2>2, <2>3
<1>7. Distinct(A)
  BY <1>6 DEF Distinct
<1>8. \A p \in A : p.slot # <<>>
  BY <1>0, <1>1, <1>3, <1>4 DEF GrandSlot, ResetSlot
<1> QED BY <1>1, <1>3, <1>7, <1>8

LEMMA DoubleStands ==
    ASSUME NEW k \in Nat, k >= 1, NEW X, NoOne \notin X, NEW tables, IsSeating(tables, k, X),
           NEW A, NEW B, NEW L, NEW g, NEW f, NEW S, IsDouble(A, B, L, g, f, tables, k, S)
    PROVE  \A p \in A : /\ InItsPlace(p, k)
                        /\ IsKnown(p) => p.home \in X /\ p.away \in X \cup {NoOne}
                        /\ p.final => p = f
<1>0. /\ A = B \cup L \cup {g, f} /\ HasW(B, tables, k) /\ g = GrandFinal(k) /\ f = Reset(k)
      /\ \A p \in B : ~p.final
      /\ k < 2 => L = {}
      /\ k >= 2 => HasL(L, k) /\ \A p \in L : ~p.final
  BY DEF IsDouble
<1>1. \A p \in B : /\ InItsPlace(p, k)
                   /\ IsKnown(p) => p.home \in X /\ p.away \in X \cup {NoOne}
  BY <1>0, WStands
<1>2. \A p \in L : InItsPlace(p, k) /\ ~IsKnown(p)
  <2>1. TAKE p \in L
  <2>2. k >= 2 /\ HasL(L, k)
    BY <1>0
  <2>3. PICK a \in 1..(2 * (k - 1)) : \E m \in TablesIn(k - 1, (a + 1) \div 2) : IsLTable(p, a, m)
    BY <2>2 DEF HasL
  <2>4. PICK m \in TablesIn(k - 1, (a + 1) \div 2) : IsLTable(p, a, m)
    BY <2>3
  <2>5. m \in Int
    <3>1. PICK i \in Nat : i = k - 1
      BY <2>2
    <3>2. PICK h \in 1..i : h = (a + 1) \div 2
      BY <3>1
    <3>3. m \in TablesIn(i, h)
      BY <3>1, <3>2
    <3> QED BY <3>3, TablesInIs
  <2>6. InItsPlace(p, k)
    BY <2>2, <2>4, <2>5, LInPlace
  <2> QED BY <2>4, <2>6 DEF IsLTable, IsOpen, IsKnown
<1>3. InItsPlace(g, k) /\ ~IsKnown(g) /\ ~g.final
  BY <1>0, GrandFinalInPlace DEF IsGrandFinal, IsOpen, IsKnown
<1>4. InItsPlace(f, k) /\ ~IsKnown(f)
  BY <1>0, ResetInPlace DEF IsReset, IsOpen, IsKnown
<1>5. \A p \in L : ~p.final
  BY <1>0
<1>6. TAKE p \in A
<1>7. CASE p \in B
  BY <1>0, <1>1, <1>7
<1>8. CASE p \in L
  BY <1>2, <1>5, <1>8
<1>9. CASE p = g
  BY <1>3, <1>9
<1>10. CASE p = f
  BY <1>4, <1>10
<1> QED BY <1>0, <1>7, <1>8, <1>9, <1>10

(* In two brackets everybody but the winner of the last match goes on, or  *)
(* has lost in L or in the reset.                                          *)
LEMMA DoubleGoes ==
    ASSUME NEW k \in Nat, k >= 1, NEW tables, NEW A, NEW B, NEW L, NEW g, NEW f, NEW S,
           IsDouble(A, B, L, g, f, tables, k, S)
    PROVE  /\ \A p \in B : Goes(A, WinnerOf(p.slot)) /\ Goes(A, LoserOf(p.slot))
           /\ \A p \in L : Goes(A, WinnerOf(p.slot))
           /\ Goes(A, WinnerOf(GrandSlot)) /\ Goes(A, LoserOf(GrandSlot))
<1>0. /\ A = B \cup L \cup {g, f} /\ HasW(B, tables, k) /\ g = GrandFinal(k) /\ f = Reset(k)
      /\ k < 2 => L = {}
      /\ k >= 2 => HasL(L, k)
  BY DEF IsDouble
<1>1. g \in A /\ f \in A /\ B \subseteq A /\ L \subseteq A
  BY <1>0
<1>2. IsOpen(g) /\ g.homeSource = WinnerOf(<<"W", k, 1>>)
  BY <1>0, GrandFinalInPlace DEF IsGrandFinal, LastSlot
<1>3. IsOpen(f) /\ f.homeSource = WinnerOf(GrandSlot) /\ f.awaySource = LoserOf(GrandSlot)
  BY <1>0, ResetInPlace DEF IsReset
<1>4. Goes(A, f.homeSource) /\ Goes(A, f.awaySource) /\ Goes(A, g.homeSource) /\ Goes(A, g.awaySource)
  BY <1>1, <1>2, <1>3, OpenLeads
<1>5. g.awaySource = (IF k < 2 THEN LoserOf(<<"W", k, 1>>) ELSE WinnerOf(<<"L", 2 * (k - 1), 1>>))
  BY <1>0 DEF GrandFinal, Awaiting, Known
<1>6. k \in 1..k /\ TablesIn(k, k) = {1}
  BY TablesInIs
<1>7. \A p \in B : Goes(A, WinnerOf(p.slot)) /\ Goes(A, LoserOf(p.slot))
  <2>1. TAKE p \in B
  <2>2. PICK r \in 1..k : \E m \in TablesIn(k, r) : IsWTable(p, tables, r, m)
    BY <1>0 DEF HasW
  <2>3. PICK m \in TablesIn(k, r) : IsWTable(p, tables, r, m)
    BY <2>2
  <2>4. p.slot = <<"W", r, m>>
    BY <2>3 DEF IsWTable
  <2>5. Goes(A, WinnerOf(<<"W", r, m>>))
    <3>1. CASE r < k
      <4>1. Goes(B, WinnerOf(<<"W", r, m>>))
        BY <1>0, <3>1, WinnersGo
      <4> QED BY <1>1, <4>1, GoesIn
    <3>2. CASE r = k
      <4>1. m = 1
        BY <1>6, <3>2
      <4> QED BY <1>2, <1>4, <3>2, <4>1
    <3> QED BY <3>1, <3>2
  <2>6. Goes(A, LoserOf(<<"W", r, m>>))
    <3>1. CASE k >= 2
      <4>1. HasL(L, k)
        BY <1>0, <3>1
      <4>2. Goes(L, LoserOf(<<"W", r, m>>))
        BY <3>1, <4>1, LosersGo
      <4> QED BY <1>1, <4>2, GoesIn
    <3>2. CASE k < 2
      <4>1. r = k
        BY <3>2
      <4>2. m = 1
        BY <1>6, <4>1
      <4>3. g.awaySource = LoserOf(<<"W", k, 1>>)
        BY <1>5, <3>2
      <4> QED BY <1>4, <4>1, <4>2, <4>3
    <3> QED BY <3>1, <3>2
  <2> QED BY <2>4, <2>5, <2>6
<1>8. \A p \in L : Goes(A, WinnerOf(p.slot))
  <2>1. TAKE p \in L
  <2>2. k >= 2 /\ HasL(L, k)
    BY <1>0
  <2>3. PICK a \in 1..(2 * (k - 1)) : \E m \in TablesIn(k - 1, (a + 1) \div 2) : IsLTable(p, a, m)
    BY <2>2 DEF HasL
  <2>4. PICK m \in TablesIn(k - 1, (a + 1) \div 2) : IsLTable(p, a, m)
    BY <2>3
  <2>5. p.slot = <<"L", a, m>>
    BY <2>4 DEF IsLTable
  <2>6. Goes(A, WinnerOf(<<"L", a, m>>))
    <3>1. CASE a # 2 * (k - 1)
      <4>1. Goes(L, WinnerOf(<<"L", a, m>>))
        BY <2>2, <3>1, SurvivorsGo
      <4> QED BY <1>1, <4>1, GoesIn
    <3>2. CASE a = 2 * (k - 1)
      <4>1. PICK i \in Nat : i = k - 1
        BY <2>2
      <4>2. (a + 1) \div 2 = i /\ i \in 1..i
        BY <2>2, <3>2, <4>1
      <4>3. TablesIn(i, i) = {1}
        BY <4>2, TablesInIs
      <4>4. m = 1
        BY <4>1, <4>2, <4>3
      <4>5. g.awaySource = WinnerOf(<<"L", 2 * (k - 1), 1>>)
        BY <1>5, <2>2
      <4> QED BY <1>4, <3>2, <4>4, <4>5
    <3> QED BY <3>1, <3>2
  <2> QED BY <2>5, <2>6
<1> QED BY <1>3, <1>4, <1>7, <1>8

LEMMA DoubleKnockout ==
    ASSUME NEW k \in Nat, k >= 1, NEW X, NoOne \notin X, NEW tables, IsSeating(tables, k, X),
           NEW A, A = DoubleOf(tables, k)
    PROVE  IsKnockout(A, X, k) /\ \E f : EndsAt(A, f, 2)
<1>0. PICK S : S = X \cup {NoOne}
  OBVIOUS
<1>1. PICK B, L, g, f : IsDouble(A, B, L, g, f, tables, k, S)
  BY <1>0, DoubleParts
<1>2. /\ Distinct(A)
      /\ \A p \in L : p.slot[1] = "L"
      /\ \A p \in A : p.slot # <<>>
      /\ g.slot = GrandSlot /\ f.slot = ResetSlot
  BY <1>1, DoubleApart
<1>3. \A p \in A : /\ InItsPlace(p, k)
                   /\ IsKnown(p) => p.home \in X /\ p.away \in X \cup {NoOne}
                   /\ p.final => p = f
  BY <1>1, DoubleStands
<1>4. /\ \A p \in B : Goes(A, WinnerOf(p.slot)) /\ Goes(A, LoserOf(p.slot))
      /\ \A p \in L : Goes(A, WinnerOf(p.slot))
      /\ Goes(A, WinnerOf(GrandSlot)) /\ Goes(A, LoserOf(GrandSlot))
  BY <1>1, DoubleGoes
<1>5. Joined(A) /\ \A p \in A : \A d : ComesFrom(p, d) => p.slot = LeadsTo(k, d)
  BY <1>2, <1>3, JoinedInPlace
<1>6. \A p \in A : IsStage(p, k)
  BY <1>3 DEF InItsPlace
<1>7. g \in A /\ f \in A /\ IsGrandFinal(g, k) /\ f.final
  <2>1. g \in A /\ f \in A /\ g = GrandFinal(k) /\ f = Reset(k)
    BY <1>1 DEF IsDouble
  <2> QED BY <2>1, GrandFinalInPlace, ResetInPlace
<1>8. IsKnockout(A, X, k)
  BY <1>3, <1>5, <1>6, <1>7 DEF IsKnockout
<1>9. ~Goes(A, WinnerOf(f.slot))
  <2>1. PICK d : d = WinnerOf(f.slot)
    OBVIOUS
  <2>2. LeadsTo(k, d) = <<>>
    BY <1>2, <2>1, FromFinals
  <2>3. ASSUME NEW p \in A, ComesFrom(p, d) PROVE FALSE
    <3>1. p.slot = <<>>
      BY <1>5, <2>2, <2>3
    <3> QED BY <1>2, <2>3, <3>1
  <2>4. ~Goes(A, d)
    BY <2>3 DEF Goes
  <2> QED BY <2>1, <2>4
<1>10. \A p \in A \ {f} : Goes(A, WinnerOf(p.slot))
  <2>1. A = B \cup L \cup {g, f}
    BY <1>1 DEF IsDouble
  <2> QED BY <1>2, <1>4, <2>1
<1>11. \A p \in A : Goes(A, LoserOf(p.slot)) \/ p.slot[1] = "L" \/ p.slot = ResetSlot
  <2>1. A = B \cup L \cup {g, f}
    BY <1>1 DEF IsDouble
  <2> QED BY <1>2, <1>4, <2>1
<1>12. EndsWith(A, f, 2)
  BY <1>2, <1>7, <1>9, <1>10, <1>11 DEF EndsWith
<1>13. EndsAt(A, f, 2)
  BY <1>3, <1>7, <1>12 DEF EndsAt
<1> QED BY <1>8, <1>13

-----------------------------------------------------------------------------
(* Knockouts: the seeds take every place once, and the first ones are at home *)

LEMMA Log2UpLeast ==
    ASSUME NEW n \in Nat, n >= 2, NEW k, k = Log2Up(n)
    PROVE  2^(k - 1) < n
<1> DEFINE S == {j \in Nat : 2^j >= n}
           Fits2(j) == 2^j >= n /\ \A i \in 0..(j - 1) : 2^i < n
<1>1. n \in S
  BY PowerIs
<1>2. PICK j \in S : \A m \in S : j <= m
  BY <1>1, Least
<1>3. j \in 0..n
  BY <1>1, <1>2
<1>4. ASSUME NEW i \in 0..(j - 1) PROVE 2^i < n
  <2>1. i \in Nat /\ ~(j <= i) /\ 2^i \in Nat
    BY <1>3, PowerIs
  <2>2. i \notin S
    BY <1>2, <2>1
  <2> QED BY <2>1, <2>2
<1>5. \E m \in 0..n : Fits2(m)
  BY <1>2, <1>3, <1>4
<1>6. k \in 0..n /\ Fits2(k)
  BY <1>5 DEF Log2Up
<1>7. k \in 1..n
  BY Log2UpIs
<1>8. k - 1 \in 0..(k - 1)
  BY <1>7
<1>9. \A i \in 0..(k - 1) : 2^i < n
  BY <1>6
<1> QED BY <1>8, <1>9

(* Every seed has one place. *)
TakesAll(f, n) ==
    /\ f \in [1..n -> 1..n]
    /\ \A i, j \in 1..n : f[i] = f[j] => i = j
    /\ \A x \in 1..n : \E j \in 1..n : f[j] = x

BestAtHome(f, h) == \A m \in 1..h : f[2 * m - 1] <= h

IsDoubled(d, seeds, n) ==
    d = [j \in 1..n |-> IF j % 2 = 1 THEN seeds[(j + 1) \div 2] ELSE n + 1 - seeds[(j + 1) \div 2]]

LEMMA DoubledTakesAll ==
    ASSUME NEW h \in Nat, NEW seeds, TakesAll(seeds, h), NEW n \in Nat, n = 2 * h,
           NEW d, IsDoubled(d, seeds, n)
    PROVE  TakesAll(d, n) /\ BestAtHome(d, h)
<1>1. seeds \in [1..h -> 1..h]
  BY DEF TakesAll
<1>2. ASSUME NEW j \in 1..n
      PROVE  /\ (j + 1) \div 2 \in 1..h /\ seeds[(j + 1) \div 2] \in 1..h
             /\ j % 2 = 1 => d[j] = seeds[(j + 1) \div 2] /\ d[j] <= h
             /\ j % 2 # 1 => d[j] = n + 1 - seeds[(j + 1) \div 2] /\ d[j] > h
             /\ d[j] \in 1..n
  <2>1. (j + 1) \div 2 \in 1..h
    OBVIOUS
  <2>2. PICK x : x = seeds[(j + 1) \div 2]
    OBVIOUS
  <2>3. x \in 1..h
    BY <1>1, <2>1, <2>2
  <2>4. d[j] = IF j % 2 = 1 THEN x ELSE n + 1 - x
    BY <2>2 DEF IsDoubled
  <2>5. PICK y : y = d[j]
    OBVIOUS
  <2>6. (j % 2 = 1 => y = x) /\ (j % 2 # 1 => y = n + 1 - x)
    BY <2>4, <2>5
  <2>7. y \in 1..n /\ (j % 2 = 1 => y <= h) /\ (j % 2 # 1 => y > h)
    BY <2>3, <2>6
  <2> QED BY <2>1, <2>2, <2>3, <2>5, <2>6, <2>7
<1>3. \A j \in 1..n : d[j] \in 1..n
  BY <1>2
<1>4. ASSUME NEW i \in 1..n, NEW j \in 1..n, d[i] = d[j] PROVE i = j
  <2>1. PICK a, b : a = (i + 1) \div 2 /\ b = (j + 1) \div 2
    OBVIOUS
  <2>2. i % 2 = 1 <=> j % 2 = 1
    BY <1>2, <1>4
  <2>3. a \in 1..h /\ b \in 1..h /\ seeds[a] \in Int /\ seeds[b] \in Int
    <3>1. a \in 1..h /\ b \in 1..h
      BY <2>1
    <3> QED BY <1>1, <3>1
  <2>4. seeds[a] = seeds[b]
    <3>1. CASE i % 2 = 1
      BY <1>2, <1>4, <2>1, <2>2, <3>1
    <3>2. CASE i % 2 # 1
      <4>1. d[i] = n + 1 - seeds[a] /\ d[j] = n + 1 - seeds[b]
        BY <1>2, <2>1, <2>2, <3>2
      <4>2. PICK x, y : x = seeds[a] /\ y = seeds[b]
        OBVIOUS
      <4>3. n + 1 - x = n + 1 - y /\ x \in Int /\ y \in Int
        BY <1>4, <2>3, <4>1, <4>2
      <4> QED BY <4>2, <4>3
    <3> QED BY <3>1, <3>2
  <2>5. a = b
    BY <2>3, <2>4 DEF TakesAll
  <2> QED BY <2>1, <2>2, <2>5
<1>5. ASSUME NEW x \in 1..n PROVE \E j \in 1..n : d[j] = x
  <2>1. CASE x <= h
    <3>1. PICK m \in 1..h : seeds[m] = x
      BY <2>1 DEF TakesAll
    <3>2. PICK j \in 1..n : j = 2 * m - 1
      OBVIOUS
    <3>3. j % 2 = 1 /\ (j + 1) \div 2 = m
      BY <3>2
    <3>4. d[j] = x
      BY <1>2, <3>1, <3>3
    <3> QED BY <3>4
  <2>2. CASE ~(x <= h)
    <3>0. n + 1 - x \in 1..h
      BY <2>2
    <3>1. PICK m \in 1..h : seeds[m] = n + 1 - x
      BY <3>0 DEF TakesAll
    <3>2. PICK j \in 1..n : j = 2 * m
      OBVIOUS
    <3>3. j % 2 # 1 /\ (j + 1) \div 2 = m
      BY <3>2
    <3>4. d[j] = n + 1 - (n + 1 - x)
      BY <1>2, <3>1, <3>3
    <3>5. d[j] = x
      BY <3>4
    <3> QED BY <3>5
  <2> QED BY <2>1, <2>2
<1>6. TakesAll(d, n)
  <2>1. d = [j \in 1..n |-> d[j]]
    BY DEF IsDoubled
  <2> QED BY <1>3, <1>4, <1>5, <2>1 DEF TakesAll
<1>7. ASSUME NEW m \in 1..h PROVE d[2 * m - 1] <= h
  <2>1. PICK j \in 1..n : j = 2 * m - 1
    OBVIOUS
  <2>2. j % 2 = 1
    BY <2>1
  <2>3. d[j] <= h
    BY <1>2, <2>2
  <2> QED BY <2>1, <2>3
<1> QED BY <1>6, <1>7 DEF BestAtHome

LEMMA SeedingTakesAll ==
    ASSUME NEW k \in Nat, k >= 1, NEW f, IsSeeding(f, k), NEW n \in 1..k
    PROVE  TakesAll(f[n], 2^n) /\ BestAtHome(f[n], 2^(n - 1))
<1>1. \A i \in 1..k : f[i] = SeedsAt(f, i)
  BY DEF IsSeeding
<1> DEFINE S == {i \in 1..k : ~(TakesAll(f[i], 2^i) /\ BestAtHome(f[i], 2^(i - 1)))}
<1>2. S = {}
  <2> SUFFICES ASSUME S # {} PROVE FALSE
    OBVIOUS
  <2>1. PICK i \in S : \A m \in S : i <= m
    <3>1. S \subseteq Nat
      OBVIOUS
    <3> HIDE DEF S
    <3> QED BY <3>1, Least
  <2>2. CASE i = 1
    <3>1. 2^1 = 2 /\ 2^(1 - 1) = 1 /\ f[1] = <<1, 2>>
      BY <1>1, <2>2 DEF SeedsAt
    <3>2. PICK t : t = <<1, 2>>
      OBVIOUS
    <3>3. t \in [1..2 -> 1..2] /\ t[1] = 1 /\ t[2] = 2
      BY <3>2
    <3>4. TakesAll(t, 2)
      BY <3>3 DEF TakesAll
    <3>5. BestAtHome(t, 1)
      BY <3>3 DEF BestAtHome
    <3> QED BY <2>1, <2>2, <3>1, <3>2, <3>4, <3>5
  <2>3. CASE i # 1
    <3>1. PICK j : j = i - 1
      OBVIOUS
    <3>2. j \in 1..k /\ j \in Nat /\ i = j + 1 /\ ~(i <= j)
      BY <2>3, <3>1
    <3>3. TakesAll(f[j], 2^j)
      BY <2>1, <3>2
    <3>4. PICK h : h = 2^j
      OBVIOUS
    <3>5. PICK l : l = 2^i
      OBVIOUS
    <3>6. h \in Nat /\ l \in Nat /\ l = 2 * h
      BY <3>2, <3>4, <3>5, PowerIs, PowerDoubles
    <3>7. PICK seeds : seeds = f[j]
      OBVIOUS
    <3>8. PICK d : d = f[i]
      OBVIOUS
    <3>9. d = Doubled(seeds, i)
      BY <1>1, <2>3, <3>1, <3>7, <3>8 DEF SeedsAt
    <3>10. IsDoubled(d, seeds, l)
      BY <3>5, <3>9 DEF Doubled, IsDoubled
    <3>11. TakesAll(seeds, h)
      BY <3>3, <3>4, <3>7
    <3>12. TakesAll(d, l) /\ BestAtHome(d, h)
      BY <3>6, <3>10, <3>11, DoubledTakesAll
    <3> QED BY <2>1, <3>1, <3>4, <3>5, <3>8, <3>12
  <2> QED BY <2>2, <2>3
<1> QED BY <1>2

LEMMA SeedsTakeAll ==
    ASSUME NEW k \in Nat, k >= 1
    PROVE  TakesAll(SeedPositions(k), 2^k) /\ BestAtHome(SeedPositions(k), 2^(k - 1))
<1>1. PICK f : f = CHOOSE g : IsSeeding(g, k)
  OBVIOUS
<1>2. IsSeeding(f, k)
  BY <1>1, SeedingExists
<1>3. f[k] = SeedPositions(k)
  BY <1>1, SeedPositionsIs
<1>4. TakesAll(f[k], 2^k) /\ BestAtHome(f[k], 2^(k - 1))
  BY <1>2, SeedingTakesAll
<1> QED BY <1>3, <1>4

-----------------------------------------------------------------------------
(* Knockouts: the exchanges leave everybody one seat, and the homes alone  *)

AtHome(tables, D, x) ==
    /\ \E m \in D : tables[m][1] = x /\ \A n \in D : tables[n][1] = x => n = m
    /\ \A n \in D : tables[n][2] # x

AsVisitor(tables, D, x) ==
    /\ \E m \in D : tables[m][2] = x /\ \A n \in D : tables[n][2] = x => n = m
    /\ \A n \in D : tables[n][1] # x

IsSettled(tables, D, X) ==
    /\ \A m \in D : tables[m][1] \in X
    /\ \A x \in X : AtHome(tables, D, x) \/ AsVisitor(tables, D, x)

LEMMA ExchangeSettled ==
    ASSUME NEW owner, NEW D, NEW tables, NEW after, NEW i \in D, NEW j \in D \ {i},
           Exchanged(owner, D, tables, after, i, j), NEW X, IsSettled(tables, D, X)
    PROVE  IsSettled(after, D, X)
<1>1. /\ after[i] = <<tables[i][1], tables[j][2]>> /\ after[j] = <<tables[j][1], tables[i][2]>>
      /\ \A n \in D \ {i, j} : after[n] = tables[n]
  BY DEF Exchanged
<1>2. \A n \in D : after[n][1] = tables[n][1]
  BY <1>1
<1>3. after[i][2] = tables[j][2] /\ after[j][2] = tables[i][2] /\ \A n \in D \ {i, j} : after[n][2] = tables[n][2]
  BY <1>1
<1>4. PICK a, b, c : /\ a = [n \in D |-> tables[n][1]] /\ b = [n \in D |-> tables[n][2]]
                     /\ c = [n \in D |-> after[n][2]]
  OBVIOUS
<1>5. c[i] = b[j] /\ c[j] = b[i] /\ \A n \in D \ {i, j} : c[n] = b[n]
  BY <1>3, <1>4
<1>6. \A n \in D : tables[n][1] = a[n] /\ after[n][1] = a[n] /\ tables[n][2] = b[n] /\ after[n][2] = c[n]
  BY <1>2, <1>4
<1>7. ASSUME NEW x, \A n \in D : b[n] # x PROVE \A n \in D : c[n] # x
  BY <1>5, <1>7
<1>8. ASSUME NEW x, NEW m \in D, b[m] = x, \A n \in D : b[n] = x => n = m
      PROVE  \E l \in D : c[l] = x /\ \A n \in D : c[n] = x => n = l
  <2>1. CASE m = i
    <3>1. c[j] = x /\ \A n \in D : c[n] = x => n = j
      BY <1>5, <1>8, <2>1
    <3> QED BY <3>1
  <2>2. CASE m = j
    <3>1. c[i] = x /\ \A n \in D : c[n] = x => n = i
      BY <1>5, <1>8, <2>2
    <3> QED BY <3>1
  <2>3. CASE m # i /\ m # j
    <3>1. c[m] = x /\ \A n \in D : c[n] = x => n = m
      BY <1>5, <1>8, <2>3
    <3> QED BY <3>1
  <2> QED BY <2>1, <2>2, <2>3
<1>9. ASSUME NEW x, AtHome(tables, D, x) PROVE AtHome(after, D, x)
  <2>1. \A n \in D : c[n] # x
    <3>1. \A n \in D : b[n] # x
      BY <1>6, <1>9 DEF AtHome
    <3> QED BY <1>7, <3>1
  <2>2. PICK m \in D : a[m] = x /\ \A n \in D : a[n] = x => n = m
    BY <1>6, <1>9 DEF AtHome
  <2> QED BY <1>6, <2>1, <2>2 DEF AtHome
<1>10. ASSUME NEW x, AsVisitor(tables, D, x) PROVE AsVisitor(after, D, x)
  <2>1. PICK m \in D : b[m] = x /\ \A n \in D : b[n] = x => n = m
    BY <1>6, <1>10 DEF AsVisitor
  <2>2. \E l \in D : c[l] = x /\ \A n \in D : c[n] = x => n = l
    BY <1>8, <2>1
  <2> QED BY <1>6, <1>10, <2>2 DEF AsVisitor
<1> QED BY <1>2, <1>9, <1>10 DEF IsSettled

LEMMA SwappedSettled ==
    ASSUME NEW owner, NEW D, Indices(D), NEW S, NEW base \in [D -> S \X S], NEW X, IsSettled(base, D, X)
    PROVE  IsSettled(Swapped(owner, base, D), D, X)
<1>1. PICK h : h = CHOOSE g : IsFold(owner, base, D, D, g)
  OBVIOUS
<1>2. IsFold(owner, base, D, D, h)
  BY <1>1, FoldExists
<1>3. DOMAIN Plain(D) = D
  BY DEF Plain
<1>4. Swapped(owner, base, D) = h[D]
  BY <1>1, <1>3 DEF Swapped, IsSwapping, IsFold
<1> DEFINE Good(s) == h[s] \in [D -> S \X S] /\ IsSettled(h[s], D, X)
           W == {s \in SUBSET D : ~Good(s)}
<1>5. W = {}
  <2> SUFFICES ASSUME W # {} PROVE FALSE
    OBVIOUS
  <2>1. PICK U \in W : Minimal(U, W)
    <3>1. W \subseteq SUBSET D /\ IsFiniteSet(D)
      BY DEF Indices
    <3> HIDE DEF W
    <3> QED BY <3>1, Smallest
  <2>2. h[U] = SwapBody(owner, base, D, h, U)
    BY <1>2 DEF IsFold
  <2>3. CASE U = {}
    BY <2>1, <2>2, <2>3 DEF SwapBody
  <2>4. CASE U # {}
    <3>1. Max(U) \in U
      BY <2>4, LastIn
    <3>2. PICK v : v = h[U \ {Max(U)}]
      OBVIOUS
    <3>3. v \in [D -> S \X S] /\ IsSettled(v, D, X)
      <4>1. U \ {Max(U)} \in SUBSET D /\ U \ {Max(U)} \notin W
        BY <2>1, <3>1 DEF Minimal
      <4> QED BY <3>2, <4>1
    <3>4. Max(U) \in D /\ Plain(D)[Max(U)] = Max(U)
      BY <3>1 DEF Plain
    <3>5. h[U] = AvoidAt(owner, v, Max(U))
      BY <2>2, <2>4, <3>2, <3>4 DEF SwapBody
    <3>6. PICK n \in D : n = Max(U)
      BY <3>4
    <3>7. PICK after : after = AvoidAt(owner, v, n)
      OBVIOUS
    <3>8. after \in [D -> S \X S]
      BY <3>3, <3>7, AvoidAtType
    <3>9. IsSettled(after, D, X)
      <4>1. \/ after = v /\ Stuck(owner, v, D, n)
            \/ \E j \in D \ {n} : Exchanged(owner, D, v, after, n, j)
        BY <3>3, <3>7, ExchangeIs
      <4>2. CASE after = v
        BY <3>3, <4>2
      <4>3. ASSUME NEW j \in D \ {n}, Exchanged(owner, D, v, after, n, j) PROVE IsSettled(after, D, X)
        BY <3>3, <4>3, ExchangeSettled
      <4> QED BY <4>1, <4>2, <4>3
    <3>10. h[U] = after
      BY <3>5, <3>6, <3>7
    <3> QED BY <2>1, <3>8, <3>9, <3>10
  <2> QED BY <2>3, <2>4
<1>6. D \in SUBSET D
  OBVIOUS
<1>7. Good(D)
  BY <1>5, <1>6
<1> QED BY <1>4, <1>7

LEMMA PlacedSettled ==
    ASSUME NEW ids, IsEntry(ids), NEW k, k = Log2Up(Len(ids))
    PROVE  k \in Nat /\ k >= 1 /\ IsSettled(Placed(ids, k), 1..2^(k - 1), Range(ids))
<1>1. PICK len \in Nat : len = Len(ids) /\ len >= 2
  BY DEF IsEntry, IsField
<1>2. k \in Nat /\ k >= 1 /\ 2^k >= len /\ 2^(k - 1) < len
  BY <1>1, Log2UpIs, Log2UpLeast
<1>3. PICK h : h = 2^(k - 1)
  OBVIOUS
<1>4. PICK n : n = 2^k
  OBVIOUS
<1>5. h \in Nat /\ n = 2 * h
  <2>1. PICK j : j = k - 1
    OBVIOUS
  <2>2. j \in Nat /\ k = j + 1
    BY <1>2, <2>1
  <2>3. 2^j \in Nat /\ 2^(j + 1) = 2 * 2^j
    BY <2>2, PowerIs, PowerDoubles
  <2> QED BY <1>3, <1>4, <2>1, <2>2, <2>3
<1>6. n \in Nat /\ len <= n /\ h < len
  <2>1. n >= len /\ h < len
    BY Zenon, <1>2, <1>3, <1>4
  <2> QED BY <1>1, <1>5, <2>1
<1>7. PICK f : f = SeedPositions(k)
  OBVIOUS
<1>8. TakesAll(f, n) /\ BestAtHome(f, h)
  BY <1>2, <1>3, <1>4, <1>7, SeedsTakeAll
<1>9. PICK X : X = Range(ids)
  OBVIOUS
<1>10. /\ \A s \in 1..len : ids[s] \in X
       /\ \A x \in X : \E s \in 1..len : ids[s] = x
       /\ \A s, u \in 1..len : ids[s] = ids[u] => s = u
       /\ NoOne \notin X
  <2>1. ids \in Seq(X) /\ IsInjective(ids) /\ NoOne \notin X
    BY <1>9 DEF IsEntry, IsField
  <2>2. DOMAIN ids = 1..len
    BY <1>1, <2>1
  <2>3. \A s \in DOMAIN ids : ids[s] \in X
    BY <1>9 DEF Range
  <2>4. \A x \in X : \E s \in DOMAIN ids : ids[s] = x
    BY <1>9 DEF Range
  <2>5. \A s, u \in DOMAIN ids : ids[s] = ids[u] => s = u
    BY <2>1 DEF IsInjective
  <2> QED BY <2>1, <2>2, <2>3, <2>4, <2>5
<1> DEFINE Given(j) == IF f[j] <= len THEN ids[f[j]] ELSE NoOne
<1>11. PICK tables : tables = Placed(ids, k)
  OBVIOUS
<1>12. \A m \in 1..h : tables[m][1] = Given(2 * m - 1) /\ tables[m][2] = Given(2 * m)
  <2>1. tables = [m \in 1..h |-> <<IF f[2 * m - 1] <= len THEN ids[f[2 * m - 1]] ELSE NoOne,
                                   IF f[2 * m] <= len THEN ids[f[2 * m]] ELSE NoOne>>]
    BY <1>1, <1>3, <1>7, <1>11 DEF Placed
  <2> QED BY <2>1
<1>13. \A j \in 1..n : f[j] \in 1..n
  BY SMTT(60), ZenonT(60), <1>8 DEF TakesAll
<1>14. ASSUME NEW m \in 1..h PROVE tables[m][1] \in X
  <2>1. PICK j \in 1..n : j = 2 * m - 1
    BY <1>5
  <2>2. f[j] <= h
    BY <1>8, <2>1 DEF BestAtHome
  <2>3. f[j] \in 1..len
    BY <1>6, <1>5, <1>13, <2>2
  <2>4. Given(j) \in X
    BY <1>10, <2>3
  <2> QED BY <1>12, <2>1, <2>4
<1>15. ASSUME NEW i \in 1..n, NEW j \in 1..n, NEW x \in X, Given(i) = x, Given(j) = x PROVE i = j
  <2>1. f[i] \in 1..len /\ f[j] \in 1..len /\ ids[f[i]] = x /\ ids[f[j]] = x
    BY <1>10, <1>13, <1>15
  <2>2. f[i] = f[j]
    BY <1>10, <2>1
  <2> QED BY <1>8, <2>2 DEF TakesAll
<1>16. ASSUME NEW x \in X PROVE \E j \in 1..n : Given(j) = x
  <2>1. PICK s \in 1..len : ids[s] = x
    BY <1>10
  <2>2. s \in 1..n
    BY <1>6
  <2>3. PICK j \in 1..n : f[j] = s
    BY <1>8, <2>2 DEF TakesAll
  <2> QED BY <2>1, <2>3
<1> HIDE DEF Given
<1>17. ASSUME NEW x \in X PROVE AtHome(tables, 1..h, x) \/ AsVisitor(tables, 1..h, x)
  <2>1. PICK j \in 1..n : Given(j) = x
    BY <1>16
  <2>2. \A m \in 1..h : 2 * m - 1 \in 1..n /\ 2 * m \in 1..n
    BY <1>5
  <2>3. \A m \in 1..h : (tables[m][1] = x => 2 * m - 1 = j) /\ (tables[m][2] = x => 2 * m = j)
    BY <1>12, <1>15, <2>1, <2>2
  <2>4. CASE j % 2 = 1
    <3>1. PICK l \in 1..h : j = 2 * l - 1
      <4>1. (j + 1) \div 2 \in 1..h /\ j = 2 * ((j + 1) \div 2) - 1
        BY <1>5, <2>4
      <4> QED BY <4>1
    <3>2. tables[l][1] = x
      BY <1>12, <2>1, <3>1
    <3>3. \A m \in 1..h : (tables[m][1] = x => m = l) /\ tables[m][2] # x
      BY <2>3, <3>1
    <3>4. AtHome(tables, 1..h, x)
      BY <3>2, <3>3 DEF AtHome
    <3> QED BY <3>4
  <2>5. CASE j % 2 # 1
    <3>1. PICK l \in 1..h : j = 2 * l
      <4>1. (j + 1) \div 2 \in 1..h /\ j = 2 * ((j + 1) \div 2)
        BY <1>5, <2>5
      <4> QED BY <4>1
    <3>2. tables[l][2] = x
      BY <1>12, <2>1, <3>1
    <3>3. \A m \in 1..h : (tables[m][2] = x => m = l) /\ tables[m][1] # x
      BY <2>3, <3>1
    <3>4. AsVisitor(tables, 1..h, x)
      BY <3>2, <3>3 DEF AsVisitor
    <3> QED BY <3>4
  <2> QED BY <2>4, <2>5
<1>18. IsSettled(tables, 1..h, X)
  BY <1>14, <1>17 DEF IsSettled
<1> QED BY <1>2, <1>3, <1>9, <1>11, <1>18

-----------------------------------------------------------------------------
(* Knockouts: everybody is drawn to one place of the bracket *)

FirstTables(A, tables, D) ==
    /\ \A p \in A : ~IsOpen(p) => \E m \in D : IsWTable(p, tables, 1, m)
    /\ \A m \in D : \E p \in A : IsWTable(p, tables, 1, m)

LEMMA DrawnFrom ==
    ASSUME NEW A, NEW tables, NEW D, FirstTables(A, tables, D), NEW x,
           AtHome(tables, D, x) \/ AsVisitor(tables, D, x)
    PROVE  DrawnOnce(A, x)
<1> DEFINE H(m) == DrawnAt(<<"W", 1, m>>, "home")
           V(m) == DrawnAt(<<"W", 1, m>>, "away")
<1>1. ASSUME NEW m \in D PROVE \E p \in A : /\ p.homeSource = NoSource /\ p.awaySource = NoSource
                                            /\ p.slot = <<"W", 1, m>>
                                            /\ p.home = tables[m][1] /\ p.away = tables[m][2]
  <2>1. PICK p \in A : IsWTable(p, tables, 1, m)
    BY DEF FirstTables
  <2> QED BY <2>1 DEF IsWTable, IsKnown
<1>2. ASSUME NEW d, DrawnThere(A, d, x)
      PROVE  \E m \in D : (d = H(m) /\ x = tables[m][1]) \/ (d = V(m) /\ x = tables[m][2])
  <2>1. PICK p \in A : /\ p.homeSource = NoSource /\ p.awaySource = NoSource
                       /\ \/ d = DrawnAt(p.slot, "home") /\ x = p.home
                          \/ d = DrawnAt(p.slot, "away") /\ x = p.away
    BY <1>2 DEF DrawnThere
  <2>2. PICK m \in D : IsWTable(p, tables, 1, m)
    BY <2>1 DEF FirstTables, IsOpen
  <2>3. p.slot = <<"W", 1, m>> /\ p.home = tables[m][1] /\ p.away = tables[m][2]
    BY <2>2 DEF IsWTable
  <2> QED BY <2>1, <2>3
<1>3. ASSUME NEW m \in D PROVE /\ tables[m][1] = x => DrawnThere(A, H(m), x)
                               /\ tables[m][2] = x => DrawnThere(A, V(m), x)
  <2>1. PICK p \in A : /\ p.homeSource = NoSource /\ p.awaySource = NoSource
                       /\ p.slot = <<"W", 1, m>>
                       /\ p.home = tables[m][1] /\ p.away = tables[m][2]
    BY <1>1
  <2> QED BY <2>1 DEF DrawnThere
<1>4. CASE AtHome(tables, D, x)
  <2>1. PICK m \in D : tables[m][1] = x /\ \A n \in D : (tables[n][1] = x => n = m) /\ tables[n][2] # x
    BY <1>4 DEF AtHome
  <2>2. DrawnThere(A, H(m), x)
    BY <1>3, <2>1
  <2>3. \A e : DrawnThere(A, e, x) => e = H(m)
    BY <1>2, <2>1
  <2> QED BY <2>2, <2>3 DEF DrawnOnce
<1>5. CASE AsVisitor(tables, D, x)
  <2>1. PICK m \in D : tables[m][2] = x /\ \A n \in D : (tables[n][2] = x => n = m) /\ tables[n][1] # x
    BY <1>5 DEF AsVisitor
  <2>2. DrawnThere(A, V(m), x)
    BY <1>3, <2>1
  <2>3. \A e : DrawnThere(A, e, x) => e = V(m)
    BY <1>2, <2>1
  <2> QED BY <2>2, <2>3 DEF DrawnOnce
<1> QED BY <1>4, <1>5

LEMMA FirstTablesOfW ==
    ASSUME NEW k \in Nat, k >= 1, NEW B, NEW tables, HasW(B, tables, k),
           NEW A, B \subseteq A, \A p \in A : p \in B \/ IsOpen(p)
    PROVE  FirstTables(A, tables, 1..2^(k - 1))
<1>1. PICK D : D = 1..2^(k - 1)
  OBVIOUS
<1>2. TablesIn(k, 1) = D /\ 1 \in 1..k
  BY <1>1 DEF TablesIn
<1>3. ASSUME NEW p \in A, ~IsOpen(p) PROVE \E m \in D : IsWTable(p, tables, 1, m)
  <2>1. PICK r \in 1..k : \E m \in TablesIn(k, r) : IsWTable(p, tables, r, m)
    BY <1>3 DEF HasW
  <2>2. PICK m \in TablesIn(k, r) : IsWTable(p, tables, r, m)
    BY <2>1
  <2>3. r = 1
    BY <1>3, <2>2 DEF IsWTable
  <2> QED BY <1>2, <2>2, <2>3
<1>4. \A m \in D : \E p \in A : IsWTable(p, tables, 1, m)
  BY <1>2 DEF HasW
<1> QED BY <1>1, <1>3, <1>4 DEF FirstTables

LEMMA SingleFirst ==
    ASSUME NEW k \in Nat, k >= 1, NEW X, NoOne \notin X, NEW tables, IsSeating(tables, k, X),
           NEW A, A = SingleOf(tables, k)
    PROVE  FirstTables(A, tables, 1..2^(k - 1))
<1>1. HasW(A, tables, k)
  BY SeatingHome, SingleHasW
<1> QED BY <1>1, FirstTablesOfW

LEMMA DoubleFirst ==
    ASSUME NEW k \in Nat, k >= 1, NEW X, NoOne \notin X, NEW tables, IsSeating(tables, k, X),
           NEW A, A = DoubleOf(tables, k)
    PROVE  FirstTables(A, tables, 1..2^(k - 1))
<1>0. PICK S : S = X \cup {NoOne}
  OBVIOUS
<1>1. PICK B, L, g, f : IsDouble(A, B, L, g, f, tables, k, S)
  BY <1>0, DoubleParts
<1>2. /\ A = B \cup L \cup {g, f} /\ HasW(B, tables, k) /\ g = GrandFinal(k) /\ f = Reset(k)
      /\ k < 2 => L = {}
      /\ k >= 2 => HasL(L, k)
  BY <1>1 DEF IsDouble
<1>3. IsOpen(g) /\ IsOpen(f)
  BY <1>2, GrandFinalInPlace, ResetInPlace DEF IsGrandFinal, IsReset
<1>4. \A p \in L : IsOpen(p)
  <2>1. TAKE p \in L
  <2>2. k >= 2 /\ HasL(L, k)
    BY <1>2
  <2> QED BY <2>2 DEF HasL, IsLTable
<1>5. B \subseteq A /\ \A p \in A : p \in B \/ IsOpen(p)
  BY <1>2, <1>3, <1>4
<1> QED BY <1>2, <1>5, FirstTablesOfW

(* Whatever is drawn for different bots is a knockout that starts well. *)
StartsWell(A, X, k, lives) ==
    IsKnockout(A, X, k) /\ (\E f : EndsAt(A, f, lives)) /\ \A x \in X : DrawnOnce(A, x)

LEMMA FirstRoundSeats ==
    ASSUME NEW ids, IsEntry(ids), NEW owner, NEW k, k = Log2Up(Len(ids)), NEW X, X = Range(ids),
           NEW tables, tables = FirstRound(ids, owner, k)
    PROVE  /\ k \in Nat /\ k >= 1 /\ NoOne \notin X
           /\ IsSeating(tables, k, X) /\ IsSettled(tables, 1..2^(k - 1), X)
<1>0. NoOne \notin X /\ IsField(ids)
  BY DEF IsEntry
<1>1. k \in Nat /\ k >= 1 /\ IsSettled(Placed(ids, k), 1..2^(k - 1), X)
  BY PlacedSettled
<1>2. PICK D, base, S : D = 1..2^(k - 1) /\ base = Placed(ids, k) /\ S = {NoOne} \cup Range(ids)
  OBVIOUS
<1>3. base \in [D -> S \X S] /\ Indices(D)
  BY <1>0, <1>1, <1>2, PlacedType
<1>4. PICK v : v = Swapped(owner, base, D)
  OBVIOUS
<1>5. IsSettled(v, D, X)
  <2>1. IsSettled(base, D, X)
    BY <1>1, <1>2
  <2> QED BY <1>3, <1>4, <2>1, SwappedSettled
<1>6. v \in [D -> S \X S]
  BY <1>3, <1>4, SwappedType
<1>7. IsSeating(v, k, X)
  <2>1. S = X \cup {NoOne}
    BY <1>2
  <2>2. \A m \in D : v[m][1] \in X
    BY <1>5 DEF IsSettled
  <2> QED BY <1>2, <1>6, <2>1, <2>2 DEF IsSeating
<1>8. tables = v
  <2>1. DOMAIN base = D
    BY <1>3
  <2> QED BY <1>2, <1>4, <2>1, FirstRoundIs
<1> QED BY <1>0, <1>1, <1>2, <1>5, <1>7, <1>8

LEMMA SingleStartsWell ==
    ASSUME NEW ids, IsEntry(ids), NEW owner, NEW k, k = Log2Up(Len(ids)), NEW X, X = Range(ids),
           NEW A, A = SingleElimination(ids, owner)
    PROVE  StartsWell(A, X, k, 1)
<1>1. PICK tables : tables = FirstRound(ids, owner, k)
  OBVIOUS
<1>2. /\ k \in Nat /\ k >= 1 /\ NoOne \notin X
      /\ IsSeating(tables, k, X) /\ IsSettled(tables, 1..2^(k - 1), X)
  BY <1>1, FirstRoundSeats
<1>3. A = SingleOf(tables, k)
  BY <1>1, SingleIs
<1>4. PICK D : D = 1..2^(k - 1)
  OBVIOUS
<1>5. FirstTables(A, tables, D)
  BY <1>2, <1>3, <1>4, SingleFirst
<1>6. \A x \in X : AtHome(tables, D, x) \/ AsVisitor(tables, D, x)
  BY <1>2, <1>4 DEF IsSettled
<1>7. \A x \in X : DrawnOnce(A, x)
  BY <1>5, <1>6, DrawnFrom
<1>8. IsKnockout(A, X, k) /\ \E f : EndsAt(A, f, 1)
  BY <1>2, <1>3, SingleKnockout
<1> QED BY <1>7, <1>8 DEF StartsWell

LEMMA DoubleStartsWell ==
    ASSUME NEW ids, IsEntry(ids), NEW owner, NEW k, k = Log2Up(Len(ids)), NEW X, X = Range(ids),
           NEW A, A = DoubleElimination(ids, owner)
    PROVE  StartsWell(A, X, k, 2)
<1>1. PICK tables : tables = FirstRound(ids, owner, k)
  OBVIOUS
<1>2. /\ k \in Nat /\ k >= 1 /\ NoOne \notin X
      /\ IsSeating(tables, k, X) /\ IsSettled(tables, 1..2^(k - 1), X)
  BY <1>1, FirstRoundSeats
<1>3. A = DoubleOf(tables, k)
  <2>1. SingleElimination(ids, owner) = SingleOf(tables, k)
    BY <1>1, SingleIs
  <2>2. A = NotFinal(SingleElimination(ids, owner)) \cup (IF k < 2 THEN {} ELSE LosersBracket(k))
               \cup {GrandFinal(k), Reset(k)}
    BY DoubleIs
  <2> QED BY <2>1, <2>2 DEF DoubleOf
<1>4. PICK D : D = 1..2^(k - 1)
  OBVIOUS
<1>5. FirstTables(A, tables, D)
  BY <1>2, <1>3, <1>4, DoubleFirst
<1>6. \A x \in X : AtHome(tables, D, x) \/ AsVisitor(tables, D, x)
  BY <1>2, <1>4 DEF IsSettled
<1>7. \A x \in X : DrawnOnce(A, x)
  BY <1>5, <1>6, DrawnFrom
<1>8. IsKnockout(A, X, k) /\ \E f : EndsAt(A, f, 2)
  BY <1>2, <1>3, DoubleKnockout
<1> QED BY <1>7, <1>8 DEF StartsWell

IsKnockoutFormat(format) == format \in {"single_elimination", "double_elimination"}

LivesIn(format) == IF format = "single_elimination" THEN 1 ELSE 2

(* The knockout that is drawn for row t of a tournament is being played. *)
PlaysKnockout(t, A, R) ==
    IsKnockoutFormat(t.format) => InPlay(A, Range(t.entries), R, Log2Up(Len(t.entries)))

-----------------------------------------------------------------------------
(* Knockouts: everybody but the champion is out *)

LEMMA DrawStartsWell ==
    ASSUME NEW t, IsEntry(t.entries), IsKnockoutFormat(t.format), NEW A, A = ScheduleOf(t)
    PROVE  StartsWell(A, Range(t.entries), Log2Up(Len(t.entries)), LivesIn(t.format))
<1>1. IsEntry(t.entries)
  OBVIOUS
<1>2. PICK ids, k, X : ids = t.entries /\ k = Log2Up(Len(ids)) /\ X = Range(ids)
  OBVIOUS
<1>3. CASE t.format = "single_elimination"
  <2>1. A = SingleElimination(ids, t.owner) /\ LivesIn(t.format) = 1
    BY <1>2, <1>3 DEF ScheduleOf, InitialSchedule, LivesIn
  <2>2. StartsWell(A, X, k, 1)
    BY <1>1, <1>2, <2>1, SingleStartsWell
  <2> QED BY <1>2, <2>1, <2>2
<1>4. CASE t.format = "double_elimination"
  <2>1. A = DoubleElimination(ids, t.owner) /\ LivesIn(t.format) = 2
    BY <1>2, <1>4 DEF ScheduleOf, InitialSchedule, LivesIn
  <2>2. StartsWell(A, X, k, 2)
    BY <1>1, <1>2, <2>1, DoubleStartsWell
  <2> QED BY <1>2, <2>1, <2>2
<1> QED BY <1>3, <1>4 DEF IsKnockoutFormat

LEMMA KnockoutStarts ==
    ASSUME NEW t, IsEntry(t.entries), NEW A, A = ScheduleOf(t), NEW R, DOMAIN R = {}
    PROVE  PlaysKnockout(t, A, R)
<1> SUFFICES ASSUME IsKnockoutFormat(t.format) PROVE PlaysKnockout(t, A, R)
  BY DEF PlaysKnockout
<1>1. PICK X, k, lives : X = Range(t.entries) /\ k = Log2Up(Len(t.entries)) /\ lives = LivesIn(t.format)
  OBVIOUS
<1>2. StartsWell(A, X, k, lives)
  BY <1>1, DrawStartsWell
<1>3. InPlay(A, X, R, k)
  BY <1>2, InPlayFirst DEF StartsWell
<1> QED BY <1>1, <1>3 DEF PlaysKnockout

LEMMA KnockoutGoesOn ==
    ASSUME NEW t, IsEntry(t.entries), NEW A, A = ScheduleOf(t), NEW R, NEW R2, PlaysKnockout(t, A, R),
           IsKnockoutFormat(t.format) => \E p, home, away, w : IsPlayed(A, R, p, home, away, w, R2)
    PROVE  PlaysKnockout(t, A, R2)
<1> SUFFICES ASSUME IsKnockoutFormat(t.format) PROVE PlaysKnockout(t, A, R2)
  BY DEF PlaysKnockout
<1>1. PICK X, k, lives : X = Range(t.entries) /\ k = Log2Up(Len(t.entries)) /\ lives = LivesIn(t.format)
  OBVIOUS
<1>2. IsKnockout(A, X, k)
  BY <1>1, DrawStartsWell DEF StartsWell
<1>3. InPlay(A, X, R, k)
  BY <1>1 DEF PlaysKnockout
<1>4. PICK p, home, away, w : IsPlayed(A, R, p, home, away, w, R2)
  OBVIOUS
<1>5. InPlay(A, X, R2, k)
  BY <1>2, <1>3, <1>4, InPlayStill
<1> QED BY <1>1, <1>5 DEF PlaysKnockout

AllOut(A, X, R, lives) ==
    LET c == R[(CHOOSE p \in A : p.final).slot].winner IN
    /\ c \in X /\ Cardinality(LostBy(A, R, c)) < lives
    /\ \A x \in X \ {c} : Cardinality(LostBy(A, R, x)) = lives

LEMMA KnockoutEnds ==
    ASSUME NEW t, IsEntry(t.entries), IsKnockoutFormat(t.format), NEW A, A = ScheduleOf(t),
           NEW R, PlaysKnockout(t, A, R), \A p \in A : p.slot \in DOMAIN R
    PROVE  AllOut(A, Range(t.entries), R, LivesIn(t.format))
<1>1. PICK X, k, lives : X = Range(t.entries) /\ k = Log2Up(Len(t.entries)) /\ lives = LivesIn(t.format)
  OBVIOUS
<1>2. StartsWell(A, X, k, lives)
  BY <1>1, DrawStartsWell
<1>3. PICK f : EndsAt(A, f, lives)
  BY <1>2 DEF StartsWell
<1>4. IsKnockout(A, X, k) /\ InPlay(A, X, R, k) /\ EndsWith(A, f, lives)
  BY <1>1, <1>2, <1>3 DEF StartsWell, PlaysKnockout, EndsAt
<1>5. f = CHOOSE p \in A : p.final
  BY <1>3 DEF EndsAt, EndsWith
<1>6. PICK c : c = R[f.slot].winner
  OBVIOUS
<1>7. OneIsLeft(A, X, R, c, lives)
  BY <1>4, <1>6, OneLeft
<1>8. c \in X /\ Cardinality(LostBy(A, R, c)) < lives
  BY <1>7 DEF OneIsLeft, HasLost
<1>9. \A x \in X \ {c} : Cardinality(LostBy(A, R, x)) = lives
  BY <1>7 DEF OneIsLeft, HasLost
<1> QED BY <1>1, <1>5, <1>6, <1>8, <1>9 DEF AllOut

-----------------------------------------------------------------------------
(* Seeds: the best 2^j do not meet before j rounds are left *)

(* The best seed below table m of the round that leaves j to play. *)
BestAt(f, j, m) == IF j = 0 THEN 1 ELSE f[j][m]

(* Of two tables that meet, the first has the best seed, and the best seed *)
(* of the second is none of the best half.                                 *)
IsLadder(f, k) ==
    \A j \in 1..k : \A m \in 1..2^(j - 1) :
        f[j][2 * m - 1] = BestAt(f, j - 1, m) /\ f[j][2 * m] > 2^(j - 1)

Ladder(k) == CHOOSE f : IsLadder(f, k) /\ f[k] = SeedPositions(k)

LEMMA DoublingClimbs ==
    ASSUME NEW h \in Nat, NEW seeds, TakesAll(seeds, h), NEW n \in Nat, n = 2 * h,
           NEW d, IsDoubled(d, seeds, n), NEW m \in 1..h
    PROVE  d[2 * m - 1] = seeds[m] /\ d[2 * m] > h
<1>1. seeds[m] \in 1..h
  BY DEF TakesAll
<1>2. PICK i \in 1..n : i = 2 * m - 1
  OBVIOUS
<1>3. PICK j \in 1..n : j = 2 * m
  OBVIOUS
<1>4. i % 2 = 1 /\ (i + 1) \div 2 = m
  BY <1>2
<1>5. j % 2 # 1 /\ (j + 1) \div 2 = m
  BY <1>3
<1>6. d[i] = seeds[m]
  BY <1>2, <1>4 DEF IsDoubled
<1>7. d[j] = n + 1 - seeds[m]
  BY <1>3, <1>5 DEF IsDoubled
<1>8. d[j] > h
  BY <1>1, <1>7
<1> QED BY <1>2, <1>3, <1>6, <1>8

LEMMA LadderIs ==
    ASSUME NEW k \in Nat, k >= 1
    PROVE  IsLadder(Ladder(k), k) /\ Ladder(k)[k] = SeedPositions(k)
<1>1. PICK f : f = CHOOSE g : IsSeeding(g, k)
  OBVIOUS
<1>2. IsSeeding(f, k)
  BY <1>1, SeedingExists
<1>3. f[k] = SeedPositions(k)
  BY <1>1, SeedPositionsIs
<1>4. \A i \in 1..k : f[i] = SeedsAt(f, i)
  BY <1>2 DEF IsSeeding
<1>5. ASSUME NEW j \in 1..k, NEW m \in 1..2^(j - 1)
      PROVE  f[j][2 * m - 1] = BestAt(f, j - 1, m) /\ f[j][2 * m] > 2^(j - 1)
  <2>1. CASE j = 1
    <3>1. 2^(1 - 1) = 1 /\ m = 1
      BY <1>5, <2>1
    <3>2. PICK t : t = <<1, 2>>
      OBVIOUS
    <3>3. f[j] = t
      BY <1>4, <2>1, <3>2 DEF SeedsAt
    <3>4. t[2 * m - 1] = 1 /\ t[2 * m] = 2
      BY <3>1, <3>2
    <3>5. BestAt(f, j - 1, m) = 1
      BY <2>1 DEF BestAt
    <3> QED BY <2>1, <3>1, <3>3, <3>4, <3>5
  <2>2. CASE j # 1
    <3>1. PICK i : i = j - 1
      OBVIOUS
    <3>2. i \in 1..k /\ i \in Nat /\ i # 0 /\ j = i + 1
      BY <2>2, <3>1
    <3>3. PICK h : h = 2^i
      OBVIOUS
    <3>4. PICK n : n = 2^j
      OBVIOUS
    <3>5. h \in Nat /\ n \in Nat /\ n = 2 * h
      BY <3>2, <3>3, <3>4, PowerIs, PowerDoubles
    <3>6. PICK seeds : seeds = f[i]
      OBVIOUS
    <3>7. PICK d : d = f[j]
      OBVIOUS
    <3>8. TakesAll(seeds, h)
      BY <1>2, <3>2, <3>3, <3>6, SeedingTakesAll
    <3>9. d = Doubled(seeds, j)
      BY <1>4, <2>2, <3>1, <3>6, <3>7 DEF SeedsAt
    <3>10. IsDoubled(d, seeds, n)
      BY <3>4, <3>9 DEF Doubled, IsDoubled
    <3>11. m \in 1..h
      BY <1>5, <3>1, <3>3
    <3>12. d[2 * m - 1] = seeds[m] /\ d[2 * m] > h
      BY <3>5, <3>8, <3>10, <3>11, DoublingClimbs
    <3>13. BestAt(f, i, m) = seeds[m]
      BY <3>2, <3>6 DEF BestAt
    <3> QED BY <3>1, <3>3, <3>7, <3>12, <3>13
  <2> QED BY <2>1, <2>2
<1>6. IsLadder(f, k)
  BY <1>5 DEF IsLadder
<1> QED BY <1>3, <1>6 DEF Ladder

(* A decided table of W, with respect to seed s: he is the best one below  *)
(* it, or none of the best, and away he is none of the best.               *)
RowClimbs(f, left, m, s, isHome, isAway, isWinner) ==
    /\ isHome \/ isWinner => (s <= 2^left => s = BestAt(f, left, m))
    /\ isAway => s > 2^left

Climbs(ids, f, k, R, r, m) ==
    LET row == R[<<"W", r, m>>] IN
    \A s \in 1..Len(ids) :
        RowClimbs(f, k - r, m, s, ids[s] = row.home, ids[s] = row.away, ids[s] = row.winner)

BestFirst(ids, k, R) ==
    \A r \in 1..k : \A m \in TablesIn(k, r) :
        <<"W", r, m>> \in DOMAIN R => Climbs(ids, Ladder(k), k, R, r, m)

(* The tables of the first round as the seeds give them. *)
SeatsBySeed(ids, tables, f, k) ==
    \A m \in 1..2^(k - 1) : \A s \in 1..Len(ids) :
        /\ ids[s] = tables[m][1] => s = f[k][2 * m - 1]
        /\ ids[s] = tables[m][2] => s = f[k][2 * m]

LEMMA PlacedBySeed ==
    ASSUME NEW ids, IsEntry(ids), NEW k \in Nat, k >= 1, NEW f, f[k] = SeedPositions(k)
    PROVE  SeatsBySeed(ids, Placed(ids, k), f, k)
<1>1. PICK len \in Nat : len = Len(ids)
  BY DEF IsEntry, IsField
<1>2. /\ \A s \in 1..len : ids[s] # NoOne
      /\ \A s, u \in 1..len : ids[s] = ids[u] => s = u
  <2>1. ids \in Seq(Range(ids)) /\ IsInjective(ids) /\ NoOne \notin Range(ids)
    BY DEF IsEntry, IsField
  <2>2. DOMAIN ids = 1..len
    BY <1>1, <2>1
  <2> QED BY <2>1, <2>2 DEF Range, IsInjective
<1>3. PICK h, n : h = 2^(k - 1) /\ n = 2^k
  OBVIOUS
<1>4. h \in Nat /\ n = 2 * h
  <2>1. PICK j : j = k - 1
    OBVIOUS
  <2>2. j \in Nat /\ k = j + 1
    BY <2>1
  <2>3. 2^j \in Nat /\ 2^(j + 1) = 2 * 2^j
    BY <2>2, PowerIs, PowerDoubles
  <2> QED BY <1>3, <2>1, <2>2, <2>3
<1>5. PICK g : g = SeedPositions(k)
  OBVIOUS
<1>6. \A j \in 1..n : g[j] \in 1..n
  BY <1>3, <1>5, SeedsTakeAll DEF TakesAll
<1>7. PICK tables : tables = Placed(ids, k)
  OBVIOUS
<1>8. tables = [m \in 1..h |-> <<IF g[2 * m - 1] <= len THEN ids[g[2 * m - 1]] ELSE NoOne,
                                 IF g[2 * m] <= len THEN ids[g[2 * m]] ELSE NoOne>>]
  BY <1>1, <1>3, <1>5, <1>7 DEF Placed
<1>9. ASSUME NEW j \in 1..n, NEW s \in 1..len, ids[s] = (IF g[j] <= len THEN ids[g[j]] ELSE NoOne)
      PROVE  s = g[j]
  BY <1>2, <1>6, <1>9
<1>10. ASSUME NEW m \in 1..h, NEW s \in 1..len
       PROVE  /\ ids[s] = tables[m][1] => s = g[2 * m - 1]
              /\ ids[s] = tables[m][2] => s = g[2 * m]
  <2>1. 2 * m - 1 \in 1..n /\ 2 * m \in 1..n
    BY <1>4
  <2>2. /\ tables[m][1] = IF g[2 * m - 1] <= len THEN ids[g[2 * m - 1]] ELSE NoOne
        /\ tables[m][2] = IF g[2 * m] <= len THEN ids[g[2 * m]] ELSE NoOne
    BY <1>8
  <2> QED BY <1>9, <2>1, <2>2
<1> QED BY <1>1, <1>3, <1>5, <1>7, <1>10 DEF SeatsBySeed

(* With different owners nothing is exchanged. *)
LEMMA NobodySwaps ==
    ASSUME NEW owner, NEW D, Indices(D), NEW S, NEW base \in [D -> S \X S],
           \A i \in D : ~Conflict(owner, base, i)
    PROVE  Swapped(owner, base, D) = base
<1>1. PICK h : h = CHOOSE g : IsFold(owner, base, D, D, g)
  OBVIOUS
<1>2. IsFold(owner, base, D, D, h)
  BY <1>1, FoldExists
<1>3. DOMAIN Plain(D) = D
  BY DEF Plain
<1>4. Swapped(owner, base, D) = h[D]
  BY <1>1, <1>3 DEF Swapped, IsSwapping, IsFold
<1> DEFINE W == {s \in SUBSET D : h[s] # base}
<1>5. W = {}
  <2> SUFFICES ASSUME W # {} PROVE FALSE
    OBVIOUS
  <2>1. PICK U \in W : Minimal(U, W)
    <3>1. W \subseteq SUBSET D /\ IsFiniteSet(D)
      BY DEF Indices
    <3> HIDE DEF W
    <3> QED BY <3>1, Smallest
  <2>2. h[U] = SwapBody(owner, base, D, h, U)
    BY <1>2 DEF IsFold
  <2>3. CASE U = {}
    BY <2>1, <2>2, <2>3 DEF SwapBody
  <2>4. CASE U # {}
    <3>1. Max(U) \in U
      BY <2>4, LastIn
    <3>2. PICK v : v = h[U \ {Max(U)}]
      OBVIOUS
    <3>3. v = base
      <4>1. U \ {Max(U)} \in SUBSET D /\ U \ {Max(U)} \notin W
        BY <2>1, <3>1 DEF Minimal
      <4> QED BY <3>2, <4>1
    <3>4. Max(U) \in D /\ Plain(D)[Max(U)] = Max(U)
      BY <3>1 DEF Plain
    <3>5. h[U] = AvoidAt(owner, v, Max(U))
      BY <2>2, <2>4, <3>2, <3>4 DEF SwapBody
    <3>6. PICK n \in D : n = Max(U)
      BY <3>4
    <3>7. PICK after : after = AvoidAt(owner, base, n)
      OBVIOUS
    <3>8. after = base
      <4>1. \/ after = base /\ Stuck(owner, base, D, n)
            \/ \E j \in D \ {n} : Exchanged(owner, D, base, after, n, j)
        BY <3>7, ExchangeIs
      <4> QED BY <4>1 DEF Exchanged
    <3>9. h[U] = after
      BY <3>3, <3>5, <3>6, <3>7
    <3> QED BY <2>1, <3>8, <3>9
  <2> QED BY <2>3, <2>4
<1>6. D \in SUBSET D
  OBVIOUS
<1>7. h[D] = base
  BY <1>5, <1>6
<1> QED BY <1>4, <1>7

OwnersDiffer(ids, owner) ==
    \A x, y \in Range(ids) : SameOwner(owner, x, y) => x = y

LEMMA FirstRoundBySeed ==
    ASSUME NEW ids, IsEntry(ids), NEW owner, OwnersDiffer(ids, owner), NEW k, k = Log2Up(Len(ids)),
           NEW f, f[k] = SeedPositions(k)
    PROVE  SeatsBySeed(ids, FirstRound(ids, owner, k), f, k)
<1>1. k \in Nat /\ k >= 1 /\ IsSettled(Placed(ids, k), 1..2^(k - 1), Range(ids))
  BY PlacedSettled
<1>2. IsField(ids) /\ NoOne \notin Range(ids)
  BY DEF IsEntry
<1>3. PICK D, base, X : D = 1..2^(k - 1) /\ base = Placed(ids, k) /\ X = Range(ids)
  OBVIOUS
<1>4. PICK S : S = {NoOne} \cup X
  OBVIOUS
<1>5. base \in [D -> S \X S] /\ Indices(D)
  BY SMTT(60), ZenonT(60), <1>1, <1>2, <1>3, <1>4, PlacedType
<1>6. ASSUME NEW i \in D, Conflict(owner, base, i) PROVE FALSE
  <2>1. PICK a, b : a = base[i][1] /\ b = base[i][2]
    OBVIOUS
  <2>2. SameOwner(owner, a, b) /\ a # NoOne /\ b # NoOne
    BY <1>6, <2>1 DEF Conflict, SameOwner
  <2>3. a \in S /\ b \in S
    BY <1>5, <2>1
  <2>4. a \in X /\ b \in X
    BY <1>4, <2>2, <2>3
  <2>5. a = b
    BY <1>3, <2>2, <2>4 DEF OwnersDiffer
  <2>6. AtHome(base, D, a) \/ AsVisitor(base, D, a)
    BY <1>1, <1>3, <2>4 DEF IsSettled
  <2>7. \A m \in D : ~(base[m][1] = a /\ base[m][2] = a)
    BY <2>6 DEF AtHome, AsVisitor
  <2> QED BY <2>1, <2>5, <2>7
<1>7. Swapped(owner, base, D) = base
  BY <1>5, <1>6, NobodySwaps
<1>8. DOMAIN base = D
  BY <1>5
<1>9. FirstRound(ids, owner, k) = base
  BY <1>3, <1>7, <1>8, FirstRoundIs
<1>10. SeatsBySeed(ids, Placed(ids, k), f, k)
  BY <1>1, PlacedBySeed
<1> QED BY <1>3, <1>9, <1>10

(* The tables of W are those of the bracket, and nothing else is. *)
WTables(A, tables, k) ==
    \A p \in A : p.slot[1] = "W" => \E r \in 1..k : \E m \in TablesIn(k, r) : IsWTable(p, tables, r, m)

LEMMA SingleWTables ==
    ASSUME NEW k \in Nat, k >= 1, NEW X, NoOne \notin X, NEW tables, IsSeating(tables, k, X),
           NEW A, A = SingleOf(tables, k)
    PROVE  WTables(A, tables, k)
<1>1. HasW(A, tables, k)
  BY SeatingHome, SingleHasW
<1> QED BY <1>1 DEF HasW, WTables

LEMMA DoubleWTables ==
    ASSUME NEW k \in Nat, k >= 1, NEW X, NoOne \notin X, NEW tables, IsSeating(tables, k, X),
           NEW A, A = DoubleOf(tables, k)
    PROVE  WTables(A, tables, k)
<1>0. PICK S : S = X \cup {NoOne}
  OBVIOUS
<1>1. PICK B, L, g, f : IsDouble(A, B, L, g, f, tables, k, S)
  BY <1>0, DoubleParts
<1>2. /\ A = B \cup L \cup {g, f} /\ HasW(B, tables, k) /\ g = GrandFinal(k) /\ f = Reset(k)
      /\ k < 2 => L = {}
      /\ k >= 2 => HasL(L, k)
  BY <1>1 DEF IsDouble
<1>3. g.slot[1] = "GF" /\ f.slot[1] = "GF"
  BY <1>2, GrandFinalInPlace, ResetInPlace DEF IsGrandFinal, IsReset, GrandSlot, ResetSlot
<1>4. \A p \in L : p.slot[1] = "L"
  <2>1. TAKE p \in L
  <2>2. k >= 2 /\ HasL(L, k)
    BY <1>2
  <2>3. PICK a \in 1..(2 * (k - 1)) : \E m \in TablesIn(k - 1, (a + 1) \div 2) : IsLTable(p, a, m)
    BY <2>2 DEF HasL
  <2>4. PICK m \in TablesIn(k - 1, (a + 1) \div 2) : IsLTable(p, a, m)
    BY <2>3
  <2> QED BY <2>4 DEF IsLTable
<1>5. \A p \in A : p.slot[1] = "W" => p \in B
  BY <1>2, <1>3, <1>4
<1> QED BY <1>2, <1>5 DEF HasW, WTables

(* A drawn knockout, by what it says of the seeds. *)
DrawnBySeed(A, ids, k) ==
    \E tables : WTables(A, tables, k) /\ SeatsBySeed(ids, tables, Ladder(k), k)

SeatedWell(ids, f, left, m, home, away) ==
    \A s \in 1..Len(ids) :
        /\ ids[s] = home => (s <= 2^left => s = BestAt(f, left, m))
        /\ ids[s] = away => s > 2^left

(* Table m of round r seats at home the best seed below it, or none of the *)
(* best, and away none of the best.                                        *)
LEMMA SidesClimb ==
    ASSUME NEW k \in Nat, k >= 1, NEW ids, NEW f, IsLadder(f, k), NEW tables, SeatsBySeed(ids, tables, f, k),
           NEW r \in 1..k, NEW m \in TablesIn(k, r), NEW p, IsWTable(p, tables, r, m), NEW R,
           r # 1 => Climbs(ids, f, k, R, r - 1, 2 * m - 1) /\ Climbs(ids, f, k, R, r - 1, 2 * m),
           NEW home, home = SeatedBy(R, p.home, p.homeSource),
           NEW away, away = SeatedBy(R, p.away, p.awaySource), Len(ids) \in Nat
    PROVE  SeatedWell(ids, f, k - r, m, home, away)
<1> SUFFICES ASSUME NEW s \in 1..Len(ids)
             PROVE  /\ ids[s] = home => (s <= 2^(k - r) => s = BestAt(f, k - r, m))
                    /\ ids[s] = away => s > 2^(k - r)
  BY DEF SeatedWell
<1>1. PICK left \in Nat : left = k - r
  OBVIOUS
<1>2. PICK h : h = 2^left
  OBVIOUS
<1>3. h \in Nat /\ m \in 1..h /\ 2^(left + 1) = 2 * h
  BY <1>1, <1>2, PowerIs, PowerDoubles DEF TablesIn
<1>4. left + 1 \in 1..k /\ (left + 1) - 1 = left
  BY <1>1
<1>5. m \in 1..2^((left + 1) - 1)
  BY <1>2, <1>3, <1>4
<1>6. PICK g : g = f[left + 1]
  OBVIOUS
<1>7. g[2 * m - 1] = BestAt(f, left, m) /\ g[2 * m] > h
  BY SMTT(60), ZenonT(60), <1>2, <1>4, <1>5, <1>6 DEF IsLadder
<1>8. CASE r = 1
  <2>1. left + 1 = k /\ left = k - 1
    BY <1>1, <1>8
  <2>2. p.homeSource = NoSource /\ p.awaySource = NoSource /\ p.home = tables[m][1] /\ p.away = tables[m][2]
    BY <1>8 DEF IsWTable, IsKnown
  <2>3. home = tables[m][1] /\ away = tables[m][2]
    BY <2>2 DEF SeatedBy
  <2>4. m \in 1..2^(k - 1)
    BY <1>2, <1>3, <2>1
  <2>5. /\ ids[s] = home => s = g[2 * m - 1]
        /\ ids[s] = away => s = g[2 * m]
    BY SMTT(60), ZenonT(60), <1>6, <2>1, <2>3, <2>4 DEF SeatsBySeed
  <2> QED BY <1>1, <1>2, <1>7, <2>5
<1>9. CASE r # 1
  <2>1. PICK a, b : a = <<"W", r - 1, 2 * m - 1>> /\ b = <<"W", r - 1, 2 * m>>
    OBVIOUS
  <2>2. IsOpen(p) /\ p.homeSource = WinnerOf(a) /\ p.awaySource = WinnerOf(b)
    BY <1>9, <2>1 DEF IsWTable
  <2>3. p.homeSource # NoSource /\ p.awaySource # NoSource
    BY <2>2 DEF IsOpen
  <2>4. /\ p.homeSource.take = "winner" /\ p.homeSource.slot = a
        /\ p.awaySource.take = "winner" /\ p.awaySource.slot = b
    BY <2>2 DEF WinnerOf
  <2>5. home = R[a].winner /\ away = R[b].winner
    BY <2>3, <2>4 DEF SeatedBy
  <2>6. left + 1 # 0 /\ k - (r - 1) = left + 1
    BY <1>1, <1>9
  <2>7. BestAt(f, left + 1, 2 * m - 1) = g[2 * m - 1] /\ BestAt(f, left + 1, 2 * m) = g[2 * m]
    BY <1>6, <2>6 DEF BestAt
  <2>8. ids[s] = home => (s <= 2^(left + 1) => s = g[2 * m - 1])
    <3>1. RowClimbs(f, left + 1, 2 * m - 1, s, ids[s] = R[a].home, ids[s] = R[a].away, ids[s] = R[a].winner)
      BY <1>9, <2>1, <2>6 DEF Climbs
    <3> QED BY <2>5, <2>7, <3>1 DEF RowClimbs
  <2>9. ids[s] = away => (s <= 2^(left + 1) => s = g[2 * m])
    <3>1. RowClimbs(f, left + 1, 2 * m, s, ids[s] = R[b].home, ids[s] = R[b].away, ids[s] = R[b].winner)
      BY <1>9, <2>1, <2>6 DEF Climbs
    <3> QED BY <2>5, <2>7, <3>1 DEF RowClimbs
  <2>10. (s <= h => s <= 2^(left + 1)) /\ (~(s <= 2^(left + 1)) => s > h)
    BY <1>3
  <2>11. ids[s] = home => (s <= h => s = BestAt(f, left, m))
    BY <1>7, <2>8, <2>10
  <2>12. ids[s] = away => s > h
    BY <1>7, <2>9, <2>10
  <2> QED BY <1>1, <1>2, <2>11, <2>12
<1> QED BY <1>8, <1>9

LEMMA RowStillClimbs ==
    ASSUME NEW left, NEW f, NEW m, NEW s, NEW isHome, NEW isAway, NEW isWinner,
           isHome => (s <= 2^left => s = BestAt(f, left, m)),
           isAway => s > 2^left, isWinner => isHome \/ isAway, left \in Nat, s \in Nat
    PROVE  RowClimbs(f, left, m, s, isHome, isAway, isWinner)
<1>1. PICK h : h = 2^left
  OBVIOUS
<1>2. h \in Nat
  BY <1>1, PowerIs
<1>3. isWinner => (s <= h => s = BestAt(f, left, m))
  BY <1>1, <1>2
<1> QED BY <1>1, <1>3 DEF RowClimbs

LEMMA BestFirstStill ==
    ASSUME NEW k \in Nat, k >= 1, NEW ids, Len(ids) \in Nat, NEW A, DrawnBySeed(A, ids, k),
           NEW R, BestFirst(ids, k, R), NEW p, NEW home, NEW away, NEW w, NEW R2,
           IsPlayed(A, R, p, home, away, w, R2)
    PROVE  BestFirst(ids, k, R2)
<1>1. PICK f : f = Ladder(k)
  OBVIOUS
<1>2. PICK tables : WTables(A, tables, k) /\ SeatsBySeed(ids, tables, f, k)
  BY <1>1 DEF DrawnBySeed
<1>3. IsLadder(f, k)
  BY <1>1, LadderIs
<1>4. /\ p \in A
      /\ p.homeSource # NoSource => p.homeSource.slot \in DOMAIN R
      /\ p.awaySource # NoSource => p.awaySource.slot \in DOMAIN R
      /\ home = SeatedBy(R, p.home, p.homeSource) /\ away = SeatedBy(R, p.away, p.awaySource)
      /\ IsVerdict(R, p, home, away, w) /\ Grows(R, R2, p.slot, home, away, w)
  BY DEF IsPlayed
<1>5. ASSUME NEW r \in 1..k, NEW m \in TablesIn(k, r), <<"W", r, m>> \in DOMAIN R2
      PROVE  Climbs(ids, f, k, R2, r, m)
  <2>1. PICK slot : slot = <<"W", r, m>>
    OBVIOUS
  <2>2. CASE slot # p.slot
    <3>1. slot \in DOMAIN R /\ R2[slot] = R[slot]
      BY <1>4, <1>5, <2>1, <2>2 DEF Grows
    <3>2. Climbs(ids, f, k, R, r, m)
      BY <1>1, <2>1, <3>1 DEF BestFirst
    <3> QED BY SMTT(60), ZenonT(60), <2>1, <3>1, <3>2 DEF Climbs
  <2>3. CASE slot = p.slot
    <3>1. p.slot[1] = "W"
      BY <2>1, <2>3
    <3>2. PICK r2 \in 1..k : \E m2 \in TablesIn(k, r2) : IsWTable(p, tables, r2, m2)
      BY <1>2, <1>4, <3>1 DEF WTables
    <3>3. PICK m2 \in TablesIn(k, r2) : IsWTable(p, tables, r2, m2)
      BY <3>2
    <3>4. r2 = r /\ m2 = m
      BY <2>1, <2>3, <3>3 DEF IsWTable
    <3>5. IsWTable(p, tables, r, m)
      BY <3>3, <3>4
    <3>6. r # 1 => Climbs(ids, f, k, R, r - 1, 2 * m - 1) /\ Climbs(ids, f, k, R, r - 1, 2 * m)
      <4> SUFFICES ASSUME r # 1 PROVE Climbs(ids, f, k, R, r - 1, 2 * m - 1) /\ Climbs(ids, f, k, R, r - 1, 2 * m)
        OBVIOUS
      <4>1. PICK q \in 1..k : q = r - 1
        OBVIOUS
      <4>2. PICK a, b : a = <<"W", q, 2 * m - 1>> /\ b = <<"W", q, 2 * m>>
        OBVIOUS
      <4>3. p.homeSource = WinnerOf(a) /\ p.awaySource = WinnerOf(b) /\ IsOpen(p)
        BY <3>5, <4>1, <4>2 DEF IsWTable
      <4>4. a \in DOMAIN R /\ b \in DOMAIN R
        BY <1>4, <4>3 DEF IsOpen, WinnerOf
      <4>5. PICK left \in Nat : left = k - r
        OBVIOUS
      <4>6. k - q = left + 1 /\ 2^(left + 1) = 2 * 2^left /\ 2^left \in Nat
        BY <4>1, <4>5, PowerIs, PowerDoubles
      <4>7. m \in 1..2^left
        BY <4>5 DEF TablesIn
      <4>8. 2 * m - 1 \in TablesIn(k, q) /\ 2 * m \in TablesIn(k, q)
        BY <4>6, <4>7 DEF TablesIn
      <4> QED BY <1>1, <4>1, <4>2, <4>4, <4>8 DEF BestFirst
    <3>7. PICK row : row = R2[slot]
      OBVIOUS
    <3>8. row.home = home /\ row.away = away /\ row.winner = w /\ (w = home \/ w = away)
      BY <1>4, <2>3, <3>7 DEF Grows, IsVerdict
    <3>9. ASSUME NEW s \in 1..Len(ids)
          PROVE  RowClimbs(f, k - r, m, s, ids[s] = row.home, ids[s] = row.away, ids[s] = row.winner)
      <4>1. /\ ids[s] = home => (s <= 2^(k - r) => s = BestAt(f, k - r, m))
            /\ ids[s] = away => s > 2^(k - r)
        <5>1. SeatedWell(ids, f, k - r, m, home, away)
          BY <1>2, <1>3, <1>4, <3>5, <3>6, SidesClimb
        <5> QED BY <5>1 DEF SeatedWell
      <4>2. k - r \in Nat /\ s \in Nat
        OBVIOUS
      <4> QED BY <3>8, <4>1, <4>2, RowStillClimbs
    <3>10. R2[<<"W", r, m>>] = row
      BY <2>1, <3>7
    <3> QED BY <3>9, <3>10, Zenon DEF Climbs
  <2> QED BY <2>2, <2>3
<1> QED BY <1>1, <1>5 DEF BestFirst

(* The knockout of row t is being played, and its seeds are kept apart. *)
SeedsPlay(t, A, R) ==
    /\ PlaysKnockout(t, A, R)
    /\ IsKnockoutFormat(t.format) /\ OwnersDiffer(t.entries, t.owner)
          => BestFirst(t.entries, Log2Up(Len(t.entries)), R)

(* SeedsApart of a calendar. *)
SeedApart(ids, k, row, r) ==
    NoOne \notin {row.home, row.away} =>
        \E x \in {row.home, row.away} : (CHOOSE i \in DOMAIN ids : ids[i] = x) > 2^(k - r)

LEMMA KnockoutBySeed ==
    ASSUME NEW t, IsEntry(t.entries), IsKnockoutFormat(t.format), OwnersDiffer(t.entries, t.owner),
           NEW A, A = ScheduleOf(t)
    PROVE  DrawnBySeed(A, t.entries, Log2Up(Len(t.entries)))
<1>1. IsEntry(t.entries)
  OBVIOUS
<1>2. PICK ids, k, X : ids = t.entries /\ k = Log2Up(Len(ids)) /\ X = Range(ids)
  OBVIOUS
<1>3. PICK owner : owner = t.owner
  OBVIOUS
<1>4. PICK tables : tables = FirstRound(ids, owner, k)
  OBVIOUS
<1>5. IsEntry(ids) /\ OwnersDiffer(ids, owner)
  BY <1>1, <1>2, <1>3
<1>6. /\ k \in Nat /\ k >= 1 /\ NoOne \notin X /\ IsSeating(tables, k, X)
  BY <1>2, <1>4, <1>5, FirstRoundSeats
<1>7. Ladder(k)[k] = SeedPositions(k)
  BY <1>6, LadderIs
<1>8. SeatsBySeed(ids, tables, Ladder(k), k)
  BY <1>2, <1>4, <1>5, <1>7, FirstRoundBySeed
<1>9. SingleElimination(ids, owner) = SingleOf(tables, k)
  BY <1>2, <1>4, SingleIs
<1>10. WTables(A, tables, k)
  <2>1. CASE t.format = "single_elimination"
    <3>1. A = SingleOf(tables, k)
      BY <1>2, <1>3, <1>9, <2>1 DEF ScheduleOf, InitialSchedule
    <3> QED BY <1>6, <3>1, SingleWTables
  <2>2. CASE t.format = "double_elimination"
    <3>1. A = DoubleElimination(ids, owner)
      BY <1>2, <1>3, <2>2 DEF ScheduleOf, InitialSchedule
    <3>2. A = NotFinal(SingleElimination(ids, owner)) \cup (IF k < 2 THEN {} ELSE LosersBracket(k))
                 \cup {GrandFinal(k), Reset(k)}
      BY <1>2, <3>1, DoubleIs
    <3>3. A = DoubleOf(tables, k)
      BY <1>9, <3>2 DEF DoubleOf
    <3> QED BY <1>6, <3>3, DoubleWTables
  <2> QED BY <2>1, <2>2 DEF IsKnockoutFormat
<1> QED BY <1>2, <1>8, <1>10 DEF DrawnBySeed

LEMMA EntryLog ==
    ASSUME NEW t, IsEntry(t.entries)
    PROVE  Len(t.entries) \in Nat /\ Log2Up(Len(t.entries)) \in Nat /\ Log2Up(Len(t.entries)) >= 1
<1>1. IsEntry(t.entries)
  OBVIOUS
<1>2. PICK n \in Nat : n = Len(t.entries) /\ n >= 2
  BY <1>1 DEF IsEntry, IsField
<1>3. Log2Up(n) \in 1..n
  BY <1>2, Log2UpIs
<1> QED BY <1>2, <1>3

LEMMA SeedsStart ==
    ASSUME NEW t, IsEntry(t.entries), NEW A, A = ScheduleOf(t), NEW R, DOMAIN R = {}
    PROVE  SeedsPlay(t, A, R)
<1>1. PlaysKnockout(t, A, R)
  BY KnockoutStarts
<1> QED BY <1>1 DEF SeedsPlay, BestFirst

LEMMA SeedsGoOn ==
    ASSUME NEW t, IsEntry(t.entries), NEW A, A = ScheduleOf(t), NEW R, NEW R2, SeedsPlay(t, A, R),
           IsKnockoutFormat(t.format) => \E p, home, away, w : IsPlayed(A, R, p, home, away, w, R2)
    PROVE  SeedsPlay(t, A, R2)
<1>1. PlaysKnockout(t, A, R2)
  <2>1. PlaysKnockout(t, A, R)
    BY DEF SeedsPlay
  <2> QED BY <2>1, KnockoutGoesOn
<1> SUFFICES ASSUME IsKnockoutFormat(t.format), OwnersDiffer(t.entries, t.owner)
             PROVE  BestFirst(t.entries, Log2Up(Len(t.entries)), R2)
  BY <1>1 DEF SeedsPlay
<1>2. PICK ids, X, k : ids = t.entries /\ X = Range(ids) /\ k = Log2Up(Len(ids))
  OBVIOUS
<1>3. k \in Nat /\ k >= 1 /\ Len(ids) \in Nat
  BY <1>2, EntryLog
<1>4. IsKnockout(A, X, k)
  <2>1. StartsWell(A, X, k, LivesIn(t.format))
    BY <1>2, DrawStartsWell
  <2> QED BY <2>1 DEF StartsWell
<1>5. PICK p, home, away, w : IsPlayed(A, R, p, home, away, w, R2)
  OBVIOUS
<1>6. DrawnBySeed(A, ids, k)
  BY <1>2, KnockoutBySeed
<1>7. BestFirst(ids, k, R)
  BY <1>2 DEF SeedsPlay
<1>8. BestFirst(ids, k, R2)
  BY <1>3, <1>5, <1>6, <1>7, BestFirstStill
<1> QED BY <1>2, <1>8

LEMMA SeedsEnd ==
    ASSUME NEW t, IsEntry(t.entries), IsKnockoutFormat(t.format), OwnersDiffer(t.entries, t.owner),
           NEW A, A = ScheduleOf(t), NEW R, SeedsPlay(t, A, R),
           NEW slot \in DOMAIN R, slot[1] = "W"
    PROVE  SeedApart(t.entries, Log2Up(Len(t.entries)), R[slot], slot[2])
<1>1. PICK ids, X, k : ids = t.entries /\ X = Range(ids) /\ k = Log2Up(Len(ids))
  OBVIOUS
<1>2. k \in Nat /\ k >= 1 /\ Len(ids) \in Nat
  BY <1>1, EntryLog
<1>3. InPlay(A, X, R, k) /\ BestFirst(ids, k, R)
  BY <1>1 DEF SeedsPlay, PlaysKnockout
<1>4. PICK p \in A : p.slot = slot
  BY <1>3 DEF InPlay
<1>5. PICK tables : WTables(A, tables, k)
  <2>1. DrawnBySeed(A, ids, k)
    BY <1>1, KnockoutBySeed
  <2> QED BY <2>1 DEF DrawnBySeed
<1>6. PICK r \in 1..k : \E m \in TablesIn(k, r) : IsWTable(p, tables, r, m)
  BY <1>4, <1>5 DEF WTables
<1>7. PICK m \in TablesIn(k, r) : IsWTable(p, tables, r, m)
  BY <1>6
<1>8. slot = <<"W", r, m>>
  BY <1>4, <1>7 DEF IsWTable
<1>9. PICK row : row = R[slot]
  OBVIOUS
<1>10. R[<<"W", r, m>>] = row /\ <<"W", r, m>> \in DOMAIN R
  BY <1>8, <1>9
<1>11. Climbs(ids, Ladder(k), k, R, r, m)
  BY <1>3, <1>10 DEF BestFirst
<1>12. \A s \in 1..Len(ids) :
          RowClimbs(Ladder(k), k - r, m, s, ids[s] = row.home, ids[s] = row.away, ids[s] = row.winner)
  BY <1>10, <1>11, Zenon DEF Climbs
<1>13. row.away \in X \cup {NoOne}
  BY <1>3, <1>9 DEF InPlay, Sound, SoundMatch
<1>14. ASSUME NoOne \notin {row.home, row.away}
       PROVE  (CHOOSE i \in DOMAIN ids : ids[i] = row.away) > 2^(k - r)
  <2>1. row.away \in X
    BY <1>13, <1>14
  <2>2. DOMAIN ids = 1..Len(ids)
    <3>1. ids \in Seq(Range(ids))
      BY <1>1 DEF IsEntry, IsField
    <3> QED BY <3>1
  <2>3. \E i \in DOMAIN ids : ids[i] = row.away
    BY <1>1, <2>1 DEF Range
  <2>4. PICK s : s = CHOOSE i \in DOMAIN ids : ids[i] = row.away
    OBVIOUS
  <2>5. s \in 1..Len(ids) /\ ids[s] = row.away
    BY <2>2, <2>3, <2>4
  <2>6. s > 2^(k - r)
    BY <1>12, <2>5 DEF RowClimbs
  <2> QED BY <2>4, <2>6
<1>15. slot[2] = r
  BY <1>8
<1>16. SeedApart(ids, k, row, r)
  BY <1>14 DEF SeedApart
<1> QED BY <1>1, <1>9, <1>15, <1>16

-----------------------------------------------------------------------------
(* Knockouts: nobody plays himself *)

SidesDiffer(R) == \A m \in DOMAIN R : R[m].home = R[m].away => R[m].home = NoOne

SidesPlay(t, A, R) ==
    /\ PlaysKnockout(t, A, R)
    /\ IsKnockoutFormat(t.format) => SidesDiffer(R)

LEMMA SidesDifferStill ==
    ASSUME NEW A, NEW X, NEW k, IsKnockout(A, X, k), NEW R, InPlay(A, X, R, k), SidesDiffer(R),
           NEW p, NEW home, NEW away, NEW w, NEW R2, IsPlayed(A, R, p, home, away, w, R2), InPlay(A, X, R2, k)
    PROVE  SidesDiffer(R2)
<1>1. PICK s : s = p.slot
  OBVIOUS
<1>2. /\ DOMAIN R2 = DOMAIN R \cup {s} /\ R2[s].home = home /\ R2[s].away = away
      /\ \A m \in DOMAIN R : m # s => R2[m] = R[m]
  BY <1>1 DEF IsPlayed, Grows
<1>3. home \in X \cup {NoOne}
  <2>1. SoundMatch(X, R2, s)
    BY <1>2 DEF InPlay, Sound
  <2> QED BY <1>2, <2>1 DEF SoundMatch
<1>4. ASSUME home = away, home \in X PROVE FALSE
  <2>1. OnePlace(A, R, home)
    BY <1>4 DEF InPlay
  <2>2. PICK d : IsAt(A, R, d, home)
    BY <2>1 DEF OnePlace
  <2> QED BY <1>4, <2>1, <2>2, SidesAre
<1>5. ASSUME NEW m \in DOMAIN R2, R2[m].home = R2[m].away PROVE R2[m].home = NoOne
  <2>1. CASE m = s
    BY <1>2, <1>3, <1>4, <1>5, <2>1
  <2>2. CASE m # s
    <3>1. m \in DOMAIN R /\ R2[m] = R[m]
      BY <1>2, <2>2
    <3> QED BY <1>5, <3>1 DEF SidesDiffer
  <2> QED BY <2>1, <2>2
<1> QED BY <1>5 DEF SidesDiffer

LEMMA SidesGoOn ==
    ASSUME NEW t, IsEntry(t.entries), NEW A, A = ScheduleOf(t), NEW R, NEW R2, SidesPlay(t, A, R),
           IsKnockoutFormat(t.format) => \E p, home, away, w : IsPlayed(A, R, p, home, away, w, R2)
    PROVE  SidesPlay(t, A, R2)
<1>1. PlaysKnockout(t, A, R)
  BY DEF SidesPlay
<1>2. PlaysKnockout(t, A, R2)
  BY <1>1, KnockoutGoesOn
<1> SUFFICES ASSUME IsKnockoutFormat(t.format) PROVE SidesDiffer(R2)
  BY <1>2 DEF SidesPlay
<1>3. PICK X, k : X = Range(t.entries) /\ k = Log2Up(Len(t.entries))
  OBVIOUS
<1>4. IsKnockout(A, X, k)
  <2>1. StartsWell(A, X, k, LivesIn(t.format))
    BY <1>3, DrawStartsWell
  <2> QED BY <2>1 DEF StartsWell
<1>5. PICK p, home, away, w : IsPlayed(A, R, p, home, away, w, R2)
  OBVIOUS
<1>6. InPlay(A, X, R, k) /\ InPlay(A, X, R2, k) /\ SidesDiffer(R)
  BY <1>1, <1>2, <1>3 DEF PlaysKnockout, SidesPlay
<1> QED BY <1>4, <1>5, <1>6, SidesDifferStill

-----------------------------------------------------------------------------
(* Finite sums, such as the points of a table *)

Sum(f, S) == MapThenSumSet(LAMBDA x : f[x], S)

One(s) == CHOOSE x \in s : TRUE

Body(f, h, s) == IF s = {} THEN 0 ELSE f[One(s)] + h[s \ {One(s)}]

IsSum(f, S, h) == h = [s \in SUBSET S |-> Body(f, h, s)]

SumValue(f, S) == (CHOOSE h : IsSum(f, S, h))[S]

LEMMA OneIn == ASSUME NEW S, S # {} PROVE One(S) \in S
  BY DEF One

LEMMA SumIsValue ==
    ASSUME NEW f, NEW S
    PROVE  Sum(f, S) = SumValue(f, S)
  BY DEF Sum, MapThenSumSet, MapThenFoldSet, SumValue, IsSum, Body, One

LEMMA Unique ==
    ASSUME NEW f, NEW S, IsFiniteSet(S), NEW g, NEW h, IsSum(f, S, g), IsSum(f, S, h)
    PROVE  \A s \in SUBSET S : g[s] = h[s]
<1> SUFFICES ASSUME NEW s0 \in SUBSET S, g[s0] # h[s0] PROVE FALSE
  OBVIOUS
<1> DEFINE C == {s \in SUBSET S : g[s] # h[s]}
<1>1. PICK T \in C : Minimal(T, C)
  <2>1. C \subseteq SUBSET S /\ C # {}
    OBVIOUS
  <2> HIDE DEF C
  <2> QED BY <2>1, Smallest
<1>2. g[T] = Body(f, g, T) /\ h[T] = Body(f, h, T)
  BY DEF IsSum
<1>3. CASE T = {}
  BY <1>2, <1>3 DEF Body
<1>4. CASE T # {}
  <2>1. One(T) \in T
    BY <1>4, OneIn
  <2>2. g[T \ {One(T)}] = h[T \ {One(T)}]
    BY <1>1, <2>1 DEF Minimal
  <2> QED BY <1>2, <1>4, <2>2 DEF Body
<1> QED BY <1>3, <1>4

LEMMA Restricted ==
    ASSUME NEW f, NEW S, IsFiniteSet(S), NEW g, IsSum(f, S, g), NEW T \in SUBSET S
    PROVE  g[T] = SumValue(f, T)
<1> DEFINE r == [s \in SUBSET T |-> g[s]]
<1>1. IsSum(f, T, r)
  <2>1. ASSUME NEW s \in SUBSET T PROVE r[s] = Body(f, r, s)
    <3>1. g[s] = Body(f, g, s)
      BY DEF IsSum
    <3>2. s # {} => One(s) \in s
      BY OneIn
    <3> QED BY <3>1, <3>2 DEF Body
  <2> QED BY <2>1 DEF IsSum
<1> HIDE DEF r
<1>2. IsSum(f, T, CHOOSE h : IsSum(f, T, h))
  BY <1>1
<1>3. IsFiniteSet(T)
  BY FS_Subset
<1>4. r[T] = SumValue(f, T)
  BY <1>1, <1>2, <1>3, Unique DEF SumValue
<1> QED BY <1>4 DEF r

LEMMA Exists ==
    ASSUME NEW f, NEW S, IsFiniteSet(S)
    PROVE  \E h : IsSum(f, S, h)
<1> DEFINE C == {T \in SUBSET S : ~\E h : IsSum(f, T, h)}
<1> SUFFICES ASSUME C # {} PROVE FALSE
  OBVIOUS
<1>1. PICK T \in C : Minimal(T, C)
  <2>1. C \subseteq SUBSET S
    OBVIOUS
  <2> HIDE DEF C
  <2> QED BY <2>1, Smallest
<1>2. IsFiniteSet(T)
  BY FS_Subset
<1> DEFINE h == [s \in SUBSET T |-> IF s = {} THEN 0 ELSE f[One(s)] + SumValue(f, s \ {One(s)})]
<1>3. ASSUME NEW u \in SUBSET T, u # T
      PROVE  h[u] = SumValue(f, u)
  <2>1. PICK g : IsSum(f, u, g)
    BY <1>1, <1>3 DEF Minimal
  <2>2. IsFiniteSet(u)
    BY <1>2, FS_Subset
  <2>3. \A s \in SUBSET u : g[s] = SumValue(f, s)
    BY SMTT(60), ZenonT(60), <2>1, <2>2, Restricted
  <2>4. g[u] = Body(f, g, u)
    BY <2>1 DEF IsSum
  <2>5. u # {} => g[u \ {One(u)}] = SumValue(f, u \ {One(u)})
    BY <2>3
  <2> QED BY <2>3, <2>4, <2>5 DEF Body
<1>4. ASSUME NEW s \in SUBSET T PROVE h[s] = Body(f, h, s)
  <2>1. CASE s = {}
    BY <2>1 DEF Body
  <2>2. CASE s # {}
    <3>1. One(s) \in s
      BY <2>2, OneIn
    <3>2. h[s \ {One(s)}] = SumValue(f, s \ {One(s)})
      BY <1>3, <3>1
    <3> QED BY <2>2, <3>2 DEF Body
  <2> QED BY <2>1, <2>2
<1>5. IsSum(f, T, h)
  BY <1>4 DEF IsSum
<1> QED BY <1>1, <1>5

(* The recursion of the sum. *)
LEMMA SumSplits ==
    ASSUME NEW f, NEW S, IsFiniteSet(S)
    PROVE  Sum(f, S) = IF S = {} THEN 0 ELSE f[One(S)] + Sum(f, S \ {One(S)})
<1>1. PICK h : IsSum(f, S, h)
  BY Exists
<1>2. h[S] = Body(f, h, S)
  BY <1>1 DEF IsSum
<1>3. \A T \in SUBSET S : h[T] = Sum(f, T)
  BY <1>1, Restricted, SumIsValue
<1>4. h[S] = Sum(f, S) /\ h[S \ {One(S)}] = Sum(f, S \ {One(S)})
  BY <1>3
<1> QED BY <1>2, <1>4 DEF Body

(* A function that is a sum by another body. *)
LEMMA SumIs ==
    ASSUME NEW f, NEW S, IsFiniteSet(S), NEW h, IsSum(f, S, h)
    PROVE  h[S] = Sum(f, S)
  BY Restricted, SumIsValue

LEMMA SumEmpty ==
    ASSUME NEW f
    PROVE  Sum(f, {}) = 0
  BY SumSplits, FS_EmptySet

LEMMA SumInt ==
    ASSUME NEW f, NEW S, IsFiniteSet(S), \A x \in S : f[x] \in Int
    PROVE  Sum(f, S) \in Int
<1> DEFINE C == {T \in SUBSET S : Sum(f, T) \notin Int}
<1> SUFFICES ASSUME C # {} PROVE FALSE
  OBVIOUS
<1>1. PICK T \in C : Minimal(T, C)
  <2>1. C \subseteq SUBSET S
    OBVIOUS
  <2> HIDE DEF C
  <2> QED BY <2>1, Smallest
<1>2. Sum(f, T) = IF T = {} THEN 0 ELSE f[One(T)] + Sum(f, T \ {One(T)})
  BY FS_Subset, SumSplits
<1>3. CASE T = {}
  BY <1>2, <1>3
<1>4. CASE T # {}
  <2>1. One(T) \in T
    BY <1>4, OneIn
  <2>2. Sum(f, T \ {One(T)}) \in Int
    BY <1>1, <2>1 DEF Minimal
  <2>3. f[One(T)] \in Int
    BY <2>1
  <2> QED BY <1>2, <1>4, <2>2, <2>3
<1> QED BY <1>3, <1>4

-----------------------------------------------------------------------------
(* The calendar stands, and every step decides one of its matches *)

(* What is drawn, as the row of a tournament has it. *)
AsEntered(e) == [format |-> e.format, entries |-> e.ids, owner |-> e.owner]

KeepsDraw == entered \in Drawn /\ calendar = Draw(entered)

LEMMA DrawKept == CalendarSpec => []KeepsDraw
<1>1. CalendarInit => KeepsDraw
  BY DEF CalendarInit, KeepsDraw
<1>2. KeepsDraw /\ [CalendarNext]_calendarVars => KeepsDraw'
  <2> SUFFICES ASSUME KeepsDraw, [CalendarNext]_calendarVars PROVE KeepsDraw'
    OBVIOUS
  <2>1. entered' = entered /\ calendar' = calendar
    BY DEF CalendarNext, Decide, calendarVars
  <2> QED BY <2>1 DEF KeepsDraw, Draw
<1> QED BY <1>1, <1>2, PTL DEF CalendarSpec

LEMMA DrawnIsEntry ==
    ASSUME NEW e \in Drawn
    PROVE  IsEntry(e.ids)
  BY CalendarAssumption DEF IsEntry, IsField

LEMMA DrawIs ==
    ASSUME NEW e, e.format # "swiss", NEW t, t = AsEntered(e)
    PROVE  /\ Draw(e) = ScheduleOf(t)
           /\ t.format = e.format /\ t.entries = e.ids /\ t.owner = e.owner
  BY DEF Draw, AsEntered, ScheduleOf

LEMMA SeatedIs ==
    ASSUME NEW x, NEW source, source # NoSource => source.take \in {"winner", "loser"}
    PROVE  Seated(x, source) = SeatedBy(result, x, source)
<1>1. NoSource.take = "none"
  BY DEF NoSource
<1> QED BY <1>1 DEF Seated, SeatedBy, Loser, BeatenIn

LEMMA VerdictIs ==
    ASSUME NEW p, ~IsMain(p), NEW home, NEW away, NEW w \in Verdicts(p, home, away)
    PROVE  IsVerdict(result, p, home, away, w)
<1>1. Formality(p, home) <=> IsFormal(result, p, home)
  BY DEF Formality, IsFormal
<1>2. CASE home = NoOne \/ away = NoOne
  <2>1. Verdicts(p, home, away) = {IF home = NoOne THEN away ELSE home}
    BY <1>2 DEF Verdicts
  <2> QED BY <1>2, <2>1 DEF IsVerdict
<1>3. CASE home # NoOne /\ away # NoOne /\ Formality(p, home)
  <2>1. Verdicts(p, home, away) = {home}
    BY <1>3 DEF Verdicts
  <2> QED BY <1>3, <2>1 DEF IsVerdict
<1>4. CASE home # NoOne /\ away # NoOne /\ ~Formality(p, home)
  <2>1. Verdicts(p, home, away) = {home, away} \cup (IF IsMain(p) THEN {NoOne} ELSE {})
    BY <1>4 DEF Verdicts
  <2>2. w = home \/ w = away
    BY <2>1
  <2> QED BY <1>1, <1>4, <2>2 DEF IsVerdict
<1> QED BY <1>2, <1>3, <1>4

(* A match of a knockout is decided in its turn, by the sides it is due. *)
LEMMA DecideIsPlayed ==
    ASSUME NEW X, NEW k, NEW A, A = calendar, IsKnockout(A, X, k), CalendarNext,
           NEW R, R = result, NEW R2, R2 = result'
    PROVE  \E p, home, away, w : IsPlayed(A, R, p, home, away, w, R2)
<1>1. PICK p \in A : Decide(p)
  BY DEF CalendarNext
<1>2. IsKnown(p) \/ IsOpen(p)
  BY <1>1 DEF IsKnockout, Joined
<1>3. /\ p.homeSource # NoSource => p.homeSource.take \in {"winner", "loser"}
      /\ p.awaySource # NoSource => p.awaySource.take \in {"winner", "loser"}
  BY <1>2 DEF IsKnown, IsOpen
<1>4. PICK home, away : home = Seated(p.home, p.homeSource) /\ away = Seated(p.away, p.awaySource)
  OBVIOUS
<1>5. home = SeatedBy(R, p.home, p.homeSource) /\ away = SeatedBy(R, p.away, p.awaySource)
  BY <1>3, <1>4, SeatedIs
<1>6. PICK w \in Verdicts(p, home, away) :
          result' = [m \in DOMAIN result \cup {p.slot} |->
                        IF m = p.slot THEN [home |-> home, away |-> away, winner |-> w] ELSE result[m]]
  BY <1>1, <1>4 DEF Decide
<1>7. ~IsMain(p)
  <2>1. IsStage(p, k)
    BY <1>1 DEF IsKnockout
  <2>2. p.slot[1] \in {"W", "L", "GF"}
    BY <2>1, StageSlot DEF IsStage
  <2> QED BY <2>2 DEF IsMain
<1>8. IsVerdict(R, p, home, away, w)
  BY <1>6, <1>7, VerdictIs
<1>9. Grows(R, R2, p.slot, home, away, w)
  <2>1. PICK s, row : s = p.slot /\ row = [home |-> home, away |-> away, winner |-> w]
    OBVIOUS
  <2>2. R2 = [m \in DOMAIN R \cup {s} |-> IF m = s THEN row ELSE R[m]]
    BY <1>6, <2>1
  <2>3. DOMAIN R2 = DOMAIN R \cup {s} /\ R2[s] = row /\ \A m \in DOMAIN R : m # s => R2[m] = R[m]
    BY <2>2
  <2>4. row.home = home /\ row.away = away /\ row.winner = w
    BY <2>1
  <2> QED BY <2>1, <2>3, <2>4 DEF Grows
<1>10. /\ p.slot \notin DOMAIN R
       /\ p.homeSource # NoSource => p.homeSource.slot \in DOMAIN R
       /\ p.awaySource # NoSource => p.awaySource.slot \in DOMAIN R
  BY <1>1 DEF Decide, Ready
<1>11. IsPlayed(A, R, p, home, away, w, R2)
  BY <1>1, <1>5, <1>8, <1>9, <1>10 DEF IsPlayed
<1> QED BY <1>11

(* A step of the calendar leaves it, or plays a match of a knockout. *)
LEMMA StepPlays ==
    ASSUME KeepsDraw, entered.format # "swiss", [CalendarNext]_calendarVars, NEW t, t = AsEntered(entered),
           NEW A, A = ScheduleOf(t), NEW R, R = result, NEW R2, R2 = result'
    PROVE  /\ entered' = entered /\ calendar' = calendar
           /\ R2 = R \/ (IsKnockoutFormat(t.format) => \E p, home, away, w : IsPlayed(A, R, p, home, away, w, R2))
<1>1. entered' = entered /\ calendar' = calendar
  BY DEF CalendarNext, Decide, calendarVars
<1>2. CASE UNCHANGED calendarVars
  BY <1>1, <1>2 DEF calendarVars
<1>3. CASE CalendarNext /\ IsKnockoutFormat(t.format)
  <2>1. A = calendar /\ IsEntry(t.entries)
    BY DrawIs, DrawnIsEntry DEF KeepsDraw
  <2>2. IsKnockout(A, Range(t.entries), Log2Up(Len(t.entries)))
    BY <1>3, <2>1, DrawStartsWell DEF StartsWell
  <2> QED BY <1>1, <1>3, <2>1, <2>2, DecideIsPlayed
<1> QED BY <1>1, <1>2, <1>3

-----------------------------------------------------------------------------
(* The properties of a calendar *)

(* Round robin and league: every two entrants meet once per leg, everybody *)
(* is in every round once, and in a league each of two rivals plays at     *)
(* home as often as the other (generateRoundRobin, generateLeague), for    *)
(* any number of entrants.                                                 *)
THEOREM MeetsEverybody == CalendarSpec => []EverybodyMeets
<1>1. KeepsDraw => EverybodyMeets
  <2> SUFFICES ASSUME KeepsDraw, entered.format \in {"round_robin", "league"} PROVE EverybodyMeets
    BY DEF EverybodyMeets
  <2>1. PICK ids, A, legs : ids = entered.ids /\ A = calendar
                            /\ legs = IF entered.format = "league" THEN 2 ELSE 1
    OBVIOUS
  <2>2. IsEntry(ids) /\ A = InitialSchedule(entered.format, ids, entered.owner)
    BY <2>1, DrawnIsEntry DEF KeepsDraw, Draw
  <2>3. MeetsFairly(ids, A, legs)
    <3>1. CASE entered.format = "round_robin"
      <4>1. A = RoundRobin(ids, 1, FALSE) /\ legs = 1
        BY <2>1, <2>2, <3>1 DEF InitialSchedule
      <4> QED BY <2>2, <4>1, RoundRobinFair
    <3>2. CASE entered.format = "league"
      <4>1. A = League(ids, 2) /\ legs = 2
        BY <2>1, <2>2, <3>2 DEF InitialSchedule
      <4> QED BY <2>2, <4>1, LeagueFair
    <3> QED BY <3>1, <3>2
  <2>4. Entrants = Range(ids)
    BY <2>1 DEF Entrants
  <2>5. \A x, y : Meetings(x, y) = Meeting(A, x, y)
    BY <2>1 DEF Meetings, Present, Meeting, Both
  <2>6. \A k, x : {q \in A : q.slot[2] = k /\ x \in Present(q)} = InRoundOf(A, k, x)
    BY DEF Present, InRoundOf, Both
  <2>7. ASSUME NEW x \in Entrants, NEW y \in Entrants \ {x}
        PROVE  /\ Cardinality(Meetings(x, y)) = legs
               /\ legs = 2 => Cardinality({p \in Meetings(x, y) : p.home = x}) = 1
    <3>1. PICK S : S = Meeting(A, x, y) /\ Meetings(x, y) = S
      BY <2>5
    <3>2. Cardinality(S) = legs /\ (legs = 2 => Cardinality({p \in S : p.home = x}) = 1)
      BY <2>3, <2>4, <3>1 DEF MeetsFairly
    <3> QED BY <3>1, <3>2
  <2>8. ASSUME NEW p \in A, NEW x \in Entrants
        PROVE  Cardinality({q \in A : q.slot[2] = p.slot[2] /\ x \in Present(q)}) = 1
    <3>1. Cardinality(InRoundOf(A, p.slot[2], x)) = 1
      BY <2>3, <2>4 DEF MeetsFairly
    <3>2. {q \in A : q.slot[2] = p.slot[2] /\ x \in Present(q)} = InRoundOf(A, p.slot[2], x)
      BY <2>6
    <3> QED BY <3>1, <3>2
  <2> QED BY <2>1, <2>7, <2>8 DEF EverybodyMeets
<1> QED BY <1>1, DrawKept, PTL

(* A table of the first round where an owner meets himself is left only if *)
(* no exchange of its visitor separates them (avoidSameOwnerRound1), for   *)
(* any entrants and owners.                                                *)
THEOREM SeparatesOwners == CalendarSpec => []OwnersApart
<1>1. KeepsDraw => OwnersApart
  <2> SUFFICES ASSUME KeepsDraw, entered.format = "single_elimination" PROVE OwnersApart
    BY DEF OwnersApart
  <2>1. PICK A : A = calendar
    OBVIOUS
  <2>2. IsField(entered.ids) /\ A = SingleElimination(entered.ids, entered.owner)
    BY <2>1, DrawnIsEntry DEF IsEntry, KeepsDraw, Draw, InitialSchedule
  <2>3. Separates(entered.owner, A)
    BY <2>2, SingleSeparates
  <2> QED BY <2>1, <2>3 DEF OwnersApart, Separates
<1> QED BY <1>1, DrawKept, PTL

-----------------------------------------------------------------------------
(* EverybodyOut *)

IsOut == KeepsDraw /\ (entered.format # "swiss" => PlaysKnockout(AsEntered(entered), calendar, result))

(* The terms of EverybodyOut. *)
DefeatsOf(x) ==
    {m \in DOMAIN result :
        /\ /\ NoOne \notin {result[m].home, result[m].away}
           /\ ~\E p \in calendar : p.slot = m /\ Formality(p, result[m].home)
        /\ Loser(result[m]) = x}

LastWinner == result[(CHOOSE p \in calendar : p.final).slot].winner

LEMMA OutIs ==
    EverybodyOut <=>
        ((Over /\ entered.format \in {"single_elimination", "double_elimination"}) =>
            /\ /\ LastWinner \in Entrants
               /\ Cardinality(DefeatsOf(LastWinner))
                      < (IF entered.format = "single_elimination" THEN 1 ELSE 2)
            /\ \A x \in Entrants \ {LastWinner} :
                   Cardinality(DefeatsOf(x))
                      = (IF entered.format = "single_elimination" THEN 1 ELSE 2))
  BY Zenon DEF EverybodyOut, LastWinner, DefeatsOf

LEMMA DefeatsSame ==
    ASSUME NEW x
    PROVE  DefeatsOf(x) = LostBy(calendar, result, x)
<1>1. PICK A, R : A = calendar /\ R = result
  OBVIOUS
<1>2. \A p, home : Formality(p, home) <=> IsFormal(R, p, home)
  BY <1>1 DEF Formality, IsFormal
<1>3. \A r : Loser(r) = BeatenIn(r)
  BY DEF Loser, BeatenIn
<1> QED BY <1>1, <1>2, <1>3 DEF DefeatsOf, LostBy, Counts

(* When a single elimination is over everybody but its champion has lost   *)
(* one match, when a double elimination is over two, and the champion less *)
(* (generateDoubleElimination: nobody is out with one defeat), for any     *)
(* number of entrants and whoever wins.                                    *)
THEOREM LeavesOneChampion == CalendarSpec => []EverybodyOut
<1>1. CalendarInit => IsOut
  <2> SUFFICES ASSUME CalendarInit, entered.format # "swiss"
               PROVE  KeepsDraw /\ PlaysKnockout(AsEntered(entered), calendar, result)
    BY DEF IsOut, CalendarInit, KeepsDraw
  <2>1. KeepsDraw /\ DOMAIN result = {}
    BY DEF CalendarInit, KeepsDraw
  <2>2. PICK t, A, R : t = AsEntered(entered) /\ A = calendar /\ R = result
    OBVIOUS
  <2>3. IsEntry(t.entries) /\ A = ScheduleOf(t)
    BY <2>1, <2>2, DrawIs, DrawnIsEntry DEF KeepsDraw
  <2>4. PlaysKnockout(t, A, R)
    BY <2>1, <2>2, <2>3, KnockoutStarts
  <2> QED BY <2>1, <2>2, <2>4
<1>2. IsOut /\ [CalendarNext]_calendarVars => IsOut'
  <2> SUFFICES ASSUME IsOut, [CalendarNext]_calendarVars PROVE IsOut'
    OBVIOUS
  <2>1. entered' = entered /\ calendar' = calendar
    BY DEF CalendarNext, Decide, calendarVars
  <2>2. KeepsDraw /\ KeepsDraw'
    BY <2>1 DEF IsOut, KeepsDraw, Draw
  <2>3. CASE entered.format = "swiss"
    BY <2>1, <2>2, <2>3 DEF IsOut
  <2>4. CASE entered.format # "swiss"
    <3>1. PICK t, A, R, R2 : t = AsEntered(entered) /\ A = calendar /\ R = result /\ R2 = result'
      OBVIOUS
    <3>2. IsEntry(t.entries) /\ A = ScheduleOf(t) /\ PlaysKnockout(t, A, R)
      BY <2>2, <2>4, <3>1, DrawIs, DrawnIsEntry DEF KeepsDraw, IsOut
    <3>3. R2 = R \/ (IsKnockoutFormat(t.format) => \E p, home, away, w : IsPlayed(A, R, p, home, away, w, R2))
      BY <2>2, <2>4, <3>1, <3>2, StepPlays
    <3>4. PlaysKnockout(t, A, R2)
      BY <3>2, <3>3, KnockoutGoesOn
    <3>5. PlaysKnockout(AsEntered(entered)', calendar', result')
      BY <2>1, <3>1, <3>4 DEF AsEntered
    <3> QED BY <2>2, <3>5 DEF IsOut
  <2> QED BY <2>3, <2>4
<1>3. IsOut => EverybodyOut
  <2> SUFFICES ASSUME IsOut, Over, entered.format \in {"single_elimination", "double_elimination"}
               PROVE  /\ LastWinner \in Entrants
                      /\ Cardinality(DefeatsOf(LastWinner)) < LivesIn(entered.format)
                      /\ \A x \in Entrants \ {LastWinner} : Cardinality(DefeatsOf(x)) = LivesIn(entered.format)
    BY OutIs DEF LivesIn
  <2>1. PICK t, A, R : t = AsEntered(entered) /\ A = calendar /\ R = result
    OBVIOUS
  <2>2. /\ IsEntry(t.entries) /\ A = ScheduleOf(t) /\ PlaysKnockout(t, A, R)
        /\ t.format = entered.format /\ t.entries = entered.ids
    BY <2>1, DrawIs, DrawnIsEntry DEF KeepsDraw, IsOut
  <2>3. IsKnockoutFormat(t.format) /\ \A p \in A : p.slot \in DOMAIN R
    BY <2>1, <2>2 DEF Over, IsKnockoutFormat
  <2>4. AllOut(A, Range(t.entries), R, LivesIn(t.format))
    BY <2>2, <2>3, KnockoutEnds
  <2>5. Entrants = Range(t.entries)
    BY <2>2 DEF Entrants
  <2>6. \A x : DefeatsOf(x) = LostBy(A, R, x)
    BY <2>1, DefeatsSame
  <2> QED BY <2>1, <2>2, <2>4, <2>5, <2>6 DEF AllOut, LastWinner
<1> QED BY <1>1, <1>2, <1>3, PTL DEF CalendarSpec

-----------------------------------------------------------------------------
(* SeedsApart *)

BySeed == KeepsDraw /\ (entered.format # "swiss" => SeedsPlay(AsEntered(entered), calendar, result))

LEMMA SeedsApartIs ==
    SeedsApart <=>
      (entered.format \in {"single_elimination", "double_elimination"}
          /\ (\A x, y \in Entrants : SameOwner(entered.owner, x, y) => x = y) =>
            \A m \in DOMAIN result :
                m[1] = "W" /\ NoOne \notin {result[m].home, result[m].away} =>
                     \E x \in {result[m].home, result[m].away} :
                        SeedOf(x) > 2^(Log2Up(Len(entered.ids)) - m[2]))
  BY ZenonT(60) DEF SeedsApart

(* The best 2^j seeds of a bracket do not meet before j rounds are left,   *)
(* whoever wins, for any number of entrants of different owners            *)
(* (seedPositions, generateSingleElimination).                             *)
THEOREM KeepsSeedsApart == CalendarSpec => []SeedsApart
<1>1. CalendarInit => BySeed
  <2> SUFFICES ASSUME CalendarInit, entered.format # "swiss"
               PROVE  KeepsDraw /\ SeedsPlay(AsEntered(entered), calendar, result)
    BY DEF BySeed, CalendarInit, KeepsDraw
  <2>1. KeepsDraw /\ DOMAIN result = {}
    BY DEF CalendarInit, KeepsDraw
  <2>2. PICK t, A, R : t = AsEntered(entered) /\ A = calendar /\ R = result
    OBVIOUS
  <2>3. IsEntry(t.entries) /\ A = ScheduleOf(t)
    BY <2>1, <2>2, DrawIs, DrawnIsEntry DEF KeepsDraw
  <2>4. SeedsPlay(t, A, R)
    BY <2>1, <2>2, <2>3, SeedsStart
  <2> QED BY <2>1, <2>2, <2>4
<1>2. BySeed /\ [CalendarNext]_calendarVars => BySeed'
  <2> SUFFICES ASSUME BySeed, [CalendarNext]_calendarVars PROVE BySeed'
    OBVIOUS
  <2>1. entered' = entered /\ calendar' = calendar
    BY DEF CalendarNext, Decide, calendarVars
  <2>2. KeepsDraw /\ KeepsDraw'
    BY <2>1 DEF BySeed, KeepsDraw, Draw
  <2>3. CASE entered.format = "swiss"
    BY <2>1, <2>2, <2>3 DEF BySeed
  <2>4. CASE entered.format # "swiss"
    <3>1. PICK t, A, R, R2 : t = AsEntered(entered) /\ A = calendar /\ R = result /\ R2 = result'
      OBVIOUS
    <3>2. IsEntry(t.entries) /\ A = ScheduleOf(t) /\ SeedsPlay(t, A, R)
      BY <2>2, <2>4, <3>1, DrawIs, DrawnIsEntry DEF KeepsDraw, BySeed
    <3>3. R2 = R \/ (IsKnockoutFormat(t.format) => \E p, home, away, w : IsPlayed(A, R, p, home, away, w, R2))
      BY <2>2, <2>4, <3>1, <3>2, StepPlays
    <3>4. SeedsPlay(t, A, R2)
      BY <3>2, <3>3, SeedsGoOn
    <3>5. SeedsPlay(AsEntered(entered)', calendar', result')
      BY <2>1, <3>1, <3>4 DEF AsEntered
    <3> QED BY <2>2, <3>5 DEF BySeed
  <2> QED BY <2>3, <2>4
<1>3. BySeed => SeedsApart
  <2> SUFFICES ASSUME BySeed, entered.format \in {"single_elimination", "double_elimination"},
                      \A x, y \in Entrants : SameOwner(entered.owner, x, y) => x = y,
                      NEW m \in DOMAIN result, m[1] = "W", NoOne \notin {result[m].home, result[m].away}
               PROVE  \E x \in {result[m].home, result[m].away} :
                         SeedOf(x) > 2^(Log2Up(Len(entered.ids)) - m[2])
    BY SeedsApartIs
  <2>1. PICK t, A, R : t = AsEntered(entered) /\ A = calendar /\ R = result
    OBVIOUS
  <2>2. /\ IsEntry(t.entries) /\ A = ScheduleOf(t) /\ SeedsPlay(t, A, R)
        /\ t.format = entered.format /\ t.entries = entered.ids /\ t.owner = entered.owner
    BY <2>1, DrawIs, DrawnIsEntry DEF KeepsDraw, BySeed
  <2>3. PICK ids, k : ids = t.entries /\ k = Log2Up(Len(ids))
    OBVIOUS
  <2>4. \A x : SeedOf(x) = CHOOSE i \in DOMAIN ids : ids[i] = x
    BY <2>2, <2>3 DEF SeedOf
  <2>5. IsKnockoutFormat(t.format)
    BY <2>2 DEF IsKnockoutFormat
  <2>6. OwnersDiffer(t.entries, t.owner)
    BY <2>2 DEF OwnersDiffer, Entrants
  <2>7. SeedApart(ids, k, R[m], m[2])
    BY <2>1, <2>2, <2>3, <2>5, <2>6, SeedsEnd
  <2>8. PICK x \in {R[m].home, R[m].away} : (CHOOSE i \in DOMAIN ids : ids[i] = x) > 2^(k - m[2])
    BY <2>1, <2>7 DEF SeedApart
  <2>9. SeedOf(x) > 2^(Log2Up(Len(entered.ids)) - m[2])
    BY <2>2, <2>3, <2>4, <2>8
  <2> QED BY <2>1, <2>9
<1> QED BY <1>1, <1>2, <1>3, PTL DEF CalendarSpec

-----------------------------------------------------------------------------
(* Swiss: what the backtracking finds *)

LEMMA MinIs ==
    ASSUME NEW S, S \subseteq Nat, S # {}
    PROVE  Min(S) \in S /\ \A y \in S : Min(S) <= y
<1>1. \E x \in S : \A y \in S : x <= y
  BY Least
<1> QED BY <1>1 DEF Min

IsNumbers(N) == IsFiniteSet(N) /\ N \subseteq Nat

LEMMA Numbers ==
    ASSUME NEW N, IsNumbers(N), NEW S, S \subseteq N
    PROVE  IsNumbers(S) /\ IsFiniteSet(S) /\ S \subseteq Nat
  BY FS_Subset DEF IsNumbers

(* One step of it, where g says what is found for fewer. *)
Suiting(suited, g, s) ==
    {i \in s \ {Min(s)} : {Min(s), i} \in suited /\ g[s \ {Min(s), i}] # {}}

Tried(suited, g, s) ==
    IF s = {} THEN {<<>>}
    ELSE IF Suiting(suited, g, s) = {} THEN {}
         ELSE {<< <<Min(s), Min(Suiting(suited, g, s))>> >> \o rest :
                  rest \in g[s \ {Min(s), Min(Suiting(suited, g, s))}]}

IsTried(suited, N, g) == g = [s \in SUBSET N |-> Tried(suited, g, s)]

Paired(suited, N) == (CHOOSE g : IsTried(suited, N, g))[N]

LEMMA BacktrackIs ==
    ASSUME NEW n, NEW suited
    PROVE  Backtrack(n, suited) = Paired(suited, 1..n)
  BY Zenon DEF Backtrack, Paired, IsTried, Tried, Suiting

(* Only what is found for fewer matters. *)
LEMMA TriedSame ==
    ASSUME NEW suited, NEW s, s \subseteq Nat, NEW g, NEW h,
           \A u \in SUBSET s : u # s => g[u] = h[u]
    PROVE  Tried(suited, g, s) = Tried(suited, h, s)
<1>1. CASE s = {}
  BY <1>1 DEF Tried
<1>2. CASE s # {}
  <2>1. Min(s) \in s
    BY <1>2, MinIs
  <2>2. PICK a : a = Min(s)
    OBVIOUS
  <2>3. ASSUME NEW i \in s PROVE g[s \ {a, i}] = h[s \ {a, i}]
    <3>1. s \ {a, i} \in SUBSET s /\ s \ {a, i} # s
      BY <2>1, <2>2
    <3> QED BY <3>1
  <2>4. Suiting(suited, g, s) = Suiting(suited, h, s)
    BY <2>2, <2>3 DEF Suiting
  <2>5. CASE Suiting(suited, g, s) = {}
    BY <1>2, <2>4, <2>5 DEF Tried
  <2>6. CASE Suiting(suited, g, s) # {}
    <3>1. PICK b : b = Min(Suiting(suited, g, s))
      OBVIOUS
    <3>2. b \in s
      <4>1. Suiting(suited, g, s) \subseteq s
        BY DEF Suiting
      <4> QED BY <2>6, <3>1, <4>1, MinIs
    <3>3. PICK G : G = g[s \ {a, b}] /\ G = h[s \ {a, b}]
      BY <2>3, <3>2
    <3>4. Tried(suited, g, s) = {<< <<a, b>> >> \o rest : rest \in G}
      BY <1>2, <2>2, <2>6, <3>1, <3>3 DEF Tried
    <3>5. Tried(suited, h, s) = {<< <<a, b>> >> \o rest : rest \in G}
      BY <1>2, <2>2, <2>4, <2>6, <3>1, <3>3 DEF Tried
    <3> QED BY <3>4, <3>5
  <2> QED BY <2>5, <2>6
<1> QED BY <1>1, <1>2

LEMMA TriedUnique ==
    ASSUME NEW suited, NEW N, IsNumbers(N),
           NEW g, NEW h, IsTried(suited, N, g), IsTried(suited, N, h)
    PROVE  \A s \in SUBSET N : g[s] = h[s]
<1> SUFFICES ASSUME NEW s0 \in SUBSET N, g[s0] # h[s0] PROVE FALSE
  OBVIOUS
<1>0. PICK C : C = {s \in SUBSET N : g[s] # h[s]}
  OBVIOUS
<1>1. PICK T \in C : Minimal(T, C)
  <2>1. C \subseteq SUBSET N /\ C # {}
    BY <1>0
  <2> QED BY <2>1, Smallest DEF IsNumbers
<1>2. g[T] = Tried(suited, g, T) /\ h[T] = Tried(suited, h, T)
  BY <1>0 DEF IsTried
<1>3. \A u \in SUBSET T : u # T => g[u] = h[u]
  BY <1>0, <1>1 DEF Minimal
<1>4. T \subseteq Nat
  BY <1>0, Numbers
<1>5. Tried(suited, g, T) = Tried(suited, h, T)
  BY <1>3, <1>4, TriedSame
<1> QED BY <1>0, <1>2, <1>5

LEMMA TriedWithin ==
    ASSUME NEW suited, NEW N, IsNumbers(N), NEW g, IsTried(suited, N, g), NEW T \in SUBSET N
    PROVE  g[T] = Paired(suited, T)
<1>0. PICK r : r = [s \in SUBSET T |-> g[s]]
  OBVIOUS
<1>1. IsTried(suited, T, r)
  <2>1. ASSUME NEW s \in SUBSET T PROVE r[s] = Tried(suited, r, s)
    <3>1. g[s] = Tried(suited, g, s)
      BY DEF IsTried
    <3>2. \A u \in SUBSET s : u # s => g[u] = r[u]
      BY <1>0
    <3>3. s \subseteq Nat
      BY Numbers
    <3>4. Tried(suited, g, s) = Tried(suited, r, s)
      BY <3>2, <3>3, TriedSame
    <3> QED BY <1>0, <3>1, <3>4
  <2> QED BY <1>0, <2>1 DEF IsTried
<1>2. PICK k : k = (CHOOSE h : IsTried(suited, T, h)) /\ IsTried(suited, T, k)
  BY <1>1
<1>3. IsNumbers(T)
  BY Numbers
<1>4. r[T] = k[T]
  <2>1. IsTried(suited, T, k)
    BY <1>2
  <2> QED BY <1>1, <1>3, <2>1, TriedUnique
<1>5. k[T] = Paired(suited, T)
  BY <1>2 DEF Paired
<1> QED BY <1>0, <1>4, <1>5

LEMMA TriedExists ==
    ASSUME NEW suited, NEW N, IsNumbers(N)
    PROVE  \E g : IsTried(suited, N, g)
<1>0. PICK C : C = {T \in SUBSET N : ~\E g : IsTried(suited, T, g)}
  OBVIOUS
<1> SUFFICES ASSUME C # {} PROVE FALSE
  BY <1>0
<1>1. PICK T \in C : Minimal(T, C)
  <2>1. C \subseteq SUBSET N
    BY <1>0
  <2> QED BY <2>1, Smallest DEF IsNumbers
<1>2. T \in SUBSET N /\ IsNumbers(T)
  BY <1>0, Numbers
<1>3. PICK P : P = [s \in SUBSET T |-> Paired(suited, s)]
  OBVIOUS
<1>4. PICK h : h = [s \in SUBSET T |-> Tried(suited, P, s)]
  OBVIOUS
<1>5. ASSUME NEW u \in SUBSET T, u # T PROVE h[u] = P[u]
  <2>1. PICK g : IsTried(suited, u, g)
    <3>1. u \notin C
      BY <1>1, <1>5 DEF Minimal
    <3> QED BY <1>0, <1>2, <3>1
  <2>2. IsNumbers(u) /\ u \subseteq Nat
    <3>1. u \subseteq T /\ IsNumbers(T)
      BY <1>2
    <3> QED BY <3>1, Numbers
  <2>3. ASSUME NEW s \in SUBSET u PROVE g[s] = P[s]
    <3>1. g[s] = Paired(suited, s)
      <4>1. IsNumbers(u) /\ IsTried(suited, u, g) /\ s \in SUBSET u
        BY <2>1, <2>2
      <4> QED BY SMTT(60), ZenonT(60), <4>1, TriedWithin
    <3>2. s \in SUBSET T
      OBVIOUS
    <3> QED BY <1>3, <3>1, <3>2
  <2>4. g[u] = Tried(suited, g, u)
    BY <2>1 DEF IsTried
  <2>5. Tried(suited, g, u) = Tried(suited, P, u)
    BY <2>2, <2>3, TriedSame
  <2> QED BY <1>4, <2>3, <2>4, <2>5
<1>6. ASSUME NEW s \in SUBSET T PROVE h[s] = Tried(suited, h, s)
  <2>1. \A u \in SUBSET s : u # s => P[u] = h[u]
    BY <1>5
  <2>2. s \subseteq Nat
    BY <1>2, Numbers
  <2>3. Tried(suited, P, s) = Tried(suited, h, s)
    BY <2>1, <2>2, TriedSame
  <2> QED BY <1>4, <2>3
<1>7. IsTried(suited, T, h)
  BY <1>4, <1>6 DEF IsTried
<1> QED BY <1>0, <1>1, <1>7

(* Found for fewer. *)
Rivals(suited, s) ==
    {i \in s \ {Min(s)} : {Min(s), i} \in suited /\ Paired(suited, s \ {Min(s), i}) # {}}

(* Rival b is the first that suits. *)
StartsWith(suited, s, b) ==
    Paired(suited, s) = {<< <<Min(s), b>> >> \o rest : rest \in Paired(suited, s \ {Min(s), b})}

(* The recursion. *)
LEMMA PairedStep ==
    ASSUME NEW suited, NEW s, IsNumbers(s), s # {}
    PROVE  /\ Min(s) \in s
           /\ Rivals(suited, s) = {} => Paired(suited, s) = {}
           /\ Rivals(suited, s) # {} => \E b \in Rivals(suited, s) : StartsWith(suited, s, b)
<1>1. PICK g : IsTried(suited, s, g)
  BY TriedExists
<1>2. \A u \in SUBSET s : g[u] = Paired(suited, u)
  BY <1>1, TriedWithin
<1>3. PICK a : a = Min(s) /\ a \in s
  BY MinIs DEF IsNumbers
<1>4. g[s] = Tried(suited, g, s)
  BY <1>1 DEF IsTried
<1>5. \A i : g[s \ {a, i}] = Paired(suited, s \ {a, i})
  BY <1>2
<1>6. Suiting(suited, g, s) = Rivals(suited, s)
  BY <1>3, <1>5 DEF Suiting, Rivals
<1>7. PICK R : R = Rivals(suited, s)
  OBVIOUS
<1>8. CASE R = {}
  <2>1. g[s] = {}
    BY <1>4, <1>6, <1>7, <1>8 DEF Tried
  <2> QED BY <1>2, <1>3, <1>7, <1>8, <2>1
<1>9. CASE R # {}
  <2>1. R \subseteq Nat
    BY <1>7 DEF Rivals, IsNumbers
  <2>2. PICK b \in R : b = Min(R)
    BY <1>9, <2>1, MinIs
  <2>3. PICK G : G = g[s \ {a, b}] /\ G = Paired(suited, s \ {a, b})
    BY <1>5
  <2>4. g[s] = {<< <<a, b>> >> \o rest : rest \in G}
    BY <1>3, <1>4, <1>6, <1>7, <1>9, <2>2, <2>3 DEF Tried
  <2>5. StartsWith(suited, s, b)
    BY <1>2, <1>3, <2>3, <2>4 DEF StartsWith
  <2> QED BY <1>3, <1>7, <1>9, <2>2, <2>5
<1> QED BY <1>8, <1>9

LEMMA PairedNone ==
    ASSUME NEW suited
    PROVE  Paired(suited, {}) = {<<>>}
<1>1. IsNumbers({})
  BY FS_EmptySet DEF IsNumbers
<1>2. PICK g : IsTried(suited, {}, g)
  BY <1>1, TriedExists
<1>3. g[{}] = Paired(suited, {})
  BY <1>1, <1>2, TriedWithin
<1>4. g[{}] = Tried(suited, g, {})
  BY <1>2 DEF IsTried
<1> QED BY <1>3, <1>4 DEF Tried

LEMMA FoundOnce ==
    ASSUME NEW suited, NEW N, IsNumbers(N), NEW q0 \in Paired(suited, N), NEW r0 \in Paired(suited, N)
    PROVE  q0 = r0
<1>0. PICK C : C = {T \in SUBSET N : \E q, r \in Paired(suited, T) : q # r}
  OBVIOUS
<1> SUFFICES ASSUME C # {} PROVE FALSE
  BY <1>0
<1>1. PICK T \in C : Minimal(T, C)
  <2>1. C \subseteq SUBSET N
    BY <1>0
  <2> QED BY <2>1, Smallest DEF IsNumbers
<1>2. T \in SUBSET N /\ IsNumbers(T)
  BY <1>0, Numbers
<1>3. PICK q \in Paired(suited, T), r \in Paired(suited, T) : q # r
  BY <1>0
<1>4. T # {} /\ Rivals(suited, T) # {}
  <2>1. T # {}
    <3>1. SUFFICES ASSUME T = {} PROVE FALSE
      OBVIOUS
    <3>2. q \in {<<>>} /\ r \in {<<>>}
      BY <1>3, <3>1, PairedNone
    <3> QED BY <1>3, <3>2
  <2> QED BY <1>2, <1>3, <2>1, PairedStep
<1>5. PICK a \in T : a = Min(T)
  BY <1>2, <1>4, PairedStep
<1>6. PICK b \in Rivals(suited, T) : StartsWith(suited, T, b)
  BY <1>2, <1>4, PairedStep
<1>7. PICK U : U = T \ {a, b}
  OBVIOUS
<1>8. PICK x \in Paired(suited, U) : q = << <<a, b>> >> \o x
  BY <1>3, <1>5, <1>6, <1>7 DEF StartsWith
<1>9. PICK y \in Paired(suited, U) : r = << <<a, b>> >> \o y
  BY <1>3, <1>5, <1>6, <1>7 DEF StartsWith
<1>10. U \in SUBSET N /\ U \subseteq T /\ U # T
  BY <1>2, <1>5, <1>7
<1>11. U \notin C
  BY <1>1, <1>10 DEF Minimal
<1>12. x = y
  BY <1>0, <1>10, <1>11
<1> QED BY <1>3, <1>8, <1>9, <1>12

(* The two of table i. *)
Two(q, i) == {q[i][1], q[i][2]}

(* Everybody is at one table, with one that suits. *)
PairsUp(q, N, suited) ==
    /\ q \in Seq(N \X N)
    /\ \A i \in 1..Len(q) : q[i][1] # q[i][2] /\ Two(q, i) \in suited
    /\ \A x \in N : \E i \in 1..Len(q) : x \in Two(q, i)
    /\ \A i, j \in 1..Len(q) : \A x : x \in Two(q, i) /\ x \in Two(q, j) => i = j

LEMMA PairsUpMore ==
    ASSUME NEW N, NEW a \in N, NEW b \in N, a # b, NEW suited, {a, b} \in suited,
           NEW U, U = N \ {a, b}, NEW x, PairsUp(x, U, suited), NEW q, q = << <<a, b>> >> \o x
    PROVE  PairsUp(q, N, suited)
<1>1. x \in Seq(U \X U) /\ x \in Seq(N \X N)
  BY DEF PairsUp
<1>2. PICK n \in Nat : n = Len(x)
  BY <1>1
<1>3. /\ q \in Seq(N \X N) /\ Len(q) = n + 1 /\ q[1] = <<a, b>>
      /\ \A i \in 1..n : q[i + 1] = x[i]
  BY <1>1, <1>2
<1>4. Two(q, 1) = {a, b}
  BY <1>3 DEF Two
<1>5. ASSUME NEW i \in 1..(n + 1), i # 1
      PROVE  /\ i - 1 \in 1..n /\ q[i] = x[i - 1] /\ Two(q, i) = Two(x, i - 1)
             /\ a \notin Two(q, i) /\ b \notin Two(q, i)
  <2>1. i - 1 \in 1..n /\ (i - 1) + 1 = i
    BY <1>5
  <2>2. PICK j \in 1..n : j = i - 1 /\ j + 1 = i
    BY <2>1
  <2>3. q[i] = x[j]
    BY <1>3, <2>2
  <2>4. x[j] \in U \X U
    BY <1>1, <1>2
  <2> QED BY <2>2, <2>3, <2>4 DEF Two
<1>6. ASSUME NEW i \in 1..(n + 1) PROVE q[i][1] # q[i][2] /\ Two(q, i) \in suited
  <2>1. CASE i = 1
    <3>1. q[i][1] = a /\ q[i][2] = b
      BY <1>3, <2>1
    <3>2. Two(q, i) \in suited
      BY <1>4, <2>1
    <3> QED BY <3>1, <3>2
  <2>2. CASE i # 1
    <3>1. PICK j \in 1..n : q[i] = x[j] /\ Two(q, i) = Two(x, j)
      BY <1>5, <2>2
    <3>2. x[j][1] # x[j][2] /\ Two(x, j) \in suited
      BY <1>2 DEF PairsUp
    <3> QED BY <3>1, <3>2
  <2> QED BY <2>1, <2>2
<1>7. ASSUME NEW y \in N PROVE \E i \in 1..(n + 1) : y \in Two(q, i)
  <2>1. CASE y \in {a, b}
    <3>1. 1 \in 1..(n + 1) /\ y \in Two(q, 1)
      BY <1>4, <2>1
    <3> QED BY <3>1
  <2>2. CASE y \in U
    <3>1. PICK j \in 1..n : y \in Two(x, j)
      BY <1>2, <2>2 DEF PairsUp
    <3>2. j + 1 \in 1..(n + 1) /\ j + 1 # 1 /\ (j + 1) - 1 = j
      OBVIOUS
    <3>3. Two(q, j + 1) = Two(x, j)
      BY <1>5, <3>2
    <3> QED BY <3>1, <3>2, <3>3
  <2> QED BY <2>1, <2>2
<1>8. ASSUME NEW i \in 1..(n + 1), NEW j \in 1..(n + 1), NEW y, y \in Two(q, i), y \in Two(q, j)
      PROVE  i = j
  <2>1. CASE i = 1 \/ j = 1
    BY ZenonT(60), SMTT(60), <1>4, <1>5, <1>8, <2>1
  <2>2. CASE i # 1 /\ j # 1
    <3>1. i - 1 \in 1..n /\ j - 1 \in 1..n /\ y \in Two(x, i - 1) /\ y \in Two(x, j - 1)
      BY <1>5, <1>8, <2>2
    <3>2. i - 1 = j - 1
      BY <1>2, <3>1 DEF PairsUp
    <3> QED BY <3>2
  <2> QED BY <2>1, <2>2
<1>9. q \in Seq(N \X N) /\ Len(q) = n + 1
  BY <1>3
<1> QED BY <1>6, <1>7, <1>8, <1>9 DEF PairsUp

LEMMA FoundPairsUp ==
    ASSUME NEW suited, NEW N, IsNumbers(N), NEW q0 \in Paired(suited, N)
    PROVE  PairsUp(q0, N, suited)
<1>0. PICK C : C = {T \in SUBSET N : \E q \in Paired(suited, T) : ~PairsUp(q, T, suited)}
  OBVIOUS
<1> SUFFICES ASSUME C # {} PROVE FALSE
  BY <1>0
<1>1. PICK T \in C : Minimal(T, C)
  <2>1. C \subseteq SUBSET N
    BY <1>0
  <2> QED BY <2>1, Smallest DEF IsNumbers
<1>2. T \in SUBSET N /\ IsNumbers(T)
  BY <1>0, Numbers
<1>3. PICK q \in Paired(suited, T) : ~PairsUp(q, T, suited)
  BY <1>0
<1>4. CASE T = {}
  <2>1. q = <<>>
    BY <1>3, <1>4, PairedNone
  <2>2. PairsUp(<<>>, {}, suited)
    BY DEF PairsUp
  <2> QED BY <1>3, <1>4, <2>1, <2>2
<1>5. CASE T # {}
  <2>1. Rivals(suited, T) # {}
    BY <1>2, <1>3, <1>5, PairedStep
  <2>2. PICK a \in T : a = Min(T)
    BY <1>2, <1>5, PairedStep
  <2>3. PICK b \in Rivals(suited, T) : StartsWith(suited, T, b)
    BY <1>2, <1>5, <2>1, PairedStep
  <2>4. b \in T /\ a # b /\ {a, b} \in suited
    BY <2>2, <2>3 DEF Rivals
  <2>5. PICK U : U = T \ {a, b}
    OBVIOUS
  <2>6. PICK x \in Paired(suited, U) : q = << <<a, b>> >> \o x
    BY <1>3, <2>2, <2>3, <2>5 DEF StartsWith
  <2>7. U \in SUBSET N /\ U \subseteq T /\ U # T
    BY <1>2, <2>2, <2>5
  <2>8. U \notin C
    BY <1>1, <2>7 DEF Minimal
  <2>9. PairsUp(x, U, suited)
    BY <1>0, <2>6, <2>7, <2>8
  <2> QED BY <1>3, <2>4, <2>5, <2>6, <2>9, PairsUpMore
<1> QED BY <1>4, <1>5

(* A way to pair everybody with one that suits. *)
Mates(mate, N, suited) ==
    \A x \in N : /\ mate[x] \in N /\ mate[x] # x /\ mate[mate[x]] = x
                 /\ {x, mate[x]} \in suited

LEMMA FoundIfAny ==
    ASSUME NEW suited, NEW N, IsNumbers(N), NEW mate, Mates(mate, N, suited)
    PROVE  Paired(suited, N) # {}
<1>0. PICK C : C = {T \in SUBSET N : Mates(mate, T, suited) /\ Paired(suited, T) = {}}
  OBVIOUS
<1> SUFFICES ASSUME C # {} PROVE FALSE
  BY <1>0
<1>1. PICK T \in C : Minimal(T, C)
  <2>1. C \subseteq SUBSET N
    BY <1>0
  <2> QED BY <2>1, Smallest DEF IsNumbers
<1>2. T \in SUBSET N /\ IsNumbers(T) /\ Mates(mate, T, suited) /\ Paired(suited, T) = {}
  BY <1>0, Numbers
<1>3. T # {}
  BY <1>2, PairedNone
<1>4. PICK a \in T : a = Min(T)
  BY <1>2, <1>3, PairedStep
<1>5. PICK i : i = mate[a]
  OBVIOUS
<1>6. i \in T /\ i # a /\ mate[i] = a /\ {a, i} \in suited
  BY <1>2, <1>4, <1>5 DEF Mates
<1>7. PICK U : U = T \ {a, i}
  OBVIOUS
<1>8. Mates(mate, U, suited)
  <2> SUFFICES ASSUME NEW x \in U
               PROVE  mate[x] \in U /\ mate[x] # x /\ mate[mate[x]] = x /\ {x, mate[x]} \in suited
    BY DEF Mates
  <2>1. x \in T /\ x # a /\ x # i
    BY <1>7
  <2>2. mate[x] \in T /\ mate[x] # x /\ mate[mate[x]] = x /\ {x, mate[x]} \in suited
    BY <1>2, <2>1 DEF Mates
  <2>3. mate[x] # a /\ mate[x] # i
    BY <1>5, <1>6, <2>1, <2>2
  <2> QED BY <1>7, <2>2, <2>3
<1>9. U \in SUBSET N /\ U \subseteq T /\ U # T
  BY <1>2, <1>4, <1>7
<1>10. U \notin C
  BY <1>1, <1>9 DEF Minimal
<1>11. Paired(suited, U) # {}
  BY <1>0, <1>8, <1>9, <1>10
<1>12. i \in Rivals(suited, T)
  BY <1>4, <1>6, <1>7, <1>11 DEF Rivals
<1>13. PICK b \in Rivals(suited, T) : StartsWith(suited, T, b)
  BY <1>2, <1>3, <1>12, PairedStep
<1>14. Paired(suited, T \ {a, b}) # {}
  BY <1>4, <1>13 DEF Rivals
<1>15. Paired(suited, T) # {}
  BY <1>4, <1>13, <1>14 DEF StartsWith
<1> QED BY <1>2, <1>15

-----------------------------------------------------------------------------
(* Swiss: pairs that cover everybody do not overlap *)

Pair2(s) == IsFiniteSet(s) /\ Cardinality(s) = 2

LEMMA Pair2Is ==
    ASSUME NEW s, Pair2(s), NEW x \in s
    PROVE  \E y \in s : y # x /\ s = {x, y}
<1>1. IsFiniteSet(s \ {x}) /\ Cardinality(s \ {x}) = 1
  BY FS_RemoveElement DEF Pair2
<1>2. PICK y : s \ {x} = {y}
  BY <1>1, FS_Singleton
<1> QED BY <1>2

LEMMA PairOf ==
    ASSUME NEW x, NEW y, x # y
    PROVE  Pair2({x, y})
<1>1. IsFiniteSet({x}) /\ Cardinality({x}) = 1
  BY FS_Singleton
<1>2. IsFiniteSet({x} \cup {y}) /\ Cardinality({x} \cup {y}) = 2
  BY <1>1, FS_AddElement
<1>3. {x} \cup {y} = {x, y}
  OBVIOUS
<1> QED BY <1>2, <1>3 DEF Pair2

Pairs2(ps) == \A s \in ps : Pair2(s)

(* They cover no more than two each. *)
Covers(ps) == IsFiniteSet(UNION ps) /\ Cardinality(UNION ps) <= 2 * Cardinality(ps)

LEMMA PairsCover ==
    ASSUME NEW ps, IsFiniteSet(ps), Pairs2(ps)
    PROVE  Covers(ps)
<1>0. PICK C : C = {Q \in SUBSET ps : ~Covers(Q)}
  OBVIOUS
<1> SUFFICES ASSUME C # {} PROVE FALSE
  BY <1>0
<1>1. PICK Q \in C : Minimal(Q, C)
  <2>1. C \subseteq SUBSET ps
    BY <1>0
  <2> QED BY <2>1, Smallest
<1>2. Q \in SUBSET ps /\ IsFiniteSet(Q) /\ ~Covers(Q)
  BY <1>0, FS_Subset
<1>3. CASE Q = {}
  <2>1. UNION Q = {} /\ IsFiniteSet({}) /\ Cardinality({}) = 0
    BY <1>3, FS_EmptySet
  <2> QED BY <1>2, <1>3, <2>1 DEF Covers
<1>4. CASE Q # {}
  <2>1. PICK s \in Q : TRUE
    BY <1>4
  <2>2. PICK R : R = Q \ {s}
    OBVIOUS
  <2>3. R \in SUBSET ps /\ R \subseteq Q /\ R # Q
    BY <1>2, <2>1, <2>2
  <2>4. R \notin C
    BY <1>1, <2>3 DEF Minimal
  <2>5. Covers(R)
    BY <1>0, <2>3, <2>4
  <2>6. PICK A, B : A = UNION R /\ B = UNION Q
    OBVIOUS
  <2>7. B = A \cup s
    BY <2>1, <2>2, <2>6
  <2>8. IsFiniteSet(s) /\ Cardinality(s) = 2
    BY <1>2, <2>1 DEF Pairs2, Pair2
  <2>9. Cardinality(R) = Cardinality(Q) - 1 /\ Cardinality(Q) \in Nat
    BY <1>2, <2>1, <2>2, FS_RemoveElement, FS_CardinalityType
  <2>10. IsFiniteSet(A) /\ Cardinality(A) <= 2 * Cardinality(R) /\ Cardinality(A) \in Nat
    BY <2>5, <2>6, FS_CardinalityType DEF Covers
  <2>11. /\ IsFiniteSet(A \cup s)
         /\ Cardinality(A \cup s) = Cardinality(A) + Cardinality(s) - Cardinality(A \cap s)
    BY <2>8, <2>10, FS_Union
  <2>12. Cardinality(A \cap s) \in Nat
    BY <2>8, FS_Intersection, FS_CardinalityType
  <2>13. IsFiniteSet(B) /\ Cardinality(B) <= 2 * Cardinality(Q)
    BY <2>7, <2>8, <2>9, <2>10, <2>11, <2>12
  <2> QED BY <1>2, <2>6, <2>13 DEF Covers
<1> QED BY <1>3, <1>4

LEMMA PairsApart ==
    ASSUME NEW ps, IsFiniteSet(ps), Pairs2(ps), Cardinality(UNION ps) = Cardinality(ps) * 2,
           NEW s \in ps, NEW t \in ps, NEW x, x \in s, x \in t
    PROVE  s = t
<1> SUFFICES ASSUME s # t PROVE FALSE
  OBVIOUS
<1>1. PICK R : R = ps \ {s}
  OBVIOUS
<1>2. IsFiniteSet(R) /\ Cardinality(R) = Cardinality(ps) - 1 /\ Cardinality(ps) \in Nat
  BY <1>1, FS_RemoveElement, FS_CardinalityType
<1>3. Covers(R)
  <2>1. Pairs2(R)
    BY <1>1 DEF Pairs2
  <2> QED BY <1>2, <2>1, PairsCover
<1>4. PICK A, B : A = UNION R /\ B = UNION ps
  OBVIOUS
<1>5. PICK y \in s : y # x /\ s = {x, y}
  BY Pair2Is DEF Pairs2
<1>6. B = A \cup {y}
  <2>1. x \in A
    BY <1>1, <1>4
  <2>2. B = A \cup s
    BY <1>1, <1>4
  <2> QED BY <1>5, <2>1, <2>2
<1>7. IsFiniteSet(A) /\ Cardinality(A) <= 2 * Cardinality(R) /\ Cardinality(A) \in Nat
  BY <1>3, <1>4, FS_CardinalityType DEF Covers
<1>8. Cardinality(A \cup {y}) <= Cardinality(A) + 1 /\ Cardinality(A \cup {y}) \in Nat
  <2>1. CASE y \in A
    <3>1. PICK D : D = A \cup {y} /\ D = A
      BY <2>1
    <3>2. Cardinality(D) = Cardinality(A)
      BY <3>1
    <3> QED BY <1>7, <3>1, <3>2
  <2>2. CASE y \notin A
    <3>1. Cardinality(A \cup {y}) = Cardinality(A) + 1
      BY <1>7, <2>2, FS_AddElement
    <3> QED BY <1>7, <3>1
  <2> QED BY <2>1, <2>2
<1>9. Cardinality(B) = Cardinality(ps) * 2
  BY <1>4
<1>10. Cardinality(B) <= 2 * (Cardinality(ps) - 1) + 1
  BY <1>2, <1>6, <1>7, <1>8
<1> QED BY <1>2, <1>9, <1>10

-----------------------------------------------------------------------------
(* Swiss: what a round draws *)

(* The standings of a calendar, all level. *)
AllLevel(e) == [i \in DOMAIN e.ids |-> [id |-> e.ids[i], points |-> 0, seed |-> i,
                                      hadBye |-> e.ids[i] \in e.rested]]

(* The terms of Ranked and SwissRound. *)
AheadOf(standings, i) ==
    {j \in DOMAIN standings :
        \/ standings[j].points > standings[i].points
        \/ /\ standings[j].points = standings[i].points
           /\ standings[j].seed < standings[i].seed}

IdsOf(ranked) == [i \in DOMAIN ranked |-> ranked[i].id]

FieldOf(ranked) ==
    IF Len(ranked) % 2 = 1 THEN RemoveAt(IdsOf(ranked), SwissBye(ranked)) ELSE IdsOf(ranked)

SwissTable(field, round, pairs, i) ==
    IF (round + i) % 2 = 1
    THEN Known(<<"S", round, i>>, field[pairs[i][2]], field[pairs[i][1]])
    ELSE Known(<<"S", round, i>>, field[pairs[i][1]], field[pairs[i][2]])

SwissTables(field, round, pairs) == {SwissTable(field, round, pairs, i) : i \in DOMAIN pairs}

SwissRest(ranked, round) ==
    IF Len(ranked) % 2 = 1
    THEN {Resting(<<"S", round, Len(ranked)>>, IdsOf(ranked)[SwissBye(ranked)])}
    ELSE {}

LEMMA RankedIs ==
    ASSUME NEW standings
    PROVE  Ranked(standings) =
               [r \in DOMAIN standings |->
                   standings[CHOOSE i \in DOMAIN standings :
                                 Cardinality(AheadOf(standings, i)) = r - 1]]
  BY Zenon DEF Ranked, AheadOf

LEMMA SwissRoundIs ==
    ASSUME NEW standings, NEW played, NEW round
    PROVE  SwissRound(standings, played, round) =
               (UNION {SwissTables(FieldOf(Ranked(standings)), round, pairs) :
                          pairs \in SwissPairs(FieldOf(Ranked(standings)), played)})
                 \cup SwissRest(Ranked(standings), round)
  BY Zenon DEF SwissRound, FieldOf, IdsOf, SwissTables, SwissTable, SwissRest

LEMMA SwissPairsIs ==
    ASSUME NEW field, NEW played
    PROVE  SwissPairs(field, played) =
               IF Backtrack(Len(field), Unmet(field, played)) # {}
               THEN Backtrack(Len(field), Unmet(field, played))
               ELSE Backtrack(Len(field), Anybody(field))
  BY Zenon DEF SwissPairs

LEMMA SwissByeIs ==
    ASSUME NEW ranked
    PROVE  SwissBye(ranked) = IF {i \in DOMAIN ranked : ~ranked[i].hadBye} = {} THEN Len(ranked)
                              ELSE Max({i \in DOMAIN ranked : ~ranked[i].hadBye})
  BY Zenon DEF SwissBye

LEMMA DrawnSeq ==
    ASSUME NEW e \in Drawn
    PROVE  \E n \in Nat : /\ n >= 2 /\ DOMAIN e.ids = 1..n /\ Len(e.ids) = n
                          /\ \A i, j \in 1..n : e.ids[i] = e.ids[j] => i = j
                          /\ \A i \in 1..n : e.ids[i] # NoOne
<1>1. e.ids \in Seq(Range(e.ids)) /\ Len(e.ids) >= 2 /\ IsInjective(e.ids) /\ NoOne \notin Range(e.ids)
  BY CalendarAssumption
<1>2. PICK n \in Nat : n = Len(e.ids) /\ DOMAIN e.ids = 1..n
  BY <1>1
<1> QED BY <1>1, <1>2 DEF IsInjective, Range

LEMMA LevelRanked ==
    ASSUME NEW e \in Drawn
    PROVE  Ranked(AllLevel(e)) = AllLevel(e)
<1>1. PICK n \in Nat : n >= 2 /\ DOMAIN e.ids = 1..n
  BY DrawnSeq
<1>2. PICK st : st = AllLevel(e)
  OBVIOUS
<1>3. DOMAIN st = 1..n /\ \A i \in 1..n : st[i].points = 0 /\ st[i].seed = i
  BY <1>1, <1>2 DEF AllLevel
<1>4. ASSUME NEW i \in 1..n PROVE Cardinality(AheadOf(st, i)) = i - 1
  <2>1. AheadOf(st, i) = 1..(i - 1)
    BY <1>3 DEF AheadOf
  <2>2. Cardinality(1..(i - 1)) = i - 1
    <3>1. PICK k \in Nat : k = i - 1
      OBVIOUS
    <3>2. Cardinality(1..k) = IF 1 > k THEN 0 ELSE k - 1 + 1
      BY FS_Interval
    <3> QED BY <3>1, <3>2
  <2> QED BY <2>1, <2>2
<1>5. ASSUME NEW r \in 1..n
      PROVE  (CHOOSE i \in 1..n : Cardinality(AheadOf(st, i)) = r - 1) = r
  <2>1. \A i \in 1..n : Cardinality(AheadOf(st, i)) = r - 1 <=> i = r
    BY <1>4
  <2> QED BY <2>1
<1>6. Ranked(st) = [r \in 1..n |-> st[CHOOSE i \in 1..n : Cardinality(AheadOf(st, i)) = r - 1]]
  BY SMTT(60), ZenonT(60), <1>3, RankedIs
<1>7. Ranked(st) = [r \in 1..n |-> st[r]]
  BY <1>5, <1>6
<1>8. st = [r \in 1..n |-> st[r]]
  BY <1>1, <1>2, <1>3 DEF AllLevel
<1> QED BY <1>2, <1>7, <1>8

LEMMA LastOf ==
    ASSUME NEW S, IsFiniteSet(S), S \subseteq Nat, S # {}
    PROVE  Max(S) \in S
<1>1. PICK n \in S : \A m \in S : m <= n
  BY Greatest
<1>2. \A y \in S : n >= y
  BY <1>1
<1> QED BY <1>2 DEF Max

(* Who rests has not rested, or everybody has. *)
LEMMA RestIs ==
    ASSUME NEW e \in Drawn, NEW n \in Nat, n >= 2, DOMAIN e.ids = 1..n, Len(e.ids) = n,
           NEW b, b = SwissBye(AllLevel(e))
    PROVE  /\ b \in 1..n
           /\ e.ids[b] \in e.rested => \A i \in 1..n : e.ids[i] \in e.rested
<1>1. PICK st : st = AllLevel(e)
  OBVIOUS
<1>2. DOMAIN st = 1..n /\ Len(st) = n /\ \A i \in 1..n : st[i].hadBye = (e.ids[i] \in e.rested)
  BY <1>1 DEF AllLevel
<1>3. PICK F : F = {i \in 1..n : e.ids[i] \notin e.rested}
  OBVIOUS
<1>4. {i \in DOMAIN st : ~st[i].hadBye} = F
  BY <1>2, <1>3
<1>5. b = IF F = {} THEN n ELSE Max(F)
  BY <1>1, <1>2, <1>4, SwissByeIs
<1>6. CASE F = {}
  BY <1>3, <1>5, <1>6
<1>7. CASE F # {}
  <2>1. IsFiniteSet(F) /\ F \subseteq Nat
    <3>1. PICK N : N = 1..n /\ IsFiniteSet(N)
      BY FS_Interval
    <3>2. F \in SUBSET N
      BY <1>3, <3>1
    <3>3. IsFiniteSet(F)
      BY <3>1, <3>2, FS_Subset
    <3> QED BY <1>3, <3>3
  <2>2. b \in F
    BY <1>5, <1>7, <2>1, LastOf
  <2> QED BY <1>3, <2>2
<1> QED BY <1>6, <1>7

(* The field holds every entrant once, but for who rests. *)
IsFieldOf(f, m, e) ==
    /\ f \in Seq(Range(e.ids)) /\ m \in Nat /\ Len(f) = m /\ m % 2 = 0
    /\ \A i, j \in 1..m : f[i] = f[j] => i = j

Resters(e) ==
    IF Len(e.ids) % 2 = 1 THEN {e.ids[SwissBye(AllLevel(e))]} ELSE {}

Fills(f, S) == S = {f[i] : i \in 1..Len(f)}

LEMMA FieldIs ==
    ASSUME NEW e \in Drawn, NEW f, f = FieldOf(AllLevel(e))
    PROVE  /\ IsFieldOf(f, Len(f), e)
           /\ Fills(f, Range(e.ids) \ Resters(e))
           /\ Resters(e) \subseteq Range(e.ids)
<1>1. PICK n \in Nat : /\ n >= 2 /\ DOMAIN e.ids = 1..n /\ Len(e.ids) = n
                       /\ \A i, j \in 1..n : e.ids[i] = e.ids[j] => i = j
  BY DrawnSeq
<1>2. PICK R, ids : R = Range(e.ids) /\ ids = e.ids /\ ids \in Seq(R)
  BY CalendarAssumption
<1>3. Len(AllLevel(e)) = n /\ IdsOf(AllLevel(e)) = ids
  <2>1. DOMAIN AllLevel(e) = 1..n /\ Len(AllLevel(e)) = n /\ \A i \in 1..n : AllLevel(e)[i].id = ids[i]
    BY <1>1, <1>2 DEF AllLevel
  <2>2. ids = [i \in 1..n |-> ids[i]]
    BY <1>1, <1>2
  <2> QED BY <2>1, <2>2 DEF IdsOf
<1>4. R = {ids[i] : i \in 1..n}
  BY <1>1, <1>2 DEF Range
<1>5. CASE n % 2 = 0
  <2>1. f = ids /\ Resters(e) = {}
    BY <1>1, <1>3, <1>5 DEF FieldOf, Resters
  <2>2. f \in Seq(R) /\ Len(f) = n
    BY <1>1, <1>2, <2>1
  <2>3. \A i, j \in 1..n : f[i] = f[j] => i = j
    BY <1>1, <1>2, <2>1
  <2>4. {f[i] : i \in 1..n} = R \ {}
    BY <1>4, <2>1
  <2> QED BY <1>2, <1>5, <2>1, <2>2, <2>3, <2>4 DEF IsFieldOf, Fills
<1>6. CASE n % 2 = 1
  <2>1. PICK b : b = SwissBye(AllLevel(e))
    OBVIOUS
  <2>2. b \in 1..n
    BY <1>1, <2>1, RestIs
  <2>3. f = RemoveAt(ids, b) /\ Resters(e) = {ids[b]}
    BY <1>1, <1>2, <1>3, <1>6, <2>1 DEF FieldOf, Resters
  <2>4. /\ SubSeq(ids, 1, b - 1) \in Seq(R) /\ Len(SubSeq(ids, 1, b - 1)) = b - 1
        /\ \A i \in 1..(b - 1) : SubSeq(ids, 1, b - 1)[i] = ids[i]
    BY <1>1, <1>2, <2>2
  <2>5. /\ SubSeq(ids, b + 1, n) \in Seq(R) /\ Len(SubSeq(ids, b + 1, n)) = n - b
        /\ \A i \in 1..(n - b) : SubSeq(ids, b + 1, n)[i] = ids[b + i]
    BY <1>1, <1>2, <2>2
  <2>6. PICK u, w : u = SubSeq(ids, 1, b - 1) /\ w = SubSeq(ids, b + 1, n)
    OBVIOUS
  <2>7. f = u \o w
    BY <1>1, <1>2, <2>3, <2>6 DEF RemoveAt
  <2>8. /\ f \in Seq(R) /\ Len(f) = n - 1
        /\ \A i \in 1..(n - 1) : f[i] = IF i < b THEN ids[i] ELSE ids[i + 1]
    <3>1. u \in Seq(R) /\ w \in Seq(R) /\ Len(u) = b - 1 /\ Len(w) = n - b
      BY <2>4, <2>5, <2>6
    <3>2. f \in Seq(R) /\ Len(f) = n - 1
      <4>1. u \o w \in Seq(R) /\ Len(u \o w) = Len(u) + Len(w)
        BY <3>1
      <4>2. Len(u) + Len(w) = n - 1
        BY <2>2, <3>1
      <4> QED BY <2>7, <4>1, <4>2
    <3>3. ASSUME NEW i \in 1..(n - 1) PROVE f[i] = IF i < b THEN ids[i] ELSE ids[i + 1]
      <4>1. CASE i < b
        <5>1. i \in 1..(b - 1)
          BY <2>2, <4>1
        <5>2. f[i] = u[i]
          BY <2>7, <3>1, <5>1
        <5> QED BY <2>4, <2>6, <4>1, <5>1, <5>2
      <4>2. CASE ~(i < b)
        <5>1. PICK k \in 1..(n - b) : i = (b - 1) + k /\ i + 1 = b + k
          <6>1. i - (b - 1) \in 1..(n - b)
            BY <2>2, <4>2
          <6>2. i = (b - 1) + (i - (b - 1)) /\ i + 1 = b + (i - (b - 1))
            BY <2>2
          <6> QED BY <6>1, <6>2
        <5>2. (u \o w)[Len(u) + k] = w[k]
          BY <2>2, <3>1
        <5>3. i = Len(u) + k
          BY <3>1, <5>1
        <5>4. f[i] = w[k]
          BY <2>7, <5>2, <5>3
        <5> QED BY <2>5, <2>6, <4>2, <5>1, <5>4
      <4> QED BY <4>1, <4>2
    <3> QED BY <3>2, <3>3
  <2>9. (n - 1) % 2 = 0 /\ n - 1 \in Nat
    <3>1. PICK h \in Nat : n = 2 * h + 1
      <4>1. n = 2 * (n \div 2) + 1 /\ n \div 2 \in Nat
        BY <1>6
      <4> QED BY <4>1
    <3>2. n - 1 = 2 * h /\ (2 * h) % 2 = 0
      BY <3>1
    <3> QED BY <3>2
  <2>10. ASSUME NEW i \in 1..(n - 1), NEW j \in 1..(n - 1), f[i] = f[j] PROVE i = j
    <3>1. PICK k \in 1..n : k = (IF i < b THEN i ELSE i + 1) /\ f[i] = ids[k]
      BY <2>2, <2>8
    <3>2. PICK l \in 1..n : l = (IF j < b THEN j ELSE j + 1) /\ f[j] = ids[l]
      BY <2>2, <2>8
    <3>3. k = l
      BY <1>1, <1>2, <2>10, <3>1, <3>2
    <3> QED BY <2>2, <3>1, <3>2, <3>3
  <2>11. {f[i] : i \in 1..(n - 1)} = R \ {ids[b]}
    <3>1. ASSUME NEW i \in 1..(n - 1) PROVE f[i] \in R /\ f[i] # ids[b]
      <4>1. CASE i < b
        <5>1. i \in 1..n /\ i # b /\ f[i] = ids[i]
          BY <2>2, <2>8, <4>1
        <5> QED BY <1>1, <1>2, <1>4, <2>2, <5>1
      <4>2. CASE ~(i < b)
        <5>1. i + 1 \in 1..n /\ i + 1 # b /\ f[i] = ids[i + 1]
          BY <2>2, <2>8, <4>2
        <5> QED BY <1>1, <1>2, <1>4, <2>2, <5>1
      <4> QED BY <4>1, <4>2
    <3>2. ASSUME NEW x \in R \ {ids[b]} PROVE \E i \in 1..(n - 1) : x = f[i]
      <4>1. PICK j \in 1..n : x = ids[j] /\ j # b
        BY <1>4
      <4>2. CASE j < b
        <5>1. j \in 1..(n - 1)
          BY <2>2, <4>2
        <5> QED BY <2>8, <4>1, <4>2, <5>1
      <4>3. CASE j > b
        <5>1. PICK i \in 1..(n - 1) : i + 1 = j /\ ~(i < b)
          <6>1. j - 1 \in 1..(n - 1) /\ (j - 1) + 1 = j /\ ~(j - 1 < b)
            BY <2>2, <4>3
          <6> QED BY <6>1
        <5> QED BY <2>8, <4>1, <5>1
      <4> QED BY <2>2, <4>1, <4>2, <4>3
    <3> QED BY <3>1, <3>2
  <2>12. ids[b] \in R
    BY <1>4, <2>2
  <2> QED BY <1>2, <2>3, <2>8, <2>9, <2>10, <2>11, <2>12 DEF IsFieldOf, Fills
<1>7. n % 2 = 0 \/ n % 2 = 1
  OBVIOUS
<1> QED BY <1>5, <1>6, <1>7

(* Any two places of the field. *)
LEMMA AnybodyIs ==
    ASSUME NEW f, NEW m \in Nat, DOMAIN f = 1..m, NEW x \in 1..m, NEW y \in 1..m, x # y
    PROVE  {x, y} \in Anybody(f)
<1>1. Pair2({x, y})
  BY PairOf
<1>2. {x, y} \in SUBSET (1..m)
  OBVIOUS
<1> QED BY <1>1, <1>2 DEF Anybody, kSubset, Pair2

LEMMA NumbersTo ==
    ASSUME NEW m \in Nat
    PROVE  IsNumbers(1..m)
<1>1. IsFiniteSet(1..m)
  BY FS_Interval
<1>2. 1..m \subseteq Nat
  OBVIOUS
<1> QED BY <1>1, <1>2 DEF IsNumbers

(* Neighbours can always be paired. *)
LEMMA NeighboursPair ==
    ASSUME NEW f, NEW m \in Nat, DOMAIN f = 1..m, m % 2 = 0
    PROVE  Paired(Anybody(f), 1..m) # {}
<1>1. PICK mate : mate = [x \in 1..m |-> IF x % 2 = 1 THEN x + 1 ELSE x - 1]
  OBVIOUS
<1>2. ASSUME NEW x \in 1..m
      PROVE  mate[x] \in 1..m /\ mate[x] # x /\ mate[mate[x]] = x /\ {x, mate[x]} \in Anybody(f)
  <2>1. CASE x % 2 = 1
    <3>1. x + 1 \in 1..m /\ (x + 1) % 2 = 0 /\ (x + 1) - 1 = x
      BY <2>1
    <3>2. mate[x] = x + 1 /\ mate[x + 1] = x
      BY <1>1, <2>1, <3>1
    <3> QED BY <3>1, <3>2, AnybodyIs
  <2>2. CASE x % 2 # 1
    <3>1. x - 1 \in 1..m /\ (x - 1) % 2 = 1 /\ (x - 1) + 1 = x
      BY <2>2
    <3>2. mate[x] = x - 1 /\ mate[x - 1] = x
      BY <1>1, <2>2, <3>1
    <3> QED BY <3>1, <3>2, AnybodyIs
  <2> QED BY <2>1, <2>2
<1>3. IsNumbers(1..m)
  BY NumbersTo
<1>4. Mates(mate, 1..m, Anybody(f))
  BY <1>2 DEF Mates
<1> QED BY <1>3, <1>4, FoundIfAny

-----------------------------------------------------------------------------
(* Swiss: how a round seats its field *)

(* The tables of A are the pairs q of the places of field f. *)
IsSwissDraw(e, f, q, suited, A) ==
    /\ A = SwissTables(f, 1, q) \cup SwissRest(AllLevel(e), 1)
    /\ PairsUp(q, 1..Len(f), suited)
    /\ Paired(Unmet(f, e.played), 1..Len(f)) # {} => suited = Unmet(f, e.played)

LEMMA SwissDrawn ==
    ASSUME NEW e \in Drawn, e.format = "swiss", NEW A, A = Draw(e), NEW f, f = FieldOf(AllLevel(e))
    PROVE  \E q, suited : IsSwissDraw(e, f, q, suited, A)
<1>1. PICK st : st = AllLevel(e) /\ Ranked(st) = st
  BY LevelRanked
<1>2. A = SwissRound(st, e.played, 1)
  BY <1>1 DEF Draw, AllLevel
<1>3. PICK Q : Q = SwissPairs(f, e.played)
  OBVIOUS
<1>4. A = (UNION {SwissTables(f, 1, pairs) : pairs \in Q}) \cup SwissRest(st, 1)
  BY <1>1, <1>2, <1>3, SwissRoundIs
<1>5. PICK m \in Nat : m = Len(f) /\ DOMAIN f = 1..m /\ m % 2 = 0
  <2>1. IsFieldOf(f, Len(f), e)
    BY FieldIs
  <2> QED BY <2>1 DEF IsFieldOf
<1>6. PICK fresh : fresh = Paired(Unmet(f, e.played), 1..m)
  OBVIOUS
<1>7. Q = IF fresh # {} THEN fresh ELSE Paired(Anybody(f), 1..m)
  BY <1>3, <1>5, <1>6, SwissPairsIs, BacktrackIs
<1>8. IsNumbers(1..m)
  BY NumbersTo
<1>9. ASSUME NEW suited, Q = Paired(suited, 1..m), Q # {}, fresh # {} => suited = Unmet(f, e.played)
      PROVE  \E q, s : IsSwissDraw(e, f, q, s, A)
  <2>1. PICK q : Q = {q}
    <3>1. PICK q \in Q : TRUE
      BY <1>9
    <3>2. ASSUME NEW r \in Q PROVE r = q
      <4>1. q \in Paired(suited, 1..m) /\ r \in Paired(suited, 1..m)
        BY <1>9
      <4> QED BY <1>8, <4>1, FoundOnce
    <3>3. Q = {q}
      BY <3>1, <3>2
    <3> QED BY <3>3
  <2>2. PairsUp(q, 1..m, suited)
    BY <1>8, <1>9, <2>1, FoundPairsUp
  <2>3. A = SwissTables(f, 1, q) \cup SwissRest(st, 1)
    BY <1>4, <2>1
  <2>4. IsSwissDraw(e, f, q, suited, A)
    BY <1>1, <1>5, <1>6, <1>9, <2>2, <2>3 DEF IsSwissDraw
  <2> QED BY <2>4
<1>10. CASE fresh # {}
  <2>1. Q = Paired(Unmet(f, e.played), 1..m) /\ Q # {}
    BY <1>6, <1>7, <1>10
  <2> QED BY <1>9, <2>1
<1>11. CASE fresh = {}
  <2>1. Q = Paired(Anybody(f), 1..m) /\ Q # {}
    BY <1>5, <1>7, <1>11, NeighboursPair
  <2> QED BY <1>9, <1>11, <2>1
<1> QED BY <1>10, <1>11

(* The two names of table i. *)
NamesAt(f, q, i) == {f[q[i][1]], f[q[i][2]]}

LEMMA SwissTableIs ==
    ASSUME NEW f, NEW q, NEW i, NoOne \notin NamesAt(f, q, i), NEW p, p = SwissTable(f, 1, q, i)
    PROVE  Present(p) = NamesAt(f, q, i) /\ ~p.bye
<1>1. CASE (1 + i) % 2 = 1
  <2>1. p = Known(<<"S", 1, i>>, f[q[i][2]], f[q[i][1]])
    BY <1>1 DEF SwissTable
  <2>2. p.home = f[q[i][2]] /\ p.away = f[q[i][1]] /\ p.bye = FALSE
    BY <2>1 DEF Known
  <2> QED BY <2>2 DEF Present, NamesAt
<1>2. CASE (1 + i) % 2 # 1
  <2>1. p = Known(<<"S", 1, i>>, f[q[i][1]], f[q[i][2]])
    BY <1>2 DEF SwissTable
  <2>2. p.home = f[q[i][1]] /\ p.away = f[q[i][2]] /\ p.bye = FALSE
    BY <2>1 DEF Known
  <2> QED BY <2>2 DEF Present, NamesAt
<1> QED BY <1>1, <1>2

LEMMA SwissRestIs ==
    ASSUME NEW e \in Drawn
    PROVE  /\ Resters(e) = {} => SwissRest(AllLevel(e), 1) = {}
           /\ \A x \in Resters(e) : \E p : /\ SwissRest(AllLevel(e), 1) = {p}
                                         /\ Present(p) = {x} /\ p.home = x /\ p.bye
<1>1. PICK n \in Nat : /\ n >= 2 /\ DOMAIN e.ids = 1..n /\ Len(e.ids) = n
                       /\ \A i \in 1..n : e.ids[i] # NoOne
  BY DrawnSeq
<1>2. PICK st, b : st = AllLevel(e) /\ b = SwissBye(st)
  OBVIOUS
<1>3. Len(st) = n /\ DOMAIN st = 1..n /\ \A i \in 1..n : st[i].id = e.ids[i]
  BY <1>1, <1>2 DEF AllLevel
<1>4. b \in 1..n
  BY <1>1, <1>2, RestIs
<1>5. IdsOf(st)[b] = e.ids[b]
  BY <1>3, <1>4 DEF IdsOf
<1>6. CASE n % 2 = 1
  <2>1. Resters(e) = {e.ids[b]}
    BY <1>1, <1>2, <1>6 DEF Resters
  <2>2. PICK p : p = Resting(<<"S", 1, n>>, e.ids[b])
    OBVIOUS
  <2>3. SwissRest(st, 1) = {p}
    BY <1>3, <1>2, <1>5, <1>6, <2>2 DEF SwissRest
  <2>4. p.home = e.ids[b] /\ p.away = NoOne /\ p.bye = TRUE
    BY <2>2 DEF Resting, Known
  <2>5. Present(p) = {e.ids[b]}
    BY <1>1, <1>4, <2>4 DEF Present
  <2> QED BY <1>2, <2>1, <2>3, <2>4, <2>5
<1>7. CASE n % 2 # 1
  BY <1>1, <1>2, <1>3, <1>7 DEF Resters, SwissRest
<1> QED BY <1>6, <1>7

(* Everybody in the field is at one table; nobody else is at any. *)
LEMMA FieldSeated ==
    ASSUME NEW e \in Drawn, NEW f, f = FieldOf(AllLevel(e)), NEW q, NEW suited, NEW A,
           IsSwissDraw(e, f, q, suited, A)
    PROVE  /\ \A i \in 1..Len(q) : /\ NamesAt(f, q, i) \subseteq Range(e.ids) \ Resters(e)
                                   /\ NoOne \notin NamesAt(f, q, i)
           /\ \A x \in Range(e.ids) \ Resters(e) : \E i \in 1..Len(q) :
                  x \in NamesAt(f, q, i) /\ \A j \in 1..Len(q) : x \in NamesAt(f, q, j) => j = i
<1>1. PICK m \in Nat : m = Len(f) /\ \A i, j \in 1..m : f[i] = f[j] => i = j
  BY FieldIs DEF IsFieldOf
<1>2. PICK R : R = Range(e.ids) \ Resters(e) /\ Fills(f, R)
  BY FieldIs
<1>3. NoOne \notin R
  BY <1>2, CalendarAssumption
<1>4. PairsUp(q, 1..m, suited)
  BY <1>1 DEF IsSwissDraw
<1>5. PICK k \in Nat : k = Len(q)
  BY <1>4 DEF PairsUp
<1>6. ASSUME NEW i \in 1..k PROVE q[i][1] \in 1..m /\ q[i][2] \in 1..m
  <2>1. q[i] \in (1..m) \X (1..m)
    BY <1>4, <1>5 DEF PairsUp
  <2> QED BY <2>1
<1>7. ASSUME NEW i \in 1..k PROVE NamesAt(f, q, i) \subseteq R
  BY <1>1, <1>2, <1>6 DEF NamesAt, Fills
<1>8. ASSUME NEW i \in 1..k, NEW x \in 1..m PROVE f[x] \in NamesAt(f, q, i) => x \in Two(q, i)
  BY <1>1, <1>6 DEF NamesAt, Two
<1>9. ASSUME NEW x \in 1..m
      PROVE  \E i \in 1..k : f[x] \in NamesAt(f, q, i) /\ \A j \in 1..k : f[x] \in NamesAt(f, q, j) => j = i
  <2>1. PICK i \in 1..k : x \in Two(q, i)
    BY SMTT(60), ZenonT(60), <1>4, <1>5 DEF PairsUp
  <2>2. f[x] \in NamesAt(f, q, i)
    BY <2>1 DEF NamesAt, Two
  <2>3. ASSUME NEW j \in 1..k, f[x] \in NamesAt(f, q, j) PROVE j = i
    <3>1. x \in Two(q, j)
      BY <1>8, <2>3
    <3> QED BY <1>4, <1>5, <2>1, <3>1 DEF PairsUp
  <2> QED BY <2>2, <2>3
<1>10. ASSUME NEW x \in R
       PROVE  \E i \in 1..k : x \in NamesAt(f, q, i) /\ \A j \in 1..k : x \in NamesAt(f, q, j) => j = i
  <2>1. PICK y \in 1..m : x = f[y]
    BY <1>1, <1>2 DEF Fills
  <2> QED BY <1>9, <2>1
<1> QED BY <1>2, <1>3, <1>5, <1>7, <1>10

(* Whoever pairs the field with what suits finds it. *)
LEMMA FreshFound ==
    ASSUME NEW e \in Drawn, NEW f, f = FieldOf(AllLevel(e)), NEW S, Fills(f, S),
           NEW ps, IsFiniteSet(ps), Pairs2(ps), UNION ps = S, ps \cap e.played = {},
           Cardinality(UNION ps) = Cardinality(ps) * 2
    PROVE  Paired(Unmet(f, e.played), 1..Len(f)) # {}
<1>1. PICK m \in Nat : /\ m = Len(f) /\ DOMAIN f = 1..m
                       /\ \A i, j \in 1..m : f[i] = f[j] => i = j
  <2>1. IsFieldOf(f, Len(f), e)
    BY FieldIs
  <2> QED BY <2>1 DEF IsFieldOf
<1>2. S = {f[i] : i \in 1..m}
  BY <1>1 DEF Fills
<1>3. ASSUME NEW x \in 1..m PROVE \E y \in 1..m : y # x /\ {f[x], f[y]} \in ps
  <2>1. PICK s \in ps : f[x] \in s
    BY <1>2
  <2>2. PICK z \in s : z # f[x] /\ s = {f[x], z}
    BY <2>1, Pair2Is DEF Pairs2
  <2>3. PICK y \in 1..m : z = f[y]
    BY <1>2, <2>1, <2>2
  <2> QED BY <2>1, <2>2, <2>3
<1>4. PICK mate : mate = [x \in 1..m |-> CHOOSE y \in 1..m : y # x /\ {f[x], f[y]} \in ps]
  OBVIOUS
<1>5. ASSUME NEW x \in 1..m PROVE mate[x] \in 1..m /\ mate[x] # x /\ {f[x], f[mate[x]]} \in ps
  BY <1>3, <1>4
<1>6. ASSUME NEW x \in 1..m PROVE mate[mate[x]] = x
  <2>1. PICK y \in 1..m : y = mate[x] /\ y # x /\ {f[x], f[y]} \in ps
    BY <1>5
  <2>2. PICK z \in 1..m : z = mate[y] /\ z # y /\ {f[y], f[z]} \in ps
    BY <1>5
  <2>3. PICK s \in ps, t \in ps : s = {f[x], f[y]} /\ t = {f[y], f[z]}
    BY <2>1, <2>2
  <2>4. s = t
    <3>1. f[y] \in s /\ f[y] \in t
      BY <2>3
    <3> QED BY <3>1, PairsApart
  <2>5. f[z] # f[y] /\ f[z] \in s
    BY <1>1, <2>2, <2>3, <2>4
  <2>6. f[z] = f[x]
    BY <2>3, <2>5
  <2> QED BY <1>1, <2>1, <2>2, <2>6
<1>7. ASSUME NEW x \in 1..m PROVE {x, mate[x]} \in Unmet(f, e.played)
  <2>1. PICK y \in 1..m : y = mate[x] /\ y # x /\ {f[x], f[y]} \in ps
    BY <1>5
  <2>2. {x, y} \in Anybody(f)
    BY <1>1, <2>1, AnybodyIs
  <2>3. {f[i] : i \in {x, y}} = {f[x], f[y]}
    OBVIOUS
  <2>4. {f[x], f[y]} \notin e.played
    BY <2>1
  <2> QED BY <2>1, <2>2, <2>3, <2>4 DEF Unmet
<1>8. Mates(mate, 1..m, Unmet(f, e.played))
  BY <1>5, <1>6, <1>7 DEF Mates
<1> QED BY <1>1, <1>8, NumbersTo, FoundIfAny

(* The terms of SwissRoundFair. *)
PlayedIn(A) == {p \in A : ~p.bye}
SeatedIn(A) == UNION {Present(p) : p \in PlayedIn(A)}
RivalsIn(A) == {Present(p) : p \in PlayedIn(A)}
PairsIn(A) == {s \in SUBSET SeatedIn(A) : Cardinality(s) = 2}

SeatsAll(e, A) ==
    /\ \A x \in Range(e.ids) : Cardinality({p \in A : x \in Present(p)}) = 1
    /\ (\E ps \in kSubset(Cardinality(PlayedIn(A)), PairsIn(A) \ e.played) :
            Cardinality(ps) * 2 = Cardinality(SeatedIn(A)) /\ UNION ps = SeatedIn(A))
           => RivalsIn(A) \cap e.played = {}
    /\ \A p \in A : p.bye /\ p.home \in e.rested => Range(e.ids) \subseteq e.rested

LEMMA SwissRoundFairIs ==
    SwissRoundFair <=> (entered.format = "swiss" => SeatsAll(entered, calendar))
  BY Zenon DEF SwissRoundFair, SeatsAll, PlayedIn, SeatedIn, RivalsIn, PairsIn, Entrants

LEMMA SwissSeatsAll ==
    ASSUME NEW e \in Drawn, e.format = "swiss", NEW A, A = Draw(e)
    PROVE  SeatsAll(e, A)
<1>1. PICK f : f = FieldOf(AllLevel(e))
  OBVIOUS
<1>2. PICK q, suited : IsSwissDraw(e, f, q, suited, A)
  BY <1>1, SwissDrawn
<1>3. PICK E, S, R : E = Range(e.ids) /\ S = E \ R /\ R = Resters(e)
  OBVIOUS
<1>4. PICK n \in Nat : /\ n >= 2 /\ DOMAIN e.ids = 1..n /\ Len(e.ids) = n
  BY DrawnSeq
<1>5. PICK k \in Nat : k = Len(q) /\ DOMAIN q = 1..k
  BY <1>2 DEF IsSwissDraw, PairsUp
<1>6. ASSUME NEW i \in 1..k PROVE NamesAt(f, q, i) \subseteq S /\ NoOne \notin NamesAt(f, q, i)
  BY <1>1, <1>2, <1>3, <1>5, FieldSeated
<1>7. ASSUME NEW x \in S
      PROVE  \E i \in 1..k : x \in NamesAt(f, q, i) /\ \A j \in 1..k : x \in NamesAt(f, q, j) => j = i
  BY <1>1, <1>2, <1>3, <1>5, FieldSeated
<1>8. PICK T, Z : /\ A = T \cup Z /\ Z = SwissRest(AllLevel(e), 1)
                  /\ T = {SwissTable(f, 1, q, i) : i \in 1..k}
  BY <1>2, <1>5 DEF IsSwissDraw, SwissTables
<1>9. ASSUME NEW i \in 1..k, NEW p, p = SwissTable(f, 1, q, i)
      PROVE  p \in T /\ Present(p) = NamesAt(f, q, i) /\ ~p.bye
  BY <1>6, <1>8, <1>9, SwissTableIs
<1>10. ASSUME NEW p \in T PROVE \E i \in 1..k : p = SwissTable(f, 1, q, i) /\ Present(p) = NamesAt(f, q, i) /\ ~p.bye
  BY <1>8, <1>9
<1>11. ASSUME NEW p \in Z PROVE p.bye /\ Present(p) \subseteq R /\ p.home \in R
  BY <1>3, <1>8, SwissRestIs
<1>12. PlayedIn(A) = T
  BY <1>8, <1>10, <1>11 DEF PlayedIn
<1>13. SeatedIn(A) = S
  <2>1. ASSUME NEW p \in T PROVE Present(p) \subseteq S
    BY <1>6, <1>10
  <2>2. ASSUME NEW x \in S PROVE \E p \in T : x \in Present(p)
    BY <1>7, <1>9
  <2> QED BY <1>12, <2>1, <2>2 DEF SeatedIn
<1>14. ASSUME NEW x \in E PROVE Cardinality({p \in A : x \in Present(p)}) = 1
  <2>1. PICK P : P = {p \in A : x \in Present(p)}
    OBVIOUS
  <2>2. CASE x \in R
    <3>1. PICK p : Z = {p} /\ Present(p) = {x}
      BY <1>3, <1>8, <2>2, SwissRestIs
    <3>2. ASSUME NEW r \in T PROVE x \notin Present(r)
      BY <1>3, <1>6, <1>10, <2>2
    <3>3. P = {p}
      BY <1>8, <2>1, <3>1, <3>2
    <3> QED BY <2>1, <3>3, FS_Singleton
  <2>3. CASE x \notin R
    <3>1. PICK i \in 1..k : x \in NamesAt(f, q, i) /\ \A j \in 1..k : x \in NamesAt(f, q, j) => j = i
      BY <1>3, <1>7, <2>3
    <3>2. PICK p : p = SwissTable(f, 1, q, i)
      OBVIOUS
    <3>3. p \in T /\ x \in Present(p)
      BY <1>9, <3>1, <3>2
    <3>4. ASSUME NEW r \in T, x \in Present(r) PROVE r = p
      BY <1>10, <3>1, <3>2, <3>4
    <3>5. ASSUME NEW r \in Z PROVE x \notin Present(r)
      BY <1>11, <2>3
    <3>6. P = {p}
      BY <1>8, <2>1, <3>3, <3>4, <3>5
    <3> QED BY <2>1, <3>6, FS_Singleton
  <2> QED BY <2>2, <2>3
<1>15. ASSUME NEW ps \in kSubset(Cardinality(PlayedIn(A)), PairsIn(A) \ e.played),
              Cardinality(ps) * 2 = Cardinality(SeatedIn(A)), UNION ps = SeatedIn(A)
       PROVE  RivalsIn(A) \cap e.played = {}
  <2>1. IsFiniteSet(S)
    <3>1. IsFiniteSet(1..n)
      BY FS_Interval
    <3>2. IsFiniteSet(E)
      <4>1. PICK ids, N : ids = e.ids /\ N = 1..n
        OBVIOUS
      <4>2. E = {ids[i] : i \in N}
        BY <1>3, <1>4, <4>1 DEF Range
      <4>3. ids \in [N -> E]
        <5>1. ids \in Seq(E)
          BY <1>3, <4>1, CalendarAssumption
        <5> QED BY <1>4, <4>1, <5>1
      <4>4. ids \in Surjection(N, E)
        BY <4>2, <4>3 DEF Surjection
      <4> QED BY <3>1, <4>1, <4>4, FS_Surjection
    <3> QED BY <1>3, <3>2, FS_Subset
  <2>2. \A s \in ps : s \in SUBSET S /\ Cardinality(s) = 2 /\ s \notin e.played
    BY <1>13 DEF kSubset, PairsIn
  <2>3. Pairs2(ps)
    BY <2>1, <2>2, FS_Subset DEF Pairs2, Pair2
  <2>4. IsFiniteSet(ps)
    <3>1. IsFiniteSet(SUBSET S) /\ ps \in SUBSET SUBSET S
      BY <2>1, <2>2, FS_SUBSET
    <3> QED BY <3>1, FS_Subset
  <2>5. UNION ps = S /\ Cardinality(UNION ps) = Cardinality(ps) * 2 /\ ps \cap e.played = {}
    BY <1>13, <1>15, <2>2
  <2>6. Fills(f, S)
    BY <1>1, <1>3, FieldIs
  <2>7. Paired(Unmet(f, e.played), 1..Len(f)) # {}
    BY <1>1, <2>3, <2>4, <2>5, <2>6, FreshFound
  <2>8. suited = Unmet(f, e.played) /\ PairsUp(q, 1..Len(f), suited)
    BY <1>2, <2>7 DEF IsSwissDraw
  <2>9. ASSUME NEW i \in 1..k PROVE NamesAt(f, q, i) \notin e.played
    <3>1. Two(q, i) \in Unmet(f, e.played)
      BY <1>5, <2>8 DEF PairsUp
    <3>2. {f[j] : j \in Two(q, i)} \notin e.played
      BY <3>1 DEF Unmet
    <3>3. {f[j] : j \in Two(q, i)} = NamesAt(f, q, i)
      BY DEF Two, NamesAt
    <3> QED BY <3>2, <3>3
  <2> QED BY <1>10, <1>12, <2>9 DEF RivalsIn
<1>16. ASSUME NEW p \in A, p.bye, p.home \in e.rested PROVE E \subseteq e.rested
  <2>1. p \in Z /\ p.home \in R
    BY <1>8, <1>10, <1>11, <1>16
  <2>2. PICK b : b = SwissBye(AllLevel(e))
    OBVIOUS
  <2>3. p.home = e.ids[b]
    BY <1>3, <2>1, <2>2 DEF Resters
  <2>4. \A i \in 1..n : e.ids[i] \in e.rested
    BY <1>4, <1>16, <2>2, <2>3, RestIs
  <2> QED BY <1>3, <1>4, <2>4 DEF Range
<1> QED BY <1>3, <1>14, <1>15, <1>16 DEF SeatsAll

(* A swiss round seats everybody once; two rivals meet again only if there *)
(* is no way to seat everybody otherwise, and who rests has rested before  *)
(* only if everybody has (generateSwissRound), for any number of entrants  *)
(* and whatever was played.                                                *)
THEOREM SeatsFairly == CalendarSpec => []SwissRoundFair
<1>1. KeepsDraw => SwissRoundFair
  <2> SUFFICES ASSUME KeepsDraw, entered.format = "swiss" PROVE SeatsAll(entered, calendar)
    BY SwissRoundFairIs
  <2>1. PICK e \in Drawn : e = entered /\ e.format = "swiss" /\ calendar = Draw(e)
    BY DEF KeepsDraw
  <2>2. PICK A : A = calendar
    OBVIOUS
  <2>3. SeatsAll(e, A)
    BY <2>1, <2>2, SwissSeatsAll
  <2> QED BY <2>1, <2>2, <2>3
<1> QED BY <1>1, DrawKept, PTL
=============================================================================
