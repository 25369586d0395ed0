------------------------ MODULE StreamSupervisorProofs ------------------------
(***************************************************************************)
(* Theorems about StreamSupervisor, for every number of retries, launches  *)
(* and orders.  The methods of the code are operators on the whole object, *)
(* so the invariant is stated of an object (Good), each method has a lemma *)
(* that says what it makes of one, and the steps only compose them.        *)
(***************************************************************************)
EXTENDS StreamSupervisor, TLAPS

Supervisors ==
    [state : {"idle", "streaming", "retrying", "stopped", "failed"},
     generation : 0..MaxGeneration, attempts : Nat,
     current : [Kind -> Generation \cup {0}],
     order : [mode : {"rtmps", "record"}, key : BOOLEAN, ingest : BOOLEAN]]

Children == [Kind -> [Generation -> {"none", "live", "flowing", "told", "gone"}]]

Modes == [Generation -> {"none", "rtmps", "record"}]

Object == [sup : Supervisors, child : Children, mode : Modes, asleep : SUBSET Nat]

Shaped(s) == s \in Object /\ s.asleep \subseteq 1..s.sup.generation

(* What runs is what the object points to, so that it can stop it. *)
Covered(s) == \A k \in Kind, g \in Generation : s.child[k][g] \in Running => s.sup.current[k] = g

Quiet(s) == \A k \in Kind, g \in Generation : s.child[k][g] \notin Running

Bounded(s) ==
    /\ s.sup.attempts <= MaxRetries \/ s.sup.state \in {"failed", "stopped"}
    /\ s.sup.generation = 0 => s.sup.state = "idle"

Single(s) ==
    /\ \A k \in Kind, g \in Generation : s.child[k][g] \in Running =>
          s.sup.state = "streaming" /\ g = s.sup.generation /\ s.sup.current[k] = g
    /\ (s.sup.state = "retrying") <=> (s.sup.generation \in s.asleep)

Alive(s) ==
    s.sup.state = "streaming" =>
       \A k \in IF s.sup.order.mode = "rtmps" THEN Kind ELSE Kind \ {"publisher"} :
          s.child[k][s.sup.generation] \in Running

Good(s) == Shaped(s) /\ Bounded(s) /\ Single(s) /\ Alive(s)

(* A launch goes on with the attempts there were, or has used up one more; *)
(* the modes of the other launches stay.                                   *)
Counts(s, t) ==
    /\ \/ /\ t.sup.state \in {"streaming", "failed"}
          /\ t.sup.attempts = s.sup.attempts /\ t.sup.generation = s.sup.generation
       \/ /\ t.sup.state \in {"retrying", "failed"}
          /\ t.sup.attempts = s.sup.attempts + 1
          /\ t.sup.generation = s.sup.generation + 1
    /\ \A g \in Generation : g # s.sup.generation => t.mode[g] = s.mode[g]

(* The record of the four parts of an object. *)
Record(a, b, c, d) == [sup |-> a, child |-> b, mode |-> c, asleep |-> d]

(* What the handlers change of an object before the methods. *)
ChildBecomes(s, k, g, value) == [s EXCEPT !.child[k][g] = value]

Awake(s, g) == [s EXCEPT !.asleep = @ \ {g}]

Ordered(s, order) ==
    [s EXCEPT !.sup.attempts = 0, !.sup.order = order, !.sup.state = "streaming"]

-----------------------------------------------------------------------------
(* Methods *)

LEMMA IsRecord ==
  ASSUME NEW s \in Object
  PROVE  s = Record(s.sup, s.child, s.mode, s.asleep)
BY DEF Object, Record

LEMMA RecordIsObject ==
  ASSUME NEW a \in Supervisors, NEW b \in Children, NEW c \in Modes, NEW d \in SUBSET Nat
  PROVE  Record(a, b, c, d) \in Object
BY DEF Record, Object

(* stopProcesses leaves nothing running, and changes only the children. *)
LEMMA StopProcessesQuiets ==
  ASSUME NEW s, Shaped(s), Covered(s)
  PROVE  /\ Shaped(StopProcesses(s))
         /\ Quiet(StopProcesses(s))
         /\ StopProcesses(s).sup = [s.sup EXCEPT !.current = Nothing]
         /\ StopProcesses(s).asleep = s.asleep
         /\ StopProcesses(s).mode = s.mode
<1> DEFINE told == [k \in Kind |-> [g \in Generation |->
                      IF g = s.sup.current[k] /\ s.child[k][g] \in Running
                      THEN "told" ELSE s.child[k][g]]]
           off == [s.sup EXCEPT !.current = Nothing]
           t == StopProcesses(s)
<1>1. t = Record(off, told, s.mode, s.asleep)
  <2> DEFINE u == [s EXCEPT !.sup.current = Nothing]
  <2>1. t = [u EXCEPT !.child = told]
    BY DEF StopProcesses
  <2>2. s = Record(s.sup, s.child, s.mode, s.asleep)
    BY IsRecord DEF Shaped
  <2>3. u = Record(off, s.child, s.mode, s.asleep)
    BY <2>2 DEF Record
  <2> HIDE DEF u, told, off
  <2>4. [u EXCEPT !.child = told] = Record(off, told, s.mode, s.asleep)
    BY <2>3 DEF Record
  <2> QED BY <2>1, <2>4
<1>2. off \in Supervisors /\ off.generation = s.sup.generation
  BY DEF Nothing, Shaped, Object, Supervisors
<1>3. told \in Children
  BY DEF Shaped, Object, Children
<1>4. \A k \in Kind, g \in Generation : told[k][g] \notin Running
  BY DEF Covered, Running
<1> HIDE DEF told, off, t
<1>5. t.sup = off /\ t.child = told /\ t.mode = s.mode /\ t.asleep = s.asleep
  BY <1>1 DEF Record
<1>6. t \in Object
  BY <1>1, <1>2, <1>3, RecordIsObject DEF Shaped, Object
<1> QED BY <1>2, <1>4, <1>5, <1>6 DEF Shaped, Quiet, off, t

(* A launch starts processes of the present generation, which the object    *)
(* points to.                                                              *)
LEMMA SpawnCovers ==
  ASSUME NEW s, Shaped(s), Quiet(s), s.sup.generation \in Generation,
         NEW kinds \in SUBSET Kind
  PROVE  /\ Shaped(Spawn(s, kinds))
         /\ Covered(Spawn(s, kinds))
         /\ \A k \in Kind, g \in Generation :
               Spawn(s, kinds).child[k][g] \in Running <=> k \in kinds /\ g = s.sup.generation
         /\ \A k \in kinds : Spawn(s, kinds).sup.current[k] = s.sup.generation
         /\ Spawn(s, kinds).sup = [s.sup EXCEPT !.current = Spawn(s, kinds).sup.current]
         /\ Spawn(s, kinds).asleep = s.asleep
         /\ \A g \in Generation :
               g # s.sup.generation => Spawn(s, kinds).mode[g] = s.mode[g]
<1> DEFINE gen == s.sup.generation
           current == [k \in Kind |-> IF k \in kinds THEN gen ELSE s.sup.current[k]]
           on == [s.sup EXCEPT !.current = current]
           up == [k \in Kind |-> [g \in Generation |->
                     IF k \in kinds /\ g = gen THEN "live" ELSE s.child[k][g]]]
           modes == [s.mode EXCEPT ![gen] = s.sup.order.mode]
           t == Spawn(s, kinds)
<1>1. t = Record(on, up, modes, s.asleep)
  <2> DEFINE u == [s EXCEPT !.sup.current = current]
             v == [u EXCEPT !.child = up]
             m == s.sup.order.mode
  <2>1. t = [v EXCEPT !.mode[gen] = m]
    BY DEF Spawn
  <2>2. s = Record(s.sup, s.child, s.mode, s.asleep)
    BY IsRecord DEF Shaped
  <2> HIDE DEF current, up
  <2>3. u = Record(on, s.child, s.mode, s.asleep)
    BY <2>2 DEF Record
  <2> HIDE DEF u, on
  <2>4. v = Record(on, up, s.mode, s.asleep)
    BY <2>3 DEF Record
  <2> HIDE DEF v, m, gen
  <2>5. [v EXCEPT !.mode[gen] = m] = Record(on, up, [s.mode EXCEPT ![gen] = m], s.asleep)
    BY <2>4 DEF Record
  <2> QED BY <2>1, <2>5 DEF m
<1>2. current \in [Kind -> Generation \cup {0}]
  BY DEF Shaped, Object, Supervisors
<1>3. \A k \in kinds : current[k] = gen
  OBVIOUS
<1> HIDE DEF current
<1>4. on \in Supervisors /\ on.generation = gen /\ on.current = current
  BY <1>2 DEF Shaped, Object, Supervisors
<1>5. up \in Children
  BY DEF Shaped, Object, Children
<1>6. \A k \in Kind, g \in Generation : up[k][g] \in Running <=> k \in kinds /\ g = gen
  BY DEF Quiet, Running
<1>7. modes \in Modes /\ \A g \in Generation : g # gen => modes[g] = s.mode[g]
  BY DEF Shaped, Object, Supervisors, Modes
<1> HIDE DEF up, modes, t
<1>8. t.sup = on /\ t.child = up /\ t.mode = modes /\ t.asleep = s.asleep
  BY <1>1 DEF Record
<1>9. t \in Object
  BY <1>1, <1>4, <1>5, <1>7, RecordIsObject DEF Shaped, Object
<1>10. Shaped(t)
  BY <1>4, <1>8, <1>9 DEF Shaped
<1>11. Covered(t)
  BY <1>3, <1>4, <1>6, <1>8 DEF Covered
<1> QED BY <1>3, <1>4, <1>6, <1>7, <1>8, <1>10, <1>11 DEF t

(* The state alone changes. *)
LEMMA InStateIs ==
  ASSUME NEW s, Shaped(s),
         NEW state \in {"idle", "streaming", "retrying", "stopped", "failed"}
  PROVE  /\ Shaped(InState(s, state))
         /\ InState(s, state).sup = [s.sup EXCEPT !.state = state]
         /\ InState(s, state).sup.state = state
         /\ InState(s, state).sup.generation = s.sup.generation
         /\ InState(s, state).sup.attempts = s.sup.attempts
         /\ InState(s, state).sup.current = s.sup.current
         /\ InState(s, state).sup.order = s.sup.order
         /\ InState(s, state).child = s.child
         /\ InState(s, state).mode = s.mode
         /\ InState(s, state).asleep = s.asleep
<1> DEFINE off == [s.sup EXCEPT !.state = state]
           t == InState(s, state)
<1>1. s = Record(s.sup, s.child, s.mode, s.asleep)
  BY IsRecord DEF Shaped
<1>2. t = Record(off, s.child, s.mode, s.asleep)
  BY <1>1 DEF InState, Record
<1>3. /\ off \in Supervisors /\ off.generation = s.sup.generation
      /\ off.attempts = s.sup.attempts /\ off.current = s.sup.current
      /\ off.order = s.sup.order /\ off.state = state
  BY DEF Shaped, Object, Supervisors
<1> HIDE DEF off, t
<1>4. t.sup = off /\ t.child = s.child /\ t.mode = s.mode /\ t.asleep = s.asleep
  BY <1>2 DEF Record
<1>5. t \in Object
  BY <1>2, <1>3, RecordIsObject DEF Shaped, Object
<1>6. Shaped(t)
  BY <1>3, <1>4, <1>5 DEF Shaped
<1> QED BY <1>3, <1>4, <1>6 DEF t, off

(* The generation of a launch to come has no retry that sleeps. *)
LEMMA NextGenerationIs ==
  ASSUME NEW s, Shaped(s), s.sup.generation < MaxGeneration, StreamSupervisorAssumption
  PROVE  /\ Shaped(NextGeneration(s))
         /\ NextGeneration(s).sup = [s.sup EXCEPT !.generation = s.sup.generation + 1]
         /\ NextGeneration(s).sup.generation = s.sup.generation + 1
         /\ NextGeneration(s).sup.generation \in Generation
         /\ NextGeneration(s).sup.generation \notin s.asleep
         /\ NextGeneration(s).sup.state = s.sup.state
         /\ NextGeneration(s).sup.attempts = s.sup.attempts
         /\ NextGeneration(s).sup.current = s.sup.current
         /\ NextGeneration(s).child = s.child
         /\ NextGeneration(s).mode = s.mode
         /\ NextGeneration(s).asleep = s.asleep
<1> DEFINE gen == s.sup.generation
           on == [s.sup EXCEPT !.generation = gen + 1]
           t == NextGeneration(s)
<1>1. s = Record(s.sup, s.child, s.mode, s.asleep)
  BY IsRecord DEF Shaped
<1>2. t = Record(on, s.child, s.mode, s.asleep)
  BY <1>1 DEF NextGeneration, Record
<1>3. gen \in Nat /\ MaxGeneration \in Nat /\ s.sup \in Supervisors
  BY DEF Shaped, Object, Supervisors, StreamSupervisorAssumption
<1>4. on.generation = gen + 1 /\ on.state = s.sup.state
      /\ on.attempts = s.sup.attempts /\ on.current = s.sup.current
  BY <1>3 DEF Supervisors
<1>5. gen + 1 \in 0..MaxGeneration /\ gen + 1 \in Generation /\ gen + 1 \notin s.asleep
      /\ s.asleep \subseteq 1..(gen + 1)
  BY <1>3 DEF Shaped, Generation
<1>6. on \in Supervisors
  BY <1>3, <1>5 DEF Supervisors
<1> HIDE DEF on, t, gen
<1>7. t.sup = on /\ t.child = s.child /\ t.mode = s.mode /\ t.asleep = s.asleep
  BY <1>2 DEF Record
<1>8. t \in Object
  BY <1>2, <1>6, RecordIsObject DEF Shaped, Object
<1>9. Shaped(t)
  BY <1>4, <1>5, <1>7, <1>8 DEF Shaped
<1> QED BY <1>4, <1>5, <1>7, <1>9 DEF t, on, gen

(* A break ends the attempt, whatever the state was: the next one sleeps,   *)
(* unless it was the last.                                                 *)
LEMMA RetryIsGood ==
  ASSUME NEW s, Shaped(s), Covered(s), s.sup.generation < MaxGeneration,
         StreamSupervisorAssumption
  PROVE  /\ Good(Retry(s))
         /\ Retry(s).sup.state \in {"failed", "retrying"}
         /\ Retry(s).sup.attempts = s.sup.attempts + 1
         /\ Retry(s).sup.generation = s.sup.generation + 1
         /\ Retry(s).mode = s.mode
<1> DEFINE n == NextGeneration(s)
           one == [n.sup EXCEPT !.attempts = n.sup.attempts + 1]
           t == [n EXCEPT !.sup.attempts = @ + 1]
           u == StopProcesses(t)
<1>1. /\ Shaped(n) /\ n.sup.generation \in Generation /\ n.sup.generation \notin n.asleep
      /\ n.sup.current = s.sup.current /\ n.child = s.child
      /\ n.sup.generation = s.sup.generation + 1
      /\ n.sup.attempts = s.sup.attempts /\ n.mode = s.mode
  BY NextGenerationIs
<1>2. Covered(n)
  BY <1>1 DEF Covered
<1> HIDE DEF n
<1>3. n = Record(n.sup, n.child, n.mode, n.asleep)
  BY <1>1, IsRecord DEF Shaped
<1>4. t = Record(one, n.child, n.mode, n.asleep)
  BY <1>3 DEF Record
<1>5. /\ one \in Supervisors /\ one.generation = n.sup.generation
      /\ one.attempts = s.sup.attempts + 1
      /\ one.current = n.sup.current
  BY <1>1 DEF Shaped, Object, Supervisors
<1> HIDE DEF t, one
<1>6. t.sup = one /\ t.child = n.child /\ t.mode = n.mode /\ t.asleep = n.asleep
  BY <1>4 DEF Record
<1>7. t \in Object
  BY <1>1, <1>4, <1>5, RecordIsObject DEF Shaped, Object
<1>8. Shaped(t) /\ Covered(t)
  BY <1>1, <1>2, <1>5, <1>6, <1>7 DEF Shaped, Covered
<1>9. /\ Shaped(u) /\ Quiet(u) /\ u.asleep = t.asleep
      /\ u.mode = t.mode /\ u.sup = [t.sup EXCEPT !.current = Nothing]
  BY <1>8, StopProcessesQuiets
<1>10. u.sup.generation = t.sup.generation /\ u.sup.attempts = t.sup.attempts
  BY <1>8, <1>9 DEF Shaped, Object, Supervisors
<1>11. u.sup.generation \in Generation /\ u.sup.generation \notin u.asleep
  BY <1>1, <1>5, <1>6, <1>9, <1>10
<1>12. t.sup.attempts \in Nat /\ MaxRetries \in Nat
  BY <1>8 DEF Shaped, Object, Supervisors, StreamSupervisorAssumption
<1>13. /\ u.sup.attempts = s.sup.attempts + 1 /\ u.mode = s.mode
       /\ u.sup.generation = s.sup.generation + 1
  BY <1>1, <1>5, <1>6, <1>9, <1>10
<1>14. Retry(s) = IF t.sup.attempts > MaxRetries THEN InState(u, "failed")
                  ELSE [InState(u, "retrying") EXCEPT !.asleep = @ \cup {t.sup.generation}]
  BY DEF Retry, t, u, n
<1> HIDE DEF u
<1>15. CASE t.sup.attempts > MaxRetries
  <2> DEFINE v == InState(u, "failed")
  <2>1. Retry(s) = v
    BY <1>14, <1>15
  <2>2. /\ Shaped(v) /\ v.sup.state = "failed" /\ v.sup.generation = u.sup.generation
        /\ v.sup.attempts = u.sup.attempts
        /\ v.child = u.child /\ v.mode = u.mode /\ v.asleep = u.asleep
    BY <1>9, InStateIs
  <2> HIDE DEF v
  <2>3. Good(v)
    BY <1>9, <1>11, <2>2 DEF Good, Bounded, Generation, Single, Alive, Quiet
  <2> QED BY <1>13, <2>1, <2>2, <2>3
<1>16. CASE ~(t.sup.attempts > MaxRetries)
  <2> DEFINE w == InState(u, "retrying")
             d == w.asleep \cup {t.sup.generation}
             v == [w EXCEPT !.asleep = d]
  <2>1. Retry(s) = v
    BY <1>14, <1>16
  <2>2. /\ Shaped(w) /\ w.sup.state = "retrying" /\ w.sup.generation = u.sup.generation
        /\ w.sup.attempts = u.sup.attempts
        /\ w.child = u.child /\ w.mode = u.mode /\ w.asleep = u.asleep
    BY <1>9, InStateIs
  <2> HIDE DEF w
  <2>3. d \subseteq 1..w.sup.generation /\ w.sup.generation \in d /\ d \in SUBSET Nat
    BY <1>10, <1>11, <2>2 DEF Shaped, Object, Generation
  <2> HIDE DEF d
  <2>4. w = Record(w.sup, w.child, w.mode, w.asleep)
    BY <2>2, IsRecord DEF Shaped
  <2>5. v = Record(w.sup, w.child, w.mode, d)
    BY <2>4 DEF Record
  <2> HIDE DEF v
  <2>6. v.sup = w.sup /\ v.child = w.child /\ v.mode = w.mode /\ v.asleep = d
    BY <2>5 DEF Record
  <2>7. v \in Object
    BY <2>2, <2>3, <2>5, RecordIsObject DEF Shaped, Object
  <2>8. Shaped(v)
    BY <2>3, <2>6, <2>7 DEF Shaped
  <2>9. Bounded(v)
    BY <1>10, <1>12, <1>11, <1>16, <2>2, <2>6 DEF Bounded, Generation
  <2>10. Single(v) /\ Alive(v)
    BY <1>9, <2>2, <2>3, <2>6 DEF Single, Alive, Quiet
  <2> QED BY <1>13, <2>1, <2>2, <2>6, <2>8, <2>9, <2>10 DEF Good
<1> QED BY <1>15, <1>16

(* launch starts a stream that is on with all its processes, or none. *)
LEMMA LaunchIsGood ==
  ASSUME NEW s, Shaped(s), Quiet(s), s.sup.state = "streaming",
         s.sup.generation \in Generation, s.sup.generation \notin s.asleep,
         s.sup.attempts <= MaxRetries,
         NEW media \in BOOLEAN, ~media => s.sup.generation < MaxGeneration,
         StreamSupervisorAssumption
  PROVE  Good(Launch(s, media)) /\ Counts(s, Launch(s, media))
<1> DEFINE relay == s.sup.order.mode = "rtmps"
           key == s.sup.order.key
           ingest == s.sup.order.ingest
<1>1. /\ relay /\ ~key => Launch(s, media) = InState(s, "failed")
      /\ relay /\ key /\ ~ingest
            => Launch(s, media) = StopProcesses(InState(Spawn(s, {"chromium"}), "failed"))
      /\ relay /\ key /\ ingest /\ ~media => Launch(s, media) = Retry(Spawn(s, Kind))
      /\ relay /\ key /\ ingest /\ media => Launch(s, media) = Spawn(s, Kind)
      /\ ~relay => Launch(s, media) = Spawn(s, {"chromium", "ffmpeg"})
  BY DEF Launch
<1>2. key \in BOOLEAN /\ ingest \in BOOLEAN
  BY DEF Shaped, Object, Supervisors
<1>3. ASSUME NEW kinds \in SUBSET Kind,
             kinds = IF relay THEN Kind ELSE Kind \ {"publisher"}
      PROVE  Good(Spawn(s, kinds)) /\ Counts(s, Spawn(s, kinds))
  <2> DEFINE t == Spawn(s, kinds)
  <2>1. /\ Shaped(t) /\ t.asleep = s.asleep
        /\ t.sup = [s.sup EXCEPT !.current = t.sup.current]
        /\ \A k \in Kind, g \in Generation :
              t.child[k][g] \in Running <=> k \in kinds /\ g = s.sup.generation
        /\ \A k \in kinds : t.sup.current[k] = s.sup.generation
        /\ \A g \in Generation : g # s.sup.generation => t.mode[g] = s.mode[g]
    BY SpawnCovers
  <2> HIDE DEF t
  <2>2. /\ t.sup.state = "streaming" /\ t.sup.generation = s.sup.generation
        /\ t.sup.attempts = s.sup.attempts /\ t.sup.order = s.sup.order
    BY <2>1 DEF Shaped, Object, Supervisors
  <2>3. Single(t)
    BY <2>1, <2>2 DEF Single
  <2>4. Alive(t)
    BY <1>3, <2>1, <2>2 DEF Alive
  <2>5. Good(t)
    BY <2>1, <2>2, <2>3, <2>4 DEF Good, Bounded, Generation
  <2>6. Counts(s, t)
    BY <2>1, <2>2 DEF Counts
  <2> QED BY <2>5, <2>6 DEF t
<1>4. CASE relay /\ ~key
  <2> DEFINE t == InState(s, "failed")
  <2>1. /\ Shaped(t) /\ t.sup.state = "failed" /\ t.sup.generation = s.sup.generation
        /\ t.sup.attempts = s.sup.attempts
        /\ t.child = s.child /\ t.mode = s.mode /\ t.asleep = s.asleep
    BY InStateIs
  <2> HIDE DEF t
  <2>2. Good(t)
    BY <2>1 DEF Good, Bounded, Generation, Single, Alive, Quiet
  <2>3. Counts(s, t)
    BY <2>1 DEF Counts
  <2> QED BY <1>1, <1>4, <2>2, <2>3 DEF t
<1>5. CASE relay /\ key /\ ~ingest
  <2> DEFINE t == Spawn(s, {"chromium"})
             u == InState(t, "failed")
             v == StopProcesses(u)
  <2>1. {"chromium"} \in SUBSET Kind
    BY DEF Kind
  <2>2. /\ Shaped(t) /\ Covered(t) /\ t.asleep = s.asleep
        /\ t.sup = [s.sup EXCEPT !.current = t.sup.current]
        /\ \A g \in Generation : g # s.sup.generation => t.mode[g] = s.mode[g]
    BY <2>1, SpawnCovers
  <2>3. t.sup.generation = s.sup.generation /\ t.sup.attempts = s.sup.attempts
    BY <2>2 DEF Shaped, Object, Supervisors
  <2> HIDE DEF t
  <2>4. /\ Shaped(u) /\ u.sup.state = "failed" /\ u.sup.generation = t.sup.generation
        /\ u.sup.attempts = t.sup.attempts /\ u.sup.current = t.sup.current
        /\ u.child = t.child /\ u.mode = t.mode /\ u.asleep = t.asleep
    BY <2>2, InStateIs
  <2>5. Covered(u)
    BY <2>2, <2>4 DEF Covered
  <2> HIDE DEF u
  <2>6. /\ Shaped(v) /\ Quiet(v) /\ v.mode = u.mode /\ v.asleep = u.asleep
        /\ v.sup = [u.sup EXCEPT !.current = Nothing]
    BY <2>4, <2>5, StopProcessesQuiets
  <2>7. /\ v.sup.state = "failed" /\ v.sup.generation = s.sup.generation
        /\ v.sup.attempts = s.sup.attempts
    BY <2>3, <2>4, <2>6 DEF Shaped, Object, Supervisors
  <2> HIDE DEF v
  <2>8. Good(v)
    BY <2>2, <2>4, <2>6, <2>7 DEF Good, Bounded, Generation, Single, Alive, Quiet
  <2>9. Counts(s, v)
    BY <2>2, <2>4, <2>6, <2>7 DEF Counts
  <2> QED BY <1>1, <1>5, <2>8, <2>9 DEF t, u, v
<1>6. CASE relay /\ key /\ ingest /\ ~media
  <2> DEFINE t == Spawn(s, Kind)
  <2>1. /\ Shaped(t) /\ Covered(t)
        /\ t.sup = [s.sup EXCEPT !.current = t.sup.current]
        /\ \A g \in Generation : g # s.sup.generation => t.mode[g] = s.mode[g]
    BY SpawnCovers
  <2>2. t.sup.generation = s.sup.generation /\ t.sup.attempts = s.sup.attempts
    BY <2>1 DEF Shaped, Object, Supervisors
  <2> HIDE DEF t
  <2>3. /\ Good(Retry(t)) /\ Retry(t).sup.state \in {"failed", "retrying"}
        /\ Retry(t).sup.attempts = t.sup.attempts + 1
        /\ Retry(t).sup.generation = t.sup.generation + 1
        /\ Retry(t).mode = t.mode
    BY <1>6, <2>1, <2>2, RetryIsGood
  <2>4. Counts(s, Retry(t))
    BY <2>1, <2>2, <2>3 DEF Counts
  <2> QED BY <1>1, <1>6, <2>3, <2>4 DEF t
<1>7. CASE relay /\ key /\ ingest /\ media
  <2>1. Good(Spawn(s, Kind)) /\ Counts(s, Spawn(s, Kind))
    BY <1>3, <1>7
  <2> QED BY <1>1, <1>7, <2>1
<1>8. CASE ~relay
  <2>1. {"chromium", "ffmpeg"} = Kind \ {"publisher"} /\ {"chromium", "ffmpeg"} \in SUBSET Kind
    BY DEF Kind
  <2>2. /\ Good(Spawn(s, {"chromium", "ffmpeg"}))
        /\ Counts(s, Spawn(s, {"chromium", "ffmpeg"}))
    BY <1>3, <1>8, <2>1
  <2> QED BY <1>1, <1>8, <2>2
<1> QED BY <1>2, <1>4, <1>5, <1>6, <1>7, <1>8

-----------------------------------------------------------------------------
(* Steps *)

(* The parts of the object that the variables make up. *)
LEMMA NowIs == Now.sup = sup /\ Now.child = child /\ Now.mode = mode /\ Now.asleep = asleep
BY DEF Now

(* The invariant says that the object is good. *)
LEMMA GoodNow ==
  /\ IInv <=> Good(Now) /\ orders \in Nat
  /\ Good(Now) => Covered(Now)
<1>1. TypeOK <=> Shaped(Now) /\ Bounded(Now) /\ orders \in Nat
  <2>1. Now \in Object <=> /\ sup \in Supervisors /\ child \in Children
                           /\ mode \in Modes /\ asleep \in SUBSET Nat
    BY DEF Now, Object
  <2>2. sup \in Supervisors => 1..sup.generation \subseteq Nat
    BY DEF Supervisors
  <2>3. TypeOK <=> /\ sup \in Supervisors /\ child \in Children /\ mode \in Modes
                   /\ asleep \subseteq 1..sup.generation /\ Bounded(Now) /\ orders \in Nat
    BY NowIs DEF TypeOK, Supervisors, Children, Modes, Bounded
  <2> QED BY <2>1, <2>2, <2>3, NowIs DEF Shaped
<1>2. OneAttempt <=> Single(Now)
  BY NowIs DEF OneAttempt, Single
<1>3. StreamingIsAlive <=> Alive(Now)
  BY NowIs DEF StreamingIsAlive, Alive
<1>4. Good(Now) => Covered(Now)
  BY DEF Good, Single, Covered
<1> QED BY <1>1, <1>2, <1>3, <1>4 DEF IInv, Good

(* A handler that leaves a good object keeps the invariant. *)
LEMMA BecomesGood ==
  ASSUME NEW s, Good(s), Becomes(s), orders' \in Nat
  PROVE  IInv'
<1>1. s = Record(s.sup, s.child, s.mode, s.asleep)
  BY IsRecord DEF Good, Shaped
<1>2. Now' = s
  BY <1>1 DEF Now, Becomes, Record
<1>3. Good(Now')
  BY <1>2
<1>4. (IInv <=> Good(Now) /\ orders \in Nat)'
  BY GoodNow, PTL
<1>5. Good(Now)' <=> Good(Now')
  BY DEF Good, Shaped, Bounded, Single, Alive, Object, Supervisors, Children, Modes, Kind,
         Generation, Running
<1> QED BY <1>3, <1>4, <1>5

(* One child alone changes. *)
LEMMA ChildBecomesIs ==
  ASSUME NEW s, Shaped(s), NEW k \in Kind, NEW g \in Generation,
         NEW value \in {"gone", "flowing"}
  PROVE  LET t == ChildBecomes(s, k, g, value) IN
         /\ Shaped(t) /\ t.sup = s.sup /\ t.mode = s.mode /\ t.asleep = s.asleep
         /\ \A i \in Kind, j \in Generation :
               t.child[i][j] = IF i = k /\ j = g THEN value ELSE s.child[i][j]
<1> DEFINE c == [s.child EXCEPT ![k][g] = value]
           t == ChildBecomes(s, k, g, value)
<1>1. s = Record(s.sup, s.child, s.mode, s.asleep)
  BY IsRecord DEF Shaped
<1>2. t = Record(s.sup, c, s.mode, s.asleep)
  BY <1>1 DEF Record, ChildBecomes
<1>3. c \in Children
  BY DEF Shaped, Object, Children
<1>4. \A i \in Kind, j \in Generation :
         c[i][j] = IF i = k /\ j = g THEN value ELSE s.child[i][j]
  BY DEF Shaped, Object, Children
<1> HIDE DEF c, t
<1>5. t.sup = s.sup /\ t.child = c /\ t.mode = s.mode /\ t.asleep = s.asleep
  BY <1>2 DEF Record
<1>6. t \in Object
  BY <1>2, <1>3, RecordIsObject DEF Shaped, Object
<1>7. Shaped(t)
  BY <1>5, <1>6 DEF Shaped
<1> QED BY <1>4, <1>5, <1>7 DEF t

(* What runs, and nothing else about the children, makes an object good. *)
LEMMA SameRunningIsGood ==
  ASSUME NEW s, Good(s), NEW t, Shaped(t), t.sup = s.sup, t.asleep = s.asleep,
         \A k \in Kind, g \in Generation :
            t.child[k][g] \in Running <=> s.child[k][g] \in Running
  PROVE  Good(t)
<1>1. Bounded(t)
  BY DEF Good, Bounded
<1>2. Single(t)
  BY DEF Good, Single
<1>3. s.sup.state = "streaming" => s.sup.generation \in Generation
  BY DEF Good, Bounded, Shaped, Object, Supervisors, Generation
<1>4. Alive(t)
  BY <1>3 DEF Good, Alive
<1> QED BY <1>1, <1>2, <1>4 DEF Good

(* The end of a child: a break of the present attempt, or of one that was   *)
(* told to end before, which changes nothing that runs.                    *)
LEMMA EndedIsGood ==
  ASSUME IInv, StreamSupervisorAssumption, NEW k \in Kind, NEW g \in Generation,
         child[k][g] \in Running \cup {"told"}, orders' \in Nat,
         LET s == ChildBecomes(Now, k, g, "gone")
         IN IF Valid(g) THEN MayBreak /\ Becomes(Retry(s)) ELSE Becomes(s)
  PROVE  IInv'
<1> DEFINE s == ChildBecomes(Now, k, g, "gone")
<1>1. Good(Now) /\ Covered(Now) /\ Shaped(Now)
  BY GoodNow DEF Good
<1> HIDE DEF s
<1>2. /\ Shaped(s) /\ s.sup = sup /\ s.asleep = asleep
      /\ \A i \in Kind, j \in Generation :
            s.child[i][j] = IF i = k /\ j = g THEN "gone" ELSE child[i][j]
  <2>1. /\ Shaped(s) /\ s.sup = Now.sup /\ s.asleep = Now.asleep
        /\ \A i \in Kind, j \in Generation :
              s.child[i][j] = IF i = k /\ j = g THEN "gone" ELSE Now.child[i][j]
    BY <1>1, ChildBecomesIs DEF s
  <2> QED BY <2>1, NowIs
<1>3. /\ Valid(g) => MayBreak /\ Becomes(Retry(s))
      /\ ~Valid(g) => Becomes(s)
  BY DEF s
<1>4. CASE Valid(g)
  <2>1. Covered(s)
    BY <1>1, <1>2, NowIs DEF Covered, Running
  <2>2. Good(Retry(s))
    BY <1>2, <1>3, <1>4, <2>1, RetryIsGood DEF MayBreak
  <2> QED BY <1>3, <1>4, <2>2, BecomesGood
<1>5. CASE ~Valid(g)
  <2>1. child[k][g] \notin Running
    BY <1>5 DEF IInv, OneAttempt, Valid
  <2>2. \A i \in Kind, j \in Generation :
           s.child[i][j] \in Running <=> Now.child[i][j] \in Running
    BY <1>2, <2>1, NowIs DEF Running
  <2>3. Good(s)
    BY <1>1, <1>2, <2>2, NowIs, SameRunningIsGood
  <2> QED BY <1>3, <1>5, <2>3, BecomesGood
<1> QED BY <1>4, <1>5

(* A sleep that ends takes its generation from those that sleep. *)
LEMMA AwakeIs ==
  ASSUME NEW s, Shaped(s), NEW g
  PROVE  LET t == Awake(s, g) IN
         /\ Shaped(t) /\ t.sup = s.sup /\ t.child = s.child /\ t.mode = s.mode
         /\ t.asleep = s.asleep \ {g}
<1> DEFINE d == s.asleep \ {g}
           t == Awake(s, g)
<1>1. s = Record(s.sup, s.child, s.mode, s.asleep)
  BY IsRecord DEF Shaped
<1>2. t = Record(s.sup, s.child, s.mode, d)
  BY <1>1 DEF Record, Awake
<1>3. d \in SUBSET Nat /\ d \subseteq 1..s.sup.generation
  BY DEF Shaped, Object
<1> HIDE DEF d, t
<1>4. t.sup = s.sup /\ t.child = s.child /\ t.mode = s.mode /\ t.asleep = d
  BY <1>2 DEF Record
<1>5. t \in Object
  BY <1>2, <1>3, RecordIsObject DEF Shaped, Object
<1>6. Shaped(t)
  BY <1>3, <1>4, <1>5 DEF Shaped
<1> QED BY <1>4, <1>6 DEF t, d

(* What an order to start sets before it launches. *)
LEMMA OrderedIs ==
  ASSUME NEW s, Shaped(s), NEW order \in Orders, StreamSupervisorAssumption
  PROVE  LET t == Ordered(s, order)
         IN /\ Shaped(t) /\ t.sup.state = "streaming" /\ t.sup.attempts = 0
            /\ t.sup.generation = s.sup.generation
            /\ t.child = s.child /\ t.mode = s.mode /\ t.asleep = s.asleep
<1> DEFINE a == [s.sup EXCEPT !.attempts = 0]
           b == [a EXCEPT !.order = order]
           c == [b EXCEPT !.state = "streaming"]
           u == [s EXCEPT !.sup.attempts = 0]
           v == [u EXCEPT !.sup.order = order]
           t == [v EXCEPT !.sup.state = "streaming"]
<1>1. s = Record(s.sup, s.child, s.mode, s.asleep)
  BY IsRecord DEF Shaped
<1>2. u = Record(a, s.child, s.mode, s.asleep)
  BY <1>1 DEF Record
<1>3. order \in [mode : {"rtmps", "record"}, key : BOOLEAN, ingest : BOOLEAN]
  BY DEF StreamSupervisorAssumption
<1>4. a \in Supervisors /\ a.attempts = 0 /\ a.generation = s.sup.generation
  BY DEF Shaped, Object, Supervisors
<1> HIDE DEF a, u
<1>5. v = Record(b, s.child, s.mode, s.asleep)
  BY <1>2 DEF Record
<1>6. b \in Supervisors /\ b.attempts = 0 /\ b.generation = s.sup.generation
  BY <1>3, <1>4 DEF Supervisors
<1> HIDE DEF b, v
<1>7. t = Record(c, s.child, s.mode, s.asleep)
  BY <1>5 DEF Record
<1>8. c \in Supervisors /\ c.attempts = 0 /\ c.generation = s.sup.generation
      /\ c.state = "streaming"
  BY <1>6 DEF Supervisors
<1> HIDE DEF c, t
<1>9. t.sup = c /\ t.child = s.child /\ t.mode = s.mode /\ t.asleep = s.asleep
  BY <1>7 DEF Record
<1>10. t \in Object
  BY <1>7, <1>8, RecordIsObject DEF Shaped, Object
<1>11. Shaped(t)
  BY <1>8, <1>9, <1>10 DEF Shaped
<1> QED BY <1>8, <1>9, <1>11 DEF t, v, u, Ordered

LEMMA InitGood == ASSUME Init, StreamSupervisorAssumption PROVE IInv
<1>1. TypeOK
  BY DEF Init, TypeOK, Nothing, Generation, StreamSupervisorAssumption
<1>2. OneAttempt
  BY DEF Init, OneAttempt, Running
<1>3. StreamingIsAlive
  BY DEF Init, StreamingIsAlive
<1> QED BY <1>1, <1>2, <1>3 DEF IInv

(* An order to start launches with no attempt used up. *)
LEMMA StartLaunches ==
  ASSUME IInv, StreamSupervisorAssumption, NEW order \in Orders, NEW media \in BOOLEAN,
         Start(order, media)
  PROVE  \E t : /\ t.sup.generation = sup.generation + 1 /\ t.sup.attempts = 0
                /\ t.mode = mode
                /\ Good(Launch(t, media)) /\ Counts(t, Launch(t, media))
                /\ Becomes(Launch(t, media))
<1> DEFINE s == StopProcesses(Now)
           n == NextGeneration(s)
           t == Ordered(n, order)
<1>1. /\ MayBreak /\ (~media => sup.generation + 1 < MaxGeneration)
      /\ Becomes(Launch(t, media)) /\ orders' = orders + 1
  BY DEF Start, Ordered
<1>2. Shaped(Now) /\ Covered(Now) /\ orders \in Nat /\ sup.generation \in Nat
  BY GoodNow, NowIs DEF Good, Shaped, Object, Supervisors
<1>3. /\ Shaped(s) /\ Quiet(s) /\ s.mode = Now.mode /\ s.asleep = Now.asleep
      /\ s.sup = [Now.sup EXCEPT !.current = Nothing]
  BY <1>2, StopProcessesQuiets
<1>4. s.sup.generation = sup.generation
  BY <1>2, <1>3, NowIs DEF Shaped, Object, Supervisors
<1> HIDE DEF s
<1>5. /\ Shaped(n) /\ n.sup.generation = s.sup.generation + 1
      /\ n.sup.generation \in Generation /\ n.sup.generation \notin s.asleep
      /\ n.child = s.child /\ n.mode = s.mode /\ n.asleep = s.asleep
  BY <1>1, <1>3, <1>4, NextGenerationIs DEF MayBreak
<1> HIDE DEF n
<1>6. /\ Shaped(t) /\ t.sup.state = "streaming" /\ t.sup.attempts = 0
      /\ t.sup.generation = n.sup.generation
      /\ t.child = n.child /\ t.mode = n.mode /\ t.asleep = n.asleep
  BY <1>5, OrderedIs
<1> HIDE DEF t
<1>7. Quiet(t)
  BY <1>3, <1>5, <1>6 DEF Quiet
<1>8. t.sup.attempts <= MaxRetries
  BY <1>6 DEF StreamSupervisorAssumption
<1>9. ~media => t.sup.generation < MaxGeneration
  BY <1>1, <1>4, <1>5, <1>6
<1>10. Good(Launch(t, media)) /\ Counts(t, Launch(t, media))
  BY <1>5, <1>6, <1>7, <1>8, <1>9, LaunchIsGood
<1>11. t.mode = mode
  BY <1>3, <1>5, <1>6, NowIs
<1> QED BY <1>1, <1>4, <1>5, <1>6, <1>10, <1>11

LEMMA StartKeeps ==
  ASSUME IInv, StreamSupervisorAssumption, NEW order \in Orders, NEW media \in BOOLEAN,
         Start(order, media)
  PROVE  IInv'
<1>1. PICK t : Good(Launch(t, media)) /\ Becomes(Launch(t, media))
  BY StartLaunches
<1>2. orders' \in Nat
  BY DEF Start, IInv, TypeOK
<1> QED BY <1>1, <1>2, BecomesGood

LEMMA StopKeeps ==
  ASSUME IInv, StreamSupervisorAssumption, Stop
  PROVE  IInv'
<1> DEFINE n == NextGeneration(Now)
           s == StopProcesses(n)
           t == InState(s, "stopped")
<1>1. MayBreak /\ Becomes(t) /\ orders' = orders
  BY DEF Stop
<1>2. Shaped(Now) /\ Covered(Now) /\ orders \in Nat
  BY GoodNow DEF Good
<1>3. /\ Shaped(n) /\ n.sup.generation \in Generation /\ n.sup.generation \notin n.asleep
      /\ n.sup.current = Now.sup.current /\ n.child = Now.child
  BY <1>1, <1>2, NowIs, NextGenerationIs DEF MayBreak
<1> HIDE DEF n
<1>4. Covered(n)
  BY <1>2, <1>3 DEF Covered
<1>5. /\ Shaped(s) /\ Quiet(s) /\ s.asleep = n.asleep
      /\ s.sup = [n.sup EXCEPT !.current = Nothing]
  BY <1>3, <1>4, StopProcessesQuiets
<1>6. s.sup.generation = n.sup.generation
  BY <1>3, <1>5 DEF Shaped, Object, Supervisors
<1> HIDE DEF s
<1>7. /\ Shaped(t) /\ t.sup.state = "stopped" /\ t.sup.generation = s.sup.generation
      /\ t.child = s.child /\ t.asleep = s.asleep
  BY <1>5, InStateIs
<1> HIDE DEF t
<1>8. Good(t)
  BY <1>3, <1>5, <1>6, <1>7 DEF Good, Bounded, Generation, Single, Alive, Quiet
<1> QED BY <1>1, <1>2, <1>8, BecomesGood

LEMMA PublishesKeeps ==
  ASSUME IInv, NEW g \in Generation, RelayPublishes(g)
  PROVE  IInv'
<1> DEFINE s == ChildBecomes(Now, "publisher", g, "flowing")
<1>1. child["publisher"][g] = "live" /\ Becomes(s) /\ orders' = orders
  BY DEF RelayPublishes, ChildBecomes
<1>2. Good(Now) /\ Shaped(Now) /\ orders \in Nat
  BY GoodNow DEF Good
<1>3. "publisher" \in Kind
  BY DEF Kind
<1> HIDE DEF s
<1>4. /\ Shaped(s) /\ s.sup = Now.sup /\ s.asleep = Now.asleep
      /\ \A i \in Kind, j \in Generation :
            s.child[i][j] = IF i = "publisher" /\ j = g THEN "flowing" ELSE Now.child[i][j]
  BY <1>2, <1>3, ChildBecomesIs DEF s
<1>5. \A i \in Kind, j \in Generation :
         s.child[i][j] \in Running <=> Now.child[i][j] \in Running
  BY <1>1, <1>4, NowIs DEF Running
<1>6. Good(s)
  BY <1>2, <1>4, <1>5, SameRunningIsGood
<1> QED BY <1>1, <1>2, <1>6, BecomesGood

LEMMA ProgressKeeps ==
  ASSUME IInv, StreamSupervisorAssumption, NEW g \in Generation, Progress(g)
  PROVE  IInv'
<1> DEFINE a == IF Flowing(g) THEN 0 ELSE sup.attempts
           on == [sup EXCEPT !.attempts = a]
           s == Record(on, child, mode, asleep)
<1>1. /\ sup' = on /\ child' = child /\ mode' = mode /\ asleep' = asleep /\ orders' = orders
  BY DEF Progress
<1>2. Good(Now) /\ Now \in Object /\ orders \in Nat
  BY GoodNow DEF Good, Shaped
<1>3. /\ sup \in Supervisors /\ child \in Children /\ mode \in Modes /\ asleep \in SUBSET Nat
  BY <1>2 DEF Now, Object
<1>4. a \in Nat /\ (a <= sup.attempts \/ a <= MaxRetries)
  BY <1>3 DEF Supervisors, StreamSupervisorAssumption
<1> HIDE DEF a
<1>5. /\ on \in Supervisors /\ on.attempts = a /\ on.state = sup.state
      /\ on.generation = sup.generation /\ on.current = sup.current /\ on.order = sup.order
  BY <1>3, <1>4 DEF Supervisors
<1> HIDE DEF on
<1>6. s \in Object
  BY <1>3, <1>5, RecordIsObject
<1>7. s.sup = on /\ s.child = child /\ s.mode = mode /\ s.asleep = asleep
  BY DEF Record
<1> HIDE DEF s
<1>8. Shaped(s)
  BY <1>2, <1>5, <1>6, <1>7, NowIs DEF Good, Shaped
<1>9. sup.attempts \in Nat /\ MaxRetries \in Nat
  BY <1>3 DEF Supervisors, StreamSupervisorAssumption
<1>10. Bounded(s)
  BY <1>2, <1>4, <1>5, <1>7, <1>9, NowIs DEF Good, Bounded
<1>11. Single(s) /\ Alive(s)
  BY <1>2, <1>5, <1>7, NowIs DEF Good, Single, Alive
<1>12. Becomes(s)
  BY <1>1, <1>7 DEF Becomes
<1> QED BY <1>1, <1>2, <1>8, <1>10, <1>11, <1>12, BecomesGood DEF Good

(* A retry that is not obsolete launches with the attempts there were. *)
LEMMA WakeLaunches ==
  ASSUME IInv, StreamSupervisorAssumption, NEW g \in Generation, NEW media \in BOOLEAN,
         Wake(g, media), g = sup.generation
  PROVE  /\ sup.state = "retrying"
         /\ \E t : /\ t.sup.generation = g /\ t.sup.attempts = sup.attempts
                   /\ t.mode = mode
                   /\ Good(Launch(t, media)) /\ Counts(t, Launch(t, media))
                   /\ Becomes(Launch(t, media))
<1> DEFINE s == Awake(Now, g)
           t == InState(s, "streaming")
<1>1. g \in asleep /\ (~media => MayBreak) /\ Becomes(Launch(t, media))
  BY DEF Wake, Awake
<1>2. Good(Now) /\ Shaped(Now)
  BY GoodNow DEF Good
<1>3. /\ Shaped(s) /\ s.sup = Now.sup /\ s.child = Now.child /\ s.mode = Now.mode
      /\ s.asleep = Now.asleep \ {g}
  BY <1>2, AwakeIs
<1> HIDE DEF s
<1>4. sup.state = "retrying"
  BY <1>1 DEF IInv, OneAttempt
<1>5. Quiet(s)
  BY <1>3, <1>4, NowIs DEF IInv, OneAttempt, Quiet
<1>6. /\ Shaped(t) /\ t.sup.state = "streaming" /\ t.sup.generation = s.sup.generation
      /\ t.sup.attempts = s.sup.attempts
      /\ t.child = s.child /\ t.mode = s.mode /\ t.asleep = s.asleep
  BY <1>3, InStateIs
<1> HIDE DEF t
<1>7. Quiet(t)
  BY <1>5, <1>6 DEF Quiet
<1>8. t.sup.attempts = sup.attempts /\ sup.attempts <= MaxRetries /\ t.mode = mode
  BY <1>3, <1>4, <1>6, NowIs DEF IInv, TypeOK
<1>9. t.sup.generation = g /\ t.sup.generation \notin t.asleep
  BY <1>3, <1>6, NowIs
<1>10. ~media => t.sup.generation < MaxGeneration
  BY <1>1, <1>9 DEF MayBreak
<1>11. Good(Launch(t, media)) /\ Counts(t, Launch(t, media))
  BY <1>6, <1>7, <1>8, <1>9, <1>10, LaunchIsGood
<1> QED BY <1>1, <1>4, <1>8, <1>9, <1>11

(* An obsolete one only ends its sleep. *)
LEMMA ObsoleteWakes ==
  ASSUME IInv, NEW g \in Generation, NEW media \in BOOLEAN,
         Wake(g, media), g # sup.generation
  PROVE  IInv' /\ sup' = sup /\ mode' = mode /\ inARow' = inARow
<1> DEFINE s == Awake(Now, g)
<1>1. Becomes(s) /\ orders' = orders /\ inARow' = inARow
  BY DEF Wake, Awake
<1>2. Good(Now) /\ Shaped(Now) /\ orders \in Nat
  BY GoodNow DEF Good
<1>3. /\ Shaped(s) /\ s.sup = Now.sup /\ s.child = Now.child /\ s.mode = Now.mode
      /\ s.asleep = Now.asleep \ {g}
  BY <1>2, AwakeIs
<1> HIDE DEF s
<1>4. Bounded(s) /\ Single(s) /\ Alive(s)
  BY <1>2, <1>3, NowIs DEF Good, Bounded, Single, Alive
<1>5. IInv'
  BY <1>1, <1>2, <1>3, <1>4, BecomesGood DEF Good
<1> QED BY <1>1, <1>3, <1>5, NowIs DEF Becomes

LEMMA WakeKeeps ==
  ASSUME IInv, StreamSupervisorAssumption, NEW g \in Generation, NEW media \in BOOLEAN,
         Wake(g, media)
  PROVE  IInv'
<1>1. CASE g = sup.generation
  <2>1. PICK t : Good(Launch(t, media)) /\ Becomes(Launch(t, media))
    BY <1>1, WakeLaunches
  <2>2. orders' \in Nat
    BY DEF Wake, IInv, TypeOK
  <2> QED BY <2>1, <2>2, BecomesGood
<1>2. CASE g # sup.generation
  BY <1>2, ObsoleteWakes
<1> QED BY <1>1, <1>2

LEMMA ExitKeeps ==
  ASSUME IInv, StreamSupervisorAssumption, NEW k \in Kind, NEW g \in Generation, Exit(k, g)
  PROVE  IInv'
<1>1. orders' \in Nat
  BY DEF Exit, IInv, TypeOK
<1>2. child[k][g] \in Running \cup {"told"}
  BY DEF Exit
<1>3. LET s == ChildBecomes(Now, k, g, "gone")
      IN IF Valid(g) THEN MayBreak /\ Becomes(Retry(s)) ELSE Becomes(s)
  BY DEF Exit, ChildBecomes
<1> QED BY <1>1, <1>2, <1>3, EndedIsGood

LEMMA RelayFailsKeeps ==
  ASSUME IInv, StreamSupervisorAssumption, NEW g \in Generation, RelayFails(g)
  PROVE  IInv'
<1>1. orders' \in Nat
  BY DEF RelayFails, IInv, TypeOK
<1>2. child["publisher"][g] \in Running \cup {"told"} /\ "publisher" \in Kind
  BY DEF RelayFails, Kind
<1>3. LET s == ChildBecomes(Now, "publisher", g, "gone")
      IN IF Valid(g) THEN MayBreak /\ Becomes(Retry(s)) ELSE Becomes(s)
  BY DEF RelayFails, ChildBecomes
<1> QED BY <1>1, <1>2, <1>3, EndedIsGood

LEMMA StepKeeps ==
  ASSUME IInv, StreamSupervisorAssumption, [Next]_vars
  PROVE  IInv'
<1>1. CASE UNCHANGED vars
  BY <1>1 DEF vars, IInv, TypeOK, OneAttempt, StreamingIsAlive
<1>2. CASE Next
  BY <1>2, StartKeeps, StopKeeps, ExitKeeps, RelayFailsKeeps, PublishesKeeps,
     ProgressKeeps, WakeKeeps DEF Next
<1> QED BY <1>1, <1>2

(* No attempt outlives the next, one retry is under way exactly while the   *)
(* state says so, and a stream that is on has every process it needs:      *)
(* the methods of the supervisor keep it whatever its callbacks do.        *)
THEOREM Invariant == Spec => []IInv
<1>1. Init => IInv
  BY InitGood, StreamSupervisorAssumption
<1>2. IInv /\ [Next]_vars => IInv'
  BY StepKeeps, StreamSupervisorAssumption
<1> QED BY <1>1, <1>2, PTL DEF Spec

-----------------------------------------------------------------------------
(* The order to stop *)

(* What a handler does to the state when none was asked for. *)
LEMMA EndedStays ==
  ASSUME IInv, sup.state = "stopped", NEW k \in Kind, NEW g \in Generation,
         LET s == ChildBecomes(Now, k, g, "gone")
         IN IF Valid(g) THEN MayBreak /\ Becomes(Retry(s)) ELSE Becomes(s)
  PROVE  sup' = sup
<1> DEFINE s == ChildBecomes(Now, k, g, "gone")
<1>1. Becomes(s)
  BY DEF Valid
<1>2. Shaped(Now)
  BY GoodNow DEF Good
<1> HIDE DEF s
<1>3. s.sup = Now.sup
  BY <1>2, ChildBecomesIs DEF s
<1> QED BY <1>1, <1>3, NowIs DEF Becomes

LEMMA StopStep ==
  ASSUME IInv, [Next]_vars, sup.state = "stopped", sup'.state # "stopped"
  PROVE  orders' > orders
<1>1. orders \in Nat /\ Shaped(Now)
  BY GoodNow DEF Good
<1>2. ~ UNCHANGED vars /\ ~Stop
  BY DEF vars, Stop
<1>3. ASSUME NEW order \in Orders, NEW media \in BOOLEAN, Start(order, media)
      PROVE  orders' > orders
  BY <1>1, <1>3 DEF Start
<1>4. ASSUME NEW g \in Generation, NEW k \in Kind, Exit(k, g) PROVE FALSE
  <2>1. LET s == ChildBecomes(Now, k, g, "gone")
        IN IF Valid(g) THEN MayBreak /\ Becomes(Retry(s)) ELSE Becomes(s)
    BY <1>4 DEF Exit, ChildBecomes
  <2> QED BY <2>1, EndedStays
<1>5. ASSUME NEW g \in Generation, RelayFails(g) PROVE FALSE
  <2>1. LET s == ChildBecomes(Now, "publisher", g, "gone")
        IN IF Valid(g) THEN MayBreak /\ Becomes(Retry(s)) ELSE Becomes(s)
    BY <1>5 DEF RelayFails, ChildBecomes
  <2>2. "publisher" \in Kind
    BY DEF Kind
  <2> QED BY <2>1, <2>2, EndedStays
<1>6. ASSUME NEW g \in Generation, RelayPublishes(g) PROVE FALSE
  <2>1. Becomes(ChildBecomes(Now, "publisher", g, "flowing")) /\ "publisher" \in Kind
    BY <1>6 DEF RelayPublishes, ChildBecomes, Kind
  <2>2. ChildBecomes(Now, "publisher", g, "flowing").sup = Now.sup
    BY <1>1, <2>1, ChildBecomesIs
  <2> QED BY <2>1, <2>2, NowIs DEF Becomes
<1>7. ASSUME NEW g \in Generation, Progress(g) PROVE FALSE
  <2>1. sup \in Supervisors
    BY <1>1, NowIs DEF Shaped, Object
  <2>2. sup'.state = sup.state
    BY <1>7, <2>1 DEF Progress, Supervisors
  <2> QED BY <2>2
<1>8. ASSUME NEW g \in Generation, NEW media \in BOOLEAN, Wake(g, media) PROVE FALSE
  <2>1. g # sup.generation
    BY <1>8 DEF Wake, IInv, OneAttempt
  <2> QED BY <1>8, <2>1, ObsoleteWakes
<1> QED BY <1>2, <1>3, <1>4, <1>5, <1>6, <1>7, <1>8 DEF Next

(* Only an order starts what an order has stopped: no exit, no failure of   *)
(* the relay and no retry that slept through the order to stop.            *)
THEOREM StopStays == Spec => StoppedUntilStart
<1>1. IInv /\ [Next]_vars
        => [sup.state = "stopped" /\ sup'.state # "stopped" => orders' > orders]_vars
  BY StopStep
<1> QED BY <1>1, Invariant, PTL DEF Spec, StoppedUntilStart

-----------------------------------------------------------------------------
(* The bound of the retries *)

(* What is not launched yet has no mode. *)
Fresh ==
    \A g \in Generation :
       g > sup.generation \/ (sup.state = "retrying" /\ g = sup.generation) => mode[g] = "none"

NoRecording == \A g \in Generation : mode[g] # "record"

(* The relaunches in a row are attempts that were used up, but for the one  *)
(* that a retry has ahead of it.                                           *)
AttemptsCover ==
    /\ inARow <= MaxRetries
    /\ sup.state # "stopped" => inARow <= sup.attempts
    /\ sup.state = "retrying" => inARow < sup.attempts

RInv == inARow \in Nat /\ Fresh /\ (NoRecording => AttemptsCover)

LEMMA ObjectNow ==
  ASSUME IInv
  PROVE  /\ Shaped(Now) /\ sup \in Supervisors /\ mode \in Modes
         /\ sup.generation \in Nat /\ sup.attempts \in Nat
<1>1. Shaped(Now)
  BY GoodNow DEF Good
<1>2. sup \in Supervisors /\ mode \in Modes
  BY <1>1 DEF Now, Shaped, Object
<1> QED BY <1>1, <1>2 DEF Supervisors

LEMMA EndedCounts ==
  ASSUME IInv, RInv, StreamSupervisorAssumption, NEW k \in Kind, NEW g \in Generation,
         child[k][g] \in Running \cup {"told"}, inARow' = inARow,
         LET s == ChildBecomes(Now, k, g, "gone")
         IN IF Valid(g) THEN MayBreak /\ Becomes(Retry(s)) ELSE Becomes(s)
  PROVE  RInv'
<1> DEFINE s == ChildBecomes(Now, k, g, "gone")
<1>1. /\ Valid(g) => MayBreak /\ Becomes(Retry(s))
      /\ ~Valid(g) => Becomes(s)
  OBVIOUS
<1>2. /\ sup.generation \in Nat /\ sup.attempts \in Nat
      /\ Shaped(Now) /\ Covered(Now)
  BY GoodNow, ObjectNow
<1> HIDE DEF s
<1>3. /\ Shaped(s) /\ s.sup = sup /\ s.mode = mode
      /\ \A i \in Kind, j \in Generation :
            s.child[i][j] = IF i = k /\ j = g THEN "gone" ELSE child[i][j]
  <2>1. /\ Shaped(s) /\ s.sup = Now.sup /\ s.mode = Now.mode
        /\ \A i \in Kind, j \in Generation :
              s.child[i][j] = IF i = k /\ j = g THEN "gone" ELSE Now.child[i][j]
    BY <1>2, ChildBecomesIs DEF s
  <2> QED BY <2>1, NowIs
<1>4. CASE Valid(g)
  <2>1. Covered(s)
    BY <1>2, <1>3, NowIs DEF Covered, Running
  <2>2. /\ Retry(s).sup.state \in {"failed", "retrying"}
        /\ Retry(s).sup.attempts = sup.attempts + 1
        /\ Retry(s).sup.generation = sup.generation + 1
        /\ Retry(s).mode = mode
    BY <1>1, <1>3, <1>4, <2>1, RetryIsGood DEF MayBreak
  <2>3. /\ sup'.state \in {"failed", "retrying"} /\ sup'.attempts = sup.attempts + 1
        /\ sup'.generation = sup.generation + 1 /\ mode' = mode
    BY <1>1, <1>4, <2>2 DEF Becomes
  <2>4. Fresh'
    BY <1>2, <2>3 DEF RInv, Fresh, Generation
  <2>5. NoRecording => inARow <= sup.attempts /\ inARow <= MaxRetries
    BY <1>4 DEF RInv, AttemptsCover, Valid
  <2>6. (NoRecording => AttemptsCover)'
    BY <1>2, <2>3, <2>5 DEF RInv, NoRecording, AttemptsCover
  <2> QED BY <2>4, <2>6 DEF RInv
<1>5. CASE ~Valid(g)
  <2>1. sup' = sup /\ mode' = mode
    BY <1>1, <1>3, <1>5 DEF Becomes
  <2> QED BY <2>1 DEF RInv, Fresh, NoRecording, AttemptsCover
<1> QED BY <1>4, <1>5

(* A launch, with inARow as it was before it or one more. *)
LEMMA LaunchCounts ==
  ASSUME NEW s, NEW media \in BOOLEAN, Counts(s, Launch(s, media)), Becomes(Launch(s, media)),
         s.sup.generation \in Nat, s.sup.attempts \in Nat, inARow' \in Nat,
         \A g \in Generation : g > s.sup.generation => s.mode[g] = "none",
         NoRecording' => inARow' <= MaxRetries /\ inARow' <= s.sup.attempts
  PROVE  RInv'
<1>1. /\ \/ /\ sup'.state \in {"streaming", "failed"}
            /\ sup'.attempts = s.sup.attempts /\ sup'.generation = s.sup.generation
         \/ /\ sup'.state \in {"retrying", "failed"}
            /\ sup'.attempts = s.sup.attempts + 1 /\ sup'.generation = s.sup.generation + 1
      /\ \A g \in Generation : g # s.sup.generation => mode'[g] = s.mode[g]
  BY DEF Becomes, Counts
<1>2. Fresh'
  BY <1>1 DEF Fresh, Generation
<1>3. (NoRecording => AttemptsCover)'
  BY <1>1 DEF AttemptsCover
<1> QED BY <1>2, <1>3 DEF RInv

LEMMA StartCounts ==
  ASSUME IInv, RInv, StreamSupervisorAssumption, NEW order \in Orders, NEW media \in BOOLEAN,
         Start(order, media)
  PROVE  RInv'
<1>1. PICK t : /\ t.sup.generation = sup.generation + 1 /\ t.sup.attempts = 0
               /\ t.mode = mode
               /\ Counts(t, Launch(t, media)) /\ Becomes(Launch(t, media))
  BY StartLaunches
<1>2. sup.generation \in Nat /\ inARow' = 0 /\ MaxRetries \in Nat
  BY ObjectNow DEF Start, StreamSupervisorAssumption
<1>3. \A g \in Generation : g > t.sup.generation => t.mode[g] = "none"
  BY <1>1, <1>2 DEF RInv, Fresh, Generation
<1> QED BY <1>1, <1>2, <1>3, LaunchCounts

LEMMA WakeCounts ==
  ASSUME IInv, RInv, StreamSupervisorAssumption, NEW g \in Generation,
         NEW media \in BOOLEAN, Wake(g, media)
  PROVE  RInv'
<1>1. CASE g = sup.generation
  <2>1. sup.state = "retrying"
    BY <1>1, WakeLaunches
  <2>2. PICK t : /\ t.sup.generation = g /\ t.sup.attempts = sup.attempts
                 /\ t.mode = mode
                 /\ Counts(t, Launch(t, media)) /\ Becomes(Launch(t, media))
    BY <1>1, WakeLaunches
  <2>3. /\ sup.generation \in Nat /\ sup.attempts \in Nat /\ sup.attempts <= MaxRetries
        /\ inARow \in Nat /\ inARow' = inARow + 1
    BY <1>1, <2>1, ObjectNow DEF Wake, RInv, IInv, TypeOK
  <2>4. \A h \in Generation : h >= g => mode[h] = "none"
    BY <1>1, <2>1, <2>3 DEF RInv, Fresh, Generation
  <2>5. NoRecording' => NoRecording
    <3>1. \A h \in Generation : h # g => mode'[h] = mode[h]
      BY <2>2 DEF Becomes, Counts
    <3> QED BY <2>4, <3>1 DEF NoRecording, Generation
  <2>6. NoRecording' => inARow' <= MaxRetries /\ inARow' <= t.sup.attempts
    BY <2>1, <2>2, <2>3, <2>5, StreamSupervisorAssumption
       DEF RInv, AttemptsCover, StreamSupervisorAssumption
  <2>7. \A h \in Generation : h > t.sup.generation => t.mode[h] = "none"
    BY <2>2, <2>4 DEF Generation
  <2> QED BY <1>1, <2>2, <2>3, <2>6, <2>7, LaunchCounts
<1>2. CASE g # sup.generation
  BY <1>2, ObsoleteWakes DEF RInv, Fresh, NoRecording, AttemptsCover
<1> QED BY <1>1, <1>2

LEMMA StopCounts ==
  ASSUME IInv, RInv, StreamSupervisorAssumption, Stop
  PROVE  RInv'
<1> DEFINE n == NextGeneration(Now)
           s == StopProcesses(n)
           t == InState(s, "stopped")
<1>1. MayBreak /\ Becomes(t) /\ inARow' = inARow
  BY DEF Stop
<1>2. Shaped(Now) /\ Covered(Now) /\ sup.generation \in Nat
  BY GoodNow, ObjectNow
<1>3. /\ Shaped(n) /\ n.sup.generation = Now.sup.generation + 1
      /\ n.sup.current = Now.sup.current /\ n.child = Now.child /\ n.mode = Now.mode
  BY <1>1, <1>2, NowIs, NextGenerationIs DEF MayBreak
<1> HIDE DEF n
<1>4. Covered(n)
  BY <1>2, <1>3 DEF Covered
<1>5. Shaped(s) /\ s.mode = n.mode /\ s.sup = [n.sup EXCEPT !.current = Nothing]
  BY <1>3, <1>4, StopProcessesQuiets
<1>6. s.sup.generation = n.sup.generation
  BY <1>3, <1>5 DEF Shaped, Object, Supervisors
<1> HIDE DEF s
<1>7. t.sup.state = "stopped" /\ t.sup.generation = s.sup.generation /\ t.mode = s.mode
  BY <1>5, InStateIs
<1> HIDE DEF t
<1>8. sup'.state = "stopped" /\ sup'.generation = sup.generation + 1 /\ mode' = mode
  BY <1>1, <1>3, <1>5, <1>6, <1>7, NowIs DEF Becomes
<1> QED BY <1>1, <1>2, <1>8 DEF RInv, Fresh, NoRecording, AttemptsCover, Generation

(* What was told to end takes its relay with it, so only a stream that is   *)
(* on gets its attempts back.                                              *)
LEMMA ProgressCounts ==
  ASSUME IInv, RInv, StreamSupervisorAssumption, NEW g \in Generation, Progress(g)
  PROVE  RInv'
<1>1. /\ sup \in Supervisors /\ mode' = mode
      /\ sup' = [sup EXCEPT !.attempts = IF Flowing(g) THEN 0 ELSE sup.attempts]
      /\ inARow' = IF Flowing(g) /\ child["ffmpeg"][g] = "live" THEN 0 ELSE inARow
  BY ObjectNow DEF Progress
<1>2. /\ sup'.state = sup.state /\ sup'.generation = sup.generation
      /\ sup'.attempts = IF Flowing(g) THEN 0 ELSE sup.attempts
  BY <1>1 DEF Supervisors
<1>3. NoRecording /\ Flowing(g) => sup.state = "streaming" /\ child["ffmpeg"][g] = "live"
  <2>1. SUFFICES ASSUME NoRecording, Flowing(g)
                 PROVE  sup.state = "streaming" /\ child["ffmpeg"][g] = "live"
    OBVIOUS
  <2>2. child["publisher"][g] = "flowing" /\ "publisher" \in Kind /\ "ffmpeg" \in Kind
    BY <2>1 DEF Flowing, NoRecording, Kind
  <2>3. sup.state = "streaming" /\ g = sup.generation
    BY <2>2 DEF IInv, OneAttempt, Running
  <2>4. child["ffmpeg"][g] \in Running
    BY <2>2, <2>3 DEF IInv, StreamingIsAlive
  <2> QED BY <2>3, <2>4 DEF Progress, Running
<1>4. Fresh'
  BY <1>1, <1>2 DEF RInv, Fresh
<1>5. MaxRetries \in Nat
  BY DEF StreamSupervisorAssumption
<1>6. (NoRecording => AttemptsCover)'
  BY <1>1, <1>2, <1>3, <1>5 DEF RInv, NoRecording, AttemptsCover
<1> QED BY <1>1, <1>4, <1>6 DEF RInv

LEMMA StepCounts ==
  ASSUME IInv, RInv, StreamSupervisorAssumption, [Next]_vars
  PROVE  RInv'
<1>1. CASE UNCHANGED vars
  BY <1>1 DEF vars, RInv, Fresh, NoRecording, AttemptsCover
<1>2. ASSUME NEW g \in Generation, NEW k \in Kind, Exit(k, g) PROVE RInv'
  <2>1. /\ child[k][g] \in Running \cup {"told"} /\ inARow' = inARow
        /\ LET s == ChildBecomes(Now, k, g, "gone")
           IN IF Valid(g) THEN MayBreak /\ Becomes(Retry(s)) ELSE Becomes(s)
    BY <1>2 DEF Exit, ChildBecomes
  <2> QED BY <2>1, EndedCounts
<1>3. ASSUME NEW g \in Generation, RelayFails(g) PROVE RInv'
  <2>1. /\ child["publisher"][g] \in Running \cup {"told"} /\ inARow' = inARow
        /\ LET s == ChildBecomes(Now, "publisher", g, "gone")
           IN IF Valid(g) THEN MayBreak /\ Becomes(Retry(s)) ELSE Becomes(s)
    BY <1>3 DEF RelayFails, ChildBecomes
  <2>2. "publisher" \in Kind
    BY DEF Kind
  <2> QED BY <2>1, <2>2, EndedCounts
<1>4. ASSUME NEW g \in Generation, RelayPublishes(g) PROVE RInv'
  <2>1. /\ Becomes(ChildBecomes(Now, "publisher", g, "flowing")) /\ inARow' = inARow
        /\ "publisher" \in Kind
    BY <1>4 DEF RelayPublishes, ChildBecomes, Kind
  <2>2. /\ ChildBecomes(Now, "publisher", g, "flowing").sup = Now.sup
        /\ ChildBecomes(Now, "publisher", g, "flowing").mode = Now.mode
    BY <2>1, ObjectNow, ChildBecomesIs
  <2>3. sup' = sup /\ mode' = mode
    BY <2>1, <2>2, NowIs DEF Becomes
  <2> QED BY <2>1, <2>3 DEF RInv, Fresh, NoRecording, AttemptsCover
<1>5. CASE Next
  BY <1>2, <1>3, <1>4, <1>5, StartCounts, StopCounts, ProgressCounts, WakeCounts DEF Next
<1> QED BY <1>1, <1>5

(* supervisor.ts:4: no more than maxRetries relaunches follow each other    *)
(* without the stream having flowed, for any number of them, while nothing *)
(* is recorded.                                                            *)
THEOREM RetriesBounded == Spec => []RelaysBounded
<1>1. Init => RInv
  BY StreamSupervisorAssumption DEF Init, RInv, Fresh, NoRecording, AttemptsCover,
                                    StreamSupervisorAssumption
<1>2. IInv /\ RInv /\ [Next]_vars => RInv'
  BY StepCounts, StreamSupervisorAssumption
<1>3. RInv => RelaysBounded
  BY DEF RInv, NoRecording, AttemptsCover, RelaysBounded
<1> QED BY <1>1, <1>2, <1>3, Invariant, PTL DEF Spec
=============================================================================
