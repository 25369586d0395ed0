--------------------------- MODULE BotVersionProofs ---------------------------
(***************************************************************************)
(* Theorems about BotVersion, for any number of requests, workers, builds, *)
(* attempts and faults: the two safety properties of the life cycle.       *)
(***************************************************************************)
EXTENDS BotVersion, SequenceTheorems, FiniteSetTheorems, TLAPS

Versions == [state : State, build : Nat \cup {None}]

ActionName == {"submit", "publish", "freeze", "retire", "suspend"}

Requests == [pc : {"idle", "transit", "insert", "enqueue"},
             action : ActionName \cup {"none"}, build : Nat \cup {None}]

Places == {"idle", "start", "complete", "decide", "completed", "thrown", "reject"}

Works == [pc : Places, build : Nat \cup {None}, attempts : Nat,
          result : {"none", "passed", "failed"}]

Statuses == {"none", "queued", "running", "passed", "failed"}

Rows == [status : {"none", "queued", "running", "done", "needs_review"}, attempts : Nat]

(* As much of the types as the steps need. *)
VersionTyped == version \in Versions
RequestTyped == request \in [Request -> Requests]
WorkerTyped == worker \in [Worker -> Works]
BuildsTyped == builds \in Seq(Statuses)
JobsTyped == jobs \in Seq(Rows)

(* A worker that is at it has a build. *)
HasBuild == \A w \in Worker : worker[w].pc # "idle" => worker[w].build \in Nat

(* A request that has read the version knows what it is for. *)
HasAction == \A r \in Request : request[r].pc = "transit" => request[r].action \in ActionName

(* The build of the version is one that validated it. *)
BuildIsArtifact == version.build \in artifacts \cup {None}

(* What a request is about to make playable was playable when it was read, *)
(* and the artifact of the version is never taken away.                    *)
StaleIsHarmless ==
    \A r \in Request :
       request[r].pc = "transit" /\ request[r].action \in {"publish", "freeze", "retire"}
          => version.build \in artifacts

VInv == /\ VersionTyped /\ RequestTyped /\ WorkerTyped /\ BuildsTyped /\ JobsTyped
        /\ HasBuild /\ HasAction
        /\ BuildIsArtifact /\ PlayableHasItsArtifact /\ StaleIsHarmless

(* The updates of one place, named so that the lemmas about them can be cited. *)
Put(f, i, v) == [f EXCEPT ![i] = v]

PutStatus(s, i, v) == [s EXCEPT ![i].status = v]

-----------------------------------------------------------------------------
(* Updates *)

LEMMA PutInSeq ==
  ASSUME NEW S, NEW s \in Seq(S), NEW i, NEW v \in S
  PROVE  Put(s, i, v) \in Seq(S)
<1>1. PICK n \in Nat : s \in [1..n -> S]
  BY SeqDef
<1>2. [s EXCEPT ![i] = v] \in [1..n -> S]
  BY <1>1
<1> QED BY <1>2, SeqDef DEF Put

LEMMA PutStatusInSeq ==
  ASSUME NEW s \in Seq(Rows), NEW i,
         NEW v \in {"none", "queued", "running", "done", "needs_review"}
  PROVE  PutStatus(s, i, v) \in Seq(Rows)
<1>1. PICK n \in Nat : s \in [1..n -> Rows]
  BY SeqDef
<1>2. ASSUME i \in 1..n PROVE [s[i] EXCEPT !.status = v] \in Rows
  BY <1>1, <1>2 DEF Rows
<1>3. [s EXCEPT ![i].status = v] \in [1..n -> Rows]
  BY <1>1, <1>2
<1> QED BY <1>3, SeqDef DEF PutStatus

(* One worker goes on: what it has at hand stays a build. *)
LEMMA WorkerPut ==
  ASSUME WorkerTyped, HasBuild, NEW w \in Worker, NEW v \in Works,
         v.pc # "idle" => v.build \in Nat, worker' = Put(worker, w, v)
  PROVE  WorkerTyped' /\ HasBuild'
<1>1. /\ worker' \in [Worker -> Works]
      /\ \A u \in Worker : worker'[u] = IF u = w THEN v ELSE worker[u]
  BY DEF Put, WorkerTyped
<1> QED BY <1>1 DEF WorkerTyped, HasBuild

LEMMA GotoIs ==
  ASSUME WorkerTyped, HasBuild, NEW w \in Worker, worker[w].pc # "idle",
         NEW pc \in Places, Goto(w, pc)
  PROVE  WorkerTyped' /\ HasBuild'
<1> DEFINE v == [worker[w] EXCEPT !.pc = pc]
<1>1. worker' = Put(worker, w, v)
  BY DEF Goto, Put
<1>2. v \in Works /\ v.build \in Nat
  BY DEF WorkerTyped, Works, HasBuild
<1> HIDE DEF v
<1> QED BY <1>1, <1>2, WorkerPut

LEMMA GoIdleIs ==
  ASSUME WorkerTyped, HasBuild, NEW w \in Worker, GoIdle(w)
  PROVE  WorkerTyped' /\ HasBuild'
<1>1. worker' = Put(worker, w, NoWork)
  BY DEF GoIdle, Put
<1>2. NoWork \in Works /\ NoWork.pc = "idle"
  BY DEF NoWork, Works, Places
<1> QED BY <1>1, <1>2, WorkerPut

(* One request goes on; the artifact of the version is still there. *)
LEMMA RequestPut ==
  ASSUME RequestTyped, HasAction, StaleIsHarmless, NEW r \in Request, NEW v \in Requests,
         request' = Put(request, r, v),
         v.pc = "transit" => v.action \in ActionName,
         v.pc = "transit" /\ v.action \in {"publish", "freeze", "retire"}
            => version'.build \in artifacts',
         version.build \in artifacts => version'.build \in artifacts'
  PROVE  RequestTyped' /\ HasAction' /\ StaleIsHarmless'
<1>1. /\ request' \in [Request -> Requests]
      /\ \A q \in Request : request'[q] = IF q = r THEN v ELSE request[q]
  BY DEF Put, RequestTyped
<1> QED BY <1>1 DEF RequestTyped, HasAction, StaleIsHarmless

LEMMA RequestDone ==
  ASSUME RequestTyped, HasAction, StaleIsHarmless, NEW r \in Request,
         request' = [request EXCEPT ![r] = NoRequest],
         version.build \in artifacts => version'.build \in artifacts'
  PROVE  RequestTyped' /\ HasAction' /\ StaleIsHarmless'
<1>1. request' = Put(request, r, NoRequest)
  BY DEF Put
<1>2. NoRequest \in Requests /\ NoRequest.pc = "idle"
  BY DEF NoRequest, Requests
<1> QED BY <1>1, <1>2, RequestPut

-----------------------------------------------------------------------------
(* Steps *)

LEMMA ReadVersionKeeps ==
  ASSUME VInv, BotVersionAssumption, NEW r \in Request, NEW action \in Actions[r],
         ReadVersion(r, action)
  PROVE  VInv'
<1> DEFINE v == [NoRequest EXCEPT !.pc = "transit", !.action = action]
<1>1. UNCHANGED <<version, builds, artifacts, jobs, worker>> /\ request' = Put(request, r, v)
  BY DEF ReadVersion, Put
<1>2. action \in ActionName
  BY DEF BotVersionAssumption, ActionName
<1>3. v \in Requests /\ v.action = action
  BY <1>2 DEF NoRequest, Requests
<1>4. action \in {"publish", "freeze", "retire"} => version.build \in artifacts
  BY DEF ReadVersion, Transitions, VInv, PlayableHasItsArtifact
<1> HIDE DEF v
<1>5. RequestTyped' /\ HasAction' /\ StaleIsHarmless'
  BY <1>1, <1>2, <1>3, <1>4, RequestPut DEF VInv
<1> QED BY <1>1, <1>5 DEF VInv, VersionTyped, WorkerTyped, BuildsTyped, JobsTyped, HasBuild,
                          BuildIsArtifact, PlayableHasItsArtifact

LEMMA TransitKeeps ==
  ASSUME VInv, NEW r \in Request, Transit(r)
  PROVE  VInv'
<1> DEFINE action == request[r].action
           v == IF action = "submit" THEN [request[r] EXCEPT !.pc = "insert"] ELSE NoRequest
<1>1. /\ UNCHANGED <<builds, artifacts, jobs, worker>>
      /\ request[r].pc = "transit" /\ request' = Put(request, r, v)
      /\ version' = [version EXCEPT !.state = Transitions[action].to]
  BY DEF Transit, Put, Asking
<1>2. action \in ActionName
  BY <1>1 DEF VInv, HasAction
<1>3. Transitions[action].to \in State
  BY <1>2 DEF ActionName, Transitions, State
<1>4. /\ version' \in Versions /\ version'.build = version.build
      /\ version'.state = Transitions[action].to
  BY <1>1, <1>3 DEF VInv, VersionTyped, Versions
<1>5. v \in Requests /\ v.pc # "transit"
  BY DEF VInv, RequestTyped, Requests, NoRequest
<1> HIDE DEF v
<1>6. RequestTyped' /\ HasAction' /\ StaleIsHarmless'
  BY <1>1, <1>4, <1>5, RequestPut DEF VInv
<1>7. PlayableHasItsArtifact'
  <2>1. CASE action \in {"publish", "freeze", "retire"}
    BY <1>1, <1>4, <2>1 DEF VInv, StaleIsHarmless, PlayableHasItsArtifact
  <2>2. CASE action \in {"submit", "suspend"}
    BY <1>4, <2>2 DEF Transitions, PlayableHasItsArtifact
  <2> QED BY <1>2, <2>1, <2>2 DEF ActionName
<1> QED BY <1>1, <1>4, <1>6, <1>7 DEF VInv, VersionTyped, WorkerTyped, BuildsTyped, JobsTyped,
                                      HasBuild, BuildIsArtifact

LEMMA InsertBuildKeeps ==
  ASSUME VInv, NEW r \in Request, InsertBuild(r)
  PROVE  VInv'
<1> DEFINE row == [status |-> "none", attempts |-> 0]
           v == [request[r] EXCEPT !.pc = "enqueue", !.build = Len(builds')]
<1>1. /\ UNCHANGED <<version, artifacts, worker>> /\ request' = Put(request, r, v)
      /\ builds' = Append(builds, "queued") /\ jobs' = Append(jobs, row)
  BY DEF InsertBuild, Put
<1>2. BuildsTyped' /\ JobsTyped'
  BY <1>1 DEF VInv, BuildsTyped, JobsTyped, Statuses, Rows
<1>3. Len(builds') \in Nat
  BY <1>2 DEF BuildsTyped
<1>4. v \in Requests /\ v.pc = "enqueue"
  BY <1>3 DEF VInv, RequestTyped, Requests
<1> HIDE DEF v
<1>5. RequestTyped' /\ HasAction' /\ StaleIsHarmless'
  BY <1>1, <1>4, RequestPut DEF VInv
<1> QED BY <1>1, <1>2, <1>5 DEF VInv, VersionTyped, WorkerTyped, HasBuild, BuildIsArtifact,
                                PlayableHasItsArtifact

LEMMA EnqueueBuildKeeps ==
  ASSUME VInv, NEW r \in Request, EnqueueBuild(r)
  PROVE  VInv'
<1>1. /\ UNCHANGED <<version, builds, artifacts, worker>>
      /\ request' = [request EXCEPT ![r] = NoRequest]
      /\ jobs' = PutStatus(jobs, request[r].build, "queued")
  BY DEF EnqueueBuild, PutStatus
<1>2. JobsTyped'
  BY <1>1, PutStatusInSeq DEF VInv, JobsTyped
<1>3. RequestTyped' /\ HasAction' /\ StaleIsHarmless'
  BY <1>1, RequestDone DEF VInv
<1> QED BY <1>1, <1>2, <1>3 DEF VInv, VersionTyped, WorkerTyped, BuildsTyped, HasBuild,
                                BuildIsArtifact, PlayableHasItsArtifact

LEMMA TakeKeeps ==
  ASSUME VInv, NEW w \in Worker, NEW b \in DOMAIN jobs, Take(w, b)
  PROVE  VInv'
<1> DEFINE row == [status |-> "running", attempts |-> jobs[b].attempts + 1]
           v == [NoWork EXCEPT !.pc = "start", !.build = b, !.attempts = jobs[b].attempts + 1]
<1>1. /\ UNCHANGED <<version, builds, artifacts, request>>
      /\ jobs' = Put(jobs, b, row) /\ worker' = Put(worker, w, v)
  BY DEF Take, Put
<1>2. b \in Nat /\ jobs[b] \in Rows
  <2>1. PICK n \in Nat : jobs \in [1..n -> Rows]
    BY SeqDef DEF VInv, JobsTyped
  <2> QED BY <2>1
<1>3. jobs[b].attempts + 1 \in Nat
  BY <1>2 DEF Rows
<1>4. row \in Rows
  BY <1>3 DEF Rows
<1>5. v = [pc |-> "start", build |-> b, attempts |-> jobs[b].attempts + 1, result |-> "none"]
  <2> DEFINE attempts == jobs[b].attempts + 1
             started == [NoWork EXCEPT !.pc = "start"]
             given == [started EXCEPT !.build = b]
  <2>1. v = [given EXCEPT !.attempts = attempts]
    OBVIOUS
  <2> HIDE DEF attempts, v
  <2>2. started = [pc |-> "start", build |-> None, attempts |-> 0, result |-> "none"]
    BY DEF NoWork
  <2> HIDE DEF started
  <2>3. given = [pc |-> "start", build |-> b, attempts |-> 0, result |-> "none"]
    BY <2>2
  <2> HIDE DEF given
  <2>4. v = [pc |-> "start", build |-> b, attempts |-> attempts, result |-> "none"]
    BY <2>1, <2>3
  <2> QED BY <2>4 DEF attempts
<1>6. v \in Works /\ v.build \in Nat
  BY <1>2, <1>3, <1>5 DEF Works, Places
<1> HIDE DEF row, v
<1>7. JobsTyped'
  BY <1>1, <1>4, PutInSeq DEF VInv, JobsTyped
<1>8. WorkerTyped' /\ HasBuild'
  BY <1>1, <1>6, WorkerPut DEF VInv
<1> QED BY <1>1, <1>7, <1>8 DEF VInv, VersionTyped, RequestTyped, BuildsTyped, HasAction,
                                BuildIsArtifact, PlayableHasItsArtifact, StaleIsHarmless

LEMMA RunPipelineKeeps ==
  ASSUME VInv, NEW w \in Worker, RunPipeline(w)
  PROVE  VInv'
<1> DEFINE b == worker[w].build
           status == IF builds[b] = "queued" THEN "running" ELSE builds[b]
<1>1. UNCHANGED <<version, artifacts, jobs, request>> /\ worker[w].pc = "start"
  BY DEF RunPipeline, At
<1>2. builds' = builds \/ builds' = [builds EXCEPT ![b] = status]
  BY DEF RunPipeline
<1>3. BuildsTyped'
  <2>1. PICK n \in Nat : builds \in [1..n -> Statuses]
    BY SeqDef DEF VInv, BuildsTyped
  <2>2. b \in 1..n => status \in Statuses
    BY <2>1 DEF Statuses
  <2> HIDE DEF status, b
  <2>3. builds' \in [1..n -> Statuses]
    BY <1>2, <2>1, <2>2
  <2> QED BY <2>3, SeqDef DEF BuildsTyped
<1>4. Goto(w, "thrown")
         \/ \E result \in {"passed", "failed"} :
               worker' = [worker EXCEPT ![w].pc = "complete", ![w].result = result]
  BY DEF RunPipeline
<1>5. WorkerTyped' /\ HasBuild'
  <2>1. ASSUME NEW result \in {"passed", "failed"},
               worker' = [worker EXCEPT ![w].pc = "complete", ![w].result = result]
        PROVE  WorkerTyped' /\ HasBuild'
    <3> DEFINE v == [worker[w] EXCEPT !.pc = "complete", !.result = result]
    <3>1. worker' = Put(worker, w, v)
      BY <2>1 DEF Put, VInv, WorkerTyped
    <3>2. v \in Works /\ v.build = worker[w].build
      BY DEF VInv, WorkerTyped, Works, Places
    <3>3. worker[w].build \in Nat
      BY <1>1 DEF VInv, HasBuild
    <3> HIDE DEF v
    <3> QED BY <3>1, <3>2, <3>3, WorkerPut DEF VInv
  <2>2. CASE Goto(w, "thrown")
    BY <1>1, <2>2, GotoIs DEF VInv, Places
  <2> QED BY <1>4, <2>1, <2>2
<1> QED BY <1>1, <1>3, <1>5 DEF VInv, VersionTyped, RequestTyped, JobsTyped, HasAction,
                                BuildIsArtifact, PlayableHasItsArtifact, StaleIsHarmless

(* The number of a build, and the outcome of a worker, in the row. *)
LEMMA ResultIsTyped ==
  ASSUME VInv, NEW w \in Worker,
         builds' = builds \/ builds' = [builds EXCEPT ![worker[w].build] = worker[w].result]
  PROVE  BuildsTyped'
<1>1. worker[w].result \in Statuses
  BY DEF VInv, WorkerTyped, Works, Statuses
<1>2. builds' = builds \/ builds' = Put(builds, worker[w].build, worker[w].result)
  BY DEF Put
<1> QED BY <1>1, <1>2, PutInSeq DEF VInv, BuildsTyped

LEMMA BeginCompleteKeeps ==
  ASSUME VInv, NEW w \in Worker, BeginComplete(w)
  PROVE  VInv'
<1>1. /\ UNCHANGED <<version, artifacts, jobs, request>> /\ worker[w].pc = "complete"
      /\ Goto(w, "decide") \/ Goto(w, "completed")
      /\ builds' = builds \/ builds' = [builds EXCEPT ![worker[w].build] = worker[w].result]
  BY DEF BeginComplete, At
<1>2. BuildsTyped'
  BY <1>1, ResultIsTyped
<1>3. WorkerTyped' /\ HasBuild'
  BY <1>1, GotoIs DEF VInv, Places
<1> QED BY <1>1, <1>2, <1>3 DEF VInv, VersionTyped, RequestTyped, JobsTyped, HasAction,
                                BuildIsArtifact, PlayableHasItsArtifact, StaleIsHarmless

LEMMA CommitCompleteKeeps ==
  ASSUME VInv, NEW w \in Worker, CommitComplete(w)
  PROVE  VInv'
<1> DEFINE b == worker[w].build
<1>1. /\ UNCHANGED <<jobs, request>> /\ worker[w].pc = "decide"
      /\ Goto(w, "thrown") \/ Goto(w, "completed")
      /\ builds' = builds \/ builds' = [builds EXCEPT ![worker[w].build] = worker[w].result]
  BY DEF CommitComplete, At
<1>2. BuildsTyped'
  BY <1>1, ResultIsTyped
<1>3. WorkerTyped' /\ HasBuild' /\ b \in Nat
  BY <1>1, GotoIs DEF VInv, Places, HasBuild
<1>4. \/ UNCHANGED <<version, artifacts>>
      \/ version' = [state |-> "validated", build |-> b] /\ artifacts' = artifacts \cup {b}
      \/ version' = [version EXCEPT !.state = "rejected"] /\ artifacts' = artifacts
  BY DEF CommitComplete
<1> HIDE DEF b
<1>5. VersionTyped' /\ BuildIsArtifact' /\ PlayableHasItsArtifact'
      /\ (version.build \in artifacts => version'.build \in artifacts')
  <2>1. CASE UNCHANGED <<version, artifacts>>
    BY <2>1 DEF VInv, VersionTyped, BuildIsArtifact, PlayableHasItsArtifact
  <2>2. CASE version' = [state |-> "validated", build |-> b] /\ artifacts' = artifacts \cup {b}
    BY <1>3, <2>2 DEF VersionTyped, BuildIsArtifact, PlayableHasItsArtifact, Versions, State
  <2>3. CASE version' = [version EXCEPT !.state = "rejected"] /\ artifacts' = artifacts
    <3>1. version' \in Versions /\ version'.state = "rejected" /\ version'.build = version.build
      BY <2>3 DEF VInv, VersionTyped, Versions, State
    <3> QED BY <2>3, <3>1 DEF VInv, VersionTyped, BuildIsArtifact, PlayableHasItsArtifact
  <2> QED BY <1>4, <2>1, <2>2, <2>3
<1> QED BY <1>1, <1>2, <1>3, <1>5 DEF VInv, RequestTyped, JobsTyped, HasAction, StaleIsHarmless

LEMMA FinishJobKeeps ==
  ASSUME VInv, NEW w \in Worker, FinishJob(w)
  PROVE  VInv'
<1>1. /\ UNCHANGED <<version, builds, artifacts, request>> /\ GoIdle(w)
      /\ jobs' = PutStatus(jobs, worker[w].build, "done")
  BY DEF FinishJob, PutStatus
<1>2. JobsTyped' /\ WorkerTyped' /\ HasBuild'
  BY <1>1, PutStatusInSeq, GoIdleIs DEF VInv, JobsTyped
<1> QED BY <1>1, <1>2 DEF VInv, VersionTyped, RequestTyped, BuildsTyped, HasAction,
                          BuildIsArtifact, PlayableHasItsArtifact, StaleIsHarmless

LEMMA FailJobKeeps ==
  ASSUME VInv, NEW w \in Worker, FailJob(w)
  PROVE  VInv'
<1> DEFINE status == IF worker[w].attempts >= MaxAttempts THEN "needs_review" ELSE "queued"
<1>1. /\ UNCHANGED <<version, builds, artifacts, request>> /\ worker[w].pc = "thrown"
      /\ GoIdle(w) \/ Goto(w, "reject")
      /\ jobs' = PutStatus(jobs, worker[w].build, status)
  BY DEF FailJob, PutStatus, At
<1>2. status \in {"none", "queued", "running", "done", "needs_review"}
  OBVIOUS
<1> HIDE DEF status
<1>3. JobsTyped'
  BY <1>1, <1>2, PutStatusInSeq DEF VInv, JobsTyped
<1>4. WorkerTyped' /\ HasBuild'
  BY <1>1, GotoIs, GoIdleIs DEF VInv, Places
<1> QED BY <1>1, <1>3, <1>4 DEF VInv, VersionTyped, RequestTyped, BuildsTyped, HasAction,
                                BuildIsArtifact, PlayableHasItsArtifact, StaleIsHarmless

LEMMA RejectKeeps ==
  ASSUME VInv, NEW w \in Worker, RejectUnverifiable(w)
  PROVE  VInv'
<1> DEFINE state == IF version.state = "validating" THEN "rejected" ELSE version.state
<1>1. /\ UNCHANGED <<artifacts, jobs, request>> /\ GoIdle(w)
      /\ builds' = Put(builds, worker[w].build, "failed")
      /\ version' = [version EXCEPT !.state = state]
  BY DEF RejectUnverifiable, Put
<1>2. state \in State /\ (state = version.state \/ state = "rejected")
  BY DEF VInv, VersionTyped, Versions, State
<1> HIDE DEF state
<1>3. version' \in Versions /\ version'.state = state /\ version'.build = version.build
  BY <1>1, <1>2 DEF VInv, VersionTyped, Versions
<1>4. BuildsTyped' /\ WorkerTyped' /\ HasBuild'
  BY <1>1, PutInSeq, GoIdleIs DEF VInv, BuildsTyped, Statuses
<1> QED BY <1>1, <1>2, <1>3, <1>4 DEF VInv, VersionTyped, RequestTyped, JobsTyped, HasAction,
                                      BuildIsArtifact, PlayableHasItsArtifact, StaleIsHarmless

LEMMA CrashRequestKeeps ==
  ASSUME VInv, NEW r \in Request, CrashRequest(r)
  PROVE  VInv'
<1>1. /\ UNCHANGED <<version, builds, artifacts, jobs, worker>>
      /\ request' = [request EXCEPT ![r] = NoRequest]
  BY DEF CrashRequest
<1>2. RequestTyped' /\ HasAction' /\ StaleIsHarmless'
  BY <1>1, RequestDone DEF VInv
<1> QED BY <1>1, <1>2 DEF VInv, VersionTyped, WorkerTyped, BuildsTyped, JobsTyped, HasBuild,
                          BuildIsArtifact, PlayableHasItsArtifact

(* A crash, or a statement that fails: only the worker is elsewhere. *)
LEMMA WorkerFaultKeeps ==
  ASSUME VInv, NEW w \in Worker, CrashWorker(w) \/ StatementFails(w)
  PROVE  VInv'
<1>1. /\ UNCHANGED <<version, builds, artifacts, jobs, request>>
      /\ GoIdle(w) \/ (worker[w].pc # "idle" /\ Goto(w, "thrown"))
  BY DEF CrashWorker, StatementFails
<1>2. WorkerTyped' /\ HasBuild'
  BY <1>1, GotoIs, GoIdleIs DEF VInv, Places
<1> QED BY <1>1, <1>2 DEF VInv, VersionTyped, RequestTyped, BuildsTyped, JobsTyped, HasAction,
                          BuildIsArtifact, PlayableHasItsArtifact, StaleIsHarmless

LEMMA StepKeeps ==
  ASSUME VInv, BotVersionAssumption, [Next]_vars
  PROVE  VInv'
<1>1. CASE UNCHANGED vars
  BY <1>1 DEF vars, VInv, VersionTyped, RequestTyped, WorkerTyped, BuildsTyped, JobsTyped,
              HasBuild, HasAction, BuildIsArtifact, PlayableHasItsArtifact, StaleIsHarmless
<1>2. ASSUME NEW r \in Request, RequestStep(r) \/ CrashRequest(r) PROVE VInv'
  BY <1>2, TransitKeeps, InsertBuildKeeps, EnqueueBuildKeeps, CrashRequestKeeps DEF RequestStep
<1>3. ASSUME NEW w \in Worker, WorkerStep(w) PROVE VInv'
  BY <1>3, RunPipelineKeeps, BeginCompleteKeeps, CommitCompleteKeeps, FinishJobKeeps,
     FailJobKeeps, RejectKeeps DEF WorkerStep
<1>4. ASSUME NEW w \in Worker, NEW b \in DOMAIN jobs,
             ClaimBuildJob(w, b) \/ ClaimAgain(w, b)
      PROVE  VInv'
  BY <1>4, TakeKeeps DEF ClaimBuildJob, ClaimAgain
<1> QED BY <1>1, <1>2, <1>3, <1>4, ReadVersionKeeps, WorkerFaultKeeps DEF Next, Claims

LEMMA InitKeeps == ASSUME Init PROVE VInv
<1>1. VersionTyped
  BY DEF Init, VersionTyped, Versions, State
<1>2. RequestTyped /\ HasAction /\ StaleIsHarmless
  BY DEF Init, RequestTyped, Requests, NoRequest, HasAction, StaleIsHarmless
<1>3. WorkerTyped /\ HasBuild
  BY DEF Init, WorkerTyped, Works, Places, NoWork, HasBuild
<1>4. BuildsTyped /\ JobsTyped
  BY DEF Init, BuildsTyped, JobsTyped
<1>5. BuildIsArtifact /\ PlayableHasItsArtifact
  BY DEF Init, BuildIsArtifact, PlayableHasItsArtifact
<1> QED BY <1>1, <1>2, <1>3, <1>4, <1>5 DEF VInv

(* The life cycle keeps the invariant, which says of the stale state that   *)
(* a request acts on no more than that it does no harm.                    *)
THEOREM Invariant == Spec => []VInv
<1>1. Init => VInv
  BY InitKeeps
<1>2. VInv /\ [Next]_vars => VInv'
  BY StepKeeps, BotVersionAssumption
<1> QED BY <1>1, <1>2, PTL DEF Spec

(* Whatever is or was playable has the artifact that a launch must find:    *)
(* neither a stale request, nor a second delivery of a build, nor a crash   *)
(* between two statements takes it away.                                   *)
THEOREM Playable == Spec => []PlayableHasItsArtifact
<1>1. VInv => PlayableHasItsArtifact
  BY DEF VInv
<1> QED BY <1>1, Invariant, PTL

-----------------------------------------------------------------------------
(* Validation *)

(* The COMMIT of a passed build on a version that is no longer validating   *)
(* meets the trigger, or UNIQUE (build_id) when it is the version's build.  *)
LEMMA CommitValidates ==
  ASSUME VInv, BotVersionAssumption, NEW w \in Worker, CommitComplete(w),
         version'.state = "validated"
  PROVE  version.state \in {"validating", "validated"}
<1> DEFINE b == worker[w].build
<1>1. b \in Nat /\ b # None
  BY DEF CommitComplete, At, VInv, HasBuild, BotVersionAssumption
<1>2. \/ UNCHANGED version
      \/ worker[w].result = "passed" /\ ~Guarded(b) /\ b \notin artifacts
      \/ version' = [version EXCEPT !.state = "rejected"]
  BY DEF CommitComplete
<1>3. version' # [version EXCEPT !.state = "rejected"]
  BY DEF VInv, VersionTyped, Versions
<1>4. CASE UNCHANGED version
  BY <1>4
<1>5. CASE ~Guarded(b) /\ b \notin artifacts
  <2>1. version.build # b
    BY <1>1, <1>5 DEF VInv, BuildIsArtifact
  <2> QED BY <1>5, <2>1 DEF Guarded
<1> QED BY <1>2, <1>3, <1>4, <1>5

LEMMA ValidatedStep ==
  ASSUME VInv, BotVersionAssumption, [Next]_vars, version'.state = "validated"
  PROVE  version.state \in {"validating", "validated"}
<1>1. CASE UNCHANGED version
  BY <1>1
<1>2. ASSUME NEW r \in Request, Transit(r) PROVE FALSE
  <2>1. request[r].action \in ActionName
    BY <1>2 DEF Transit, Asking, VInv, HasAction
  <2>2. Transitions[request[r].action].to # "validated"
    BY <2>1 DEF ActionName, Transitions
  <2>3. version'.state = Transitions[request[r].action].to
    BY <1>2 DEF Transit, VInv, VersionTyped, Versions
  <2> QED BY <2>2, <2>3
<1>3. ASSUME NEW w \in Worker, CommitComplete(w)
      PROVE  version.state \in {"validating", "validated"}
  BY <1>3, CommitValidates
<1>4. ASSUME NEW w \in Worker, RejectUnverifiable(w)
      PROVE  version.state \in {"validating", "validated"}
  <2>1. version'.state = IF version.state = "validating" THEN "rejected" ELSE version.state
    BY <1>4 DEF RejectUnverifiable, VInv, VersionTyped, Versions
  <2> QED BY <2>1
<1>5. ASSUME NEW r \in Request, RequestStep(r) \/ CrashRequest(r), ~Transit(r)
      PROVE  UNCHANGED version
  BY <1>5 DEF RequestStep, InsertBuild, EnqueueBuild, CrashRequest
<1>6. ASSUME NEW r \in Request, NEW action \in Actions[r], ReadVersion(r, action)
      PROVE  UNCHANGED version
  BY <1>6 DEF ReadVersion
<1>7. ASSUME NEW w \in Worker, WorkerStep(w), ~CommitComplete(w), ~RejectUnverifiable(w)
      PROVE  UNCHANGED version
  BY <1>7 DEF WorkerStep, RunPipeline, BeginComplete, FinishJob, FailJob
<1>8. ASSUME NEW w \in Worker, CrashWorker(w) \/ StatementFails(w)
      PROVE  UNCHANGED version
  BY <1>8 DEF CrashWorker, StatementFails
<1>9. ASSUME NEW w \in Worker, NEW b \in DOMAIN jobs, ClaimBuildJob(w, b) \/ ClaimAgain(w, b)
      PROVE  UNCHANGED version
  BY <1>9 DEF ClaimBuildJob, ClaimAgain, Take
<1>10. CASE UNCHANGED vars
  BY <1>1, <1>10 DEF vars
<1>11. CASE Next
  BY <1>1, <1>2, <1>3, <1>4, <1>5, <1>6, <1>7, <1>8, <1>9, <1>11 DEF Next, Claims
<1> QED BY <1>10, <1>11

(* Only what is being validated becomes validated, although completeBuild  *)
(* reads the state in one statement and writes it in another.              *)
THEOREM Validation == Spec => ValidatedFromValidating
<1>1. VInv /\ [Next]_vars
        => [version'.state = "validated" => version.state \in {"validating", "validated"}]_vars
  BY ValidatedStep, BotVersionAssumption
<1> QED BY <1>1, Invariant, PTL DEF Spec, ValidatedFromValidating

-----------------------------------------------------------------------------
(* Bounds *)

Busy == Places \ {"idle", "reject"}

JobStatus == {"none", "queued", "running", "done", "needs_review"}

(* Who still decides what becomes of the job of build b. *)
Active(b) == {w \in Worker : worker[w].pc \in Busy /\ worker[w].build = b}

(* Those of them that put it back in the queue if they fail. *)
Open(b) == {w \in Active(b) : worker[w].attempts < MaxAttempts}

(* Whether the job can be claimed without a fault. *)
Waiting(b) == IF \/ jobs[b].status = "queued"
                 \/ jobs[b].status = "running" /\ Active(b) = {} THEN 1 ELSE 0

(* What the attempts of the job are beyond those that are retried. *)
Over(b) == IF jobs[b].attempts < MaxAttempts THEN 0 ELSE jobs[b].attempts - MaxAttempts + 1

(* A claim turns one of the three into another; only a fault adds to them. *)
Within(b) == IsFiniteSet(Open(b)) /\ Over(b) + Cardinality(Open(b)) + Waiting(b) <= faults + 1

Claimed == \A b \in DOMAIN jobs : Within(b)

(* A job that is not in the queue yet has not been claimed. *)
Unclaimed == \A b \in DOMAIN jobs : jobs[b].status = "none" => jobs[b].attempts = 0

Limits == faults \in 0..MaxFaults /\ cut \in BOOLEAN

Submitting == {r \in Request : request[r].action = "submit" /\ request[r].pc \in {"transit", "insert"}}

(* Each submission under way has its place among the builds. *)
Submitted ==
    /\ Len(jobs) = Len(builds)
    /\ IsFiniteSet(Submitting) /\ Len(builds) + Cardinality(Submitting) <= MaxBuilds

Known == artifacts \subseteq DOMAIN builds /\ \A b \in DOMAIN builds : builds[b] # "none"

HasJob(b) == b \in DOMAIN builds /\ jobs[b].status # "none"

(* A worker is at a build whose job was in the queue. *)
AtWork ==
    \A w \in Worker : /\ worker[w].pc # "idle" => HasJob(worker[w].build)
                      /\ worker[w].pc \in {"complete", "decide"} => worker[w].result # "none"

(* A request puts the job of its own build in the queue. *)
Asked ==
    \A r \in Request :
       /\ request[r].pc = "insert" => request[r].action = "submit"
       /\ request[r].pc = "enqueue" =>
             /\ request[r].build \in DOMAIN builds /\ jobs[request[r].build].status = "none"
             /\ \A q \in Request : request[q].pc = "enqueue" /\ request[q].build = request[r].build
                                      => q = r

BInv == Limits /\ Submitted /\ Known /\ AtWork /\ Asked /\ Unclaimed /\ Claimed

-----------------------------------------------------------------------------

LEMMA JobsAre ==
  ASSUME JobsTyped, BuildsTyped
  PROVE  /\ DOMAIN jobs = 1..Len(jobs) /\ Len(jobs) \in Nat
         /\ DOMAIN builds = 1..Len(builds) /\ Len(builds) \in Nat
         /\ \A b \in DOMAIN jobs : jobs[b] \in Rows
  BY DEF JobsTyped, BuildsTyped

LEMMA SameRange == ASSUME NEW m \in Nat, NEW n \in Nat, 1..m = 1..n PROVE m = n
<1>1. m = 0 \/ m \in 1..m
  OBVIOUS
<1>2. n = 0 \/ n \in 1..n
  OBVIOUS
<1>3. m <= n
  <2>1. m = 0 \/ m \in 1..n
    BY <1>1
  <2> QED BY <2>1
<1>4. n <= m
  <2>1. n = 0 \/ n \in 1..m
    BY <1>2
  <2> QED BY <2>1
<1> QED BY <1>3, <1>4

LEMMA StatusPut ==
  ASSUME JobsTyped, NEW b, NEW v \in JobStatus, jobs' = PutStatus(jobs, b, v)
  PROVE  /\ DOMAIN jobs' = DOMAIN jobs /\ Len(jobs') = Len(jobs)
         /\ \A c \in DOMAIN jobs : /\ jobs'[c].attempts = jobs[c].attempts
                                   /\ jobs'[c].status = IF c = b THEN v ELSE jobs[c].status
<1>1. PICK n \in Nat : jobs \in [1..n -> Rows]
  BY SeqDef DEF JobsTyped
<1>2. jobs' = [jobs EXCEPT ![b].status = v]
  BY DEF PutStatus
<1>3. DOMAIN jobs = 1..n /\ DOMAIN jobs' = 1..n
  BY <1>1, <1>2
<1>4. \A c \in 1..n : jobs'[c] = IF c = b THEN [jobs[c] EXCEPT !.status = v] ELSE jobs[c]
  BY <1>1, <1>2
<1>5. ASSUME NEW c \in 1..n
      PROVE  /\ jobs'[c].attempts = jobs[c].attempts
             /\ jobs'[c].status = IF c = b THEN v ELSE jobs[c].status
  BY <1>1, <1>4, <1>5 DEF Rows
<1>6. Len(jobs') = Len(jobs)
  <2>1. PutStatus(jobs, b, v) \in Seq(Rows)
    BY PutStatusInSeq DEF JobsTyped, JobStatus
  <2>2. DOMAIN jobs' = 1..Len(jobs') /\ DOMAIN jobs = 1..Len(jobs) /\ Len(jobs) \in Nat /\ Len(jobs') \in Nat
    BY <2>1 DEF JobsTyped
  <2> QED BY <1>3, <2>2, SameRange
<1> QED BY <1>3, <1>5, <1>6

(* A place of a sequence that keeps its domain keeps its length. *)
LEMMA PutKeepsLen ==
  ASSUME NEW S, NEW s \in Seq(S), NEW i, NEW v \in S
  PROVE  /\ DOMAIN Put(s, i, v) = DOMAIN s /\ Len(Put(s, i, v)) = Len(s)
         /\ \A j \in DOMAIN s : Put(s, i, v)[j] = IF j = i THEN v ELSE s[j]
<1>1. Put(s, i, v) \in Seq(S)
  BY SMTT(60), ZenonT(60), PutInSeq
<1>2. DOMAIN Put(s, i, v) = DOMAIN s /\ \A j \in DOMAIN s : Put(s, i, v)[j] = IF j = i THEN v ELSE s[j]
  BY SMTT(60), ZenonT(60) DEF Put
<1>3. DOMAIN Put(s, i, v) = 1..Len(Put(s, i, v)) /\ DOMAIN s = 1..Len(s)
      /\ Len(s) \in Nat /\ Len(Put(s, i, v)) \in Nat
  BY SMTT(60), ZenonT(60), <1>1
<1>4. Len(Put(s, i, v)) = Len(s)
  BY ZenonT(60), SMTT(60), <1>2, <1>3, SameRange
<1> QED BY SMTT(60), ZenonT(60), <1>2, <1>4

(* One worker goes on: who is active and who would try again. *)
LEMMA ActiveMoves ==
  ASSUME WorkerTyped, NEW w \in Worker, NEW v, worker' = Put(worker, w, v), NEW c
  PROVE  /\ v.pc \in Busy /\ v.build = c => Active(c)' = Active(c) \cup {w}
         /\ ~(v.pc \in Busy /\ v.build = c) => Active(c)' = Active(c) \ {w}
         /\ v.pc \in Busy /\ v.build = c /\ v.attempts < MaxAttempts => Open(c)' = Open(c) \cup {w}
         /\ ~(v.pc \in Busy /\ v.build = c /\ v.attempts < MaxAttempts) => Open(c)' = Open(c) \ {w}
<1>1. \A u \in Worker : worker'[u] = IF u = w THEN v ELSE worker[u]
  BY DEF Put, WorkerTyped
<1>2. \A u \in Worker : u \in Active(c)' <=> worker'[u].pc \in Busy /\ worker'[u].build = c
  BY DEF Active
<1>3. \A u \in Worker : u \in Active(c) <=> worker[u].pc \in Busy /\ worker[u].build = c
  BY DEF Active
<1>4. \A u \in Worker : u \in Open(c)' <=> u \in Active(c)' /\ worker'[u].attempts < MaxAttempts
  BY DEF Open, Active
<1>5. \A u \in Worker : u \in Open(c) <=> u \in Active(c) /\ worker[u].attempts < MaxAttempts
  BY DEF Open, Active
<1>6. /\ Active(c)' \subseteq Worker /\ Active(c) \subseteq Worker
      /\ Open(c)' \subseteq Worker /\ Open(c) \subseteq Worker
  BY DEF Open, Active
<1>7. /\ v.pc \in Busy /\ v.build = c => Active(c)' = Active(c) \cup {w}
      /\ ~(v.pc \in Busy /\ v.build = c) => Active(c)' = Active(c) \ {w}
  BY <1>1, <1>2, <1>3, <1>6
<1>8. /\ v.pc \in Busy /\ v.build = c /\ v.attempts < MaxAttempts => Open(c)' = Open(c) \cup {w}
      /\ ~(v.pc \in Busy /\ v.build = c /\ v.attempts < MaxAttempts) => Open(c)' = Open(c) \ {w}
  BY <1>1, <1>2, <1>3, <1>4, <1>5, <1>6
<1> QED BY <1>7, <1>8

(* A worker that stays at its build changes nothing of that. *)
LEMMA ActiveStays ==
  ASSUME WorkerTyped, NEW w \in Worker, NEW v, worker' = Put(worker, w, v),
         \/ /\ v.pc \in Busy /\ worker[w].pc \in Busy
            /\ v.build = worker[w].build /\ v.attempts = worker[w].attempts
         \/ v.pc \notin Busy /\ worker[w].pc \notin Busy,
         NEW c
  PROVE  Active(c)' = Active(c) /\ Open(c)' = Open(c)
<1>1. \A u \in Worker : worker'[u] = IF u = w THEN v ELSE worker[u]
  BY DEF Put, WorkerTyped
<1>2. \A u \in Worker : (worker'[u].pc \in Busy /\ worker'[u].build = c)
                            <=> (worker[u].pc \in Busy /\ worker[u].build = c)
  BY <1>1
<1>3. Active(c)' = Active(c)
  BY <1>2 DEF Active
<1>4. \A u \in Active(c) : worker'[u].attempts = worker[u].attempts
  BY <1>1 DEF Active
<1> QED BY <1>3, <1>4 DEF Open

LEMMA LoadIs ==
  ASSUME NEW c, IsFiniteSet(Open(c)), jobs[c].attempts \in Nat
  PROVE  Over(c) \in Nat /\ Cardinality(Open(c)) \in Nat /\ Waiting(c) \in {0, 1}
<1>1. Over(c) \in Nat
  BY BotVersionAssumption DEF Over
<1> QED BY <1>1, FS_CardinalityType DEF Waiting

(* Where nobody comes or goes and the job is what it was. *)
LEMMA WithinSame ==
  ASSUME NEW c, Within(c), Active(c)' = Active(c), Open(c)' = Open(c),
         jobs'[c].status = jobs[c].status, jobs'[c].attempts = jobs[c].attempts,
         jobs[c].attempts \in Nat, faults \in Nat, faults' \in Nat, faults <= faults'
  PROVE  Within(c)'
<1>1. Over(c)' = Over(c) /\ Waiting(c)' = Waiting(c)
  BY DEF Over, Waiting
<1>2. PICK n \in Nat : n = Over(c) + Cardinality(Open(c)) + Waiting(c)
  <2>1. Over(c) \in Nat /\ Cardinality(Open(c)) \in Nat /\ Waiting(c) \in {0, 1}
    BY LoadIs DEF Within
  <2> QED BY <2>1
<1>3. Over(c)' + Cardinality(Open(c)') + Waiting(c)' = n
  BY <1>1, <1>2
<1>4. IsFiniteSet(Open(c)) /\ n <= faults + 1
  BY <1>2 DEF Within
<1> QED BY <1>3, <1>4 DEF Within

(* The builds a worker neither leaves nor takes. *)
LEMMA ActiveElsewhere ==
  ASSUME WorkerTyped, NEW w \in Worker, NEW v, worker' = Put(worker, w, v), NEW c,
         ~(worker[w].pc \in Busy /\ worker[w].build = c), ~(v.pc \in Busy /\ v.build = c)
  PROVE  Active(c)' = Active(c) /\ Open(c)' = Open(c)
<1>1. Active(c)' = Active(c) \ {w} /\ Open(c)' = Open(c) \ {w}
  BY ActiveMoves
<1>2. w \notin Active(c) /\ w \notin Open(c)
  BY DEF Active, Open
<1> QED BY <1>1, <1>2

(* Whoever leaves a build is done with it, puts it back, or is struck. *)
LEMMA WithinLeft ==
  ASSUME NEW c, Within(c), NEW w, Open(c)' = Open(c) \ {w},
         jobs[c].attempts \in Nat, jobs'[c].attempts = jobs[c].attempts,
         faults \in Nat, faults' \in Nat, faults <= faults',
         \/ jobs'[c].status \in {"done", "needs_review"}
         \/ w \in Open(c)
         \/ faults' = faults + 1
  PROVE  Within(c)'
<1>1. PICK over \in Nat, n \in Nat, wait \in {0, 1} :
          over = Over(c) /\ n = Cardinality(Open(c)) /\ wait = Waiting(c)
  BY LoadIs DEF Within
<1>2. IsFiniteSet(Open(c)) /\ over + n + wait <= faults + 1
  BY <1>1 DEF Within
<1>3. /\ IsFiniteSet(Open(c)')
      /\ Cardinality(Open(c)') = IF w \in Open(c) THEN n - 1 ELSE n
  <2>1. IsFiniteSet(Open(c) \ {w})
          /\ Cardinality(Open(c) \ {w})
                = IF w \in Open(c) THEN Cardinality(Open(c)) - 1 ELSE Cardinality(Open(c))
    BY <1>2, FS_RemoveElement
  <2> QED BY <2>1, <1>1
<1>4. Over(c)' = over
  BY <1>1 DEF Over
<1>5. /\ Waiting(c)' \in {0, 1}
      /\ jobs'[c].status \in {"done", "needs_review"} => Waiting(c)' = 0
  BY DEF Waiting
<1>6. PICK n2 \in Int, wait2 \in {0, 1} :
          n2 = Cardinality(Open(c)') /\ wait2 = Waiting(c)'
  BY <1>3, <1>5
<1>7. over + n2 + wait2 <= faults' + 1
  <2>1. n2 = IF w \in Open(c) THEN n - 1 ELSE n
    BY <1>3, <1>6
  <2>2. CASE jobs'[c].status \in {"done", "needs_review"}
    <3>1. wait2 = 0 /\ n2 <= n
      BY <2>1, <2>2, <1>5, <1>6
    <3> QED BY <3>1, <1>2
  <2>3. CASE w \in Open(c)
    <3>1. n2 = n - 1
      BY <2>1, <2>3
    <3> QED BY <3>1, <1>2
  <2>4. CASE faults' = faults + 1
    <3>1. n2 <= n
      BY <2>1
    <3> QED BY <3>1, <2>4, <1>2
  <2> QED BY <2>2, <2>3, <2>4
<1> QED BY <1>3, <1>4, <1>6, <1>7 DEF Within

(* A claim has a job that waits, or a lock that is over too early. *)
LEMMA WithinClaimed ==
  ASSUME NEW c, Within(c), NEW w, w \notin Open(c), w \in Active(c)',
         Open(c)' = IF jobs'[c].attempts < MaxAttempts THEN Open(c) \cup {w} ELSE Open(c),
         jobs[c].attempts \in Nat, jobs'[c].attempts = jobs[c].attempts + 1,
         jobs'[c].status = "running",
         faults \in Nat, faults' \in Nat,
         (Waiting(c) = 1 /\ faults' = faults) \/ faults' = faults + 1
  PROVE  Within(c)'
<1>1. PICK over \in Nat, n \in Nat, wait \in {0, 1} :
          over = Over(c) /\ n = Cardinality(Open(c)) /\ wait = Waiting(c)
  BY LoadIs DEF Within
<1>2. IsFiniteSet(Open(c)) /\ over + n + wait <= faults + 1
  BY <1>1 DEF Within
<1>3. Waiting(c)' = 0
  BY DEF Waiting
<1>4. over + n + 1 <= faults' + 1
  BY <1>1, <1>2
<1>5. PICK a \in Nat : a = jobs[c].attempts
  OBVIOUS
<1>6. /\ over = IF a < MaxAttempts THEN 0 ELSE a - MaxAttempts + 1
      /\ Over(c)' = IF a + 1 < MaxAttempts THEN 0 ELSE a + 1 - MaxAttempts + 1
  <2>1. jobs'[c].attempts = a + 1
    BY <1>5
  <2>2. Over(c) = IF a < MaxAttempts THEN 0 ELSE a - MaxAttempts + 1
    BY <1>5 DEF Over
  <2>3. Over(c)' = IF a + 1 < MaxAttempts THEN 0 ELSE a + 1 - MaxAttempts + 1
    BY <1>5, <2>1, BotVersionAssumption DEF Over
  <2> QED BY <2>2, <2>3, <1>1
<1>7. CASE a + 1 < MaxAttempts
  <2>1. Open(c)' = Open(c) \cup {w}
    BY <1>5, <1>7
  <2>2. IsFiniteSet(Open(c)') /\ Cardinality(Open(c)') = n + 1
    BY <2>1, <1>1, <1>2, FS_AddElement
  <2>3. over = 0 /\ Over(c)' = 0
    BY <1>6, <1>7, BotVersionAssumption
  <2>4. Over(c)' + Cardinality(Open(c)') + Waiting(c)' <= faults' + 1
    BY <1>1, <1>3, <1>4, <2>2, <2>3
  <2> QED BY <2>2, <2>4 DEF Within
<1>8. CASE ~(a + 1 < MaxAttempts)
  <2>1. Open(c)' = Open(c)
    BY <1>5, <1>8
  <2>2. IsFiniteSet(Open(c)') /\ Cardinality(Open(c)') = n
    BY <2>1, <1>1, <1>2
  <2>3. Over(c)' = over + 1
    BY <1>6, <1>8, BotVersionAssumption
  <2>4. Over(c)' + Cardinality(Open(c)') + Waiting(c)' <= faults' + 1
    BY <1>1, <1>3, <1>4, <2>2, <2>3
  <2> QED BY <2>2, <2>4 DEF Within
<1> QED BY <1>7, <1>8

(* What a worker leaves alone: which builds there are, and which of their   *)
(* jobs have been in the queue.                                            *)
SameJobs ==
    /\ DOMAIN jobs' = DOMAIN jobs /\ Len(jobs') = Len(jobs)
    /\ DOMAIN builds' = DOMAIN builds /\ Len(builds') = Len(builds)
    /\ \A b \in DOMAIN jobs : /\ jobs'[b].status = "none" <=> jobs[b].status = "none"
                              /\ jobs'[b].status = "none" => jobs'[b].attempts = jobs[b].attempts

HasJobThen(b) == b \in DOMAIN builds' /\ jobs'[b].status # "none"

(* The parts of the invariant that follow from that. *)
Aside == Submitted /\ AtWork /\ Asked /\ Unclaimed

LEMMA SameDomain ==
  ASSUME VInv, BInv
  PROVE  DOMAIN jobs = DOMAIN builds /\ DOMAIN jobs = 1..Len(jobs) /\ Len(jobs) \in Nat
         /\ Len(builds) = Len(jobs)
  BY JobsAre DEF VInv, BInv, Submitted

LEMMA WorkerAside ==
  ASSUME VInv, BInv, SameJobs, UNCHANGED request,
         NEW w \in Worker, NEW v, worker' = Put(worker, w, v),
         v.pc # "idle" => HasJobThen(v.build),
         v.pc \in {"complete", "decide"} => v.result # "none"
  PROVE  Aside'
<1>1. \A u \in Worker : worker'[u] = IF u = w THEN v ELSE worker[u]
  BY DEF Put, VInv, WorkerTyped
<1>2. DOMAIN jobs = DOMAIN builds
  BY SameDomain
<1>3. \A b : HasJob(b) => HasJobThen(b)
  BY <1>2 DEF HasJob, HasJobThen, SameJobs
<1>4. AtWork'
  <2> SUFFICES ASSUME NEW u \in Worker
               PROVE  /\ worker'[u].pc # "idle" => HasJobThen(worker'[u].build)
                      /\ worker'[u].pc \in {"complete", "decide"} => worker'[u].result # "none"
    BY DEF AtWork, HasJob, HasJobThen
  <2>1. CASE u = w
    BY <2>1, <1>1
  <2>2. CASE u # w
    <3>1. worker'[u] = worker[u]
      BY <2>2, <1>1
    <3>2. /\ worker[u].pc # "idle" => HasJob(worker[u].build)
          /\ worker[u].pc \in {"complete", "decide"} => worker[u].result # "none"
      BY DEF BInv, AtWork
    <3> QED BY <3>1, <3>2, <1>3
  <2> QED BY <2>1, <2>2
<1>5. Submitting' = Submitting
  BY DEF Submitting
<1>6. Submitted'
  BY <1>5 DEF BInv, Submitted, SameJobs
<1>7. Asked'
  BY <1>2 DEF BInv, Asked, SameJobs
<1>8. Unclaimed'
  BY DEF BInv, Unclaimed, SameJobs
<1> QED BY <1>4, <1>6, <1>7, <1>8 DEF Aside

LEMMA GotoPuts ==
  ASSUME VInv, NEW w \in Worker, NEW pc \in Places, Goto(w, pc)
  PROVE  \E v \in Works : /\ worker' = Put(worker, w, v)
                          /\ v.pc = pc /\ v.build = worker[w].build
                          /\ v.attempts = worker[w].attempts /\ v.result = worker[w].result
<1> DEFINE v == [worker[w] EXCEPT !.pc = pc]
<1>1. worker' = Put(worker, w, v)
  BY DEF Goto, Put
<1>2. /\ v \in Works
      /\ v.pc = pc /\ v.build = worker[w].build
      /\ v.attempts = worker[w].attempts /\ v.result = worker[w].result
  BY DEF VInv, WorkerTyped, Works
<1> HIDE DEF v
<1> QED BY <1>1, <1>2

LEMMA GotoAside ==
  ASSUME VInv, BInv, SameJobs, UNCHANGED request, NEW w \in Worker, worker[w].pc # "idle",
         NEW pc \in Places, pc \in {"complete", "decide"} => worker[w].result # "none",
         Goto(w, pc)
  PROVE  Aside'
<1>1. PICK v : /\ worker' = Put(worker, w, v)
               /\ v.pc = pc /\ v.build = worker[w].build /\ v.result = worker[w].result
  BY GotoPuts
<1>2. HasJob(worker[w].build)
  BY DEF BInv, AtWork
<1>3. HasJobThen(worker[w].build)
  BY <1>2, SameDomain DEF HasJob, HasJobThen, SameJobs
<1> QED BY <1>1, <1>3, WorkerAside

LEMMA IdleAside ==
  ASSUME VInv, BInv, SameJobs, UNCHANGED request, NEW w \in Worker, GoIdle(w)
  PROVE  Aside'
<1>1. worker' = Put(worker, w, NoWork)
  BY DEF GoIdle, Put
<1>2. NoWork.pc = "idle"
  BY DEF NoWork
<1> QED BY <1>1, <1>2, WorkerAside

-----------------------------------------------------------------------------

LEMMA ClaimedStays ==
  ASSUME VInv, BInv, UNCHANGED jobs, \A c : Active(c)' = Active(c) /\ Open(c)' = Open(c),
         faults' \in Nat, faults <= faults'
  PROVE  Claimed'
<1> SUFFICES ASSUME NEW c \in DOMAIN jobs PROVE Within(c)'
  BY DEF Claimed
<1>1. Within(c) /\ faults \in Nat
  BY DEF BInv, Claimed, Limits
<1>2. jobs[c].attempts \in Nat
  BY JobsAre DEF VInv, Rows
<1>3. jobs'[c].status = jobs[c].status /\ jobs'[c].attempts = jobs[c].attempts
  OBVIOUS
<1>4. Active(c)' = Active(c) /\ Open(c)' = Open(c)
  OBVIOUS
<1> QED BY <1>1, <1>2, <1>3, <1>4, WithinSame

(* A step of a worker that goes on with its build. *)
LEMMA GotoClaimed ==
  ASSUME VInv, BInv, UNCHANGED jobs, NEW w \in Worker, worker[w].pc \in Busy,
         NEW pc \in Busy, Goto(w, pc), faults' \in Nat, faults <= faults'
  PROVE  Claimed'
<1>1. PICK v : /\ worker' = Put(worker, w, v)
               /\ v.pc = pc /\ v.build = worker[w].build /\ v.attempts = worker[w].attempts
  BY GotoPuts DEF Busy
<1>2. \A c : Active(c)' = Active(c) /\ Open(c)' = Open(c)
  BY <1>1, ActiveStays DEF VInv
<1> QED BY <1>2, ClaimedStays

(* A step with which a worker leaves its build. *)
LEMMA LeftClaimed ==
  ASSUME VInv, BInv, SameJobs, NEW w \in Worker, worker[w].pc \in Busy,
         NEW v, v.pc \notin Busy, worker' = Put(worker, w, v),
         NEW b, b = worker[w].build,
         \A c \in DOMAIN jobs : /\ jobs'[c].attempts = jobs[c].attempts
                                /\ c # b => jobs'[c].status = jobs[c].status,
         faults' \in Nat, faults <= faults',
         \/ jobs'[b].status \in {"done", "needs_review"}
         \/ worker[w].attempts < MaxAttempts
         \/ faults' = faults + 1
  PROVE  Claimed'
<1> SUFFICES ASSUME NEW c \in DOMAIN jobs PROVE Within(c)'
  BY DEF Claimed, SameJobs
<1>1. Within(c) /\ faults \in Nat
  BY DEF BInv, Claimed, Limits
<1>2. jobs[c].attempts \in Nat
  BY JobsAre DEF VInv, Rows
<1>3. WorkerTyped
  BY DEF VInv
<1>4. jobs'[c].attempts = jobs[c].attempts
  OBVIOUS
<1>5. CASE c = b
  <2>1. Open(c)' = Open(c) \ {w}
    BY <1>3, ActiveMoves
  <2>2. worker[w].attempts < MaxAttempts => w \in Open(c)
    BY <1>5 DEF Open, Active
  <2> QED BY <1>1, <1>2, <1>4, <1>5, <2>1, <2>2, WithinLeft
<1>6. CASE c # b
  <2>1. Active(c)' = Active(c) /\ Open(c)' = Open(c)
    BY <1>3, <1>6, ActiveElsewhere
  <2>2. jobs'[c].status = jobs[c].status
    BY <1>6
  <2> QED BY <1>1, <1>2, <1>4, <2>1, <2>2, WithinSame
<1> QED BY <1>5, <1>6

-----------------------------------------------------------------------------
(* The steps of a worker *)

(* A status that changes, and no other. *)
BuildsMove(i, v) == builds' = builds \/ builds' = Put(builds, i, v)

LEMMA BuildsKept ==
  ASSUME VInv, BInv, NEW i, NEW v \in Statuses \ {"none"}, BuildsMove(i, v)
  PROVE  /\ DOMAIN builds' = DOMAIN builds /\ Len(builds') = Len(builds)
         /\ \A b \in DOMAIN builds : builds'[b] # "none"
<1>1. \A b \in DOMAIN builds : builds[b] # "none"
  BY DEF BInv, Known
<1>2. CASE builds' = builds
  BY <1>1, <1>2
<1>3. CASE builds' = Put(builds, i, v)
  <2>1. /\ DOMAIN Put(builds, i, v) = DOMAIN builds /\ Len(Put(builds, i, v)) = Len(builds)
        /\ \A j \in DOMAIN builds : Put(builds, i, v)[j] = IF j = i THEN v ELSE builds[j]
    BY PutKeepsLen DEF VInv, BuildsTyped
  <2> QED BY <1>1, <1>3, <2>1
<1> QED BY <1>2, <1>3 DEF BuildsMove

LEMMA RunPipelineBounded ==
  ASSUME VInv, BInv, NEW w \in Worker, RunPipeline(w)
  PROVE  BInv'
<1>1. /\ UNCHANGED <<version, artifacts, jobs, request, faults, cut>>
      /\ worker[w].pc = "start"
  BY DEF RunPipeline, At
<1>2. HasJob(worker[w].build) /\ faults \in Nat
  BY <1>1 DEF BInv, AtWork, Limits
<1>3. PICK b : b = worker[w].build
  OBVIOUS
<1>4. PICK v \in Statuses \ {"none"} : BuildsMove(b, v)
  <2>1. builds[b] \in Statuses \ {"none"}
    BY <1>2, <1>3, JobsAre DEF HasJob, VInv, BInv, Known, BuildsTyped
  <2>2. PICK status : status = IF builds[b] = "queued" THEN "running" ELSE builds[b]
    OBVIOUS
  <2>3. status \in Statuses \ {"none"}
    BY <2>1, <2>2 DEF Statuses
  <2>4. builds' = builds
           \/ builds' = [builds EXCEPT ![b] = IF builds[b] = "queued" THEN "running" ELSE builds[b]]
    BY <1>3 DEF RunPipeline
  <2>5. BuildsMove(b, status)
    BY <2>2, <2>4 DEF BuildsMove, Put
  <2> QED BY <2>3, <2>5
<1>5. SameJobs /\ Known'
  <2>1. /\ DOMAIN builds' = DOMAIN builds /\ Len(builds') = Len(builds)
        /\ \A c \in DOMAIN builds : builds'[c] # "none"
    BY <1>4, BuildsKept
  <2> QED BY <1>1, <2>1 DEF SameJobs, BInv, Known
<1>6. Goto(w, "thrown")
         \/ \E result \in {"passed", "failed"} :
               worker' = [worker EXCEPT ![w].pc = "complete", ![w].result = result]
  BY DEF RunPipeline
<1>7. Aside' /\ Claimed'
  <2>1. CASE Goto(w, "thrown")
    <3>1. Aside'
      BY <1>1, <1>5, <2>1, GotoAside DEF Places
    <3>2. Claimed'
      BY <1>1, <1>2, <2>1, GotoClaimed DEF Busy, Places
    <3> QED BY <3>1, <3>2
  <2>2. ASSUME NEW result \in {"passed", "failed"},
               worker' = [worker EXCEPT ![w].pc = "complete", ![w].result = result]
        PROVE  Aside' /\ Claimed'
    <3>1. PICK after : /\ worker' = Put(worker, w, after)
                   /\ after.pc = "complete" /\ after.result = result /\ after.build = b
                   /\ after.attempts = worker[w].attempts
      <4> DEFINE put == [worker[w] EXCEPT !.pc = "complete", !.result = result]
      <4>1. worker' = Put(worker, w, put)
        BY <2>2 DEF Put, VInv, WorkerTyped
      <4>2. /\ put.pc = "complete" /\ put.result = result /\ put.build = b
            /\ put.attempts = worker[w].attempts
        BY <1>3 DEF VInv, WorkerTyped, Works, Places
      <4> HIDE DEF put
      <4> QED BY <4>1, <4>2
    <3>2. HasJobThen(b)
      BY <1>1, <1>2, <1>3, <1>5 DEF HasJob, HasJobThen, SameJobs
    <3>3. Aside'
      BY <1>1, <1>5, <3>1, <3>2, WorkerAside
    <3>4. \A c : Active(c)' = Active(c) /\ Open(c)' = Open(c)
      <4>1. after.pc \in Busy /\ worker[w].pc \in Busy
        BY <1>1, <3>1 DEF Busy, Places
      <4> QED BY <4>1, <1>3, <3>1, ActiveStays DEF VInv
    <3>5. Claimed'
      BY <1>1, <1>2, <3>4, ClaimedStays
    <3> QED BY <3>3, <3>5
  <2> QED BY <1>6, <2>1, <2>2
<1>8. Limits'
  BY <1>1 DEF BInv, Limits
<1> QED BY <1>5, <1>7, <1>8 DEF BInv, Aside

(* What a worker at the result of a build writes. *)
LEMMA ResultWritten ==
  ASSUME VInv, BInv, NEW w \in Worker, worker[w].pc \in {"complete", "decide"},
         BuildsMove(worker[w].build, worker[w].result)
  PROVE  /\ DOMAIN builds' = DOMAIN builds /\ Len(builds') = Len(builds)
         /\ \A b \in DOMAIN builds : builds'[b] # "none"
<1>1. worker[w].result \in Statuses \ {"none"}
  BY DEF VInv, WorkerTyped, Works, Statuses, BInv, AtWork
<1> QED BY <1>1, BuildsKept

LEMMA BeginCompleteBounded ==
  ASSUME VInv, BInv, NEW w \in Worker, BeginComplete(w)
  PROVE  BInv'
<1>1. /\ UNCHANGED <<version, artifacts, jobs, request, faults, cut>>
      /\ worker[w].pc = "complete"
      /\ Goto(w, "decide") \/ Goto(w, "completed")
      /\ BuildsMove(worker[w].build, worker[w].result)
  BY DEF BeginComplete, At, BuildsMove, Put
<1>2. SameJobs /\ Known'
  BY <1>1, ResultWritten DEF SameJobs, BInv, Known
<1>3. worker[w].result # "none" /\ faults \in Nat
  BY <1>1 DEF BInv, AtWork, Limits
<1>4. Aside'
  BY <1>1, <1>2, <1>3, GotoAside DEF Places
<1>5. Claimed'
  BY <1>1, <1>3, GotoClaimed DEF Busy, Places
<1>6. Limits'
  BY <1>1 DEF BInv, Limits
<1> QED BY <1>2, <1>4, <1>5, <1>6 DEF BInv, Aside

LEMMA CommitCompleteBounded ==
  ASSUME VInv, BInv, NEW w \in Worker, CommitComplete(w)
  PROVE  BInv'
<1>1. /\ UNCHANGED <<jobs, request, faults, cut>> /\ worker[w].pc = "decide"
      /\ Goto(w, "thrown") \/ Goto(w, "completed")
      /\ BuildsMove(worker[w].build, worker[w].result)
      /\ artifacts' = artifacts \/ artifacts' = artifacts \cup {worker[w].build}
  BY DEF CommitComplete, At, BuildsMove, Put
<1>2. HasJob(worker[w].build) /\ faults \in Nat
  BY <1>1 DEF BInv, AtWork, Limits
<1>3. SameJobs /\ Known'
  BY <1>1, <1>2, ResultWritten DEF SameJobs, BInv, Known, HasJob
<1>4. Aside'
  BY <1>1, <1>3, GotoAside DEF Places
<1>5. Claimed'
  BY <1>1, <1>2, GotoClaimed DEF Busy, Places
<1>6. Limits'
  BY <1>1 DEF BInv, Limits
<1> QED BY <1>3, <1>4, <1>5, <1>6 DEF BInv, Aside

LEMMA FinishJobBounded ==
  ASSUME VInv, BInv, NEW w \in Worker, FinishJob(w)
  PROVE  BInv'
<1>1. /\ UNCHANGED <<version, builds, artifacts, request, faults, cut>>
      /\ worker[w].pc = "completed" /\ GoIdle(w)
      /\ jobs' = PutStatus(jobs, worker[w].build, "done")
  BY DEF FinishJob, PutStatus, At
<1>2. PICK b : b = worker[w].build
  OBVIOUS
<1>3. HasJob(b) /\ faults \in Nat /\ DOMAIN jobs = DOMAIN builds
  BY <1>1, <1>2, SameDomain DEF BInv, AtWork, Limits
<1>4. /\ DOMAIN jobs' = DOMAIN jobs /\ Len(jobs') = Len(jobs)
      /\ \A c \in DOMAIN jobs : /\ jobs'[c].attempts = jobs[c].attempts
                                /\ jobs'[c].status = IF c = b THEN "done" ELSE jobs[c].status
  BY <1>1, <1>2, StatusPut DEF VInv, JobStatus
<1>5. SameJobs
  BY <1>1, <1>3, <1>4 DEF SameJobs, HasJob
<1>6. Aside'
  BY <1>1, <1>5, IdleAside
<1>7. Claimed'
  <2>1. worker' = Put(worker, w, NoWork) /\ NoWork.pc \notin Busy /\ worker[w].pc \in Busy
    BY <1>1 DEF GoIdle, Put, NoWork, Busy, Places
  <2>2. jobs'[b].status = "done" /\ faults' = faults
    BY <1>1, <1>3, <1>4 DEF HasJob
  <2> QED BY <1>2, <1>3, <1>4, <1>5, <2>1, <2>2, LeftClaimed
<1>8. Known' /\ Limits'
  BY <1>1 DEF BInv, Known, Limits
<1> QED BY <1>6, <1>7, <1>8 DEF BInv, Aside

LEMMA FailJobBounded ==
  ASSUME VInv, BInv, NEW w \in Worker, FailJob(w)
  PROVE  BInv'
<1>1. worker[w].attempts \in Nat
  BY DEF VInv, WorkerTyped, Works
<1>2. PICK status \in {"needs_review", "queued"} :
         status = IF worker[w].attempts >= MaxAttempts THEN "needs_review" ELSE "queued"
  OBVIOUS
<1>3. PICK b : b = worker[w].build
  OBVIOUS
<1>4. /\ UNCHANGED <<version, builds, artifacts, request, faults, cut>>
      /\ worker[w].pc = "thrown"
      /\ GoIdle(w) \/ Goto(w, "reject")
      /\ jobs' = PutStatus(jobs, b, status)
  BY <1>2, <1>3 DEF FailJob, PutStatus, At
<1>5. HasJob(b) /\ faults \in Nat /\ DOMAIN jobs = DOMAIN builds
  BY <1>3, <1>4, SameDomain DEF BInv, AtWork, Limits
<1>6. /\ DOMAIN jobs' = DOMAIN jobs /\ Len(jobs') = Len(jobs)
      /\ \A c \in DOMAIN jobs : /\ jobs'[c].attempts = jobs[c].attempts
                                /\ jobs'[c].status = IF c = b THEN status ELSE jobs[c].status
  BY <1>2, <1>4, StatusPut DEF VInv, JobStatus
<1>7. SameJobs
  BY <1>2, <1>4, <1>5, <1>6 DEF SameJobs, HasJob
<1>8. Aside'
  BY <1>4, <1>7, IdleAside, GotoAside DEF Places
<1>9. PICK v : worker' = Put(worker, w, v) /\ v.pc \notin Busy
  <2>1. CASE GoIdle(w)
    <3>1. worker' = Put(worker, w, NoWork) /\ NoWork.pc \notin Busy
      BY <2>1 DEF GoIdle, Put, NoWork, Busy
    <3> QED BY <3>1
  <2>2. CASE Goto(w, "reject")
    <3>1. PICK u : worker' = Put(worker, w, u) /\ u.pc = "reject"
      BY <2>2, GotoPuts DEF Places
    <3> QED BY <3>1 DEF Busy
  <2> QED BY <1>4, <2>1, <2>2
<1>10. Claimed'
  <2>1. worker[w].pc \in Busy
    BY <1>4 DEF Busy, Places
  <2>2. jobs'[b].status = status /\ faults' = faults
    BY <1>4, <1>5, <1>6 DEF HasJob
  <2>3. status = "needs_review" \/ worker[w].attempts < MaxAttempts
    BY <1>1, <1>2, BotVersionAssumption
  <2> QED BY <1>3, <1>5, <1>6, <1>7, <1>9, <2>1, <2>2, <2>3, LeftClaimed
<1>11. Known' /\ Limits'
  BY <1>4 DEF BInv, Known, Limits
<1> QED BY <1>8, <1>10, <1>11 DEF BInv, Aside

LEMMA RejectBounded ==
  ASSUME VInv, BInv, NEW w \in Worker, RejectUnverifiable(w)
  PROVE  BInv'
<1>1. /\ UNCHANGED <<artifacts, jobs, request, faults, cut>>
      /\ worker[w].pc = "reject" /\ GoIdle(w)
      /\ BuildsMove(worker[w].build, "failed")
  BY DEF RejectUnverifiable, BuildsMove, Put, At
<1>2. "failed" \in Statuses \ {"none"}
  BY DEF Statuses
<1>3. SameJobs /\ Known'
  BY <1>1, <1>2, BuildsKept DEF SameJobs, BInv, Known
<1>4. Aside'
  BY <1>1, <1>3, IdleAside
<1>5. \A c : Active(c)' = Active(c) /\ Open(c)' = Open(c)
  <2>1. worker' = Put(worker, w, NoWork) /\ NoWork.pc \notin Busy /\ worker[w].pc \notin Busy
    BY <1>1 DEF GoIdle, Put, NoWork, Busy
  <2> QED BY <2>1, ActiveStays DEF VInv
<1>6. Claimed'
  <2>1. faults \in Nat
    BY DEF BInv, Limits
  <2> QED BY <1>1, <1>5, <2>1, ClaimedStays
<1>7. Limits'
  BY <1>1 DEF BInv, Limits
<1> QED BY <1>3, <1>4, <1>6, <1>7 DEF BInv, Aside

(* A crash, or a statement that fails: it is a fault that the job waits for *)
(* someone else.                                                           *)
LEMMA WorkerFaultBounded ==
  ASSUME VInv, BInv, NEW w \in Worker, CrashWorker(w) \/ StatementFails(w)
  PROVE  BInv'
<1>1. /\ UNCHANGED <<version, builds, artifacts, jobs, request>>
      /\ worker[w].pc # "idle"
      /\ \/ GoIdle(w)
         \/ worker[w].pc \in Busy /\ Goto(w, "thrown")
      /\ faults < MaxFaults /\ faults' = faults + 1 /\ cut' \in BOOLEAN
  <2>1. CASE CrashWorker(w)
    BY <2>1 DEF CrashWorker, Strikes, At, BInv, Limits
  <2>2. CASE StatementFails(w)
    BY <2>2 DEF StatementFails, Strikes, At, BInv, Limits, Busy, Places
  <2> QED BY <2>1, <2>2
<1>2. faults \in Nat /\ MaxFaults \in Nat /\ faults' \in Nat /\ Limits'
  BY <1>1, BotVersionAssumption DEF BInv, Limits
<1>3. SameJobs /\ Known'
  BY <1>1 DEF SameJobs, BInv, Known
<1>4. Aside'
  BY <1>1, <1>3, IdleAside, GotoAside DEF Places
<1>5. Claimed'
  <2>1. CASE worker[w].pc \in Busy /\ Goto(w, "thrown")
    BY <1>1, <1>2, <2>1, GotoClaimed DEF Busy, Places
  <2>2. CASE GoIdle(w) /\ worker[w].pc \in Busy
    <3>1. worker' = Put(worker, w, NoWork) /\ NoWork.pc \notin Busy
      BY <2>2 DEF GoIdle, Put, NoWork, Busy
    <3>2. PICK b : b = worker[w].build
      OBVIOUS
    <3>3. \A c \in DOMAIN jobs : /\ jobs'[c].attempts = jobs[c].attempts
                                 /\ c # b => jobs'[c].status = jobs[c].status
      BY <1>1
    <3> QED BY <1>1, <1>2, <1>3, <2>2, <3>1, <3>2, <3>3, LeftClaimed
  <2>3. CASE GoIdle(w) /\ worker[w].pc \notin Busy
    <3>1. worker' = Put(worker, w, NoWork) /\ NoWork.pc \notin Busy
      BY <2>3 DEF GoIdle, Put, NoWork, Busy
    <3>2. \A c : Active(c)' = Active(c) /\ Open(c)' = Open(c)
      BY <2>3, <3>1, ActiveStays DEF VInv
    <3> QED BY <1>1, <1>2, <3>2, ClaimedStays
  <2> QED BY <1>1, <2>1, <2>2, <2>3
<1> QED BY <1>2, <1>3, <1>4, <1>5 DEF BInv, Aside

(* A claim, of a job that waits or with the fault of a lock that is over. *)
LEMMA TakeBounded ==
  ASSUME VInv, BInv, NEW w \in Worker, NEW b \in DOMAIN jobs,
         ClaimBuildJob(w, b) \/ ClaimAgain(w, b)
  PROVE  BInv'
<1>1. /\ UNCHANGED <<version, builds, artifacts, request, cut>>
      /\ worker[w].pc = "idle" /\ jobs[b].status \in {"queued", "running"}
      /\ Take(w, b)
  BY DEF ClaimBuildJob, ClaimAgain, Take, At
<1>2. jobs[b].attempts \in Nat /\ DOMAIN jobs = DOMAIN builds
  BY SameDomain, JobsAre DEF VInv, Rows
<1>3. PICK n \in Nat : n = jobs[b].attempts + 1
  BY <1>2
<1>4. /\ DOMAIN jobs' = DOMAIN jobs /\ Len(jobs') = Len(jobs)
      /\ \A c \in DOMAIN jobs : jobs'[c] = IF c = b THEN [status |-> "running", attempts |-> n]
                                                    ELSE jobs[c]
  <2>1. PICK row \in Rows : row = [status |-> "running", attempts |-> n]
    BY DEF Rows
  <2>2. jobs' = Put(jobs, b, row)
    BY <1>1, <1>3, <2>1 DEF Take, Put
  <2> QED BY <2>1, <2>2, PutKeepsLen DEF VInv, JobsTyped
<1>5. SameJobs
  BY <1>1, <1>4 DEF SameJobs
<1>6. PICK v : /\ worker' = Put(worker, w, v)
               /\ v.pc = "start" /\ v.build = b /\ v.attempts = n
  <2> DEFINE v == [NoWork EXCEPT !.pc = "start", !.build = b, !.attempts = n]
  <2>1. worker' = Put(worker, w, v)
    BY <1>1, <1>3 DEF Take, Put
  <2>2. v.pc = "start" /\ v.build = b /\ v.attempts = n
    BY DEF NoWork
  <2> HIDE DEF v
  <2> QED BY <2>1, <2>2
<1>7. Aside'
  <2>1. HasJobThen(b)
    BY <1>1, <1>2, <1>4 DEF HasJobThen
  <2> QED BY <1>1, <1>5, <1>6, <2>1, WorkerAside
<1>8. /\ faults \in Nat /\ faults' \in Nat /\ faults <= faults'
      /\ (Waiting(b) = 1 /\ faults' = faults) \/ faults' = faults + 1
      /\ Limits'
  <2>1. faults \in Nat /\ MaxFaults \in Nat
    BY BotVersionAssumption DEF BInv, Limits
  <2>2. CASE ClaimBuildJob(w, b)
    <3>1. faults' = faults /\ (\/ jobs[b].status = "queued"
                               \/ jobs[b].status = "running" /\ \A v1 \in Worker : worker[v1].build # b)
      BY <2>2 DEF ClaimBuildJob
    <3>2. Waiting(b) = 1
      BY <3>1 DEF Waiting, Active
    <3> QED BY <1>1, <2>1, <3>1, <3>2 DEF BInv, Limits
  <2>3. CASE ClaimAgain(w, b)
    <3>1. faults < MaxFaults /\ faults' = faults + 1
      BY <2>3 DEF ClaimAgain, Strikes
    <3> QED BY <1>1, <2>1, <3>1 DEF BInv, Limits
  <2> QED BY <2>2, <2>3
<1>9. Claimed'
  <2> SUFFICES ASSUME NEW c \in DOMAIN jobs PROVE Within(c)'
    BY <1>4 DEF Claimed
  <2>1. Within(c) /\ jobs[c].attempts \in Nat
    BY JobsAre DEF BInv, Claimed, VInv, Rows
  <2>2. WorkerTyped /\ v.pc \in Busy /\ worker[w].pc \notin Busy
    BY <1>1, <1>6 DEF VInv, Busy, Places
  <2>3. CASE c = b
    <3>1. w \notin Open(c)
      BY <2>2 DEF Open, Active
    <3>2. jobs'[c].status = "running" /\ jobs'[c].attempts = n
      BY <1>4, <2>3
    <3>3. Active(c)' = Active(c) \cup {w}
      BY <1>6, <2>2, <2>3, ActiveMoves
    <3>4. Open(c)' = IF n < MaxAttempts THEN Open(c) \cup {w} ELSE Open(c) \ {w}
      BY <1>6, <2>2, <2>3, ActiveMoves
    <3>5. Open(c)' = IF jobs'[c].attempts < MaxAttempts THEN Open(c) \cup {w} ELSE Open(c)
      BY <3>1, <3>2, <3>4
    <3>6. w \in Active(c)' /\ jobs'[c].attempts = jobs[c].attempts + 1
      BY <1>3, <2>3, <3>2, <3>3
    <3>7. (Waiting(c) = 1 /\ faults' = faults) \/ faults' = faults + 1
      BY <1>8, <2>3
    <3> QED BY <1>8, <2>1, <3>1, <3>2, <3>5, <3>6, <3>7, WithinClaimed
  <2>4. CASE c # b
    <3>1. Active(c)' = Active(c) /\ Open(c)' = Open(c)
      BY <1>6, <2>2, <2>4, ActiveElsewhere
    <3>2. jobs'[c].status = jobs[c].status /\ jobs'[c].attempts = jobs[c].attempts
      BY <1>4, <2>4
    <3> QED BY <1>8, <2>1, <3>1, <3>2, WithinSame
  <2> QED BY <2>3, <2>4
<1>10. Known'
  BY <1>1 DEF BInv, Known
<1> QED BY <1>7, <1>8, <1>9, <1>10 DEF BInv, Aside

-----------------------------------------------------------------------------
(* The steps of a request *)

LEMMA SubmittingMoves ==
  ASSUME VInv, NEW r \in Request, NEW v, request' = Put(request, r, v)
  PROVE  /\ v.action = "submit" /\ v.pc \in {"transit", "insert"}
               => Submitting' = Submitting \cup {r}
         /\ ~(v.action = "submit" /\ v.pc \in {"transit", "insert"})
               => Submitting' = Submitting \ {r}
<1>1. \A q \in Request : request'[q] = IF q = r THEN v ELSE request[q]
  BY DEF Put, VInv, RequestTyped
<1>2. \A q \in Request : q \in Submitting' <=> /\ request'[q].action = "submit"
                                               /\ request'[q].pc \in {"transit", "insert"}
  BY DEF Submitting
<1>3. \A q \in Request : q \in Submitting <=> /\ request[q].action = "submit"
                                              /\ request[q].pc \in {"transit", "insert"}
  BY DEF Submitting
<1>4. Submitting \subseteq Request /\ Submitting' \subseteq Request
  BY DEF Submitting
<1> QED BY <1>1, <1>2, <1>3, <1>4

(* A step of a request that leaves builds and jobs as they are. *)
LEMMA RequestBounded ==
  ASSUME VInv, BInv, UNCHANGED <<builds, artifacts, jobs, worker>>,
         NEW r \in Request, NEW v, request' = Put(request, r, v),
         v.pc # "enqueue", v.pc = "insert" => v.action = "submit",
         \/ Submitting' = Submitting
         \/ Submitting' = Submitting \ {r}
         \/ Submitting' = Submitting \cup {r} /\ Submissions < MaxBuilds,
         faults <= faults', Limits'
  PROVE  BInv'
<1>1. Known' /\ AtWork' /\ Unclaimed'
  BY DEF BInv, Known, AtWork, HasJob, Unclaimed
<1>2. Claimed'
  <2>1. \A c : Active(c)' = Active(c) /\ Open(c)' = Open(c)
    BY DEF Active, Open
  <2>2. faults' \in Nat
    BY DEF Limits
  <2> QED BY <2>1, <2>2, ClaimedStays
<1>3. \A q \in Request : request'[q] = IF q = r THEN v ELSE request[q]
  BY DEF Put, VInv, RequestTyped
<1>4. Asked'
  BY <1>3 DEF BInv, Asked
<1>5. Submitted'
  <2>1. IsFiniteSet(Submitting) /\ Len(builds) \in Nat /\ MaxBuilds \in Nat
    BY JobsAre, BotVersionAssumption DEF VInv, BInv, Submitted
  <2>2. PICK n \in Nat : n = Cardinality(Submitting)
    BY <2>1, FS_CardinalityType
  <2>3. PICK k \in Nat : k = Len(builds)
    BY <2>1
  <2>4. k + n <= MaxBuilds
    BY <2>2, <2>3 DEF BInv, Submitted
  <2>5. IsFiniteSet(Submitting') /\ k + Cardinality(Submitting') <= MaxBuilds
    <3>1. CASE Submitting' = Submitting
      BY <3>1, <2>1, <2>2, <2>4
    <3>2. CASE Submitting' = Submitting \ {r}
      <4>1. /\ IsFiniteSet(Submitting')
            /\ Cardinality(Submitting') = IF r \in Submitting THEN n - 1 ELSE n
        BY <2>1, <2>2, <3>2, FS_RemoveElement
      <4>2. PICK n2 \in Int : n2 = Cardinality(Submitting') /\ n2 <= n
        BY <4>1
      <4>3. k + n2 <= MaxBuilds
        BY <2>1, <2>4, <4>2
      <4> QED BY <4>1, <4>2, <4>3
    <3>3. CASE Submitting' = Submitting \cup {r} /\ Submissions < MaxBuilds
      <4>1. k + n < MaxBuilds
        BY <2>2, <2>3, <3>3 DEF Submissions, Submitting
      <4>2. /\ IsFiniteSet(Submitting')
            /\ Cardinality(Submitting') = IF r \in Submitting THEN n ELSE n + 1
        BY <2>1, <2>2, <3>3, FS_AddElement
      <4>3. PICK n2 \in Nat : n2 = Cardinality(Submitting') /\ n2 <= n + 1
        BY <4>2
      <4>4. k + n2 <= MaxBuilds
        BY <2>1, <4>1, <4>3
      <4> QED BY <4>2, <4>3, <4>4
    <3> QED BY <3>1, <3>2, <3>3
  <2> QED BY <2>3, <2>5 DEF BInv, Submitted
<1> QED BY <1>1, <1>2, <1>4, <1>5 DEF BInv

LEMMA ReadVersionBounded ==
  ASSUME VInv, BInv, NEW r \in Request, NEW action \in Actions[r], ReadVersion(r, action)
  PROVE  BInv'
<1>1. UNCHANGED <<builds, artifacts, jobs, worker, faults, cut>>
  BY DEF ReadVersion
<1>2. action = "submit" => Submissions < MaxBuilds
  BY DEF ReadVersion
<1>3. PICK v : request' = Put(request, r, v) /\ v.pc = "transit" /\ v.action = action
  <2> DEFINE v == [NoRequest EXCEPT !.pc = "transit", !.action = action]
  <2>1. request' = Put(request, r, v)
    BY DEF ReadVersion, Put
  <2>2. v.pc = "transit" /\ v.action = action
    BY DEF NoRequest
  <2> HIDE DEF v
  <2> QED BY <2>1, <2>2
<1>4. \/ Submitting' = Submitting \ {r}
      \/ Submitting' = Submitting \cup {r} /\ Submissions < MaxBuilds
  BY <1>2, <1>3, SubmittingMoves
<1>5. Limits' /\ faults <= faults'
  BY <1>1 DEF BInv, Limits
<1> QED BY <1>1, <1>3, <1>4, <1>5, RequestBounded

(* A request that ends, or dies. *)
LEMMA RequestEnds ==
  ASSUME VInv, BInv, UNCHANGED <<builds, artifacts, jobs, worker>>,
         NEW r \in Request, request' = [request EXCEPT ![r] = NoRequest],
         faults <= faults', Limits'
  PROVE  BInv'
<1>1. request' = Put(request, r, NoRequest) /\ NoRequest.pc = "idle"
  BY DEF Put, NoRequest
<1>2. Submitting' = Submitting \ {r}
  BY <1>1, SubmittingMoves
<1> QED BY <1>1, <1>2, RequestBounded

LEMMA TransitBounded ==
  ASSUME VInv, BInv, NEW r \in Request, Transit(r)
  PROVE  BInv'
<1>1. UNCHANGED <<builds, artifacts, jobs, worker, faults, cut>> /\ request[r].pc = "transit"
  BY DEF Transit, Asking
<1>2. Limits' /\ faults <= faults'
  BY <1>1 DEF BInv, Limits
<1>3. CASE request[r].action = "submit"
  <2>1. PICK v : request' = Put(request, r, v) /\ v.pc = "insert" /\ v.action = "submit"
    <3> DEFINE v == [request[r] EXCEPT !.pc = "insert"]
    <3>1. request' = Put(request, r, v)
      BY <1>3 DEF Transit, Put
    <3>2. v.pc = "insert" /\ v.action = "submit"
      BY <1>3 DEF VInv, RequestTyped, Requests
    <3> HIDE DEF v
    <3> QED BY <3>1, <3>2
  <2>2. Submitting' = Submitting \cup {r} /\ r \in Submitting
    BY <1>1, <1>3, <2>1, SubmittingMoves DEF Submitting
  <2>3. Submitting' = Submitting
    BY <2>2
  <2> QED BY <1>1, <1>2, <2>1, <2>3, RequestBounded
<1>4. CASE request[r].action # "submit"
  <2>1. request' = [request EXCEPT ![r] = NoRequest]
    BY <1>4 DEF Transit
  <2> QED BY <1>1, <1>2, <2>1, RequestEnds
<1> QED BY <1>3, <1>4

LEMMA CrashRequestBounded ==
  ASSUME VInv, BInv, NEW r \in Request, CrashRequest(r)
  PROVE  BInv'
<1>1. /\ UNCHANGED <<builds, artifacts, jobs, worker>>
      /\ request' = [request EXCEPT ![r] = NoRequest]
      /\ faults < MaxFaults /\ faults' = faults + 1
  BY DEF CrashRequest, Strikes
<1>2. cut' \in BOOLEAN
  <2>1. cut \in BOOLEAN /\ cut' = (cut \/ request[r].pc \in {"insert", "enqueue"})
    BY DEF CrashRequest, BInv, Limits
  <2> QED BY <2>1
<1>3. Limits' /\ faults <= faults'
  BY <1>1, <1>2, BotVersionAssumption DEF BInv, Limits
<1> QED BY <1>1, <1>3, RequestEnds

LEMMA InsertBuildBounded ==
  ASSUME VInv, BInv, NEW r \in Request, InsertBuild(r)
  PROVE  BInv'
<1>0. PICK k \in Nat : k = Len(jobs)
  BY SameDomain
<1>1. k = Len(builds) /\ k = Len(jobs) /\ DOMAIN builds = 1..k /\ DOMAIN jobs = 1..k
  BY <1>0, SameDomain
<1>2. PICK row \in Rows : row = [status |-> "none", attempts |-> 0]
  BY DEF Rows
<1>3. /\ UNCHANGED <<version, artifacts, worker, faults, cut>>
      /\ request[r].pc = "insert" /\ request[r].action = "submit"
      /\ builds' = Append(builds, "queued") /\ jobs' = Append(jobs, row)
  BY <1>2 DEF InsertBuild, Asking, BInv, Asked
<1>4. /\ Len(builds') = k + 1 /\ DOMAIN builds' = 1..(k + 1)
      /\ \A b \in 1..(k + 1) : builds'[b] = IF b = k + 1 THEN "queued" ELSE builds[b]
  BY <1>1, <1>3 DEF VInv, BuildsTyped
<1>5. /\ Len(jobs') = k + 1 /\ DOMAIN jobs' = 1..(k + 1)
      /\ \A b \in 1..(k + 1) : jobs'[b] = IF b = k + 1 THEN row ELSE jobs[b]
  BY <1>1, <1>3 DEF VInv, JobsTyped
<1>6. \A b \in DOMAIN builds : b \in 1..(k + 1) /\ b # k + 1
  BY <1>1
<1>7. PICK v : request' = Put(request, r, v) /\ v.pc = "enqueue" /\ v.build = k + 1
  <2> DEFINE v == [request[r] EXCEPT !.pc = "enqueue", !.build = Len(builds')]
  <2>1. request' = Put(request, r, v)
    BY DEF InsertBuild, Put
  <2>2. v.pc = "enqueue" /\ v.build = k + 1
    BY <1>4 DEF VInv, RequestTyped, Requests
  <2> HIDE DEF v
  <2> QED BY <2>1, <2>2
<1>8. Submitted'
  <2>1. Submitting' = Submitting \ {r} /\ r \in Submitting
    BY <1>3, <1>7, SubmittingMoves DEF Submitting
  <2>2. IsFiniteSet(Submitting) /\ k + Cardinality(Submitting) <= MaxBuilds
    BY <1>1 DEF BInv, Submitted
  <2>3. PICK n \in Nat : n = Cardinality(Submitting)
    BY <2>2, FS_CardinalityType
  <2>4. IsFiniteSet(Submitting') /\ Cardinality(Submitting') = n - 1
    BY <2>1, <2>2, <2>3, FS_RemoveElement
  <2>5. k + 1 + (n - 1) <= MaxBuilds
    <3>1. k + 1 + (n - 1) = k + n
      OBVIOUS
    <3> QED BY <3>1, <2>2, <2>3
  <2> QED BY <1>4, <1>5, <2>4, <2>5 DEF Submitted
<1>9. Known'
  <2>1. artifacts' \subseteq DOMAIN builds'
    BY <1>3, <1>4, <1>6 DEF BInv, Known
  <2>2. \A b \in DOMAIN builds' : builds'[b] # "none"
    BY <1>1, <1>4 DEF BInv, Known
  <2> QED BY <2>1, <2>2 DEF Known
<1>10. \A b : HasJob(b) => HasJobThen(b)
  BY <1>4, <1>5, <1>6 DEF HasJob, HasJobThen
<1>11. AtWork'
  <2> SUFFICES ASSUME NEW w \in Worker
               PROVE  /\ worker'[w].pc # "idle" => HasJobThen(worker'[w].build)
                      /\ worker'[w].pc \in {"complete", "decide"} => worker'[w].result # "none"
    BY DEF AtWork, HasJob, HasJobThen
  <2> QED BY <1>3, <1>10 DEF BInv, AtWork
<1>12. Asked'
  <2>1. \A q \in Request : request'[q] = IF q = r THEN v ELSE request[q]
    BY <1>7 DEF Put, VInv, RequestTyped
  <2>2. \A q \in Request : q # r /\ request'[q].pc = "enqueue"
           => /\ request'[q].build \in 1..(k + 1) /\ request'[q].build # k + 1
              /\ jobs'[request'[q].build].status = "none"
    BY <1>5, <1>6, <2>1 DEF BInv, Asked
  <2>3. jobs'[k + 1].status = "none" /\ k + 1 \in DOMAIN builds'
    BY <1>2, <1>4, <1>5
  <2> SUFFICES ASSUME NEW p \in Request
               PROVE  /\ request'[p].pc = "insert" => request'[p].action = "submit"
                      /\ request'[p].pc = "enqueue" =>
                            /\ request'[p].build \in DOMAIN builds'
                            /\ jobs'[request'[p].build].status = "none"
                            /\ \A q \in Request :
                                  request'[q].pc = "enqueue" /\ request'[q].build = request'[p].build
                                     => q = p
    BY DEF Asked
  <2>4. CASE p = r
    BY <1>7, <2>1, <2>2, <2>3, <2>4
  <2>5. CASE p # r
    <3>1. request'[p] = request[p]
      BY <2>1, <2>5
    <3>2. request[p].pc = "insert" => request[p].action = "submit"
      BY DEF BInv, Asked
    <3>3. ASSUME request'[p].pc = "enqueue", NEW q \in Request,
                 request'[q].pc = "enqueue", request'[q].build = request'[p].build
          PROVE  q = p
      <4>1. q # r
        BY <1>7, <2>1, <2>2, <2>5, <3>3
      <4>2. request'[q] = request[q]
        BY <2>1, <4>1
      <4> QED BY <3>1, <3>3, <4>2 DEF BInv, Asked
    <3> QED BY <1>4, <2>2, <2>5, <3>1, <3>2, <3>3
  <2> QED BY <2>4, <2>5
<1>13. Unclaimed'
  BY <1>1, <1>2, <1>5 DEF BInv, Unclaimed
<1>14. Claimed'
  <2> SUFFICES ASSUME NEW c \in 1..(k + 1) PROVE Within(c)'
    BY <1>5 DEF Claimed
  <2>1. Active(c)' = Active(c) /\ Open(c)' = Open(c)
    BY <1>3 DEF Active, Open
  <2>2. faults \in Nat /\ faults' \in Nat /\ faults <= faults'
    BY <1>3 DEF BInv, Limits
  <2>3. CASE c = k + 1
    <3>1. Active(c) = {} /\ Open(c) = {}
      <4>1. \A w \in Worker : worker[w].pc \in Busy => worker[w].build # c
        BY <1>6, <2>3 DEF Busy, BInv, AtWork, HasJob
      <4> QED BY <4>1 DEF Active, Open
    <3>2. jobs'[c].status = "none" /\ jobs'[c].attempts = 0
      BY <1>2, <1>5, <2>3
    <3>3. Over(c)' = 0 /\ Waiting(c)' = 0
      BY <3>2, BotVersionAssumption DEF Over, Waiting
    <3>4. IsFiniteSet(Open(c)') /\ Cardinality(Open(c)') = 0
      BY <2>1, <3>1, FS_EmptySet
    <3> QED BY <1>3, <2>2, <3>3, <3>4 DEF Within
  <2>4. CASE c # k + 1
    <3>1. c \in DOMAIN jobs
      BY <1>1, <2>4
    <3>2. Within(c) /\ jobs[c].attempts \in Nat
      BY <3>1, JobsAre DEF BInv, Claimed, VInv, Rows
    <3>3. jobs'[c].status = jobs[c].status /\ jobs'[c].attempts = jobs[c].attempts
      BY <1>5, <2>4
    <3> QED BY <2>1, <2>2, <3>2, <3>3, WithinSame
  <2> QED BY <2>3, <2>4
<1>15. Limits'
  BY <1>3 DEF BInv, Limits
<1>16. Limits' /\ Submitted' /\ Known' /\ AtWork' /\ Asked' /\ Unclaimed' /\ Claimed'
  BY <1>8, <1>9, <1>11, <1>12, <1>13, <1>14, <1>15, Zenon
<1> QED BY ZenonT(60), SMTT(60), <1>16 DEF BInv

LEMMA EnqueueBuildBounded ==
  ASSUME VInv, BInv, NEW r \in Request, EnqueueBuild(r)
  PROVE  BInv'
<1>1. PICK b : b = request[r].build
  OBVIOUS
<1>2. /\ UNCHANGED <<version, builds, artifacts, worker, faults, cut>>
      /\ request[r].pc = "enqueue" /\ request' = Put(request, r, NoRequest)
      /\ jobs' = PutStatus(jobs, b, "queued")
  BY <1>1 DEF EnqueueBuild, Asking, Put, PutStatus
<1>3. /\ b \in DOMAIN jobs /\ DOMAIN jobs = DOMAIN builds
      /\ jobs[b].status = "none" /\ jobs[b].attempts = 0
      /\ \A q \in Request : request[q].pc = "enqueue" /\ request[q].build = b => q = r
  BY <1>1, <1>2, SameDomain DEF BInv, Asked, Unclaimed
<1>4. /\ DOMAIN jobs' = DOMAIN jobs /\ Len(jobs') = Len(jobs)
      /\ \A c \in DOMAIN jobs : /\ jobs'[c].attempts = jobs[c].attempts
                                /\ jobs'[c].status = IF c = b THEN "queued" ELSE jobs[c].status
  BY <1>2, StatusPut DEF VInv, JobStatus
<1>5. Known' /\ Unclaimed' /\ Limits'
  BY <1>2, <1>4 DEF BInv, Known, Unclaimed, Limits
<1>6. AtWork'
  <2>1. \A c : HasJob(c) => HasJobThen(c)
    BY <1>2, <1>3, <1>4 DEF HasJob, HasJobThen
  <2> SUFFICES ASSUME NEW w \in Worker
               PROVE  /\ worker'[w].pc # "idle" => HasJobThen(worker'[w].build)
                      /\ worker'[w].pc \in {"complete", "decide"} => worker'[w].result # "none"
    BY DEF AtWork, HasJob, HasJobThen
  <2> QED BY <1>2, <2>1 DEF BInv, AtWork
<1>7. NoRequest.pc = "idle"
  BY DEF NoRequest
<1>8. Submitted'
  <2>1. Submitting' = Submitting \ {r}
    BY <1>2, <1>7, SubmittingMoves
  <2>2. r \notin Submitting
    BY <1>2 DEF Submitting
  <2>3. Submitting' = Submitting
    BY <2>1, <2>2
  <2> QED BY <1>2, <1>4, <2>3 DEF BInv, Submitted
<1>9. Asked'
  <2>1. \A q \in Request : request'[q] = IF q = r THEN NoRequest ELSE request[q]
    BY <1>2 DEF Put, VInv, RequestTyped
  <2> SUFFICES ASSUME NEW p \in Request
               PROVE  /\ request'[p].pc = "insert" => request'[p].action = "submit"
                      /\ request'[p].pc = "enqueue" =>
                            /\ request'[p].build \in DOMAIN builds'
                            /\ jobs'[request'[p].build].status = "none"
                            /\ \A q \in Request :
                                  request'[q].pc = "enqueue" /\ request'[q].build = request'[p].build
                                     => q = p
    BY DEF Asked
  <2>2. CASE p = r
    BY <1>7, <2>1, <2>2
  <2>3. CASE p # r
    <3>1. request'[p] = request[p]
      BY <2>1, <2>3
    <3>2. /\ request[p].pc = "insert" => request[p].action = "submit"
          /\ request[p].pc = "enqueue" =>
                /\ request[p].build \in DOMAIN builds /\ jobs[request[p].build].status = "none"
                /\ request[p].build # b
                /\ \A q \in Request : request[q].pc = "enqueue" /\ request[q].build = request[p].build
                                         => q = p
      BY <1>3, <2>3 DEF BInv, Asked
    <3>3. request[p].pc = "enqueue" => jobs'[request[p].build].status = "none"
      BY <1>3, <1>4, <3>2
    <3>4. \A q \in Request : request'[q].pc = "enqueue" => request'[q] = request[q]
      BY <1>7, <2>1
    <3> QED BY <1>2, <3>1, <3>2, <3>3, <3>4
  <2> QED BY <2>2, <2>3
<1>10. Claimed'
  <2> SUFFICES ASSUME NEW c \in DOMAIN jobs PROVE Within(c)'
    BY <1>4 DEF Claimed
  <2>1. Active(c)' = Active(c) /\ Open(c)' = Open(c)
    BY <1>2 DEF Active, Open
  <2>2. faults \in Nat
    BY DEF BInv, Limits
  <2>3. CASE c = b
    <3>1. Active(c) = {} /\ Open(c) = {}
      <4>1. \A w \in Worker : worker[w].pc \in Busy => worker[w].build # c
        BY <1>3, <2>3 DEF Busy, BInv, AtWork, HasJob
      <4> QED BY <4>1 DEF Active, Open
    <3>2. jobs'[c].status = "queued" /\ jobs'[c].attempts = 0
      BY <1>3, <1>4, <2>3
    <3>3. Over(c)' = 0 /\ Waiting(c)' = 1
      BY <3>2, BotVersionAssumption DEF Over, Waiting
    <3>4. IsFiniteSet(Open(c)') /\ Cardinality(Open(c)') = 0
      BY <2>1, <3>1, FS_EmptySet
    <3> QED BY <1>2, <2>2, <3>3, <3>4 DEF Within
  <2>4. CASE c # b
    <3>1. Within(c) /\ jobs[c].attempts \in Nat
      BY JobsAre DEF BInv, Claimed, VInv, Rows
    <3>2. jobs'[c].status = jobs[c].status /\ jobs'[c].attempts = jobs[c].attempts
      BY <1>4, <2>4
    <3> QED BY <1>2, <2>1, <2>2, <3>1, <3>2, WithinSame
  <2> QED BY <2>3, <2>4
<1> QED BY <1>5, <1>6, <1>8, <1>9, <1>10 DEF BInv

-----------------------------------------------------------------------------

LEMMA StepBounded ==
  ASSUME VInv, BInv, [Next]_vars
  PROVE  BInv'
<1>1. CASE UNCHANGED vars
  <2>1. \A c : Active(c)' = Active(c) /\ Open(c)' = Open(c)
    BY <1>1 DEF vars, Active, Open
  <2>2. UNCHANGED jobs /\ faults' = faults /\ faults \in Nat
    BY <1>1 DEF vars, BInv, Limits
  <2>3. Claimed'
    BY <2>1, <2>2, ClaimedStays
  <2>4. Submitting' = Submitting
    BY <1>1 DEF vars, Submitting
  <2> QED BY <1>1, <2>3, <2>4 DEF vars, BInv, Limits, Submitted, Known, AtWork, HasJob, Asked, Unclaimed
<1>2. ASSUME NEW r \in Request, RequestStep(r) \/ CrashRequest(r) PROVE BInv'
  BY <1>2, TransitBounded, InsertBuildBounded, EnqueueBuildBounded, CrashRequestBounded
  DEF RequestStep
<1>3. ASSUME NEW w \in Worker, WorkerStep(w) PROVE BInv'
  BY <1>3, RunPipelineBounded, BeginCompleteBounded, CommitCompleteBounded, FinishJobBounded,
     FailJobBounded, RejectBounded DEF WorkerStep
<1> QED BY <1>1, <1>2, <1>3, ReadVersionBounded, TakeBounded, WorkerFaultBounded DEF Next, Claims

LEMMA InitBounded == ASSUME Init PROVE BInv
<1>1. builds = <<>> /\ jobs = <<>> /\ artifacts = {} /\ faults = 0
  BY DEF Init
<1>2. DOMAIN builds = {} /\ DOMAIN jobs = {} /\ Len(builds) = 0 /\ Len(jobs) = 0
  BY <1>1
<1>3. \A r \in Request : request[r].pc = "idle"
  BY DEF Init, NoRequest
<1>4. \A w \in Worker : worker[w].pc = "idle"
  BY DEF Init, NoWork
<1>5. Submitting = {}
  BY <1>3 DEF Submitting
<1>6. Submitted
  BY <1>2, <1>5, FS_EmptySet, BotVersionAssumption DEF Submitted
<1>7. Limits /\ Known
  <2>1. cut \in BOOLEAN
    BY DEF Init
  <2>2. faults \in 0..MaxFaults
    BY SMTT(60), ZenonT(60), <1>1, BotVersionAssumption
  <2> QED BY <1>1, <1>2, <2>1, <2>2 DEF Limits, Known
<1>8. AtWork /\ Asked /\ Unclaimed /\ Claimed
  BY SMTT(60), ZenonT(60), <1>2, <1>3, <1>4 DEF AtWork, Asked, Unclaimed, Claimed
<1> QED BY <1>6, <1>7, <1>8 DEF BInv

LEMMA BoundedTypes == ASSUME VInv, BInv PROVE TypeOK
<1>1. /\ DOMAIN builds = 1..Len(builds) /\ Len(builds) \in Nat /\ DOMAIN jobs = DOMAIN builds
      /\ Len(jobs) = Len(builds) /\ MaxBuilds \in Nat
  BY ZenonT(60), SMTT(60), JobsAre, SameDomain, BotVersionAssumption DEF VInv
<1>2. Len(builds) <= MaxBuilds
  <2>1. Cardinality(Submitting) \in Nat /\ Len(builds) + Cardinality(Submitting) <= MaxBuilds
    BY FS_CardinalityType DEF BInv, Submitted
  <2> QED BY <1>1, <2>1
<1>3. version \in [state : State, build : 1..MaxBuilds \cup {None}]
  <2>1. version.build \in DOMAIN builds \cup {None}
    BY DEF VInv, BuildIsArtifact, BInv, Known
  <2>2. \A b \in DOMAIN builds : b \in 1..MaxBuilds
    BY <1>1, <1>2
  <2> QED BY <2>1, <2>2 DEF VInv, VersionTyped, Versions
<1>4. ASSUME NEW b \in DOMAIN builds
      PROVE  /\ builds[b] \in {"queued", "running", "passed", "failed"}
             /\ jobs[b].status \in {"none", "queued", "running", "done", "needs_review"}
             /\ jobs[b].attempts \in 0..MaxAttempts + MaxFaults
  <2>1. builds[b] \in Statuses \ {"none"} /\ jobs[b] \in Rows
    BY <1>1, JobsAre DEF VInv, BuildsTyped, BInv, Known
  <2>2. PICK a \in Nat : a = jobs[b].attempts
    BY <2>1 DEF Rows
  <2>3. PICK over \in Nat, n \in Nat, wait \in {0, 1} :
           /\ over = Over(b) /\ n = Cardinality(Open(b)) /\ wait = Waiting(b)
           /\ over + n + wait <= faults + 1
    <3>1. Within(b)
      BY <1>1 DEF BInv, Claimed
    <3> QED BY <2>2, <3>1, LoadIs DEF Within
  <2>4. faults \in Nat /\ faults <= MaxFaults /\ MaxFaults \in Nat /\ MaxAttempts \in Nat \ {0}
    BY BotVersionAssumption DEF BInv, Limits
  <2>5. over = IF a < MaxAttempts THEN 0 ELSE a - MaxAttempts + 1
    BY <2>2, <2>3 DEF Over
  <2>6. over <= MaxFaults + 1
    BY <2>3, <2>4
  <2>7. a <= MaxAttempts + MaxFaults
    BY <2>2, <2>4, <2>5, <2>6
  <2> QED BY <2>1, <2>2, <2>4, <2>7 DEF Statuses, Rows
<1> QED BY SMTT(60), ZenonT(60), <1>1, <1>2, <1>3, <1>4 DEF TypeOK, BInv, Known, Limits

(* The rows keep their shape, and only a fault lets a job be claimed more   *)
(* often than max_attempts: a second worker at the same job, the death of a *)
(* worker, or a refused statement, each once.                              *)
THEOREM TypeCorrect == Spec => []TypeOK
<1>1. Init => BInv
  BY InitBounded
<1>2. VInv /\ BInv /\ [Next]_vars => BInv'
  BY StepBounded
<1>3. VInv /\ BInv => TypeOK
  BY BoundedTypes
<1> QED BY <1>1, <1>2, <1>3, Invariant, PTL DEF Spec
=============================================================================
