----------------------------- MODULE BotVersion -----------------------------
(***************************************************************************)
(* The life of one version of a bot: the requests of its owner, of the     *)
(* moderators and of closeEntries (bots.ts), and the workers that build    *)
(* what was submitted (build-worker.ts, e6-bot-manager.ts, completeBuild). *)
(*                                                                         *)
(* A request reads the version, checks the transition on what it read and  *)
(* updates the row by its id: the three are separate statements.  The      *)
(* source never changes after the draft (the trigger s9_bot_version_guard),*)
(* so a build is its number; the artifact of a version is the build that   *)
(* validated it.                                                           *)
(***************************************************************************)
EXTENDS Integers, Sequences, FiniteSets

CONSTANTS
    Request,        \* the requests that may be under way at a time
    Actions,        \* what each may ask for
    Worker,         \* bot-build-worker processes
    None,
    MaxAttempts,    \* jobs.max_attempts
    MaxBuilds,      \* how often the version is submitted (bounds the model)
    FaultKinds,
    MaxFaults       \* how many strike (bounds the model)

ASSUME BotVersionAssumption ==
    /\ MaxAttempts \in Nat \ {0}
    /\ {MaxBuilds, MaxFaults} \subseteq Nat
    /\ FaultKinds \subseteq {"crash", "statement", "late"}
    /\ None \notin Nat
    /\ Actions \in [Request -> SUBSET {"submit", "publish", "freeze", "retire", "suspend"}]

VARIABLES
    version,    \* bot_versions: [state, build]
    builds,     \* builds.status, by number
    artifacts,  \* artifacts: UNIQUE (build_id)
    jobs,       \* the bot_build job of each build
    request,
    worker,
    faults,     \* how many have struck
    cut         \* one struck where nothing is retried

vars == <<version, builds, artifacts, jobs, request, worker, faults, cut>>

State == {"draft", "validating", "rejected", "validated", "published",
          "frozen", "suspended", "retired"}

NoRequest == [pc |-> "idle", action |-> "none", build |-> None]
NoWork == [pc |-> "idle", build |-> None, attempts |-> 0, result |-> "none"]

Init ==
    /\ version = [state |-> "draft", build |-> None]
    /\ builds = <<>>
    /\ artifacts = {}
    /\ jobs = <<>>
    /\ request = [r \in Request |-> NoRequest]
    /\ worker = [w \in Worker |-> NoWork]
    /\ faults = 0
    /\ cut = FALSE

-----------------------------------------------------------------------------
(* Requests *)

(* Mutant: what is being validated may be published. *)
TransitionsLax ==
    [submit  |-> [from |-> {"draft", "rejected"}, to |-> "validating"],
     publish |-> [from |-> {"validating", "validated"}, to |-> "published"],
     freeze  |-> [from |-> {"published"}, to |-> "frozen"],
     retire  |-> [from |-> {"published"}, to |-> "retired"],
     suspend |-> [from |-> State \ {"suspended", "retired"}, to |-> "suspended"]]

(* TRANSITIONS; validate and reject are in completeBuild. *)
Transitions ==
    [submit  |-> [from |-> {"draft", "rejected"}, to |-> "validating"],
     publish |-> [from |-> {"validated"}, to |-> "published"],
     freeze  |-> [from |-> {"published"}, to |-> "frozen"],
     retire  |-> [from |-> {"published"}, to |-> "retired"],
     suspend |-> [from |-> State \ {"suspended", "retired"}, to |-> "suspended"]]

Asking(r, pc) == request[r].pc = pc

Submissions == Len(builds) + Cardinality({r \in Request :
    request[r].action = "submit" /\ request[r].pc \in {"transit", "insert"}})

(* getVersionOr404 and assertTransition: otherwise the answer is 409. *)
ReadVersion(r, action) ==
    /\ Asking(r, "idle")
    /\ version.state \in Transitions[action].from
    /\ action = "submit" => Submissions < MaxBuilds
    /\ request' = [request EXCEPT ![r] = [NoRequest EXCEPT !.pc = "transit", !.action = action]]
    /\ UNCHANGED <<version, builds, artifacts, jobs, worker, faults, cut>>

(* applyTransition: UPDATE ... WHERE id, whatever the state is by now. *)
Transit(r) ==
    /\ Asking(r, "transit")
    /\ version' = [version EXCEPT !.state = Transitions[request[r].action].to]
    /\ request' = [request EXCEPT ![r] = IF @.action = "submit" THEN [@ EXCEPT !.pc = "insert"]
                                                               ELSE NoRequest]
    /\ UNCHANGED <<builds, artifacts, jobs, worker, faults, cut>>

InsertBuild(r) ==
    /\ Asking(r, "insert")
    /\ builds' = Append(builds, "queued")
    /\ jobs' = Append(jobs, [status |-> "none", attempts |-> 0])
    /\ request' = [request EXCEPT ![r] = [@ EXCEPT !.pc = "enqueue", !.build = Len(builds')]]
    /\ UNCHANGED <<version, artifacts, worker, faults, cut>>

(* QueueBotManager.enqueueBuild; the key of a new build is new. *)
EnqueueBuild(r) ==
    /\ Asking(r, "enqueue")
    /\ jobs' = [jobs EXCEPT ![request[r].build].status = "queued"]
    /\ request' = [request EXCEPT ![r] = NoRequest]
    /\ UNCHANGED <<version, builds, artifacts, worker, faults, cut>>

-----------------------------------------------------------------------------
(* runBuildWorkerOnce *)

At(w, pc) == worker[w].pc = pc
Goto(w, pc) == worker' = [worker EXCEPT ![w].pc = pc]
GoIdle(w) == worker' = [worker EXCEPT ![w] = NoWork]

Strikes(kind) == kind \in FaultKinds /\ faults < MaxFaults /\ faults' = faults + 1

Take(w, b) ==
    /\ jobs' = [jobs EXCEPT ![b] = [status |-> "running", attempts |-> @.attempts + 1]]
    /\ worker' = [worker EXCEPT ![w] = [NoWork EXCEPT !.pc = "start", !.build = b,
                                            !.attempts = jobs[b].attempts + 1]]
    /\ UNCHANGED <<version, builds, artifacts, request, cut>>

(* claimBuildJob: queued, or an orphan, whose attempts nobody looks at.    *)
(* Backoffs let any of them be the first one eligible.                     *)
ClaimBuildJob(w, b) ==
    /\ At(w, "idle")
    /\ \/ jobs[b].status = "queued"
       \/ jobs[b].status = "running" /\ \A v \in Worker : worker[v].build # b
    /\ Take(w, b)
    /\ UNCHANGED faults

(* The ten minutes of the lock are over while its worker is still at it. *)
ClaimAgain(w, b) ==
    /\ At(w, "idle")
    /\ jobs[b].status = "running"
    /\ Strikes("late")
    /\ Take(w, b)

(* E6PipelineBotManager: an invalid package fails before it is running;    *)
(* pipeline.run ends with a verdict, or the platform is to blame.          *)
RunPipeline(w) ==
    LET b == worker[w].build
        run == [builds EXCEPT ![b] = IF @ = "queued" THEN "running" ELSE @]
    IN /\ At(w, "start")
       /\ \/ \E result \in {"passed", "failed"} :
                /\ worker' = [worker EXCEPT ![w].pc = "complete", ![w].result = result]
                /\ builds' = run
          \/ /\ worker' = [worker EXCEPT ![w].pc = "complete", ![w].result = "failed"]
             /\ UNCHANGED builds
          \/ Goto(w, "thrown") /\ builds' = run
       /\ UNCHANGED <<version, artifacts, jobs, request, faults, cut>>

(* Nobody's transaction holds the row of this build. *)
BuildFree(b) == \A v \in Worker : ~(At(v, "decide") /\ worker[v].build = b)

(* completeBuild, one transaction: UPDATE builds and SELECT the version.   *)
(* What is no longer validating is left alone.                             *)
BeginComplete(w) ==
    LET b == worker[w].build IN
    /\ At(w, "complete")
    /\ BuildFree(b)
    /\ IF version.state = "validating"
       THEN Goto(w, "decide") /\ UNCHANGED builds
       ELSE Goto(w, "completed") /\ builds' = [builds EXCEPT ![b] = worker[w].result]
    /\ UNCHANGED <<version, artifacts, jobs, request, faults, cut>>

(* Mutant: the trigger that keeps the artifact is not there. *)
Unguarded(b) == FALSE

(* s9_bot_version_guard: the artifact is set only while validating. *)
Guarded(b) == version.state # "validating" /\ version.build # b

(* UPDATE bot_versions by id, INSERT artifacts and COMMIT.  Only a passed   *)
(* build meets the trigger and UNIQUE (build_id), which roll it back.      *)
CommitComplete(w) ==
    LET b == worker[w].build
        refused == worker[w].result = "passed" /\ (Guarded(b) \/ b \in artifacts)
    IN /\ At(w, "decide")
       /\ IF refused
          THEN Goto(w, "thrown") /\ UNCHANGED <<version, builds, artifacts>>
          ELSE /\ Goto(w, "completed")
               /\ builds' = [builds EXCEPT ![b] = worker[w].result]
               /\ IF worker[w].result = "passed"
                  THEN /\ version' = [state |-> "validated", build |-> b]
                       /\ artifacts' = artifacts \cup {b}
                  ELSE /\ version' = [version EXCEPT !.state = "rejected"]
                       /\ UNCHANGED artifacts
       /\ UNCHANGED <<jobs, request, faults, cut>>

FinishJob(w) ==
    /\ At(w, "completed")
    /\ jobs' = [jobs EXCEPT ![worker[w].build].status = "done"]
    /\ GoIdle(w)
    /\ UNCHANGED <<version, builds, artifacts, request, faults, cut>>

(* Mutant: the version waits for whoever reviews the job. *)
FailJobOnly(w) ==
    /\ At(w, "thrown")
    /\ jobs' = [jobs EXCEPT ![worker[w].build].status =
                    IF worker[w].attempts >= MaxAttempts THEN "needs_review" ELSE "queued"]
    /\ GoIdle(w)
    /\ UNCHANGED <<version, builds, artifacts, request, faults, cut>>

(* Mutant: one attempt too many. *)
FailJobLate(w) ==
    LET exhausted == worker[w].attempts > MaxAttempts
    IN /\ At(w, "thrown")
       /\ jobs' = [jobs EXCEPT ![worker[w].build].status =
                       IF exhausted THEN "needs_review" ELSE "queued"]
       /\ IF exhausted THEN Goto(w, "reject") ELSE GoIdle(w)
       /\ UNCHANGED <<version, builds, artifacts, request, faults, cut>>

(* The catch: again with backoff, or for review. *)
FailJob(w) ==
    LET exhausted == worker[w].attempts >= MaxAttempts
    IN /\ At(w, "thrown")
       /\ jobs' = [jobs EXCEPT ![worker[w].build].status =
                       IF exhausted THEN "needs_review" ELSE "queued"]
       /\ IF exhausted THEN Goto(w, "reject") ELSE GoIdle(w)
       /\ UNCHANGED <<version, builds, artifacts, request, faults, cut>>

RejectUnverifiable(w) ==
    /\ At(w, "reject")
    /\ BuildFree(worker[w].build)
    /\ builds' = [builds EXCEPT ![worker[w].build] = "failed"]
    /\ version' = [version EXCEPT !.state = IF @ = "validating" THEN "rejected" ELSE @]
    /\ GoIdle(w)
    /\ UNCHANGED <<artifacts, jobs, request, faults, cut>>

-----------------------------------------------------------------------------
(* Faults *)

(* Nobody repeats what these have left to do. *)
CrashRequest(r) ==
    /\ ~Asking(r, "idle")
    /\ Strikes("crash")
    /\ cut' = (cut \/ request[r].pc \in {"insert", "enqueue"})
    /\ request' = [request EXCEPT ![r] = NoRequest]
    /\ UNCHANGED <<version, builds, artifacts, jobs, worker>>

CrashWorker(w) ==
    /\ ~At(w, "idle")
    /\ Strikes("crash")
    /\ cut' = (cut \/ At(w, "reject"))
    /\ GoIdle(w)
    /\ UNCHANGED <<version, builds, artifacts, jobs, request>>

(* A statement of the worker is refused: in the try, or outside of it. *)
StatementFails(w) ==
    /\ worker[w].pc \in {"start", "complete", "decide", "completed", "thrown", "reject"}
    /\ Strikes("statement")
    /\ IF worker[w].pc \in {"thrown", "reject"} THEN GoIdle(w) ELSE Goto(w, "thrown")
    /\ cut' = (cut \/ At(w, "reject"))
    /\ UNCHANGED <<version, builds, artifacts, jobs, request>>

-----------------------------------------------------------------------------

RequestStep(r) == Transit(r) \/ InsertBuild(r) \/ EnqueueBuild(r)

WorkerStep(w) ==
    \/ RunPipeline(w) \/ BeginComplete(w) \/ CommitComplete(w)
    \/ FinishJob(w) \/ FailJob(w) \/ RejectUnverifiable(w)

Claims == \E w \in Worker, b \in DOMAIN jobs : ClaimBuildJob(w, b)

Next ==
    \/ \E r \in Request : \E action \in Actions[r] : ReadVersion(r, action)
    \/ \E r \in Request : RequestStep(r) \/ CrashRequest(r)
    \/ Claims
    \/ \E w \in Worker : \/ WorkerStep(w) \/ CrashWorker(w) \/ StatementFails(w)
                         \/ \E b \in DOMAIN jobs : ClaimAgain(w, b)

(* The API ends its requests, the workers poll and the pipeline has limits. *)
Fairness ==
    /\ \A r \in Request : WF_vars(RequestStep(r))
    /\ \A w \in Worker : WF_vars(WorkerStep(w))
    /\ WF_vars(Claims)

Spec == Init /\ [][Next]_vars /\ Fairness

-----------------------------------------------------------------------------
(* Properties *)

(* The shape of the rows; only a fault lets a job exceed its attempts. *)
TypeOK ==
    /\ version \in [state : State, build : 1..MaxBuilds \cup {None}]
    /\ Len(builds) <= MaxBuilds /\ Len(jobs) = Len(builds)
    /\ \A b \in DOMAIN builds :
          /\ builds[b] \in {"queued", "running", "passed", "failed"}
          /\ jobs[b].status \in {"none", "queued", "running", "done", "needs_review"}
          /\ jobs[b].attempts \in 0..MaxAttempts + MaxFaults
    /\ artifacts \subseteq DOMAIN builds
    /\ faults \in 0..MaxFaults /\ cut \in BOOLEAN

(* Whatever is or was playable has the artifact of the build that validated *)
(* it, which findVersionArtifact must find before a launch, in spite of     *)
(* stale transitions, second deliveries and crashes in completeBuild.       *)
PlayableHasItsArtifact ==
    version.state \in {"validated", "published", "frozen", "retired"} => version.build \in artifacts

(* Only what is being validated becomes validated (chapter 17.1), although  *)
(* completeBuild reads the state in one statement and writes it in another: *)
(* a suspension in between stands.                                          *)
ValidatedFromValidating ==
    [][version'.state = "validated" => version.state \in {"validating", "validated"}]_vars

(* A version does not stay in validation for ever, however its builds fail  *)
(* and its workers die; the exceptions are the cuts between two statements  *)
(* that nothing repeats.                                                    *)
LeavesValidating == version.state = "validating" ~> (version.state # "validating" \/ cut)
=============================================================================
