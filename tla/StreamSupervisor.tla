-------------------------- MODULE StreamSupervisor --------------------------
(***************************************************************************)
(* The supervisor of the video stream (supervisor.ts): orders to start and *)
(* stop, and the callbacks of Chromium, FFmpeg and the RTMP relay, which   *)
(* come when they will, also after their process was told to end.          *)
(*                                                                         *)
(* A handler runs to its end.  Every launch has a generation of its own,   *)
(* so a child is its kind and its generation; what its closure captured is *)
(* the generation and the mode of that launch.                             *)
(***************************************************************************)
EXTENDS Integers, FiniteSets

CONSTANTS
    MaxRetries,         \* config.maxRetries
    Orders,             \* what is asked for: sets of [mode, key, ingest]
    MaxGeneration,      \* bounds the launches
    MaxOrders           \* bounds the orders to start

ASSUME StreamSupervisorAssumption ==
    /\ {MaxRetries, MaxGeneration, MaxOrders} \subseteq Nat
    /\ Orders \subseteq [mode : {"rtmps", "record"}, key : BOOLEAN, ingest : BOOLEAN]

Kind == {"chromium", "ffmpeg", "publisher"}
Generation == 1..MaxGeneration

VARIABLES
    sup,        \* the object: [state, generation, attempts, order, current]
    child,      \* of each kind and generation: none, live, flowing, told, gone
    mode,       \* the mode of each launch, in the closure of its callbacks
    asleep,     \* the generations of the retries that sleep
    orders,     \* how many orders to start there were
    inARow      \* relaunches since the stream last flowed

vars == <<sup, child, mode, asleep, orders, inARow>>

Nothing == [k \in Kind |-> 0]

Init ==
    /\ sup = [state |-> "idle", generation |-> 0, attempts |-> 0, current |-> Nothing,
              order |-> [mode |-> "record", key |-> FALSE, ingest |-> FALSE]]
    /\ child = [k \in Kind |-> [g \in Generation |-> "none"]]
    /\ mode = [g \in Generation |-> "none"]
    /\ asleep = {}
    /\ orders = 0
    /\ inARow = 0

-----------------------------------------------------------------------------
(* What the methods do to the object and its children: s has all of it *)

Now == [sup |-> sup, child |-> child, mode |-> mode, asleep |-> asleep]

Becomes(s) ==
    /\ sup' = s.sup
    /\ child' = s.child
    /\ mode' = s.mode
    /\ asleep' = s.asleep

Running == {"live", "flowing"}

NextGeneration(s) == [s EXCEPT !.sup.generation = @ + 1]
InState(s, state) == [s EXCEPT !.sup.state = state]

(* stopProcesses: SIGTERM, and the relay is closed; they end later. *)
StopProcesses(s) ==
    [s EXCEPT !.sup.current = Nothing,
              !.child = [k \in Kind |-> [g \in Generation |->
                            IF g = s.sup.current[k] /\ s.child[k][g] \in Running
                            THEN "told" ELSE s.child[k][g]]]]

Spawn(s, kinds) ==
    LET gen == s.sup.generation IN
    [s EXCEPT !.sup.current = [k \in Kind |-> IF k \in kinds THEN gen ELSE s.sup.current[k]],
              !.child = [k \in Kind |-> [g \in Generation |->
                            IF k \in kinds /\ g = gen THEN "live" ELSE s.child[k][g]]],
              !.mode[gen] = s.sup.order.mode]

(* retry, up to its sleep. *)
Retry(s) ==
    LET t == [NextGeneration(s) EXCEPT !.sup.attempts = @ + 1]
    IN IF t.sup.attempts > MaxRetries
       THEN InState(StopProcesses(t), "failed")
       ELSE [InState(StopProcesses(t), "retrying") EXCEPT !.asleep = @ \cup {t.sup.generation}]

(* launch, launchChromium and launchFfmpeg: without a key nothing is        *)
(* started; an ingest that cannot be parsed shows when Chromium is up; an   *)
(* FFmpeg without its output is a break.                                    *)
Launch(s, media) ==
    LET order == s.sup.order
        relay == order.mode = "rtmps"
    IN IF ~relay              THEN Spawn(s, {"chromium", "ffmpeg"})
       ELSE IF ~order.key     THEN InState(s, "failed")
       ELSE IF ~order.ingest  THEN StopProcesses(InState(Spawn(s, {"chromium"}), "failed"))
       ELSE IF ~media         THEN Retry(Spawn(s, Kind))
       ELSE Spawn(s, Kind)

MayBreak == sup.generation < MaxGeneration
Valid(g) == g = sup.generation /\ sup.state # "stopped"

-----------------------------------------------------------------------------
(* Orders *)

(* start; Launch adds a generation when FFmpeg has no output. *)
Start(order, media) ==
    /\ MayBreak /\ orders < MaxOrders
    /\ ~media => sup.generation + 1 < MaxGeneration
    /\ Becomes(Launch([NextGeneration(StopProcesses(Now)) EXCEPT
                          !.sup.attempts = 0, !.sup.order = order, !.sup.state = "streaming"],
                      media))
    /\ orders' = orders + 1
    /\ inARow' = 0

Stop ==
    /\ sup.state # "stopped" /\ MayBreak
    /\ Becomes(InState(StopProcesses(NextGeneration(Now)), "stopped"))
    /\ UNCHANGED <<orders, inARow>>

-----------------------------------------------------------------------------
(* Callbacks *)

(* The exit of Chromium or FFmpeg. *)
Exit(k, g) ==
    /\ k # "publisher" /\ child[k][g] \in Running \cup {"told"}
    /\ LET s == [Now EXCEPT !.child[k][g] = "gone"] IN
         IF Valid(g) THEN MayBreak /\ Becomes(Retry(s)) ELSE Becomes(s)
    /\ UNCHANGED <<orders, inARow>>

(* Mutant: the rejection of the ingest stays in the promise. *)
RelayFailsQuietly(g) ==
    /\ child["publisher"][g] \in Running \cup {"told"}
    /\ Becomes([Now EXCEPT !.child["publisher"][g] = "gone"])
    /\ UNCHANGED <<orders, inARow>>

(* The relay fails and closes itself; an order to the ingest that was under *)
(* way when it was closed times out as an error, too.                       *)
RelayFails(g) ==
    /\ child["publisher"][g] \in Running \cup {"told"}
    /\ LET s == [Now EXCEPT !.child["publisher"][g] = "gone"] IN
         IF Valid(g) THEN MayBreak /\ Becomes(Retry(s)) ELSE Becomes(s)
    /\ UNCHANGED <<orders, inARow>>

RelayPublishes(g) ==
    /\ child["publisher"][g] = "live"
    /\ Becomes([Now EXCEPT !.child["publisher"][g] = "flowing"])
    /\ UNCHANGED <<orders, inARow>>

(* Mutant: any frame counts, also against an ingest that refused. *)
FlowingAnyway(g) == TRUE

(* The output goes somewhere: to the disk, or to a relay that publishes. *)
Flowing(g) == mode[g] = "record" \/ child["publisher"][g] = "flowing"

(* A block of progress; the last one comes when FFmpeg is told to end. *)
Progress(g) ==
    /\ child["ffmpeg"][g] \in {"live", "told"}
    /\ sup' = [sup EXCEPT !.attempts = IF Flowing(g) THEN 0 ELSE @]
    /\ inARow' = IF Flowing(g) /\ child["ffmpeg"][g] = "live" THEN 0 ELSE inARow
    /\ UNCHANGED <<child, mode, asleep, orders>>

(* Mutant: an order in the meantime is not noticed. *)
WakeAnyway(g, media) ==
    /\ g \in asleep
    /\ sup.generation < MaxGeneration
    /\ Becomes(Launch([InState(Now, "streaming") EXCEPT !.asleep = @ \ {g}], media))
    /\ inARow' = inARow + 1
    /\ UNCHANGED orders

(* The sleep of a retry ends; a start or a stop have made it obsolete. *)
Wake(g, media) ==
    /\ g \in asleep
    /\ LET s == [Now EXCEPT !.asleep = @ \ {g}] IN
         IF g = sup.generation
         THEN /\ ~media => MayBreak
              /\ Becomes(Launch(InState(s, "streaming"), media))
              /\ inARow' = inARow + 1
         ELSE Becomes(s) /\ UNCHANGED inARow
    /\ UNCHANGED orders

-----------------------------------------------------------------------------

Next ==
    \/ \E order \in Orders, media \in BOOLEAN : Start(order, media)
    \/ Stop
    \/ \E g \in Generation :
          \/ \E k \in Kind : Exit(k, g)
          \/ RelayFails(g) \/ RelayPublishes(g) \/ Progress(g)
          \/ \E media \in BOOLEAN : Wake(g, media)

Spec == Init /\ [][Next]_vars

-----------------------------------------------------------------------------
(* Properties *)

(* The shape of the object; the attempts are used up only when it is over. *)
TypeOK ==
    /\ sup \in [state : {"idle", "streaming", "retrying", "stopped", "failed"},
                generation : 0..MaxGeneration, attempts : Nat,
                current : [Kind -> Generation \cup {0}],
                order : [mode : {"rtmps", "record"}, key : BOOLEAN, ingest : BOOLEAN]]
    /\ sup.attempts <= MaxRetries \/ sup.state \in {"failed", "stopped"}
    /\ sup.generation = 0 => sup.state = "idle"
    /\ child \in [Kind -> [Generation -> {"none", "live", "flowing", "told", "gone"}]]
    /\ mode \in [Generation -> {"none", "rtmps", "record"}]
    /\ asleep \subseteq 1..sup.generation
    /\ orders \in Nat

(* No attempt outlives the next: whatever runs and was not told to end is   *)
(* of the present launch of a stream that is on, and the exits of siblings  *)
(* do not queue a second retry (supervisor.ts:333): one is under way       *)
(* exactly while the state says so.                                        *)
OneAttempt ==
    /\ \A k \in Kind, g \in Generation : child[k][g] \in Running =>
          sup.state = "streaming" /\ g = sup.generation /\ sup.current[k] = g
    /\ (sup.state = "retrying") <=> (sup.generation \in asleep)

(* A stream is not "streaming" over a dead browser, encoder or relay, the   *)
(* failure that publisher.ts tells of.                                      *)
StreamingIsAlive ==
    sup.state = "streaming" =>
       \A k \in IF sup.order.mode = "rtmps" THEN Kind ELSE Kind \ {"publisher"} :
          child[k][sup.generation] \in Running

(* Inductive: see StreamSupervisorProofs. *)
IInv == TypeOK /\ OneAttempt /\ StreamingIsAlive

(* Only an order starts what an order has stopped, whatever slept. *)
StoppedUntilStart == [][sup.state = "stopped" /\ sup'.state # "stopped" => orders' > orders]_vars

(* supervisor.ts:4: no more than maxRetries relaunches follow each other    *)
(* without the stream having flowed in between.  It holds while nothing is *)
(* recorded: an encoder that was told to end reports once more, and only   *)
(* a relay that is closed does not let that count.                         *)
RelaysBounded == (\A g \in Generation : mode[g] # "record") => inARow <= MaxRetries
=============================================================================
