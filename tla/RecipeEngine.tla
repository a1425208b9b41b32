----------------------------- MODULE RecipeEngine -----------------------------
(***************************************************************************)
(* One Master running a recipe: RecipeEngine executes the steps in order,  *)
(* drives the chamber through the PLC, commands cameras over NATS, forks   *)
(* and joins captures, reports a receipt per step and unwinds after a      *)
(* cancellation, an NG or an error.  Agents, the operator and the          *)
(* emergency stop interleave with it at every await.                       *)
(*                                                                         *)
(* Agents are what the messages they may send say of them: a capture       *)
(* result per shot, in any order, late, more than once or never.           *)
(***************************************************************************)
EXTENDS Integers, Sequences, FiniteSets

CONSTANTS
    Recipes,            \* recipes that may be run
    Cameras,
    MaxRuns,            \* bound on the runs of a behaviour
    ResultKinds,        \* kinds of capture results agents send, see Messages
    None

Kinds == {"device", "temperature", "humidity", "bias", "control", "capture", "join"}

\* cameras: targets in order; rounds: CaptureRepeatCount; shots: ShotCount;
\* wait: WaitForCaptureResult; production: rule-based storage is in force;
\* offset: ShotNumberOffset; target: the climate target; limits: UseSafety*.
StepType == [kind : Kinds, cameras : Seq(Cameras), rounds : Nat \ {0}, shots : Nat \ {0},
             wait : BOOLEAN, production : BOOLEAN, offset : Nat, target : Nat,
             limits : BOOLEAN]

RecipeType == [steps : Seq(StepType) \ {<<>>}, keepChamberRunning : BOOLEAN]

ASSUME RecipesAssumption == Recipes \subseteq RecipeType
ASSUME BoundsAssumption ==
    /\ MaxRuns \in Nat \ {0}
    /\ ResultKinds \subseteq {"ok", "failed", "biasFile", "foreign"}
ASSUME NoneAssumption == None \notin Cameras

VARIABLES
    recipe,         \* the recipe that is run, each time
    run,            \* number of runs started
    pc,             \* where the engine stands
    at,             \* the step being executed
    turn,           \* the round of the step and the camera, by its place, being served
    exec,           \* StepExecutionState of the steps started
    receipts,       \* final receipts reported, by step
    waiters,        \* captureWaiters: requests whose results are still accepted
    batches,        \* CaptureBatch of the requests of this run
    pending,        \* pendingCaptures, in order
    joining,        \* the items a join still has to collect or to abort
    cursor,         \* how far the join has got with them
    late,           \* the join's wait ended before all batches were complete
    proceed,        \* no operator has decided to stop at an abort without answer
    ack,            \* the answer to the control command awaited
    bias,           \* _successfulBiasRequests
    condition,      \* _lastChamberTargetC, 0 for none
    nextNumber,     \* _nextProductionShotNumbers
    watched,        \* temperatureSafety and humiditySafety, 0 for none
    skipped,        \* CameraSkipState.Skipped
    skipSimilar,    \* CameraSkipState.SkipSimilar
    chamber,        \* the chamber runs
    chamberStarted, \* the engine's own flag
    estop,          \* the current emergency stop token is cancelled
    cancelled,      \* the token of this run is cancelled
    outcome,        \* how the run ended or is ending
    sent,           \* capture results the agents have sent, of all runs
    published,      \* history: requests of this run
    aborted,        \* history: requests an abort was published for
    latest,         \* history: the last BIAS each camera acknowledged in this run
    stored,         \* history: capture results stored in this run
    ranges,         \* history: file numbers ordered, by destination
    outside,        \* history: what the last safety reading found out of range
    emergency,      \* history: an emergency stop was requested in this run
    failures        \* history: chamber stop or receipt storage failed in this run

Steps == DOMAIN recipe.steps
Quantities == {"temperature", "humidity"}
Conditions == {recipe.steps[s].target : s \in Steps} \cup {0}
Destinations == Cameras \X Conditions

runVars == <<recipe, run, outcome, cancelled>>
flowVars == <<pc, at, turn>>
joinVars == <<joining, cursor, late, proceed>>
captureVars == <<waiters, batches, pending, joinVars>>
commandVars == <<ack, bias>>
chamberVars == <<chamber, chamberStarted, condition, watched>>
skipVars == <<skipped, skipSimilar>>
requestHistory == <<published, aborted, latest>>
otherHistory == <<stored, ranges, outside, emergency, failures>>
vars == <<runVars, flowVars, exec, receipts, captureVars, commandVars, nextNumber, chamberVars,
          skipVars, estop, sent, requestHistory, otherHistory>>

-----------------------------------------------------------------------------
(* Requests, messages and batches.                                         *)

Requests == [op : {"capture", "bias", "control"}, run : 1..MaxRuns, step : Steps,
             round : Nat \ {0}, camera : Cameras]

\* A production capture is answered by one result for the whole batch.
Expected(r) == IF recipe.steps[r.step].production THEN 1 ELSE recipe.steps[r.step].shots

\* key: RecipeStepId; id: CaptureId; origin: the run it was really captured for.
Messages == [key : Requests, id : Nat \ {0}, kind : ResultKinds, origin : 1..MaxRuns]
BatchType == [received : SUBSET Messages, count : Nat, identity : BOOLEAN, done : BOOLEAN]
EmptyBatch == [received |-> {}, count |-> 0, identity |-> FALSE, done |-> FALSE]

\* CaptureBatch.Add: a result of another target ends the batch, a capture id counts once.
Add(batch, m, expected) ==
    IF m.kind = "foreign"
    THEN [batch EXCEPT !.identity = TRUE, !.done = TRUE]
    ELSE IF m \in batch.received THEN batch
    ELSE [batch EXCEPT !.received = @ \cup {m}, !.count = @ + 1,
                       !.done = @ \/ batch.count + 1 >= expected \/ m.kind = "biasFile"]

Successes(r) == {m \in batches[r].received : m.kind = "ok"}

ExecType == [outcome : {"succeeded", "skipped", "failed"}, pending : Nat,
             dispatched : BOOLEAN, finished : BOOLEAN, started : BOOLEAN]
FreshExec == [outcome |-> "succeeded", pending |-> 0, dispatched |-> FALSE,
              finished |-> FALSE, started |-> FALSE]

FailedUnlessSkipped(e) == [e EXCEPT !.outcome = IF @ = "skipped" THEN @ ELSE "failed"]
Failed(e) == [e EXCEPT !.outcome = "failed"]
Skipped(e) == [e EXCEPT !.outcome = IF @ = "succeeded" THEN "skipped" ELSE @]

\* FinishStep reports a step once, when its turn is over and no capture is outstanding.
DueAtDispatch(e) == ~e.finished /\ e.dispatched
Due(e) == ~e.finished /\ e.dispatched /\ e.pending = 0

\* A forked capture keeps its step open.
ForkUncounted(e) == e
Fork(e) == [e EXCEPT !.pending = @ + 1]

Phases == {"idle", "preflight", "step", "device", "chamber", "climate", "target", "command",
           "answer", "publish", "capture", "join", "joinWait", "collect", "abort", "decide",
           "joined", "safety", "hold", "unwind", "stop", "report"}

RunTypes ==
    /\ recipe \in Recipes /\ run \in 0..MaxRuns
    /\ pc \in Phases /\ at \in Steps
    /\ turn \in [round : Nat \ {0}, k : Nat \ {0}]
    /\ estop \in BOOLEAN /\ cancelled \in BOOLEAN
    /\ outcome \in {"none", "completed", "cancelled", "ng", "error"}
StepTypes ==
    /\ exec \in [Steps -> ExecType]
    /\ receipts \in [Steps -> Seq({"succeeded", "skipped", "failed"})]
BatchTypes ==
    /\ DOMAIN batches \subseteq Requests /\ waiters \subseteq DOMAIN batches
    /\ \A r \in DOMAIN batches : batches[r] \in BatchType
JoinTypes ==
    /\ pending \in Seq(DOMAIN batches) /\ joining \in Seq(DOMAIN batches)
    /\ cursor \in Nat \ {0} /\ late \in BOOLEAN /\ proceed \in BOOLEAN
RequestTypes ==
    /\ ack \in {"none", "ok", "ng"}
    /\ published \subseteq Requests /\ aborted \subseteq published
    /\ sent \subseteq Messages /\ stored \subseteq Messages
BiasTypes ==
    /\ bias \subseteq [camera : Cameras, condition : Conditions, request : Requests]
    /\ latest \in [Cameras -> Requests \cup {None}]
NumberTypes ==
    /\ nextNumber \in [Destinations -> Nat]
    /\ \A x \in ranges : x.at \in Destinations /\ x.first \in Nat /\ x.count \in Nat
ChamberTypes ==
    /\ condition \in Conditions /\ watched \in [Quantities -> Steps \cup {0}]
    /\ chamber \in BOOLEAN /\ chamberStarted \in BOOLEAN
    /\ skipped \subseteq Cameras /\ skipSimilar \in BOOLEAN
    /\ outside \subseteq Quantities
    /\ emergency \in BOOLEAN /\ failures \subseteq {"chamberStop", "receipt"}

TypeOK ==
    /\ RunTypes /\ StepTypes /\ BatchTypes /\ JoinTypes
    /\ RequestTypes /\ BiasTypes /\ NumberTypes /\ ChamberTypes

FirstTurn == [round |-> 1, k |-> 1]

Init ==
    /\ recipe \in Recipes
    /\ run = 0 /\ pc = "idle" /\ at = 1 /\ turn = FirstTurn
    /\ exec = [s \in Steps |-> FreshExec]
    /\ receipts = [s \in Steps |-> <<>>]
    /\ waiters = {} /\ batches = <<>> /\ pending = <<>> /\ joining = <<>>
    /\ cursor = 1 /\ late = FALSE /\ proceed = TRUE
    /\ ack = "none" /\ bias = {} /\ latest = [c \in Cameras |-> None]
    /\ condition = 0 /\ nextNumber = [d \in Destinations |-> 0]
    /\ watched = [q \in Quantities |-> 0]
    /\ skipped = {} /\ skipSimilar = FALSE
    /\ chamber = FALSE /\ chamberStarted = FALSE
    /\ estop = FALSE /\ cancelled = FALSE /\ outcome = "none"
    /\ sent = {} /\ published = {} /\ aborted = {} /\ stored = {} /\ ranges = {}
    /\ outside = {} /\ emergency = FALSE /\ failures = {}

-----------------------------------------------------------------------------
(* The run as a whole.                                                     *)

Step == recipe.steps[at]

\* The step in execution fails and the finally block is next.
Unwind(reason) ==
    /\ exec' = [exec EXCEPT ![at] = Failed(@)]
    /\ outcome' = reason
    /\ pc' = "unwind"

\* ExecuteRecipeAsync: one run at a time, and none under an emergency stop.
StartRun ==
    /\ pc = "idle" /\ run < MaxRuns
    /\ run' = run + 1
    /\ at' = 1 /\ turn' = FirstTurn
    /\ exec' = [s \in Steps |-> FreshExec]
    /\ receipts' = [s \in Steps |-> <<>>]
    /\ waiters' = {} /\ batches' = <<>> /\ pending' = <<>> /\ joining' = <<>>
    /\ cursor' = 1 /\ late' = FALSE /\ proceed' = TRUE
    /\ ack' = "none" /\ bias' = {} /\ latest' = [c \in Cameras |-> None]
    /\ condition' = 0 /\ nextNumber' = [d \in Destinations |-> 0]
    /\ watched' = [q \in Quantities |-> 0]
    /\ skipped' = {} /\ skipSimilar' = FALSE
    /\ chamberStarted' = FALSE
    /\ cancelled' = estop
    /\ published' = {} /\ aborted' = {} /\ stored' = {} /\ ranges' = {}
    /\ outside' = {} /\ emergency' = FALSE
    /\ failures' = IF chamber THEN failures \ {"receipt"} ELSE {}
    /\ IF estop THEN outcome' = "cancelled" /\ UNCHANGED pc
       ELSE outcome' = "none" /\ pc' = "preflight"
    /\ UNCHANGED <<recipe, chamber, estop, sent>>

\* Subscribing may fail; the operator may have the cameras that are offline skipped.
Preflight ==
    /\ pc = "preflight"
    /\ \/ /\ pc' = "step" /\ UNCHANGED <<skipVars, outcome>>
       \/ /\ skipSimilar' = TRUE
          /\ skipped' \in SUBSET Cameras
          /\ pc' = "step" /\ UNCHANGED outcome
       \/ /\ pc' = "idle"
          /\ outcome' = IF cancelled THEN "cancelled" ELSE "error"
          /\ UNCHANGED skipVars
    /\ UNCHANGED <<recipe, run, cancelled, at, turn, exec, receipts, captureVars, commandVars,
                   nextNumber, chamberVars, estop, sent, requestHistory, otherHistory>>

\* The cameras of a step that the operator has not had skipped.
Active == {k \in DOMAIN Step.cameras : Step.cameras[k] \notin skipped}

\* The loop head: stop at a cancellation, else report the start and enter the step.  A
\* camera step whose targets are all skipped is skipped, but for BIAS, which is NG.
BeginStep ==
    /\ pc = "step"
    /\ IF cancelled
       THEN /\ outcome' = "cancelled" /\ pc' = "unwind"
            /\ UNCHANGED <<turn, exec, failures>>
       ELSE LET started == [FreshExec EXCEPT !.started = TRUE]
                none == Step.kind \in {"bias", "control", "capture"} /\ Active = {}
                anySkipped == Active # DOMAIN Step.cameras
            IN /\ turn' = FirstTurn
               /\ \/ /\ exec' = [exec EXCEPT ![at] = Failed(started)]
                     /\ outcome' = "error" /\ pc' = "unwind"
                     /\ failures' = failures \cup {"receipt"}
                  \/ /\ none /\ Step.kind = "bias"
                     /\ exec' = [exec EXCEPT ![at] = Failed(started)]
                     /\ outcome' = "ng" /\ pc' = "unwind" /\ UNCHANGED failures
                  \/ /\ ~(none /\ Step.kind = "bias")
                     /\ exec' = [exec EXCEPT ![at] =
                                   IF none \/ anySkipped THEN Skipped(started) ELSE started]
                     /\ pc' = CASE none -> "safety"
                                [] ~none /\ Step.kind \in {"bias", "control", "capture"} -> "target"
                                [] Step.kind \in Quantities ->
                                      IF chamberStarted THEN "climate" ELSE "chamber"
                                [] Step.kind = "device" -> "device"
                                [] Step.kind = "join" -> "join"
                     /\ UNCHANGED <<outcome, failures>>
    /\ UNCHANGED <<recipe, run, cancelled, at, receipts, captureVars, commandVars, nextNumber,
                   chamberVars, skipVars, estop, sent, requestHistory, stored, ranges, outside,
                   emergency>>

\* Motor, wait, black body and fan steps: done, skipped as out of range, timed out or
\* failed, or interrupted in their wait.
Device ==
    /\ pc = "device"
    /\ \/ pc' = "safety" /\ UNCHANGED <<exec, outcome>>
       \/ pc' = "safety" /\ exec' = [exec EXCEPT ![at] = Skipped(@)] /\ UNCHANGED outcome
       \/ Unwind("error")
       \/ cancelled /\ Unwind("cancelled")
    /\ UNCHANGED <<recipe, run, cancelled, at, turn, receipts, captureVars, commandVars,
                   nextNumber, chamberVars, skipVars, estop, sent, requestHistory, otherHistory>>

\* StartChamberForRecipeAsync: the PLC writes set the run bit first, so that a later
\* write may fail with the chamber already running.
StartChamber ==
    /\ pc = "chamber"
    /\ \/ /\ chamber' = TRUE /\ chamberStarted' = TRUE
          /\ pc' = "climate" /\ UNCHANGED <<exec, outcome>>
       \/ /\ chamber' \in {chamber, TRUE}
          /\ Unwind("error") /\ UNCHANGED chamberStarted
    /\ UNCHANGED <<recipe, run, cancelled, at, turn, receipts, captureVars, commandVars,
                   nextNumber, condition, watched, skipVars, estop, sent, requestHistory,
                   otherHistory>>

\* temperatureSafety and humiditySafety are remembered apart.
WatchLastStep == watched' = [q \in Quantities |-> IF q = Step.kind THEN at ELSE 0]
Watch == watched' = [watched EXCEPT ![Step.kind] = at]

\* The target is written and perhaps awaited; from then on its limits are watched.
SetClimate ==
    /\ pc = "climate"
    /\ \/ /\ pc' = "safety"
          /\ Watch
          /\ condition' = IF Step.kind = "temperature" THEN Step.target ELSE condition
          /\ UNCHANGED <<exec, outcome>>
       \/ /\ \/ Unwind("error")
             \/ cancelled /\ Unwind("cancelled")
          /\ condition' \in {condition, IF Step.kind = "temperature" THEN Step.target
                                        ELSE condition}
          /\ UNCHANGED watched
    /\ UNCHANGED <<recipe, run, cancelled, at, turn, receipts, captureVars, commandVars,
                   nextNumber, chamber, chamberStarted, skipVars, estop, sent, requestHistory,
                   otherHistory>>

-----------------------------------------------------------------------------
(* BIAS and plain camera commands.                                         *)

\* A step serves its cameras in order, and a capture does so in every round.
Camera == Step.cameras[turn.k]
NextTurn == IF turn.k < Len(Step.cameras) THEN [turn EXCEPT !.k = @ + 1]
            ELSE [round |-> turn.round + 1, k |-> 1]

RequestOfAnyRun(op) == [op |-> op, run |-> 1, step |-> at, round |-> turn.round, camera |-> Camera]
Request(op) == [op |-> op, run |-> run, step |-> at, round |-> turn.round, camera |-> Camera]
CommandRequest == Request(IF Step.kind = "control" THEN "control" ELSE "bias")

\* A production capture relies on a BIAS of its condition acknowledged in this run.
HasBias(c) == \E e \in bias : e.camera = c /\ e.condition = condition

\* A capture checks the cancellation once per round.
StopsAtRound == Step.kind = "capture" /\ cancelled /\ turn.k = 1

\* The next round and camera of the step, or its end; cameras that are skipped are passed
\* over.
NextTarget ==
    /\ pc = "target"
    /\ \/ /\ turn.round > Step.rounds
          /\ pc' = "safety" /\ UNCHANGED <<turn, exec, outcome>>
       \/ /\ turn.round <= Step.rounds /\ StopsAtRound
          /\ Unwind("cancelled") /\ UNCHANGED turn
       \/ /\ turn.round <= Step.rounds /\ ~StopsAtRound /\ Camera \in skipped
          /\ turn' = NextTurn
          /\ exec' = [exec EXCEPT ![at] = Skipped(@)]
          /\ UNCHANGED <<pc, outcome>>
       \/ /\ turn.round <= Step.rounds /\ ~StopsAtRound /\ Camera \notin skipped
          /\ pc' = IF Step.kind = "capture" /\ (Step.production => HasBias(Camera))
                   THEN "publish" ELSE "command"
          /\ UNCHANGED <<turn, exec, outcome>>
       \/ /\ turn.round <= Step.rounds /\ ~StopsAtRound /\ Camera \notin skipped
          /\ Step.kind = "capture" /\ Step.production
          /\ Unwind("ng") /\ UNCHANGED turn
    /\ UNCHANGED <<recipe, run, cancelled, at, receipts, captureVars, commandVars, nextNumber,
                   chamberVars, skipVars, estop, sent, requestHistory, otherHistory>>

\* The command is published.  An unconfirmed publication of a BIAS is aborted.
SendCommand ==
    /\ pc = "command"
    /\ \/ /\ published' = published \cup {CommandRequest}
          /\ ack' = "none" /\ pc' = "answer"
          /\ UNCHANGED <<exec, outcome, aborted>>
       \/ /\ published' = published \cup {CommandRequest}
          /\ aborted' = IF Step.kind = "control" THEN aborted
                        ELSE aborted \cup {CommandRequest}
          /\ Unwind(IF cancelled THEN "cancelled" ELSE "ng") /\ UNCHANGED ack
       \/ /\ Unwind(IF cancelled THEN "cancelled" ELSE "ng")
          /\ UNCHANGED <<published, aborted, ack>>
    /\ UNCHANGED <<recipe, run, cancelled, at, turn, receipts, captureVars, bias, nextNumber,
                   chamberVars, skipVars, estop, sent, latest, otherHistory>>

RecordAnotherBias(c, r) ==
    bias' = {e \in bias : e.camera # c \/ e.condition # condition} \cup
              {[camera |-> c, condition |-> condition, request |-> r]}
RecordBias(c, r) ==
    bias' = {e \in bias : e.camera # c} \cup
              {[camera |-> c, condition |-> condition, request |-> r]}

\* A BIAS acknowledged with its evidence replaces the camera's earlier ones.
CommandAnswered ==
    /\ pc = "answer" /\ ack # "none" /\ ~cancelled
    /\ \/ /\ ack = "ok"
          /\ IF Step.kind = "control" THEN UNCHANGED <<bias, latest>>
             ELSE /\ RecordBias(Camera, CommandRequest)
                  /\ latest' = [latest EXCEPT ![Camera] = CommandRequest]
          /\ IF Step.kind = "capture" THEN pc' = "publish" /\ UNCHANGED turn
             ELSE pc' = "target" /\ turn' = NextTurn
          /\ UNCHANGED <<exec, outcome>>
       \/ ack = "ng" /\ Unwind("ng") /\ UNCHANGED <<bias, latest, turn>>
    /\ UNCHANGED <<recipe, run, cancelled, at, receipts, captureVars, ack, nextNumber,
                   chamberVars, skipVars, estop, sent, published, aborted, otherHistory>>

\* No answer in time, or cancelled: a BIAS that may still run is aborted.
CommandUnanswered ==
    /\ pc = "answer" /\ (ack = "none" \/ cancelled)
    /\ aborted' = IF Step.kind = "control" THEN aborted ELSE aborted \cup {CommandRequest}
    /\ Unwind(IF cancelled THEN "cancelled" ELSE "ng")
    /\ UNCHANGED <<recipe, run, cancelled, at, turn, receipts, captureVars, commandVars,
                   nextNumber, chamberVars, skipVars, estop, sent, published, latest,
                   otherHistory>>

-----------------------------------------------------------------------------
(* Captures.                                                               *)

\* The first file number of a production capture: the planned offset, but not below what
\* its destination has used in this run.
PlannedNumber(r, d) == Step.offset + (r.round - 1) * Step.shots
FirstNumber(r, d) ==
    IF PlannedNumber(r, d) >= nextNumber[d] THEN PlannedNumber(r, d) ELSE nextNumber[d]

NumberShots(r) ==
    LET d == <<r.camera, condition>>
        first == FirstNumber(r, d)
    IN IF Step.production
       THEN /\ nextNumber' = [nextNumber EXCEPT ![d] = first + Step.shots]
            /\ ranges' = ranges \cup {[by |-> r, at |-> d, first |-> first, count |-> Step.shots]}
       ELSE UNCHANGED <<nextNumber, ranges>>

\* A confirmed publication: from now on the results of the request are collected.
Register(r) ==
    /\ published' = published \cup {r}
    /\ waiters' = waiters \cup {r}
    /\ batches' = [q \in DOMAIN batches \cup {r} |-> IF q = r THEN EmptyBatch ELSE batches[q]]

\* The capture command is published; a plain capture without wait is forked.  If the
\* publication is not confirmed a required or cancelled capture is aborted, any other
\* only counts as failed.
PublishCapture ==
    /\ pc = "publish"
    /\ LET r == Request("capture")
           forked == ~Step.wait /\ ~Step.production
       IN /\ NumberShots(r)
          /\ \/ /\ forked
                /\ Register(r)
                /\ pending' = Append(pending, r)
                /\ exec' = [exec EXCEPT ![at] = Fork(@)]
                /\ pc' = "target" /\ turn' = NextTurn
                /\ UNCHANGED <<aborted, outcome>>
             \/ /\ ~forked
                /\ Register(r)
                /\ pc' = "capture"
                /\ UNCHANGED <<pending, exec, turn, aborted, outcome>>
             \/ /\ Step.production \/ cancelled
                /\ published' = published \cup {r} /\ aborted' = aborted \cup {r}
                /\ Unwind(IF cancelled THEN "cancelled" ELSE "ng")
                /\ UNCHANGED <<waiters, batches, pending, turn>>
             \/ /\ ~Step.production
                /\ exec' = [exec EXCEPT ![at] = Failed(@)]
                /\ pc' = "target" /\ turn' = NextTurn
                /\ UNCHANGED <<published, waiters, batches, pending, aborted, outcome>>
    /\ UNCHANGED <<recipe, run, cancelled, at, receipts, joinVars, commandVars, chamberVars,
                   skipVars, estop, sent, latest, stored, outside, emergency, failures>>

\* CollectCaptureAsync: when the results of a request are NG ...
CollectNg(r) ==
    \/ batches[r].identity
    \/ \E m \in batches[r].received : m.kind = "biasFile"
    \/ /\ recipe.steps[r.step].production
       /\ batches[r].count < Expected(r) \/ \E m \in batches[r].received : m.kind # "ok"

\* ... what is aborted for them then, and what they make of the step otherwise.
AbortForeign(r) == aborted' = IF batches[r].identity THEN aborted \cup {r} ELSE aborted
CollectedAny(e, r) == IF Successes(r) = {} THEN Failed(e) ELSE e
Collected(e, r) ==
    IF Successes(r) # batches[r].received \/ Cardinality(Successes(r)) < Expected(r)
    THEN Failed(e) ELSE e

\* Storing the results one by one may fail at any of them.
StorePart(r) ==
    /\ Successes(r) # {}
    /\ \E k \in Successes(r) : \E part \in SUBSET (Successes(r) \ {k}) : stored' = stored \cup part

\* A camera that gave nothing is skipped from now on, if the operator said so.
NoteFailure(r) ==
    skipped' = IF skipSimilar /\ Successes(r) = {} THEN skipped \cup {r.camera} ELSE skipped

\* A waited capture is complete, or a plain one timed out: its results are stored,
\* which may fail.
CollectWaited ==
    /\ pc = "capture" /\ ~cancelled
    /\ LET r == Request("capture")
       IN /\ batches[r].done \/ ~Step.production
          /\ waiters' = waiters \ {r}
          /\ \/ /\ CollectNg(r)
                /\ AbortForeign(r) /\ Unwind("ng")
                /\ UNCHANGED <<stored, skipped, turn>>
             \/ /\ ~CollectNg(r)
                /\ stored' = stored \cup Successes(r)
                /\ exec' = [exec EXCEPT ![at] = Collected(@, r)]
                /\ NoteFailure(r)
                /\ pc' = "target" /\ turn' = NextTurn
                /\ UNCHANGED <<aborted, outcome>>
             \/ /\ ~CollectNg(r) /\ StorePart(r)
                /\ Unwind("error")
                /\ UNCHANGED <<skipped, turn, aborted>>
    /\ UNCHANGED <<recipe, run, cancelled, at, receipts, batches, pending, joinVars,
                   commandVars, nextNumber, chamberVars, skipSimilar, estop, sent, published,
                   latest, ranges, outside, emergency, failures>>

\* PublishOperationAbortAsync: the agent is told, as best it can be.
AbortWaitedRequest(r) == aborted' = aborted \cup {r}

\* The wait is cancelled, or a required capture times out.
AbortWaited ==
    /\ pc = "capture" /\ (cancelled \/ Step.production)
    /\ AbortWaitedRequest(Request("capture"))
    /\ waiters' = waiters \ {Request("capture")}
    /\ Unwind(IF cancelled THEN "cancelled" ELSE "ng")
    /\ UNCHANGED <<recipe, run, cancelled, at, turn, receipts, batches, pending, joinVars,
                   commandVars, nextNumber, chamberVars, skipVars, estop, sent, published,
                   latest, otherHistory>>

-----------------------------------------------------------------------------
(* JoinCapturesAsync.                                                      *)

\* The forked captures move from the pending list to the join.
BeginJoin ==
    /\ pc = "join"
    /\ IF pending = <<>> THEN pc' = "safety" /\ UNCHANGED <<pending, joining>>
       ELSE joining' = pending /\ pending' = <<>> /\ pc' = "joinWait"
    /\ cursor' = 1 /\ proceed' = TRUE
    /\ UNCHANGED <<runVars, at, turn, exec, receipts, waiters, batches, late, commandVars,
                   nextNumber, chamberVars, skipVars, estop, sent, requestHistory, otherHistory>>

\* All batches are complete, or the timeout or a cancellation ends the wait.
EndJoinWait ==
    /\ pc = "joinWait"
    /\ late' = \E k \in DOMAIN joining : ~batches[joining[k]].done
    /\ pc' = "collect"
    /\ UNCHANGED <<runVars, at, turn, exec, receipts, waiters, batches, pending, joining,
                   cursor, proceed, commandVars, nextNumber, chamberVars, skipVars, estop, sent,
                   requestHistory, otherHistory>>

\* The next item, and then the abort of what is incomplete if the wait was cut short.
Advance ==
    IF cursor < Len(joining) THEN cursor' = cursor + 1 /\ UNCHANGED pc
    ELSE cursor' = 1 /\ pc' = IF late THEN "abort" ELSE "safety"

\* One item's results are collected; its step is finished with its last item.
CollectJoined ==
    /\ pc = "collect"
    /\ LET r == joining[cursor]
           s == r.step
           before == IF cancelled THEN Failed(exec[s]) ELSE exec[s]
           after == [Collected(before, r) EXCEPT !.pending = @ - 1]
           give(reason) == /\ exec' = [u \in Steps |-> IF u \in {s, at} THEN Failed(exec[u])
                                                                        ELSE exec[u]]
                           /\ outcome' = reason /\ pc' = "unwind"
       IN \/ /\ CollectNg(r)
             /\ AbortForeign(r) /\ give("ng")
             /\ UNCHANGED <<stored, skipped, waiters, cursor, receipts, failures>>
          \/ /\ ~CollectNg(r) /\ StorePart(r)
             /\ give("error")
             /\ UNCHANGED <<skipped, waiters, cursor, receipts, failures, aborted>>
          \/ /\ ~CollectNg(r)
             /\ stored' = stored \cup Successes(r)
             /\ NoteFailure(r)
             /\ waiters' = waiters \ {r}
             /\ \/ /\ ~Due(after)
                   /\ exec' = [exec EXCEPT ![s] = after]
                   /\ Advance /\ UNCHANGED <<outcome, receipts, failures>>
                \/ /\ Due(after)
                   /\ exec' = [exec EXCEPT ![s] = [after EXCEPT !.finished = TRUE]]
                   /\ receipts' = [receipts EXCEPT ![s] = Append(@, after.outcome)]
                   /\ Advance /\ UNCHANGED <<outcome, failures>>
                \/ /\ Due(after)
                   /\ exec' = [u \in Steps |-> IF u = s THEN [after EXCEPT !.finished = TRUE]
                                               ELSE IF u = at THEN Failed(exec[u])
                                               ELSE exec[u]]
                   /\ failures' = failures \cup {"receipt"}
                   /\ outcome' = "error" /\ pc' = "unwind"
                   /\ UNCHANGED <<cursor, receipts>>
             /\ UNCHANGED aborted
    /\ UNCHANGED <<recipe, run, cancelled, at, turn, batches, pending, joining, late, proceed,
                   commandVars, nextNumber, chamberVars, skipSimilar, estop, sent, published,
                   latest, ranges, outside, emergency>>

\* The next item of the join that may have to be aborted.
NextAbort ==
    IF cursor < Len(joining) THEN cursor' = cursor + 1 /\ pc' = "abort"
    ELSE cursor' = cursor /\ pc' = "joined"

\* Incomplete items are aborted one after the other and the answer awaited.
AbortJoined ==
    /\ pc = "abort"
    /\ LET r == joining[cursor]
           incomplete == batches[r].count < Expected(r)
       IN \/ /\ ~incomplete
             /\ NextAbort /\ UNCHANGED <<aborted, exec, outcome>>
          \/ /\ incomplete /\ ~cancelled
             /\ aborted' = aborted \cup {r}
             /\ NextAbort /\ UNCHANGED <<exec, outcome>>
          \/ /\ incomplete /\ ~cancelled
             /\ aborted' \in {aborted, aborted \cup {r}}
             /\ pc' = "decide" /\ UNCHANGED <<cursor, exec, outcome>>
          \/ /\ incomplete
             /\ Unwind(IF cancelled THEN "cancelled" ELSE "ng")
             /\ aborted' \in IF cancelled THEN {aborted, aborted \cup {r}} ELSE {aborted}
             /\ UNCHANGED cursor
    /\ UNCHANGED <<recipe, run, cancelled, at, turn, receipts, waiters, batches, pending,
                   joining, late, proceed, commandVars, nextNumber, chamberVars, skipVars,
                   estop, sent, published, latest, otherHistory>>

\* Without an answer the operator goes on, stops the run or has it tried again.  The
\* dialog stays open whatever happens to the run.
DecideAbort ==
    /\ pc = "decide"
    /\ \/ NextAbort /\ proceed' \in {proceed, FALSE}
       \/ pc' = "abort" /\ UNCHANGED <<cursor, proceed>>
    /\ UNCHANGED <<runVars, at, turn, exec, receipts, waiters, batches, pending, joining, late,
                   commandVars, nextNumber, chamberVars, skipVars, estop, sent, requestHistory,
                   otherHistory>>

EndJoin ==
    /\ pc = "joined"
    /\ IF proceed THEN pc' = "safety" /\ UNCHANGED <<exec, outcome>>
       ELSE Unwind("cancelled")
    /\ UNCHANGED <<recipe, run, cancelled, at, turn, receipts, captureVars, commandVars,
                   nextNumber, chamberVars, skipVars, estop, sent, requestHistory, otherHistory>>

-----------------------------------------------------------------------------
(* The end of a step and of the run.                                       *)

\* The quantities whose last setting step asks for its limits to be kept.
Limited == {q \in Quantities : watched[q] # 0 /\ recipe.steps[watched[q]].limits}

\* FinishStep at the end of a step's turn, and on to the next step.  Storing the
\* receipt may fail.
CloseStep ==
    LET e == [(IF cancelled THEN Failed(exec[at]) ELSE exec[at]) EXCEPT !.dispatched = TRUE]
        onward == IF at < Len(recipe.steps)
                  THEN at' = at + 1 /\ pc' = "step" /\ UNCHANGED outcome
                  ELSE outcome' = "completed" /\ pc' = "unwind" /\ UNCHANGED at
    IN \/ /\ ~Due(e)
          /\ exec' = [exec EXCEPT ![at] = e]
          /\ onward /\ UNCHANGED <<receipts, failures>>
       \/ /\ Due(e)
          /\ exec' = [exec EXCEPT ![at] = [e EXCEPT !.finished = TRUE]]
          /\ receipts' = [receipts EXCEPT ![at] = Append(@, e.outcome)]
          /\ onward /\ UNCHANGED failures
       \/ /\ Due(e)
          /\ exec' = [exec EXCEPT ![at] = [Failed(e) EXCEPT !.finished = TRUE]]
          /\ failures' = failures \cup {"receipt"}
          /\ outcome' = "error" /\ pc' = "unwind"
          /\ UNCHANGED <<at, receipts>>

\* Without limits, or cancelled, nothing is read.
SafetyNotRead == Limited = {} \/ cancelled

\* EnforceSafetyBandAsync: no step follows before the climate is read within its limits;
\* out of them the run is held until the operator resumes, and read again.
CheckSafety ==
    /\ pc = "safety"
    /\ \/ /\ SafetyNotRead
          /\ CloseStep /\ UNCHANGED outside
       \/ /\ ~SafetyNotRead
          /\ \E out \in SUBSET Quantities :
                /\ outside' = out
                /\ IF out \cap Limited = {} THEN CloseStep
                   ELSE pc' = "hold" /\ UNCHANGED <<at, exec, receipts, outcome, failures>>
       \/ /\ ~SafetyNotRead
          /\ Unwind("error") /\ UNCHANGED <<at, receipts, failures, outside>>
    /\ UNCHANGED <<recipe, run, cancelled, turn, captureVars, commandVars, nextNumber,
                   chamberVars, skipVars, estop, sent, requestHistory, stored, ranges, emergency>>

\* The operator resumes, and the climate is read again.
Resume ==
    /\ pc = "hold" /\ ~cancelled
    /\ pc' = "safety"
    /\ UNCHANGED <<runVars, at, turn, exec, receipts, captureVars, commandVars, nextNumber,
                   chamberVars, skipVars, estop, sent, requestHistory, otherHistory>>

\* The cancellation ends the hold.
HoldIgnoresCancel == pc = "hold" /\ cancelled /\ UNCHANGED vars
CancelHold ==
    /\ pc = "hold" /\ cancelled
    /\ Unwind("cancelled")
    /\ UNCHANGED <<recipe, run, cancelled, at, turn, receipts, captureVars, commandVars,
                   nextNumber, chamberVars, skipVars, estop, sent, requestHistory, otherHistory>>

\* The forked captures no join has taken over and whose results are incomplete.
NoneUnfinished == {}
Unfinished == {pending[k] : k \in {j \in DOMAIN pending :
                                    batches[pending[j]].count < Expected(pending[j])}}

\* The finally block: abort the forked captures that are incomplete, close the steps
\* that are not finished ...
AbortUnfinished ==
    /\ pc = "unwind"
    /\ aborted' = aborted \cup Unfinished
    /\ exec' = [s \in Steps |->
                  IF exec[s].started /\ ~exec[s].finished
                  THEN [Failed(exec[s]) EXCEPT !.pending = 0, !.dispatched = TRUE] ELSE exec[s]]
    /\ pc' = "stop"
    /\ UNCHANGED <<runVars, at, turn, receipts, captureVars, commandVars, nextNumber,
                   chamberVars, skipVars, estop, sent, published, latest, otherHistory>>

StopsIfCompleted == chamberStarted /\ outcome = "completed"
StopsChamber == chamberStarted /\ ~(recipe.keepChamberRunning /\ ~estop)

\* ... stop the chamber, unless it is to be kept running and there is no emergency;
\* two failures raise the alarm ...
StopChamber ==
    /\ pc = "stop"
    /\ IF StopsChamber
       THEN \/ chamber' = FALSE /\ UNCHANGED failures
            \/ failures' = failures \cup {"chamberStop"} /\ UNCHANGED chamber
       ELSE UNCHANGED <<chamber, failures>>
    /\ pc' = "report"
    /\ UNCHANGED <<runVars, at, turn, exec, receipts, captureVars, commandVars, nextNumber,
                   chamberStarted, condition, watched, skipVars, estop, sent, requestHistory,
                   stored, ranges, outside, emergency>>

\* ... and report the remaining receipts, in order, until one cannot be stored.
ReportUnfinished ==
    /\ pc = "report"
    /\ \/ /\ \A s \in Steps : ~Due(exec[s])
          /\ pc' = "idle" /\ waiters' = {}
          /\ UNCHANGED <<exec, receipts, failures, outcome>>
       \/ \E s \in Steps :
          /\ Due(exec[s]) /\ \A u \in Steps : u < s => ~Due(exec[u])
          /\ exec' = [exec EXCEPT ![s].finished = TRUE]
          /\ \/ /\ receipts' = [receipts EXCEPT ![s] = Append(@, exec[s].outcome)]
                /\ UNCHANGED <<pc, waiters, failures, outcome>>
             \/ /\ failures' = failures \cup {"receipt"}
                /\ outcome' = "error" /\ pc' = "idle" /\ waiters' = {}
                /\ UNCHANGED receipts
    /\ UNCHANGED <<recipe, run, cancelled, at, turn, batches, pending, joinVars, commandVars,
                   nextNumber, chamberVars, skipVars, estop, sent, requestHistory, stored,
                   ranges, outside, emergency>>

-----------------------------------------------------------------------------
(* Agents, operators and the emergency stop.                               *)

engineVars == <<flowVars, exec, receipts, pending, joinVars, bias, nextNumber, chamberVars,
                skipVars, requestHistory, stored, ranges, outside, failures>>

\* An agent sends the result of a shot, one per capture id.
AgentSends ==
    /\ \E r \in published : \E id \in 1..Expected(r) : \E kind \in ResultKinds :
          /\ r.op = "capture"
          /\ kind = "biasFile" => recipe.steps[r.step].production
          /\ ~\E m \in sent : m.key = r /\ m.origin = run /\ m.id = id
          /\ sent' = sent \cup {[key |-> r, id |-> id, kind |-> kind, origin |-> run]}
    /\ UNCHANGED <<engineVars, runVars, waiters, batches, ack, estop, emergency>>

\* A result is delivered, perhaps late and perhaps again; its batch takes it only while
\* the request is waited for.
DeliverResult ==
    /\ \E m \in sent :
          /\ m.key \in waiters
          /\ batches' = [batches EXCEPT ![m.key] = Add(@, m, Expected(m.key))]
    /\ UNCHANGED <<engineVars, runVars, waiters, ack, estop, sent, emergency>>

\* The agent acknowledges the control command that is awaited.
DeliverAck ==
    /\ pc = "answer" /\ ack = "none"
    /\ ack' \in {"ok", "ng"}
    /\ UNCHANGED <<engineVars, runVars, waiters, batches, estop, sent, emergency>>

Running == pc # "idle"

\* The operator or the shutdown cancels the run.
Cancel ==
    /\ Running /\ ~cancelled
    /\ cancelled' = TRUE
    /\ UNCHANGED <<engineVars, recipe, run, outcome, waiters, batches, ack, estop, sent,
                   emergency>>

\* An emergency stop, by button or by a PLC error, also cancels the run; it counts for
\* the chamber as long as the run has not decided about it.
RequestEmergencyStop ==
    /\ ~estop
    /\ estop' = TRUE
    /\ cancelled' = (cancelled \/ Running)
    /\ emergency' = (emergency \/ (Running /\ pc # "report"))
    /\ UNCHANGED <<engineVars, recipe, run, outcome, waiters, batches, ack, sent>>

\* The Dashboard resets it once the PLC has no error and the servo is at its origin.
ResetEmergencyStop ==
    /\ estop
    /\ estop' = FALSE
    /\ UNCHANGED <<engineVars, runVars, waiters, batches, ack, sent, emergency>>

-----------------------------------------------------------------------------
CameraStep ==
    \/ NextTarget \/ SendCommand \/ CommandAnswered \/ CommandUnanswered
    \/ PublishCapture \/ CollectWaited \/ AbortWaited
    \/ BeginJoin \/ EndJoinWait \/ CollectJoined \/ AbortJoined \/ EndJoin

Engine ==
    \/ Preflight \/ BeginStep \/ Device \/ StartChamber \/ SetClimate \/ CameraStep
    \/ CheckSafety \/ CancelHold \/ AbortUnfinished \/ StopChamber \/ ReportUnfinished

Environment ==
    \/ AgentSends \/ DeliverResult \/ DeliverAck
    \/ Cancel \/ RequestEmergencyStop \/ ResetEmergencyStop

Operator == Resume \/ DecideAbort

Next == StartRun \/ Engine \/ Operator \/ Environment

Spec == Init /\ [][Next]_vars

\* Every wait of the engine is timed or ends with the cancellation, but for the abort
\* dialog, which only the operator ends.  Nobody has to resume a hold.
Fairness == WF_vars(Engine) /\ WF_vars(DecideAbort)
FairSpec == Spec /\ Fairness

-----------------------------------------------------------------------------
(* Properties.                                                             *)

\* No step is reported twice, none before its forked captures were collected or the run
\* gave them up, and every step that started is reported by the end of the run unless
\* storing a receipt failed (FinishStep is called from the loop, from joins and from the
\* finally block).
ReceiptsExactlyOnce ==
    \A s \in Steps :
        /\ Len(receipts[s]) <= 1
        /\ receipts[s] # <<>> /\ pc \notin {"report", "idle"} =>
              \A k \in DOMAIN pending : pending[k].step # s
        /\ pc = "idle" /\ exec[s].started /\ "receipt" \notin failures => Len(receipts[s]) = 1

\* A capture step is reported as succeeded only if every result expected of it, of each
\* round and camera, was stored, whatever was lost, repeated, forked, skipped or cancelled.
SucceededMeansStored ==
    \A s \in Steps :
        recipe.steps[s].kind = "capture" /\ receipts[s] = <<"succeeded">> =>
            \A k \in DOMAIN recipe.steps[s].cameras, n \in 1..recipe.steps[s].rounds :
                LET r == [op |-> "capture", run |-> run, step |-> s, round |-> n,
                          camera |-> recipe.steps[s].cameras[k]]
                IN Cardinality({m \in stored : m.key = r /\ m.kind = "ok"}) = Expected(r)

\* What a run stores was captured for this run, although results of earlier runs arrive
\* late and steps keep their ids from run to run (RecipeCaptureRequestKey).
StoresOwnResults == \A m \in stored : m.origin = run

\* A BIAS that a later capture may name is the last one its camera acknowledged: the
\* agent keeps only one verified BIAS per camera, so an older one would be refused.
BiasIsLatest == \A e \in bias : e.request = latest[e.camera]

\* Files of one destination are never numbered twice within a run, whatever offsets the
\* plan has and however steps and rounds repeat.
FileNumbersDisjoint ==
    \A x, y \in ranges :
        x.at = y.at /\ x # y => x.first + x.count <= y.first \/ y.first + y.count <= x.first

\* When a run is over no required capture and no forked capture that was never joined is
\* left to its agent: its batch is complete or it was aborted.
UnjoinedAborted ==
    pc = "idle" /\ outcome # "none" =>
        \A r \in published :
            \/ r.op # "capture" \/ r \in aborted \/ batches[r].done
            \/ ~recipe.steps[r.step].production /\ ~\E k \in DOMAIN pending : pending[k] = r

\* No step is entered unless the last reading was inside the limits of every quantity
\* whose latest step set limits; neither kind of step ends the watch of the other.
SafetyBeforeStep ==
    pc = "step" /\ ~cancelled =>
        \A s \in 1..(at - 1) :
            /\ recipe.steps[s].kind \in Quantities /\ recipe.steps[s].limits
            /\ \A u \in (s + 1)..(at - 1) : recipe.steps[u].kind # recipe.steps[s].kind
            => recipe.steps[s].kind \notin outside

\* A chamber that the engine knows to have started is off when the run is over, by
\* whatever path, or the alarm that it could not be stopped was raised.
StartedChamberStopped ==
    pc = "idle" /\ chamberStarted /\ ~recipe.keepChamberRunning =>
        ~chamber \/ "chamberStop" \in failures

\* A cancelled run comes to its end: no wait, hold, retry or join outlasts it, once an
\* open abort dialog is answered.
CancelledRunEnds == cancelled /\ Running ~> ~Running

\* As the finally block says, an emergency stop stops even a chamber to be kept running.
EmergencyStopsChamber ==
    pc = "idle" /\ emergency /\ chamber /\ chamberStarted => "chamberStop" \in failures

\* As the finally block says, a run that is cancelled leaves no forked capture to its
\* agent.
ForkedAborted ==
    pc = "idle" /\ outcome = "cancelled" =>
        \A r \in published :
            r.op = "capture" /\ ~recipe.steps[r.step].wait /\ ~recipe.steps[r.step].production =>
                r \in aborted \/ batches[r].done
-----------------------------------------------------------------------------
(* What the engine reports implements the promise of StepReports.          *)

\* The loop is left when the finally block closes the open steps, or at once by a
\* receipt that could not be stored.
ReportMode ==
    CASE pc = "idle" -> "closing"
      [] pc \in {"stop", "report"} \/ (pc = "unwind" /\ "receipt" \in failures) -> "unwinding"
      [] OTHER -> "running"

NotStarted == IF ReportMode = "running" THEN {s \in Steps : ~exec[s].started} ELSE {}
NotReported == IF pc = "idle" THEN {} ELSE {s \in Steps : exec[s].started /\ ~exec[s].finished}
ForkedSteps == {s \in Steps : /\ recipe.steps[s].kind = "capture"
                              /\ ~recipe.steps[s].wait /\ ~recipe.steps[s].production}

Reported(e) ==
    CASE ~e.started -> "none"
      [] e.started /\ ~e.finished -> "Started"
      [] OTHER -> [succeeded |-> "Succeeded", skipped |-> "Skipped", failed |-> "Failed"][e.outcome]
LastReports == [s \in Steps |-> Reported(exec[s])]

Ending ==
    CASE ReportMode = "running" \/ outcome \in {"none", "completed"} -> "ok"
      [] ReportMode # "running" /\ outcome = "cancelled" -> "cancelled"
      [] OTHER -> "error"

Earlier(s, u) == s < u
Reports == INSTANCE StepReports WITH
              Precedes <- Earlier, mode <- ReportMode, todo <- NotStarted, open <- NotReported,
              forked <- ForkedSteps, reports <- LastReports, ending <- Ending

\* Whatever happens to a run, each of its steps is reported as started before all later
\* ones, is reported once more, at most, and as failed if the run left it open.
ReportsSpec == Reports!Spec
=============================================================================
