-------------------------- MODULE RecipeEngineProofs --------------------------
(***************************************************************************)
(* Proofs about RecipeEngine, for all recipes, cameras, agents and numbers *)
(* of runs: its types, receipts, results, BIAS requests, file numbers,     *)
(* safety limits and clean-up.                                             *)
(***************************************************************************)
EXTENDS RecipeEngine, SequenceTheorems, FiniteSetTheorems, TLAPS

(* The inductive invariant, in parts. *)

Serving == {"target", "command", "answer", "publish", "capture"}
Joining == {"join", "joinWait", "collect", "abort", "decide", "joined"}
\* The phases in which a step is executed, up to its safety check, and that check.
InStep == {"device", "chamber", "climate"} \cup Serving \cup Joining
Checking == {"safety", "hold"}
Over == {"stop", "report", "idle"}

\* What each phase says of the run, of the step in execution and of the loops over its
\* cameras and over the items of a join.
PhaseInv ==
  /\ pc # "idle" => run # 0
  /\ pc = "preflight" => at = 1 /\ pending = <<>> /\ ~chamberStarted
  /\ pc = "device" => Step.kind = "device"
  /\ pc \in {"chamber", "climate"} => Step.kind \in Quantities
  /\ pc \in Serving => Step.kind \in {"bias", "control", "capture"} /\ turn.k \in DOMAIN Step.cameras
  /\ pc \in {"publish", "capture"} => Step.kind = "capture"
  /\ pc \in Joining => Step.kind = "join"
  /\ pc \in {"joinWait", "collect", "abort", "decide"} => cursor \in DOMAIN joining

\* How far each step is: not begun, in execution, dispatched, finished and reported.
NotBegun(s) == s > at \/ (s = at /\ pc \in {"preflight", "step"})
StepsInv ==
  /\ \A s \in Steps : NotBegun(s) => exec[s] = FreshExec /\ receipts[s] = <<>>
  /\ pc \in InStep \cup Checking => exec[at].started /\ ~exec[at].finished /\ ~exec[at].dispatched
  /\ \A s \in Steps : exec[s].finished => exec[s].pending = 0
  /\ \A s \in Steps : ~exec[s].finished => receipts[s] = <<>>
  /\ \A s \in Steps : receipts[s] = <<>> \/ Len(receipts[s]) = 1
  /\ \A s \in Steps : exec[s].finished /\ "receipt" \notin failures => Len(receipts[s]) = 1
  /\ pc \in {"stop", "report"} =>
       \A s \in Steps : exec[s].started => \/ exec[s].finished
                                           \/ Due(exec[s]) /\ exec[s].outcome = "failed"
  /\ pc = "idle" => \A s \in Steps : exec[s].started /\ "receipt" \notin failures => exec[s].finished

\* A step counts at least the captures of it that are forked and not collected.
PendingOf(s) == {k \in DOMAIN pending : pending[k].step = s}
JoiningOf(s) == {k \in DOMAIN joining : pc \in {"joinWait", "collect"} /\ k >= cursor /\ joining[k].step = s}
CountInv ==
  pc \notin Over => \A s \in Steps : exec[s].pending >= Cardinality(PendingOf(s)) + Cardinality(JoiningOf(s))

\* A step is finished only when none of its captures is pending.
FinishedInv ==
  pc \notin {"report", "idle"} => \A s \in Steps, k \in DOMAIN pending : exec[s].finished => pending[k].step # s

\* Requests, batches and results are of the run they say they are of.
BatchInv ==
  /\ \A r \in DOMAIN batches : recipe.steps[r.step].kind = "capture"
  /\ \A r \in DOMAIN batches : /\ r.run = run /\ batches[r].received \subseteq {m \in sent : m.key = r}
                               /\ batches[r].count >= Expected(r) => batches[r].done
  /\ \A r \in published : r.run = run /\ (r.op = "capture" => r \in aborted \/ r \in DOMAIN batches)
  /\ DOMAIN batches \subseteq published
AwaitedInv ==
  /\ pc = "answer" => CommandRequest \in published
  /\ pc = "capture" => Request("capture") \in DOMAIN batches
SentInv ==
  /\ \A m \in sent : m.origin = m.key.run /\ m.id \in 1..Expected(m.key)
  /\ \A m, n \in sent : m.key = n.key /\ m.id = n.id => m = n
  /\ stored \subseteq {m \in sent : m.key.run = run}

\* A required capture that is not complete is the one in execution, or aborted, and so are
\* the forked ones once the run is being closed.
UnjoinedInv ==
  /\ \A r \in published :
       r.op = "capture" /\ recipe.steps[r.step].production =>
         r \in aborted \/ batches[r].done \/ (pc = "capture" /\ r = Request("capture"))
  /\ pc \in Over => \A k \in DOMAIN pending : pending[k] \in aborted \/ batches[pending[k]].done

\* The numbers given out are below the next one of their destination.
NumbersInv == \A x \in ranges : x.first + x.count <= nextNumber[x.at]

\* What is watched is the latest step of each quantity, of those whose climate was set.
WatchedUpTo(n) ==
  \A q \in Quantities :
    /\ watched[q] <= n /\ (watched[q] # 0 => recipe.steps[watched[q]].kind = q)
    /\ \A s \in 1..n : recipe.steps[s].kind = q => s <= watched[q]
WatchInv ==
  /\ pc \in {"preflight", "step"} \cup InStep => WatchedUpTo(at - 1)
  /\ pc \in Checking => WatchedUpTo(at)

StoppedInv ==
  pc \in {"report", "idle"} /\ chamberStarted /\ ~recipe.keepChamberRunning =>
    ~chamber \/ "chamberStop" \in failures

Parts ==
  /\ PhaseInv /\ StepsInv /\ CountInv /\ FinishedInv /\ BatchInv /\ AwaitedInv /\ SentInv /\ UnjoinedInv
  /\ NumbersInv /\ WatchInv /\ StoppedInv
  /\ BiasIsLatest /\ FileNumbersDisjoint /\ SafetyBeforeStep

IInv == TypeOK /\ Parts

-------------------------------------------------------------------------------
(* Recipes, requests and records. *)

LEMMA RecipeFacts ==
  ASSUME RunTypes
  PROVE  /\ recipe \in RecipeType
         /\ recipe.steps \in Seq(StepType) /\ Len(recipe.steps) \in Nat \ {0}
         /\ Steps = 1..Len(recipe.steps)
         /\ \A s \in Steps : recipe.steps[s] \in StepType
         /\ recipe.keepChamberRunning \in BOOLEAN
<1>1. recipe \in RecipeType
  BY RecipesAssumption DEF RunTypes
<1>2. recipe.steps \in Seq(StepType) /\ recipe.steps # <<>> /\ recipe.keepChamberRunning \in BOOLEAN
  BY <1>1 DEF RecipeType
<1>3. Len(recipe.steps) \in Nat \ {0}
  BY <1>2, EmptySeq, LenProperties
<1>4. QED
  BY <1>1, <1>2, <1>3, LenProperties, ElementOfSeq DEF Steps

LEMMA StepFacts ==
  ASSUME RunTypes, NEW s \in Steps
  PROVE  /\ recipe.steps[s].kind \in Kinds /\ recipe.steps[s].cameras \in Seq(Cameras)
         /\ recipe.steps[s].rounds \in Nat \ {0} /\ recipe.steps[s].shots \in Nat \ {0}
         /\ recipe.steps[s].wait \in BOOLEAN /\ recipe.steps[s].production \in BOOLEAN
         /\ recipe.steps[s].offset \in Nat /\ recipe.steps[s].target \in Nat
         /\ recipe.steps[s].limits \in BOOLEAN
BY RecipeFacts DEF StepType

\* The recipe is the same all the time.
LEMMA RecipeIsKept ==
  ASSUME TypeOK, [Next]_vars
  PROVE  recipe' = recipe
<1> USE DEF vars, runVars, flowVars, joinVars, captureVars, commandVars, chamberVars, skipVars,
           requestHistory, otherHistory, engineVars
<1>1. CASE StartRun
  BY <1>1 DEF StartRun
<1>2. CASE Preflight
  BY <1>2 DEF Preflight
<1>3. CASE BeginStep
  BY <1>3 DEF BeginStep
<1>4. CASE Device
  BY <1>4 DEF Device, Unwind
<1>5. CASE StartChamber
  BY <1>5 DEF StartChamber, Unwind
<1>6. CASE SetClimate
  BY <1>6 DEF SetClimate, Watch, Unwind
<1>7. CASE NextTarget
  BY <1>7 DEF NextTarget, Unwind
<1>8. CASE SendCommand
  BY <1>8 DEF SendCommand, Unwind
<1>9. CASE CommandAnswered
  BY <1>9 DEF CommandAnswered, RecordBias, Unwind
<1>10. CASE CommandUnanswered
  BY <1>10 DEF CommandUnanswered, Unwind
<1>11. CASE PublishCapture
  BY <1>11 DEF PublishCapture, NumberShots, Register, Unwind
<1>12. CASE CollectWaited
  BY <1>12 DEF CollectWaited, AbortForeign, StorePart, NoteFailure, Unwind
<1>13. CASE AbortWaited
  BY <1>13 DEF AbortWaited, AbortWaitedRequest, Unwind
<1>14. CASE BeginJoin
  BY <1>14 DEF BeginJoin
<1>15. CASE EndJoinWait
  BY <1>15 DEF EndJoinWait
<1>16. CASE CollectJoined
  BY <1>16 DEF CollectJoined, Advance, AbortForeign, StorePart, NoteFailure
<1>17. CASE AbortJoined
  BY <1>17 DEF AbortJoined, NextAbort, Unwind
<1>18. CASE EndJoin
  BY <1>18 DEF EndJoin, Unwind
<1>19. CASE CheckSafety
  BY <1>19 DEF CheckSafety, CloseStep, Unwind
<1>20. CASE CancelHold
  BY <1>20 DEF CancelHold, Unwind
<1>21. CASE AbortUnfinished
  BY <1>21 DEF AbortUnfinished
<1>22. CASE StopChamber
  BY <1>22 DEF StopChamber
<1>23. CASE ReportUnfinished
  BY <1>23 DEF ReportUnfinished
<1>24. CASE Resume
  BY <1>24 DEF Resume
<1>25. CASE DecideAbort
  BY <1>25 DEF DecideAbort, NextAbort
<1>26. CASE AgentSends
  BY <1>26 DEF AgentSends
<1>27. CASE DeliverResult
  BY <1>27 DEF DeliverResult
<1>28. CASE DeliverAck
  BY <1>28 DEF DeliverAck
<1>29. CASE Cancel
  BY <1>29 DEF Cancel
<1>30. CASE RequestEmergencyStop
  BY <1>30 DEF RequestEmergencyStop
<1>31. CASE ResetEmergencyStop
  BY <1>31 DEF ResetEmergencyStop
<1>32. CASE UNCHANGED vars
  BY <1>32
<1>33. QED
  BY <1>1, <1>2, <1>3, <1>4, <1>5, <1>6, <1>7, <1>8, <1>9, <1>10, <1>11, <1>12, <1>13, <1>14,
     <1>15, <1>16, <1>17, <1>18, <1>19, <1>20, <1>21, <1>22, <1>23, <1>24, <1>25, <1>26,
     <1>27, <1>28, <1>29, <1>30, <1>31, <1>32
     DEF Next, Engine, CameraStep, Operator, Environment

LEMMA RecipeKept ==
  ASSUME TypeOK, [Next]_vars
  PROVE  recipe' = recipe /\ Steps' = Steps /\ Conditions' = Conditions /\ Destinations' = Destinations
<1>1. recipe' = recipe
  BY RecipeIsKept
<1>2. QED
  BY <1>1 DEF Steps, Conditions, Destinations

LEMMA TypesKept ==
  ASSUME TypeOK, [Next]_vars
  PROVE  Requests' = Requests /\ Messages' = Messages /\ BatchType' = BatchType
BY RecipeKept DEF Requests, Messages, BatchType

LEMMA RequestType ==
  ASSUME RunTypes, PhaseInv, pc \in Serving, NEW op \in {"capture", "bias", "control"}
  PROVE  Camera \in Cameras /\ Request(op) \in Requests
<1>1. at \in Steps /\ turn.round \in Nat \ {0} /\ run \in 1..MaxRuns
  BY BoundsAssumption DEF RunTypes, PhaseInv, Serving
<1>2. Step.cameras \in Seq(Cameras) /\ turn.k \in DOMAIN Step.cameras
  BY <1>1, StepFacts DEF PhaseInv, Step
<1>3. Camera \in Cameras
  BY <1>2, LenProperties, ElementOfSeq DEF Camera
<1>4. QED
  BY <1>1, <1>3 DEF Request, Requests

LEMMA NextTurnType ==
  ASSUME RunTypes, NEW s \in Steps, s = at
  PROVE  NextTurn \in [round : Nat \ {0}, k : Nat \ {0}] /\ FirstTurn \in [round : Nat \ {0}, k : Nat \ {0}]
BY DEF RunTypes, NextTurn, FirstTurn

LEMMA AddType ==
  ASSUME NEW b \in BatchType, NEW m \in Messages, NEW n \in Nat
  PROVE  Add(b, m, n) \in BatchType
<1>1. CASE m.kind = "foreign"
  BY <1>1 DEF Add, BatchType
<1>2. CASE m.kind # "foreign" /\ m \in b.received
  BY <1>2 DEF Add
<1>3. CASE m.kind # "foreign" /\ m \notin b.received
  <2>1. Add(b, m, n) = [received |-> b.received \cup {m}, count |-> b.count + 1, identity |-> b.identity,
                        done |-> b.done \/ b.count + 1 >= n \/ m.kind = "biasFile"]
    BY <1>3 DEF Add, BatchType
  <2>2. (b.done \/ b.count + 1 >= n \/ m.kind = "biasFile") \in BOOLEAN
    OBVIOUS
  <2>3. b.received \cup {m} \in SUBSET Messages /\ b.count + 1 \in Nat /\ b.identity \in BOOLEAN
    BY DEF BatchType
  <2>4. QED
    BY <2>1, <2>2, <2>3 DEF BatchType
<1>4. QED
  BY <1>1, <1>2, <1>3

LEMMA ExecTypes ==
  ASSUME NEW e \in ExecType
  PROVE  /\ Failed(e) \in ExecType /\ Skipped(e) \in ExecType /\ Fork(e) \in ExecType
         /\ [e EXCEPT !.dispatched = TRUE] \in ExecType
         /\ [e EXCEPT !.finished = TRUE] \in ExecType
         /\ [e EXCEPT !.pending = 0] \in ExecType
         /\ FreshExec \in ExecType /\ [FreshExec EXCEPT !.started = TRUE] \in ExecType
<1>1. Failed(e) \in ExecType
  BY DEF ExecType, Failed
<1>2. Skipped(e) \in ExecType
  BY DEF ExecType, Skipped
<1>3. Fork(e) \in ExecType
  BY DEF ExecType, Fork
<1>4. [e EXCEPT !.dispatched = TRUE] \in ExecType /\ [e EXCEPT !.finished = TRUE] \in ExecType
  BY DEF ExecType
<1>5. [e EXCEPT !.pending = 0] \in ExecType
  BY DEF ExecType
<1>6. FreshExec \in ExecType /\ [FreshExec EXCEPT !.started = TRUE] \in ExecType
  BY DEF ExecType, FreshExec
<1>7. QED
  BY <1>1, <1>2, <1>3, <1>4, <1>5, <1>6

LEMMA PlannedType ==
  ASSUME RunTypes, NEW r, r.round \in Nat \ {0}, NEW d
  PROVE  PlannedNumber(r, d) \in Nat /\ Step.shots \in Nat
<1>1. Step.offset \in Nat /\ Step.shots \in Nat
  BY StepFacts DEF RunTypes, Step
<1>2. (r.round - 1) * Step.shots \in Nat
  BY <1>1
<1>3. QED
  BY <1>1, <1>2 DEF PlannedNumber

-------------------------------------------------------------------------------
(* Types.                                                                   *)

\* Each action keeps the types of the run and of where it stands.
LEMMA RunTypesStep ==
  ASSUME IInv, [Next]_vars
  PROVE  RunTypes'
<1> USE DEF vars, runVars, flowVars, joinVars, captureVars, commandVars, chamberVars, skipVars,
           requestHistory, otherHistory, engineVars, IInv, RunTypes
<1>1. TypeOK /\ RunTypes /\ recipe' = recipe /\ Steps' = Steps
  BY RecipeKept DEF IInv, TypeOK
<1>2. Steps = 1..Len(recipe.steps) /\ Len(recipe.steps) \in Nat \ {0} /\ Step.kind \in Kinds
  BY <1>1, RecipeFacts, StepFacts DEF Step
<1>3. NextTurn \in [round : Nat \ {0}, k : Nat \ {0}] /\ FirstTurn \in [round : Nat \ {0}, k : Nat \ {0}]
  BY <1>1, NextTurnType
<1>4. CASE StartRun
  BY <1>4, <1>1, <1>2, <1>3, BoundsAssumption DEF StartRun, Phases
<1>5. CASE Preflight
  BY <1>5, <1>1, <1>2, <1>3 DEF Preflight, Phases
<1>6. CASE BeginStep
  <2>1. pc' \in {"unwind", "safety", "target", "climate", "chamber", "device", "join"}
    BY <1>6, <1>2 DEF BeginStep, Kinds, Quantities
  <2>2. UNCHANGED <<recipe, run, at, estop, cancelled>> /\ turn' \in {turn, FirstTurn}
        /\ outcome' \in {outcome, "cancelled", "error", "ng"}
    BY <1>6 DEF BeginStep
  <2>3. QED
    BY <1>1, <1>2, <1>3, <2>1, <2>2 DEF Phases
<1>7. CASE Device
  BY <1>7, <1>1, <1>2, <1>3 DEF Device, Unwind, Phases
<1>8. CASE StartChamber
  BY <1>8, <1>1, <1>2, <1>3 DEF StartChamber, Unwind, Phases
<1>9. CASE SetClimate
  BY <1>9, <1>1, <1>2, <1>3 DEF SetClimate, Watch, Unwind, Phases
<1>10. CASE NextTarget
  BY <1>10, <1>1, <1>2, <1>3 DEF NextTarget, Unwind, Phases
<1>11. CASE SendCommand
  BY <1>11, <1>1, <1>2, <1>3 DEF SendCommand, Unwind, Phases
<1>12. CASE CommandAnswered
  BY <1>12, <1>1, <1>2, <1>3 DEF CommandAnswered, RecordBias, Unwind, Phases
<1>13. CASE CommandUnanswered
  BY <1>13, <1>1, <1>2, <1>3 DEF CommandUnanswered, Unwind, Phases
<1>14. CASE PublishCapture
  BY <1>14, <1>1, <1>2, <1>3 DEF PublishCapture, NumberShots, Register, Unwind, Phases
<1>15. CASE CollectWaited
  BY <1>15, <1>1, <1>2, <1>3
     DEF CollectWaited, AbortForeign, StorePart, NoteFailure, Unwind, Phases
<1>16. CASE AbortWaited
  BY <1>16, <1>1, <1>2, <1>3 DEF AbortWaited, AbortWaitedRequest, Unwind, Phases
<1>17. CASE BeginJoin
  BY <1>17, <1>1, <1>2, <1>3 DEF BeginJoin, Phases
<1>18. CASE EndJoinWait
  BY <1>18, <1>1, <1>2, <1>3 DEF EndJoinWait, Phases
<1>19. CASE CollectJoined
  BY <1>19, <1>1, <1>2, <1>3
     DEF CollectJoined, Advance, AbortForeign, StorePart, NoteFailure, Phases
<1>20. CASE AbortJoined
  BY <1>20, <1>1, <1>2, <1>3 DEF AbortJoined, NextAbort, Unwind, Phases
<1>21. CASE EndJoin
  BY <1>21, <1>1, <1>2, <1>3 DEF EndJoin, Unwind, Phases
<1>22. CASE CheckSafety
  BY <1>22, <1>1, <1>2, <1>3 DEF CheckSafety, CloseStep, Unwind, Phases
<1>23. CASE CancelHold
  BY <1>23, <1>1, <1>2, <1>3 DEF CancelHold, Unwind, Phases
<1>24. CASE AbortUnfinished
  BY <1>24, <1>1, <1>2, <1>3 DEF AbortUnfinished, Phases
<1>25. CASE StopChamber
  BY <1>25, <1>1, <1>2, <1>3 DEF StopChamber, Phases
<1>26. CASE ReportUnfinished
  BY <1>26, <1>1, <1>2, <1>3 DEF ReportUnfinished, Phases
<1>27. CASE Resume
  BY <1>27, <1>1, <1>2, <1>3 DEF Resume, Phases
<1>28. CASE DecideAbort
  BY <1>28, <1>1, <1>2, <1>3 DEF DecideAbort, NextAbort, Phases
<1>29. CASE AgentSends
  BY <1>29, <1>1, <1>2, <1>3 DEF AgentSends, Phases
<1>30. CASE DeliverResult
  BY <1>30, <1>1, <1>2, <1>3 DEF DeliverResult, Phases
<1>31. CASE DeliverAck
  BY <1>31, <1>1, <1>2, <1>3 DEF DeliverAck, Phases
<1>32. CASE Cancel
  BY <1>32, <1>1, <1>2, <1>3 DEF Cancel, Phases
<1>33. CASE RequestEmergencyStop
  BY <1>33, <1>1, <1>2, <1>3 DEF RequestEmergencyStop, Phases
<1>34. CASE ResetEmergencyStop
  BY <1>34, <1>1, <1>2, <1>3 DEF ResetEmergencyStop, Phases
<1>35. CASE UNCHANGED vars
  BY <1>35, <1>1, <1>2, <1>3 DEF Phases
<1>36. QED
  BY <1>4, <1>5, <1>6, <1>7, <1>8, <1>9, <1>10, <1>11, <1>12, <1>13, <1>14, <1>15, <1>16,
     <1>17, <1>18, <1>19, <1>20, <1>21, <1>22, <1>23, <1>24, <1>25, <1>26, <1>27, <1>28,
     <1>29, <1>30, <1>31, <1>32, <1>33, <1>34, <1>35
     DEF Next, Engine, CameraStep, Operator, Environment

LEMMA OpenFinite ==
  ASSUME JoinTypes, NEW s
  PROVE  /\ IsFiniteSet(PendingOf(s)) /\ IsFiniteSet(JoiningOf(s))
         /\ Cardinality(PendingOf(s)) \in Nat /\ Cardinality(JoiningOf(s)) \in Nat
<1>1. DOMAIN pending = 1..Len(pending) /\ DOMAIN joining = 1..Len(joining)
      /\ Len(pending) \in Nat /\ Len(joining) \in Nat
  BY LenProperties DEF JoinTypes
<1>2. IsFiniteSet(DOMAIN pending) /\ IsFiniteSet(DOMAIN joining)
  BY <1>1, FS_Interval
<1>3. PendingOf(s) \in SUBSET DOMAIN pending /\ JoiningOf(s) \in SUBSET DOMAIN joining
  BY DEF PendingOf, JoiningOf
<1>4. QED
  BY <1>2, <1>3, FS_Subset, FS_CardinalityType

LEMMA JoinedItem ==
  ASSUME IInv, pc \in {"joinWait", "collect", "abort", "decide"}
  PROVE  /\ cursor \in DOMAIN joining /\ joining[cursor] \in DOMAIN batches
         /\ joining[cursor] \in Requests /\ joining[cursor].step \in Steps
         /\ batches[joining[cursor]] \in BatchType
<1> USE DEF IInv, TypeOK, Parts
<1>1. cursor \in DOMAIN joining
  BY DEF PhaseInv
<1>2. joining \in Seq(DOMAIN batches)
  BY DEF JoinTypes
<1>3. joining[cursor] \in DOMAIN batches
  BY <1>1, <1>2, LenProperties, ElementOfSeq
<1>4. QED
  BY <1>1, <1>3 DEF BatchTypes, Requests

\* The step of an item of a join counts it as pending.
LEMMA CollectedIsCounted ==
  ASSUME IInv, pc = "collect"
  PROVE  LET s == joining[cursor].step
         IN exec[s] \in ExecType /\ exec[s].pending \in Nat \ {0}
<1> DEFINE s == joining[cursor].step
<1>1. s \in Steps /\ cursor \in DOMAIN joining
  BY JoinedItem
<1>2. exec[s] \in ExecType /\ exec[s].pending \in Nat
  BY <1>1 DEF IInv, TypeOK, StepTypes, ExecType
<1>3. cursor \in JoiningOf(s) /\ cursor \in Nat
  BY <1>1 DEF JoiningOf, IInv, TypeOK, JoinTypes
<1>4. Cardinality(JoiningOf(s)) # 0 /\ Cardinality(JoiningOf(s)) \in Nat /\ Cardinality(PendingOf(s)) \in Nat
  BY <1>3, OpenFinite, FS_EmptySet DEF IInv, TypeOK
<1>5. exec[s].pending >= Cardinality(PendingOf(s)) + Cardinality(JoiningOf(s))
  BY <1>1 DEF IInv, Parts, CountInv, Over
<1>6. QED
  BY <1>2, <1>4, <1>5

\* A receipt is added to those of a step.
LEMMA ReportType ==
  ASSUME StepTypes, NEW s \in Steps, NEW o \in {"succeeded", "skipped", "failed"},
         receipts' = receipts \/ receipts' = [receipts EXCEPT ![s] = Append(receipts[s], o)]
  PROVE  receipts' \in [Steps -> Seq({"succeeded", "skipped", "failed"})]
<1>1. receipts \in [Steps -> Seq({"succeeded", "skipped", "failed"})]
  BY DEF StepTypes
<1>2. receipts[s] \in Seq({"succeeded", "skipped", "failed"})
  BY <1>1
<1>3. Append(receipts[s], o) \in Seq({"succeeded", "skipped", "failed"})
  BY <1>2, AppendProperties
<1>4. QED
  BY <1>1, <1>3

LEMMA CollectedType ==
  ASSUME NEW e \in ExecType, NEW r
  PROVE  Collected(e, r) \in ExecType
BY ExecTypes DEF Collected

\* Each action keeps the types of what it knows of the steps.
LEMMA StepTypesStep ==
  ASSUME IInv, [Next]_vars
  PROVE  StepTypes'
<1> USE DEF vars, runVars, flowVars, joinVars, captureVars, commandVars, chamberVars, skipVars,
           requestHistory, otherHistory, engineVars
<1>1. TypeOK /\ RunTypes /\ StepTypes /\ recipe' = recipe /\ Steps' = Steps /\ at \in Steps
  BY RecipeKept DEF IInv, TypeOK, RunTypes
<1>2. exec \in [Steps -> ExecType] /\ exec[at] \in ExecType
  BY <1>1 DEF StepTypes
<1>3. \A x \in [Steps -> ExecType], s \in Steps, e \in ExecType : [x EXCEPT ![s] = e] \in [Steps -> ExecType]
  OBVIOUS
<1>4. receipts \in [Steps -> Seq({"succeeded", "skipped", "failed"})]
  BY <1>1 DEF StepTypes
<1>5. ASSUME UNCHANGED <<exec, receipts>>
     PROVE  StepTypes'
  BY <1>5, <1>1 DEF StepTypes
<1>6. CASE StartRun
  <2>1. FreshExec \in ExecType /\ <<>> \in Seq({"succeeded", "skipped", "failed"})
    BY <1>2, ExecTypes, EmptySeq
  <2>2. QED
    BY <1>6, <2>1, <1>1 DEF StartRun, StepTypes
<1>7. CASE Preflight
  BY <1>7, <1>5 DEF Preflight
<1>8. CASE BeginStep
  <2>1. [FreshExec EXCEPT !.started = TRUE] \in ExecType
    BY <1>2, ExecTypes
  <2>2. \E e \in ExecType : exec' = exec \/ exec' = [exec EXCEPT ![at] = e]
    BY <1>8, <2>1, <1>2, ExecTypes DEF BeginStep
  <2>3. QED
    BY <1>8, <2>2, <1>1, <1>2, <1>3, <1>4 DEF BeginStep, StepTypes
<1>9. CASE Device
  BY <1>9, <1>1, <1>2, <1>3, <1>4, ExecTypes DEF Device, Unwind, StepTypes
<1>10. CASE StartChamber
  BY <1>10, <1>1, <1>2, <1>3, <1>4, ExecTypes DEF StartChamber, Unwind, StepTypes
<1>11. CASE SetClimate
  BY <1>11, <1>1, <1>2, <1>3, <1>4, ExecTypes DEF SetClimate, Watch, Unwind, StepTypes
<1>12. CASE NextTarget
  BY <1>12, <1>1, <1>2, <1>3, <1>4, ExecTypes DEF NextTarget, Unwind, StepTypes
<1>13. CASE SendCommand
  BY <1>13, <1>1, <1>2, <1>3, <1>4, ExecTypes DEF SendCommand, Unwind, StepTypes
<1>14. CASE CommandAnswered
  BY <1>14, <1>1, <1>2, <1>3, <1>4, ExecTypes DEF CommandAnswered, RecordBias, Unwind, StepTypes
<1>15. CASE CommandUnanswered
  BY <1>15, <1>1, <1>2, <1>3, <1>4, ExecTypes DEF CommandUnanswered, Unwind, StepTypes
<1>16. CASE PublishCapture
  BY <1>16, <1>1, <1>2, <1>3, <1>4, ExecTypes
     DEF PublishCapture, NumberShots, Register, Unwind, StepTypes
<1>17. CASE CollectWaited
  <2>1. Collected(exec[at], Request("capture")) \in ExecType
    BY <1>2, CollectedType
  <2>2. QED
    BY <1>17, <2>1, <1>1, <1>2, <1>3, <1>4, ExecTypes
       DEF CollectWaited, AbortForeign, StorePart, NoteFailure, Unwind, StepTypes
<1>18. CASE AbortWaited
  BY <1>18, <1>1, <1>2, <1>3, <1>4, ExecTypes
     DEF AbortWaited, AbortWaitedRequest, Unwind, StepTypes
<1>19. CASE BeginJoin
  BY <1>19, <1>5 DEF BeginJoin
<1>20. CASE EndJoinWait
  BY <1>20, <1>5 DEF EndJoinWait
<1>21. CASE CollectJoined
  <2> DEFINE r == joining[cursor]
             s == r.step
             before == IF cancelled THEN Failed(exec[s]) ELSE exec[s]
             after == [Collected(before, r) EXCEPT !.pending = @ - 1]
             closed == [after EXCEPT !.finished = TRUE]
  <2>1. s \in Steps /\ exec[s] \in ExecType /\ exec[s].pending \in Nat \ {0}
    BY <1>21, JoinedItem, CollectedIsCounted DEF CollectJoined
  <2>2. before \in ExecType /\ before.pending = exec[s].pending
    BY <2>1, ExecTypes DEF Failed, ExecType
  <2>3. Collected(before, r) \in ExecType /\ Collected(before, r).pending = exec[s].pending
    BY <2>2, CollectedType DEF Collected, Failed, ExecType
  <2>7. exec[s].pending - 1 \in Nat
    BY <2>1
  <2>4. after \in ExecType /\ closed \in ExecType /\ after.outcome \in {"succeeded", "skipped", "failed"}
    BY <2>7, <2>3 DEF ExecType
  <2> HIDE DEF before, after, closed
  <2>5. \/ exec' = exec \/ exec' = [u \in Steps |-> IF u \in {s, at} THEN Failed(exec[u]) ELSE exec[u]]
        \/ exec' = [exec EXCEPT ![s] = after] \/ exec' = [exec EXCEPT ![s] = closed]
        \/ exec' = [u \in Steps |-> IF u = s THEN closed ELSE IF u = at THEN Failed(exec[u]) ELSE exec[u]]
    BY <1>21 DEF CollectJoined, after, before, closed
  <2>6. \A u \in Steps : Failed(exec[u]) \in ExecType
    BY <1>2, ExecTypes
  <2>8. exec' \in [Steps -> ExecType]
    BY <2>1, <2>4, <2>5, <2>6, <1>2
  <2>9. receipts' = receipts \/ receipts' = [receipts EXCEPT ![s] = Append(receipts[s], after.outcome)]
    BY <1>21 DEF CollectJoined, after, before
  <2>10. receipts' \in [Steps -> Seq({"succeeded", "skipped", "failed"})]
    BY <2>1, <2>4, <2>9, <1>1, ReportType
  <2>11. QED
    BY <2>8, <2>10, <1>1 DEF StepTypes
<1>22. CASE AbortJoined
  BY <1>22, <1>1, <1>2, <1>3, <1>4, ExecTypes DEF AbortJoined, NextAbort, Unwind, StepTypes
<1>23. CASE EndJoin
  BY <1>23, <1>1, <1>2, <1>3, <1>4, ExecTypes DEF EndJoin, Unwind, StepTypes
<1>24. CASE CheckSafety
  <2> DEFINE e == [(IF cancelled THEN Failed(exec[at]) ELSE exec[at]) EXCEPT !.dispatched = TRUE]
  <2>1. e \in ExecType /\ [e EXCEPT !.finished = TRUE] \in ExecType /\ [Failed(e) EXCEPT !.finished = TRUE] \in ExecType
        /\ e.outcome \in {"succeeded", "skipped", "failed"} /\ Failed(exec[at]) \in ExecType
    BY <1>2, ExecTypes DEF ExecType
  <2> HIDE DEF e
  <2>2. exec' = exec \/ exec' = [exec EXCEPT ![at] = Failed(@)] \/ exec' = [exec EXCEPT ![at] = e]
        \/ exec' = [exec EXCEPT ![at] = [e EXCEPT !.finished = TRUE]]
        \/ exec' = [exec EXCEPT ![at] = [Failed(e) EXCEPT !.finished = TRUE]]
    BY <1>24 DEF CheckSafety, CloseStep, Unwind, e
  <2>3. exec' \in [Steps -> ExecType]
    BY <2>1, <2>2, <1>1, <1>2
  <2>4. receipts' = receipts \/ receipts' = [receipts EXCEPT ![at] = Append(receipts[at], e.outcome)]
    BY <1>24 DEF CheckSafety, CloseStep, Unwind, e
  <2>5. receipts' \in [Steps -> Seq({"succeeded", "skipped", "failed"})]
    BY <2>1, <2>4, <1>1, <1>4, ReportType
  <2>6. QED
    BY <2>3, <2>5, <1>1 DEF StepTypes
<1>25. CASE CancelHold
  BY <1>25, <1>1, <1>2, <1>3, <1>4, ExecTypes DEF CancelHold, Unwind, StepTypes
<1>26. CASE AbortUnfinished
  <2>1. \A s \in Steps : [Failed(exec[s]) EXCEPT !.pending = 0, !.dispatched = TRUE] \in ExecType
    BY <1>2 DEF ExecType, Failed
  <2>2. QED
    BY <1>26, <2>1, <1>1, <1>2, <1>3, <1>4 DEF AbortUnfinished, StepTypes
<1>27. CASE StopChamber
  BY <1>27, <1>5 DEF StopChamber
<1>28. CASE ReportUnfinished
  <2>1. CASE UNCHANGED <<exec, receipts>>
    BY <2>1, <1>5
  <2>2. CASE \E s \in Steps : exec' = [exec EXCEPT ![s].finished = TRUE]
                              /\ receipts' \in {receipts, [receipts EXCEPT ![s] = Append(receipts[s], exec[s].outcome)]}
    <3>1. PICK s \in Steps : exec' = [exec EXCEPT ![s].finished = TRUE]
                             /\ receipts' \in {receipts, [receipts EXCEPT ![s] = Append(receipts[s], exec[s].outcome)]}
      BY <2>2
    <3>2. exec[s] \in ExecType
      BY <3>1, <1>2
    <3>6. [exec[s] EXCEPT !.finished = TRUE] \in ExecType /\ exec[s].outcome \in {"succeeded", "skipped", "failed"}
      BY <3>2, ExecTypes DEF ExecType
    <3>3. exec' \in [Steps -> ExecType]
      BY <3>1, <3>6, <1>2
    <3>4. receipts' \in [Steps -> Seq({"succeeded", "skipped", "failed"})]
      BY <3>1, <3>6, <1>1, ReportType
    <3>5. QED
      BY <3>3, <3>4, <1>1 DEF StepTypes
  <2>3. QED
    BY <1>28, <2>1, <2>2 DEF ReportUnfinished
<1>29. CASE Resume
  BY <1>29, <1>5 DEF Resume
<1>30. CASE DecideAbort
  BY <1>30, <1>5 DEF DecideAbort, NextAbort
<1>31. CASE AgentSends
  BY <1>31, <1>5 DEF AgentSends
<1>32. CASE DeliverResult
  BY <1>32, <1>5 DEF DeliverResult
<1>33. CASE DeliverAck
  BY <1>33, <1>5 DEF DeliverAck
<1>34. CASE Cancel
  BY <1>34, <1>5 DEF Cancel
<1>35. CASE RequestEmergencyStop
  BY <1>35, <1>5 DEF RequestEmergencyStop
<1>36. CASE ResetEmergencyStop
  BY <1>36, <1>5 DEF ResetEmergencyStop
<1>37. CASE UNCHANGED vars
  BY <1>37, <1>5
<1>38. QED
  BY <1>6, <1>7, <1>8, <1>9, <1>10, <1>11, <1>12, <1>13, <1>14, <1>15, <1>16, <1>17, <1>18,
     <1>19, <1>20, <1>21, <1>22, <1>23, <1>24, <1>25, <1>26, <1>27, <1>28, <1>29, <1>30,
     <1>31, <1>32, <1>33, <1>34, <1>35, <1>36, <1>37
     DEF Next, Engine, CameraStep, Operator, Environment

\* Each action keeps the types of the batches.
LEMMA BatchTypesStep ==
  ASSUME IInv, [Next]_vars
  PROVE  BatchTypes'
<1> USE DEF vars, runVars, flowVars, joinVars, captureVars, commandVars, chamberVars, skipVars,
           requestHistory, otherHistory, engineVars
<1>1. BatchTypes /\ RunTypes /\ PhaseInv /\ RequestTypes
  BY DEF IInv, TypeOK, Parts
<1>2. Requests' = Requests /\ Messages' = Messages /\ BatchType' = BatchType
  BY TypesKept DEF IInv
<1>3. ASSUME UNCHANGED <<batches, waiters>>
     PROVE  BatchTypes'
  BY <1>3, <1>1, <1>2 DEF BatchTypes
<1>4. CASE StartRun
  BY <1>4, <1>1, <1>2 DEF StartRun, BatchTypes
<1>5. CASE Preflight
  BY <1>5, <1>3 DEF Preflight
<1>6. CASE BeginStep
  BY <1>6, <1>3 DEF BeginStep
<1>7. CASE Device
  BY <1>7, <1>3 DEF Device, Unwind
<1>8. CASE StartChamber
  BY <1>8, <1>3 DEF StartChamber, Unwind
<1>9. CASE SetClimate
  BY <1>9, <1>3 DEF SetClimate, Watch, Unwind
<1>10. CASE NextTarget
  BY <1>10, <1>3 DEF NextTarget, Unwind
<1>11. CASE SendCommand
  BY <1>11, <1>3 DEF SendCommand, Unwind
<1>12. CASE CommandAnswered
  BY <1>12, <1>3 DEF CommandAnswered, RecordBias, Unwind
<1>13. CASE CommandUnanswered
  BY <1>13, <1>3 DEF CommandUnanswered, Unwind
<1>14. CASE PublishCapture
  <2>1. Request("capture") \in Requests
    BY <1>14, <1>1, RequestType DEF PublishCapture, Serving
  <2>2. EmptyBatch \in BatchType
    BY DEF EmptyBatch, BatchType
  <2>3. CASE UNCHANGED <<batches, waiters>>
    BY <2>3, <1>3
  <2>4. CASE Register(Request("capture"))
    <3>1. DOMAIN batches' = DOMAIN batches \cup {Request("capture")}
      BY <2>4 DEF Register
    <3>2. waiters' \subseteq DOMAIN batches' /\ DOMAIN batches' \subseteq Requests
      BY <2>1, <2>4, <3>1, <1>1 DEF Register, BatchTypes
    <3>3. \A q \in DOMAIN batches' : batches'[q] \in BatchType
      BY <2>2, <2>4, <3>1, <1>1 DEF Register, BatchTypes
    <3>4. QED
      BY <3>2, <3>3, <1>2 DEF BatchTypes
  <2>5. QED
    BY <1>14, <2>3, <2>4 DEF PublishCapture
<1>15. CASE CollectWaited
  BY <1>15, <1>1, <1>2
     DEF CollectWaited, AbortForeign, StorePart, NoteFailure, Unwind, BatchTypes
<1>16. CASE AbortWaited
  BY <1>16, <1>1, <1>2 DEF AbortWaited, AbortWaitedRequest, Unwind, BatchTypes
<1>17. CASE BeginJoin
  BY <1>17, <1>3 DEF BeginJoin
<1>18. CASE EndJoinWait
  BY <1>18, <1>3 DEF EndJoinWait
<1>19. CASE CollectJoined
  BY <1>19, <1>1, <1>2
     DEF CollectJoined, Advance, AbortForeign, StorePart, NoteFailure, BatchTypes
<1>20. CASE AbortJoined
  BY <1>20, <1>3 DEF AbortJoined, NextAbort, Unwind
<1>21. CASE EndJoin
  BY <1>21, <1>3 DEF EndJoin, Unwind
<1>22. CASE CheckSafety
  BY <1>22, <1>3 DEF CheckSafety, CloseStep, Unwind
<1>23. CASE CancelHold
  BY <1>23, <1>3 DEF CancelHold, Unwind
<1>24. CASE AbortUnfinished
  BY <1>24, <1>3 DEF AbortUnfinished
<1>25. CASE StopChamber
  BY <1>25, <1>3 DEF StopChamber
<1>26. CASE ReportUnfinished
  BY <1>26, <1>1, <1>2 DEF ReportUnfinished, BatchTypes
<1>27. CASE Resume
  BY <1>27, <1>3 DEF Resume
<1>28. CASE DecideAbort
  BY <1>28, <1>3 DEF DecideAbort, NextAbort
<1>29. CASE AgentSends
  BY <1>29, <1>3 DEF AgentSends
<1>30. CASE DeliverResult
  <2>1. PICK m \in sent : /\ m.key \in waiters
                          /\ batches' = [batches EXCEPT ![m.key] = Add(batches[m.key], m, Expected(m.key))]
    BY <1>30 DEF DeliverResult
  <2>2. m \in Messages /\ m.key \in DOMAIN batches /\ m.key.step \in Steps
    BY <2>1, <1>1 DEF RequestTypes, BatchTypes, Messages, Requests
  <2>3. Expected(m.key) \in Nat /\ batches[m.key] \in BatchType
    BY <2>2, <1>1, StepFacts DEF Expected, BatchTypes
  <2>4. Add(batches[m.key], m, Expected(m.key)) \in BatchType
    BY <2>2, <2>3, AddType
  <2>5. DOMAIN batches' = DOMAIN batches /\ waiters' = waiters
    BY <1>30, <2>1 DEF DeliverResult
  <2>6. \A q \in DOMAIN batches : batches'[q] \in BatchType
    BY <2>1, <2>2, <2>4, <1>1 DEF BatchTypes
  <2>7. QED
    BY <2>5, <2>6, <1>1, <1>2 DEF BatchTypes
<1>31. CASE DeliverAck
  BY <1>31, <1>3 DEF DeliverAck
<1>32. CASE Cancel
  BY <1>32, <1>3 DEF Cancel
<1>33. CASE RequestEmergencyStop
  BY <1>33, <1>3 DEF RequestEmergencyStop
<1>34. CASE ResetEmergencyStop
  BY <1>34, <1>3 DEF ResetEmergencyStop
<1>35. CASE UNCHANGED vars
  BY <1>35, <1>3
<1>36. QED
  BY <1>4, <1>5, <1>6, <1>7, <1>8, <1>9, <1>10, <1>11, <1>12, <1>13, <1>14, <1>15, <1>16,
     <1>17, <1>18, <1>19, <1>20, <1>21, <1>22, <1>23, <1>24, <1>25, <1>26, <1>27, <1>28,
     <1>29, <1>30, <1>31, <1>32, <1>33, <1>34, <1>35
     DEF Next, Engine, CameraStep, Operator, Environment

\* Each action keeps the types of the pending captures and of the join.
LEMMA JoinTypesStep ==
  ASSUME IInv, [Next]_vars
  PROVE  JoinTypes'
<1> USE DEF vars, runVars, flowVars, joinVars, captureVars, commandVars, chamberVars, skipVars,
           requestHistory, otherHistory, engineVars
<1>1. JoinTypes /\ RunTypes /\ PhaseInv
  BY DEF IInv, TypeOK, Parts
<1>2. pending \in Seq(DOMAIN batches) /\ joining \in Seq(DOMAIN batches) /\ cursor \in Nat \ {0}
  BY <1>1 DEF JoinTypes
<1>3. <<>> \in Seq(DOMAIN batches')
  BY EmptySeq
<1>4. ASSUME UNCHANGED <<batches, pending, joining, cursor, late, proceed>>
     PROVE  JoinTypes'
  BY <1>4, <1>1 DEF JoinTypes
<1>5. CASE StartRun
  <2>1. pending' = <<>> /\ joining' = <<>> /\ cursor' = 1 /\ late' = FALSE /\ proceed' = TRUE
    BY <1>5 DEF StartRun
  <2>2. pending' \in Seq(DOMAIN batches') /\ joining' \in Seq(DOMAIN batches')
    BY <2>1, <1>3, Zenon
  <2>3. cursor' \in Nat \ {0}
    BY <2>1
  <2>4. late' \in BOOLEAN /\ proceed' \in BOOLEAN
    BY <2>1
  <2>5. QED
    BY <2>2, <2>3, <2>4 DEF JoinTypes
<1>6. CASE Preflight
  BY <1>6, <1>4 DEF Preflight
<1>7. CASE BeginStep
  BY <1>7, <1>4 DEF BeginStep
<1>8. CASE Device
  BY <1>8, <1>4 DEF Device, Unwind
<1>9. CASE StartChamber
  BY <1>9, <1>4 DEF StartChamber, Unwind
<1>10. CASE SetClimate
  BY <1>10, <1>4 DEF SetClimate, Watch, Unwind
<1>11. CASE NextTarget
  BY <1>11, <1>4 DEF NextTarget, Unwind
<1>12. CASE SendCommand
  BY <1>12, <1>4 DEF SendCommand, Unwind
<1>13. CASE CommandAnswered
  BY <1>13, <1>4 DEF CommandAnswered, RecordBias, Unwind
<1>14. CASE CommandUnanswered
  BY <1>14, <1>4 DEF CommandUnanswered, Unwind
<1>15. CASE PublishCapture
  <2>1. CASE UNCHANGED <<batches, pending>>
    BY <1>15, <2>1, <1>4 DEF PublishCapture
  <2>2. CASE Register(Request("capture"))
    <3>1. DOMAIN batches' = DOMAIN batches \cup {Request("capture")}
      BY <2>2 DEF Register
    <3>2. pending \in Seq(DOMAIN batches') /\ joining \in Seq(DOMAIN batches')
      BY <3>1, <1>2, SeqMonotonic
    <3>3. Append(pending, Request("capture")) \in Seq(DOMAIN batches')
      BY <3>1, <3>2, AppendProperties
    <3>4. pending' \in Seq(DOMAIN batches')
      BY <1>15, <3>2, <3>3 DEF PublishCapture
    <3>5. QED
      BY <1>15, <3>2, <3>4, <1>1 DEF PublishCapture, JoinTypes
  <2>3. QED
    BY <1>15, <2>1, <2>2 DEF PublishCapture
<1>16. CASE CollectWaited
  BY <1>16, <1>4 DEF CollectWaited, AbortForeign, StorePart, NoteFailure, Unwind
<1>17. CASE AbortWaited
  BY <1>17, <1>4 DEF AbortWaited, AbortWaitedRequest, Unwind
<1>18. CASE BeginJoin
  <2>1. batches' = batches /\ cursor' = 1 /\ proceed' = TRUE /\ late' = late
        /\ joining' \in {joining, pending} /\ pending' \in {pending, <<>>}
    BY <1>18 DEF BeginJoin
  <2>2. pending' \in Seq(DOMAIN batches') /\ joining' \in Seq(DOMAIN batches')
    BY <1>1, <1>2, <1>3, <2>1, Zenon
  <2>3. QED
    BY <1>1, <1>2, <1>3, <2>1, <2>2 DEF JoinTypes
<1>19. CASE EndJoinWait
  <2>1. late' \in BOOLEAN
    BY <1>19 DEF EndJoinWait
  <2>2. QED
    BY <1>19, <1>1, <1>2, <1>3, <2>1 DEF EndJoinWait, JoinTypes
<1>20. CASE CollectJoined
  <2>1. cursor' \in Nat \ {0}
    BY <1>20, <1>2 DEF CollectJoined, Advance, AbortForeign, StorePart, NoteFailure
  <2>2. UNCHANGED <<batches, pending, joining, late, proceed>>
    BY <1>20 DEF CollectJoined, Advance, AbortForeign, StorePart, NoteFailure
  <2>3. QED
    BY <2>1, <2>2, <1>1, <1>2, <1>3 DEF JoinTypes
<1>21. CASE AbortJoined
  <2>1. cursor' \in Nat \ {0}
    BY <1>21, <1>2 DEF AbortJoined, NextAbort, Unwind
  <2>2. UNCHANGED <<batches, pending, joining, late, proceed>>
    BY <1>21 DEF AbortJoined, NextAbort, Unwind
  <2>3. QED
    BY <2>1, <2>2, <1>1, <1>2, <1>3 DEF JoinTypes
<1>22. CASE EndJoin
  BY <1>22, <1>4 DEF EndJoin, Unwind
<1>23. CASE CheckSafety
  BY <1>23, <1>4 DEF CheckSafety, CloseStep, Unwind
<1>24. CASE CancelHold
  BY <1>24, <1>4 DEF CancelHold, Unwind
<1>25. CASE AbortUnfinished
  BY <1>25, <1>4 DEF AbortUnfinished
<1>26. CASE StopChamber
  BY <1>26, <1>4 DEF StopChamber
<1>27. CASE ReportUnfinished
  BY <1>27, <1>4 DEF ReportUnfinished
<1>28. CASE Resume
  BY <1>28, <1>4 DEF Resume
<1>29. CASE DecideAbort
  <2>1. cursor' \in {cursor, cursor + 1}
    BY <1>29 DEF DecideAbort, NextAbort
  <2>4. proceed' \in BOOLEAN
    BY <1>29, <1>1 DEF DecideAbort, NextAbort, JoinTypes
  <2>2. UNCHANGED <<batches, pending, joining, late>>
    BY <1>29 DEF DecideAbort, NextAbort
  <2>3. QED
    BY <2>1, <2>4, <2>2, <1>1, <1>2, <1>3 DEF JoinTypes
<1>30. CASE AgentSends
  BY <1>30, <1>4 DEF AgentSends
<1>31. CASE DeliverResult
  <2>1. DOMAIN batches' = DOMAIN batches
    BY <1>31 DEF DeliverResult
  <2>2. QED
    BY <1>31, <1>1, <1>2, <1>3, <2>1 DEF DeliverResult, JoinTypes
<1>32. CASE DeliverAck
  BY <1>32, <1>4 DEF DeliverAck
<1>33. CASE Cancel
  BY <1>33, <1>4 DEF Cancel
<1>34. CASE RequestEmergencyStop
  BY <1>34, <1>4 DEF RequestEmergencyStop
<1>35. CASE ResetEmergencyStop
  BY <1>35, <1>4 DEF ResetEmergencyStop
<1>36. CASE UNCHANGED vars
  BY <1>36, <1>4
<1>37. QED
  BY <1>5, <1>6, <1>7, <1>8, <1>9, <1>10, <1>11, <1>12, <1>13, <1>14, <1>15, <1>16, <1>17,
     <1>18, <1>19, <1>20, <1>21, <1>22, <1>23, <1>24, <1>25, <1>26, <1>27, <1>28, <1>29,
     <1>30, <1>31, <1>32, <1>33, <1>34, <1>35, <1>36
     DEF Next, Engine, CameraStep, Operator, Environment

\* Each action keeps the types of the requests and of the results.
LEMMA RequestTypesStep ==
  ASSUME IInv, [Next]_vars
  PROVE  RequestTypes'
<1> USE DEF vars, runVars, flowVars, joinVars, captureVars, commandVars, chamberVars, skipVars,
           requestHistory, otherHistory, engineVars
<1>1. RequestTypes /\ RunTypes /\ PhaseInv /\ BatchTypes /\ BatchInv /\ AwaitedInv
  BY DEF IInv, TypeOK, Parts
<1>2. Requests' = Requests /\ Messages' = Messages
  BY TypesKept DEF IInv
<1>3. pc \in Serving => \A op \in {"capture", "bias", "control"} : Request(op) \in Requests
  BY <1>1, RequestType
<1>4. \A r \in DOMAIN batches : Successes(r) \subseteq Messages /\ r \in published
  BY <1>1 DEF Successes, BatchTypes, BatchType, BatchInv
<1>5. published \subseteq Requests /\ aborted \subseteq published /\ sent \subseteq Messages /\ stored \subseteq Messages /\ ack \in {"none", "ok", "ng"}
  BY <1>1 DEF RequestTypes
<1>6. ASSUME UNCHANGED <<ack, published, aborted, sent, stored>>
     PROVE  RequestTypes'
  BY <1>6, <1>1, <1>2 DEF RequestTypes
<1>7. CASE StartRun
  BY <1>7, <1>1, <1>2, <1>3, <1>4, <1>5 DEF StartRun, RequestTypes, CommandRequest, Serving
<1>8. CASE Preflight
  BY <1>8, <1>6 DEF Preflight
<1>9. CASE BeginStep
  BY <1>9, <1>6 DEF BeginStep
<1>10. CASE Device
  BY <1>10, <1>6 DEF Device, Unwind
<1>11. CASE StartChamber
  BY <1>11, <1>6 DEF StartChamber, Unwind
<1>12. CASE SetClimate
  BY <1>12, <1>6 DEF SetClimate, Watch, Unwind
<1>13. CASE NextTarget
  BY <1>13, <1>6 DEF NextTarget, Unwind
<1>14. CASE SendCommand
  BY <1>14, <1>1, <1>2, <1>3, <1>4, <1>5
     DEF SendCommand, Unwind, RequestTypes, CommandRequest, Serving
<1>15. CASE CommandAnswered
  BY <1>15, <1>6 DEF CommandAnswered, RecordBias, Unwind
<1>16. CASE CommandUnanswered
  BY <1>16, <1>1, <1>2, <1>3, <1>4, <1>5 DEF CommandUnanswered, Unwind, RequestTypes, AwaitedInv
<1>17. CASE PublishCapture
  BY <1>17, <1>1, <1>2, <1>3, <1>4, <1>5
     DEF PublishCapture, NumberShots, Register, Unwind, RequestTypes, CommandRequest, Serving
<1>18. CASE CollectWaited
  <2> DEFINE r == Request("capture")
  <2>1. r \in DOMAIN batches
    BY <1>18, <1>1 DEF CollectWaited, AwaitedInv
  <2>2. Successes(r) \subseteq Messages /\ r \in published
    BY <2>1, <1>4
  <2> HIDE DEF r
  <2>3. aborted' \subseteq aborted \cup {r} /\ stored' \subseteq stored \cup Successes(r)
    BY <1>18 DEF CollectWaited, AbortForeign, StorePart, NoteFailure, Unwind, r
  <2>4. QED
    BY <1>18, <2>2, <2>3, <1>1, <1>2, <1>3, <1>4, <1>5 DEF CollectWaited, RequestTypes
<1>19. CASE AbortWaited
  BY <1>19, <1>1, <1>2, <1>3, <1>4, <1>5
     DEF AbortWaited, AbortWaitedRequest, Unwind, RequestTypes, AwaitedInv
<1>20. CASE BeginJoin
  BY <1>20, <1>6 DEF BeginJoin
<1>21. CASE EndJoinWait
  BY <1>21, <1>6 DEF EndJoinWait
<1>22. CASE CollectJoined
  <2> DEFINE r == joining[cursor]
  <2>1. r \in DOMAIN batches
    BY <1>22, JoinedItem DEF CollectJoined
  <2>2. Successes(r) \subseteq Messages /\ r \in published
    BY <2>1, <1>4
  <2> HIDE DEF r
  <2>3. aborted' \subseteq aborted \cup {r} /\ stored' \subseteq stored \cup Successes(r)
    BY <1>22 DEF CollectJoined, AbortForeign, StorePart, r
  <2>4. UNCHANGED <<ack, published, sent>>
    BY <1>22 DEF CollectJoined
  <2>5. QED
    BY <2>2, <2>3, <2>4, <1>1, <1>2, <1>3, <1>4, <1>5 DEF RequestTypes
<1>23. CASE AbortJoined
  <2>1. joining[cursor] \in published
    BY <1>23, JoinedItem, <1>4 DEF AbortJoined
  <2>2. aborted' \subseteq aborted \cup {joining[cursor]} /\ UNCHANGED <<ack, published, sent, stored>>
    BY <1>23 DEF AbortJoined
  <2>3. QED
    BY <2>1, <2>2, <1>1, <1>2, <1>3, <1>4, <1>5 DEF RequestTypes
<1>24. CASE EndJoin
  BY <1>24, <1>6 DEF EndJoin, Unwind
<1>25. CASE CheckSafety
  BY <1>25, <1>6 DEF CheckSafety, CloseStep, Unwind
<1>26. CASE CancelHold
  BY <1>26, <1>6 DEF CancelHold, Unwind
<1>27. CASE AbortUnfinished
  <2>1. Unfinished \subseteq DOMAIN batches
    BY LenProperties, ElementOfSeq DEF Unfinished, IInv, TypeOK, JoinTypes
  <2>2. QED
    BY <1>27, <2>1, <1>1, <1>2, <1>3, <1>4, <1>5 DEF AbortUnfinished, RequestTypes
<1>28. CASE StopChamber
  BY <1>28, <1>6 DEF StopChamber
<1>29. CASE ReportUnfinished
  BY <1>29, <1>6 DEF ReportUnfinished
<1>30. CASE Resume
  BY <1>30, <1>6 DEF Resume
<1>31. CASE DecideAbort
  BY <1>31, <1>6 DEF DecideAbort, NextAbort
<1>32. CASE AgentSends
  <2>1. PICK r \in published, kind \in ResultKinds : \E id \in 1..Expected(r) :
               sent' = sent \cup {[key |-> r, id |-> id, kind |-> kind, origin |-> run]}
    BY <1>32 DEF AgentSends
  <2>6. PICK id \in 1..Expected(r) : sent' = sent \cup {[key |-> r, id |-> id, kind |-> kind, origin |-> run]}
    BY <2>1
  <2>2. r \in Requests /\ r.step \in Steps /\ r.run = run
    BY <2>1, <1>1, <1>5 DEF Requests, BatchInv
  <2>3. Expected(r) \in Nat /\ run \in 1..MaxRuns
    BY <2>2, <1>1, StepFacts DEF Expected, Requests
  <2>4. [key |-> r, id |-> id, kind |-> kind, origin |-> run] \in Messages
    BY <2>1, <2>6, <2>2, <2>3 DEF Messages
  <2>5. QED
    BY <1>32, <2>6, <2>4, <1>1, <1>2, <1>3, <1>4, <1>5 DEF AgentSends, RequestTypes
<1>33. CASE DeliverResult
  BY <1>33, <1>6 DEF DeliverResult
<1>34. CASE DeliverAck
  BY <1>34, <1>1, <1>2, <1>3, <1>4, <1>5 DEF DeliverAck, RequestTypes, CommandRequest, Serving
<1>35. CASE Cancel
  BY <1>35, <1>6 DEF Cancel
<1>36. CASE RequestEmergencyStop
  BY <1>36, <1>6 DEF RequestEmergencyStop
<1>37. CASE ResetEmergencyStop
  BY <1>37, <1>6 DEF ResetEmergencyStop
<1>38. CASE UNCHANGED vars
  BY <1>38, <1>6
<1>39. QED
  BY <1>7, <1>8, <1>9, <1>10, <1>11, <1>12, <1>13, <1>14, <1>15, <1>16, <1>17, <1>18, <1>19,
     <1>20, <1>21, <1>22, <1>23, <1>24, <1>25, <1>26, <1>27, <1>28, <1>29, <1>30, <1>31,
     <1>32, <1>33, <1>34, <1>35, <1>36, <1>37, <1>38
     DEF Next, Engine, CameraStep, Operator, Environment

\* Each action keeps the types of the BIAS it relies on.
LEMMA BiasTypesStep ==
  ASSUME IInv, [Next]_vars
  PROVE  BiasTypes'
<1> USE DEF vars, runVars, flowVars, joinVars, captureVars, commandVars, chamberVars, skipVars,
           requestHistory, otherHistory, engineVars
<1>1. BiasTypes /\ RunTypes /\ PhaseInv /\ RequestTypes /\ condition \in Conditions
  BY DEF IInv, TypeOK, Parts, ChamberTypes
<1>2. Requests' = Requests /\ Conditions' = Conditions
  BY TypesKept, RecipeKept DEF IInv
<1>3. bias \subseteq [camera : Cameras, condition : Conditions, request : Requests] /\ latest \in [Cameras -> Requests \cup {None}]
  BY <1>1 DEF BiasTypes
<1>4. ASSUME UNCHANGED <<bias, latest>>
     PROVE  BiasTypes'
  BY <1>4, <1>1, <1>2 DEF BiasTypes
<1>5. CASE StartRun
  BY <1>5, <1>2 DEF StartRun, BiasTypes
<1>6. CASE Preflight
  BY <1>6, <1>4 DEF Preflight
<1>7. CASE BeginStep
  BY <1>7, <1>4 DEF BeginStep
<1>8. CASE Device
  BY <1>8, <1>4 DEF Device, Unwind
<1>9. CASE StartChamber
  BY <1>9, <1>4 DEF StartChamber, Unwind
<1>10. CASE SetClimate
  BY <1>10, <1>4 DEF SetClimate, Watch, Unwind
<1>11. CASE NextTarget
  BY <1>11, <1>4 DEF NextTarget, Unwind
<1>12. CASE SendCommand
  BY <1>12, <1>4 DEF SendCommand, Unwind
<1>13. CASE CommandAnswered
  <2>1. Camera \in Cameras /\ CommandRequest \in Requests
    BY <1>13, <1>1, RequestType DEF CommandAnswered, Serving, CommandRequest
  <2>2. [camera |-> Camera, condition |-> condition, request |-> CommandRequest]
          \in [camera : Cameras, condition : Conditions, request : Requests]
    BY <2>1, <1>1
  <2>3. CASE UNCHANGED <<bias, latest>>
    BY <2>3, <1>4
  <2>4. CASE RecordBias(Camera, CommandRequest) /\ latest' = [latest EXCEPT ![Camera] = CommandRequest]
    <3>1. bias' \subseteq [camera : Cameras, condition : Conditions, request : Requests]
      BY <2>2, <2>4, <1>3 DEF RecordBias
    <3>2. latest' \in [Cameras -> Requests \cup {None}]
      BY <2>1, <2>4, <1>3
    <3>3. QED
      BY <3>1, <3>2, <1>2 DEF BiasTypes
  <2>5. QED
    BY <1>13, <2>3, <2>4 DEF CommandAnswered
<1>14. CASE CommandUnanswered
  BY <1>14, <1>4 DEF CommandUnanswered, Unwind
<1>15. CASE PublishCapture
  BY <1>15, <1>4 DEF PublishCapture, NumberShots, Register, Unwind
<1>16. CASE CollectWaited
  BY <1>16, <1>4 DEF CollectWaited, AbortForeign, StorePart, NoteFailure, Unwind
<1>17. CASE AbortWaited
  BY <1>17, <1>4 DEF AbortWaited, AbortWaitedRequest, Unwind
<1>18. CASE BeginJoin
  BY <1>18, <1>4 DEF BeginJoin
<1>19. CASE EndJoinWait
  BY <1>19, <1>4 DEF EndJoinWait
<1>20. CASE CollectJoined
  BY <1>20, <1>4 DEF CollectJoined, Advance, AbortForeign, StorePart, NoteFailure
<1>21. CASE AbortJoined
  BY <1>21, <1>4 DEF AbortJoined, NextAbort, Unwind
<1>22. CASE EndJoin
  BY <1>22, <1>4 DEF EndJoin, Unwind
<1>23. CASE CheckSafety
  BY <1>23, <1>4 DEF CheckSafety, CloseStep, Unwind
<1>24. CASE CancelHold
  BY <1>24, <1>4 DEF CancelHold, Unwind
<1>25. CASE AbortUnfinished
  BY <1>25, <1>4 DEF AbortUnfinished
<1>26. CASE StopChamber
  BY <1>26, <1>4 DEF StopChamber
<1>27. CASE ReportUnfinished
  BY <1>27, <1>4 DEF ReportUnfinished
<1>28. CASE Resume
  BY <1>28, <1>4 DEF Resume
<1>29. CASE DecideAbort
  BY <1>29, <1>4 DEF DecideAbort, NextAbort
<1>30. CASE AgentSends
  BY <1>30, <1>4 DEF AgentSends
<1>31. CASE DeliverResult
  BY <1>31, <1>4 DEF DeliverResult
<1>32. CASE DeliverAck
  BY <1>32, <1>4 DEF DeliverAck
<1>33. CASE Cancel
  BY <1>33, <1>4 DEF Cancel
<1>34. CASE RequestEmergencyStop
  BY <1>34, <1>4 DEF RequestEmergencyStop
<1>35. CASE ResetEmergencyStop
  BY <1>35, <1>4 DEF ResetEmergencyStop
<1>36. CASE UNCHANGED vars
  BY <1>36, <1>4
<1>37. QED
  BY <1>5, <1>6, <1>7, <1>8, <1>9, <1>10, <1>11, <1>12, <1>13, <1>14, <1>15, <1>16, <1>17,
     <1>18, <1>19, <1>20, <1>21, <1>22, <1>23, <1>24, <1>25, <1>26, <1>27, <1>28, <1>29,
     <1>30, <1>31, <1>32, <1>33, <1>34, <1>35, <1>36
     DEF Next, Engine, CameraStep, Operator, Environment

\* Each action keeps the types of the file numbers.
LEMMA NumberTypesStep ==
  ASSUME IInv, [Next]_vars
  PROVE  NumberTypes'
<1> USE DEF vars, runVars, flowVars, joinVars, captureVars, commandVars, chamberVars, skipVars,
           requestHistory, otherHistory, engineVars
<1>1. NumberTypes /\ RunTypes /\ PhaseInv /\ condition \in Conditions
  BY DEF IInv, TypeOK, Parts, ChamberTypes
<1>2. Destinations' = Destinations
  BY RecipeKept DEF IInv
<1>3. nextNumber \in [Destinations -> Nat]
  BY <1>1 DEF NumberTypes
<1>4. ASSUME UNCHANGED <<nextNumber, ranges>>
     PROVE  NumberTypes'
  BY <1>4, <1>1, <1>2 DEF NumberTypes
<1>5. CASE StartRun
  BY <1>5, <1>2 DEF StartRun, NumberTypes
<1>6. CASE Preflight
  BY <1>6, <1>4 DEF Preflight
<1>7. CASE BeginStep
  BY <1>7, <1>4 DEF BeginStep
<1>8. CASE Device
  BY <1>8, <1>4 DEF Device, Unwind
<1>9. CASE StartChamber
  BY <1>9, <1>4 DEF StartChamber, Unwind
<1>10. CASE SetClimate
  BY <1>10, <1>4 DEF SetClimate, Watch, Unwind
<1>11. CASE NextTarget
  BY <1>11, <1>4 DEF NextTarget, Unwind
<1>12. CASE SendCommand
  BY <1>12, <1>4 DEF SendCommand, Unwind
<1>13. CASE CommandAnswered
  BY <1>13, <1>4 DEF CommandAnswered, RecordBias, Unwind
<1>14. CASE CommandUnanswered
  BY <1>14, <1>4 DEF CommandUnanswered, Unwind
<1>15. CASE PublishCapture
  <2> DEFINE r == Request("capture")
             d == <<r.camera, condition>>
  <2>1. r.camera \in Cameras /\ r.round \in Nat \ {0}
    BY <1>15, <1>1, RequestType DEF PublishCapture, Serving, Requests
  <2>2. d \in Destinations /\ nextNumber[d] \in Nat
    BY <2>1, <1>1, <1>3 DEF Destinations
  <2>3. FirstNumber(r, d) \in Nat /\ Step.shots \in Nat
    BY <2>1, <2>2, <1>1, PlannedType DEF FirstNumber, Step
  <2> HIDE DEF d, r
  <2>4. NumberShots(r)
    BY <1>15 DEF PublishCapture, r
  <2>5. CASE UNCHANGED <<nextNumber, ranges>>
    BY <2>5, <1>4
  <2>6. CASE /\ nextNumber' = [nextNumber EXCEPT ![d] = FirstNumber(r, d) + Step.shots]
             /\ ranges' = ranges \cup {[by |-> r, at |-> d, first |-> FirstNumber(r, d), count |-> Step.shots]}
    <3>1. nextNumber' \in [Destinations -> Nat]
      BY <2>6, <2>2, <2>3, <1>3
    <3>2. \A x \in ranges' : x.at \in Destinations /\ x.first \in Nat /\ x.count \in Nat
      BY <2>6, <2>2, <2>3, <1>1 DEF NumberTypes
    <3>3. QED
      BY <3>1, <3>2, <1>2 DEF NumberTypes
  <2>7. QED
    BY <2>4, <2>5, <2>6 DEF NumberShots, d
<1>16. CASE CollectWaited
  BY <1>16, <1>4 DEF CollectWaited, AbortForeign, StorePart, NoteFailure, Unwind
<1>17. CASE AbortWaited
  BY <1>17, <1>4 DEF AbortWaited, AbortWaitedRequest, Unwind
<1>18. CASE BeginJoin
  BY <1>18, <1>4 DEF BeginJoin
<1>19. CASE EndJoinWait
  BY <1>19, <1>4 DEF EndJoinWait
<1>20. CASE CollectJoined
  BY <1>20, <1>4 DEF CollectJoined, Advance, AbortForeign, StorePart, NoteFailure
<1>21. CASE AbortJoined
  BY <1>21, <1>4 DEF AbortJoined, NextAbort, Unwind
<1>22. CASE EndJoin
  BY <1>22, <1>4 DEF EndJoin, Unwind
<1>23. CASE CheckSafety
  BY <1>23, <1>4 DEF CheckSafety, CloseStep, Unwind
<1>24. CASE CancelHold
  BY <1>24, <1>4 DEF CancelHold, Unwind
<1>25. CASE AbortUnfinished
  BY <1>25, <1>4 DEF AbortUnfinished
<1>26. CASE StopChamber
  BY <1>26, <1>4 DEF StopChamber
<1>27. CASE ReportUnfinished
  BY <1>27, <1>4 DEF ReportUnfinished
<1>28. CASE Resume
  BY <1>28, <1>4 DEF Resume
<1>29. CASE DecideAbort
  BY <1>29, <1>4 DEF DecideAbort, NextAbort
<1>30. CASE AgentSends
  BY <1>30, <1>4 DEF AgentSends
<1>31. CASE DeliverResult
  BY <1>31, <1>4 DEF DeliverResult
<1>32. CASE DeliverAck
  BY <1>32, <1>4 DEF DeliverAck
<1>33. CASE Cancel
  BY <1>33, <1>4 DEF Cancel
<1>34. CASE RequestEmergencyStop
  BY <1>34, <1>4 DEF RequestEmergencyStop
<1>35. CASE ResetEmergencyStop
  BY <1>35, <1>4 DEF ResetEmergencyStop
<1>36. CASE UNCHANGED vars
  BY <1>36, <1>4
<1>37. QED
  BY <1>5, <1>6, <1>7, <1>8, <1>9, <1>10, <1>11, <1>12, <1>13, <1>14, <1>15, <1>16, <1>17,
     <1>18, <1>19, <1>20, <1>21, <1>22, <1>23, <1>24, <1>25, <1>26, <1>27, <1>28, <1>29,
     <1>30, <1>31, <1>32, <1>33, <1>34, <1>35, <1>36
     DEF Next, Engine, CameraStep, Operator, Environment

\* Each action keeps the types of the chamber and of the cameras that are skipped.
LEMMA ChamberTypesStep ==
  ASSUME IInv, [Next]_vars
  PROVE  ChamberTypes'
<1> USE DEF vars, runVars, flowVars, joinVars, captureVars, commandVars, chamberVars, skipVars,
           requestHistory, otherHistory, engineVars
<1>1. ChamberTypes /\ RunTypes /\ PhaseInv /\ at \in Steps
  BY DEF IInv, TypeOK, Parts, RunTypes
<1>2. Steps' = Steps /\ Conditions' = Conditions
  BY RecipeKept DEF IInv
<1>3. 0 \in Conditions /\ Step.target \in Conditions
  BY <1>1 DEF Conditions, Step
<1>4. ASSUME UNCHANGED <<condition, watched, chamber, chamberStarted, skipped, skipSimilar, outside, emergency, failures>>
     PROVE  ChamberTypes'
  BY <1>4, <1>1, <1>2 DEF ChamberTypes
<1>5. CASE StartRun
  <2>1. watched' \in [Quantities -> Steps \cup {0}] /\ condition' \in Conditions
    BY <1>5, <1>3 DEF StartRun
  <2>2. failures' \subseteq {"chamberStop", "receipt"}
    BY <1>5, <1>1 DEF StartRun, ChamberTypes
  <2>3. QED
    BY <1>5, <2>1, <2>2, <1>1, <1>2 DEF StartRun, ChamberTypes
<1>6. CASE Preflight
  BY <1>6, <1>1, <1>2, <1>3 DEF Preflight, ChamberTypes
<1>7. CASE BeginStep
  BY <1>7, <1>1, <1>2, <1>3 DEF BeginStep, ChamberTypes
<1>8. CASE Device
  BY <1>8, <1>4 DEF Device, Unwind
<1>9. CASE StartChamber
  BY <1>9, <1>1, <1>2, <1>3 DEF StartChamber, Unwind, ChamberTypes
<1>10. CASE SetClimate
  <2>1. condition' \in Conditions
    BY <1>10, <1>1, <1>3 DEF SetClimate, ChamberTypes
  <2>2. watched' \in [Quantities -> Steps \cup {0}]
    BY <1>10, <1>1 DEF SetClimate, Watch, ChamberTypes
  <2>3. UNCHANGED <<chamber, chamberStarted, skipped, skipSimilar, outside, emergency, failures>>
    BY <1>10 DEF SetClimate
  <2>4. QED
    BY <2>1, <2>2, <2>3, <1>1, <1>2 DEF ChamberTypes
<1>11. CASE NextTarget
  BY <1>11, <1>4 DEF NextTarget, Unwind
<1>12. CASE SendCommand
  BY <1>12, <1>4 DEF SendCommand, Unwind
<1>13. CASE CommandAnswered
  BY <1>13, <1>4 DEF CommandAnswered, RecordBias, Unwind
<1>14. CASE CommandUnanswered
  BY <1>14, <1>4 DEF CommandUnanswered, Unwind
<1>15. CASE PublishCapture
  BY <1>15, <1>4 DEF PublishCapture, NumberShots, Register, Unwind
<1>16. CASE CollectWaited
  <2>1. Request("capture").camera \in Cameras
    BY <1>16, <1>1, RequestType DEF CollectWaited, Serving, Requests
  <2>2. skipped' \subseteq Cameras
    BY <1>16, <2>1, <1>1
       DEF CollectWaited, AbortForeign, StorePart, NoteFailure, Unwind, ChamberTypes
  <2>3. UNCHANGED <<condition, watched, chamber, chamberStarted, skipSimilar, outside, emergency, failures>>
    BY <1>16 DEF CollectWaited
  <2>4. QED
    BY <2>2, <2>3, <1>1, <1>2 DEF ChamberTypes
<1>17. CASE AbortWaited
  BY <1>17, <1>4 DEF AbortWaited, AbortWaitedRequest, Unwind
<1>18. CASE BeginJoin
  BY <1>18, <1>4 DEF BeginJoin
<1>19. CASE EndJoinWait
  BY <1>19, <1>4 DEF EndJoinWait
<1>20. CASE CollectJoined
  <2>1. joining[cursor].camera \in Cameras
    BY <1>20, JoinedItem DEF CollectJoined, Requests
  <2>2. skipped' \subseteq Cameras
    BY <1>20, <2>1, <1>1 DEF CollectJoined, NoteFailure, ChamberTypes
  <2>3. failures' \in {failures, failures \cup {"receipt"}}
    BY <1>20 DEF CollectJoined
  <2>4. UNCHANGED <<condition, watched, chamber, chamberStarted, skipSimilar, outside, emergency>>
    BY <1>20 DEF CollectJoined
  <2>5. QED
    BY <2>2, <2>3, <2>4, <1>1, <1>2 DEF ChamberTypes
<1>21. CASE AbortJoined
  BY <1>21, <1>4 DEF AbortJoined, NextAbort, Unwind
<1>22. CASE EndJoin
  BY <1>22, <1>4 DEF EndJoin, Unwind
<1>23. CASE CheckSafety
  BY <1>23, <1>1, <1>2, <1>3 DEF CheckSafety, CloseStep, Unwind, ChamberTypes
<1>24. CASE CancelHold
  BY <1>24, <1>4 DEF CancelHold, Unwind
<1>25. CASE AbortUnfinished
  BY <1>25, <1>4 DEF AbortUnfinished
<1>26. CASE StopChamber
  BY <1>26, <1>1, <1>2, <1>3 DEF StopChamber, ChamberTypes
<1>27. CASE ReportUnfinished
  BY <1>27, <1>1, <1>2, <1>3 DEF ReportUnfinished, ChamberTypes
<1>28. CASE Resume
  BY <1>28, <1>4 DEF Resume
<1>29. CASE DecideAbort
  BY <1>29, <1>4 DEF DecideAbort, NextAbort
<1>30. CASE AgentSends
  BY <1>30, <1>4 DEF AgentSends
<1>31. CASE DeliverResult
  BY <1>31, <1>4 DEF DeliverResult
<1>32. CASE DeliverAck
  BY <1>32, <1>4 DEF DeliverAck
<1>33. CASE Cancel
  BY <1>33, <1>4 DEF Cancel
<1>34. CASE RequestEmergencyStop
  BY <1>34, <1>1, <1>2, <1>3 DEF RequestEmergencyStop, ChamberTypes
<1>35. CASE ResetEmergencyStop
  BY <1>35, <1>4 DEF ResetEmergencyStop
<1>36. CASE UNCHANGED vars
  BY <1>36, <1>4
<1>37. QED
  BY <1>5, <1>6, <1>7, <1>8, <1>9, <1>10, <1>11, <1>12, <1>13, <1>14, <1>15, <1>16, <1>17,
     <1>18, <1>19, <1>20, <1>21, <1>22, <1>23, <1>24, <1>25, <1>26, <1>27, <1>28, <1>29,
     <1>30, <1>31, <1>32, <1>33, <1>34, <1>35, <1>36
     DEF Next, Engine, CameraStep, Operator, Environment

\* Each action keeps the types.
LEMMA TypeStep ==
  ASSUME IInv, [Next]_vars
  PROVE  TypeOK'
BY RunTypesStep, StepTypesStep, BatchTypesStep, JoinTypesStep, RequestTypesStep, BiasTypesStep,
   NumberTypesStep, ChamberTypesStep DEF TypeOK

-------------------------------------------------------------------------------
(* The phases.                                                              *)

\* Each action leads to a phase whose conditions it meets.
LEMMA PhaseStep ==
  ASSUME IInv, [Next]_vars
  PROVE  PhaseInv'
<1> USE DEF vars, runVars, flowVars, joinVars, captureVars, commandVars, chamberVars, skipVars,
           requestHistory, otherHistory, engineVars, Serving, Joining, Step
<1>1. TypeOK /\ RunTypes /\ JoinTypes /\ PhaseInv /\ recipe' = recipe /\ at \in Steps
  BY RecipeKept DEF IInv, TypeOK, Parts, RunTypes
<1>2. recipe.steps[at].kind \in Kinds /\ recipe.steps[at].cameras \in Seq(Cameras)
  BY <1>1, StepFacts
<1>3. DOMAIN recipe.steps[at].cameras = 1..Len(recipe.steps[at].cameras) /\ Len(recipe.steps[at].cameras) \in Nat
  BY <1>2, LenProperties
<1>4. DOMAIN joining = 1..Len(joining) /\ Len(joining) \in Nat /\ DOMAIN pending = 1..Len(pending) /\ Len(pending) \in Nat
  BY <1>1, LenProperties DEF JoinTypes
<1>5. run \in Nat /\ cursor \in Nat \ {0} /\ turn.k \in Nat \ {0} /\ turn \in [round : Nat \ {0}, k : Nat \ {0}]
  BY <1>1, BoundsAssumption DEF RunTypes, JoinTypes
<1>6. turn.k \in DOMAIN recipe.steps[at].cameras => NextTurn.k \in DOMAIN recipe.steps[at].cameras
  BY <1>3, <1>5 DEF NextTurn
<1>7. CASE StartRun
  BY <1>7, <1>1, <1>2, <1>3, <1>4, <1>5, <1>6
     DEF StartRun, PhaseInv, Active, NextTurn, FirstTurn, Camera
<1>8. CASE Preflight
  BY <1>8, <1>1, <1>2, <1>3, <1>4, <1>5, <1>6
     DEF Preflight, PhaseInv, Active, NextTurn, FirstTurn, Camera
<1>9. CASE BeginStep
  <2>1. UNCHANGED <<run, at>> /\ pc = "step" /\ pc' \in {"unwind", "safety", "target", "climate", "chamber", "device", "join"}
        /\ (pc' \in {"climate", "chamber"} => Step.kind \in Quantities)
        /\ (pc' = "device" => Step.kind = "device") /\ (pc' = "join" => Step.kind = "join")
    BY <1>9, <1>2 DEF BeginStep, Kinds, Quantities
  <2>2. pc' = "target" => Step.kind \in {"bias", "control", "capture"} /\ Active /= {} /\ turn' = FirstTurn
    BY <1>9, <1>2 DEF BeginStep, Kinds, Quantities
  <2>3. Active /= {} => 1 \in DOMAIN Step.cameras
    BY <1>3 DEF Active
  <2>4. FirstTurn.k = 1
    BY DEF FirstTurn
  <2>5. pc' = "target" => turn'.k \in DOMAIN Step.cameras
    BY <2>2, <2>3, <2>4
  <2>6. QED
    BY <2>1, <2>2, <2>5, <1>1 DEF PhaseInv, Quantities
<1>10. CASE Device
  BY <1>10, <1>1, <1>2, <1>3, <1>4, <1>5, <1>6
     DEF Device, Unwind, PhaseInv, Active, NextTurn, FirstTurn, Camera
<1>11. CASE StartChamber
  BY <1>11, <1>1, <1>2, <1>3, <1>4, <1>5, <1>6
     DEF StartChamber, Unwind, PhaseInv, Active, NextTurn, FirstTurn, Camera
<1>12. CASE SetClimate
  BY <1>12, <1>1, <1>2, <1>3, <1>4, <1>5, <1>6
     DEF SetClimate, Watch, Unwind, PhaseInv, Active, NextTurn, FirstTurn, Camera
<1>13. CASE NextTarget
  <2>1. UNCHANGED <<run, at>> /\ pc' \in {"target", "safety", "publish", "command", "unwind"} /\ turn' \in {turn, NextTurn} /\ (pc' = "publish" => Step.kind = "capture")
    BY <1>13 DEF NextTarget, Unwind
  <2>2. pc \in Serving
    BY <1>13 DEF NextTarget
  <2>3. turn'.k \in DOMAIN Step.cameras /\ Step.kind \in {"bias", "control", "capture"}
    BY <2>1, <2>2, <1>1, <1>6 DEF PhaseInv
  <2>4. QED
    BY <2>1, <2>2, <2>3, <1>1, <1>2, <1>3, <1>4, <1>5, <1>6 DEF PhaseInv
<1>14. CASE SendCommand
  BY <1>14, <1>1, <1>2, <1>3, <1>4, <1>5, <1>6
     DEF SendCommand, Unwind, PhaseInv, Active, NextTurn, FirstTurn, Camera
<1>15. CASE CommandAnswered
  <2>1. UNCHANGED <<run, at>> /\ pc' \in {"publish", "target", "unwind"} /\ turn' \in {turn, NextTurn} /\ (pc' = "publish" => Step.kind = "capture")
    BY <1>15 DEF CommandAnswered, RecordBias, Unwind
  <2>2. pc \in Serving
    BY <1>15 DEF CommandAnswered
  <2>3. turn'.k \in DOMAIN Step.cameras /\ Step.kind \in {"bias", "control", "capture"}
    BY <2>1, <2>2, <1>1, <1>6 DEF PhaseInv
  <2>4. QED
    BY <2>1, <2>2, <2>3, <1>1, <1>2, <1>3, <1>4, <1>5, <1>6 DEF PhaseInv
<1>16. CASE CommandUnanswered
  BY <1>16, <1>1, <1>2, <1>3, <1>4, <1>5, <1>6
     DEF CommandUnanswered, Unwind, PhaseInv, Active, NextTurn, FirstTurn, Camera
<1>17. CASE PublishCapture
  <2>1. UNCHANGED <<run, at>> /\ pc' \in {"target", "capture", "unwind"} /\ turn' \in {turn, NextTurn} /\ pc = "publish"
    BY <1>17 DEF PublishCapture, NumberShots, Register, Unwind
  <2>2. pc \in Serving
    BY <1>17 DEF PublishCapture
  <2>3. turn'.k \in DOMAIN Step.cameras /\ Step.kind \in {"bias", "control", "capture"}
    BY <2>1, <2>2, <1>1, <1>6 DEF PhaseInv
  <2>4. QED
    BY <2>1, <2>2, <2>3, <1>1, <1>2, <1>3, <1>4, <1>5, <1>6 DEF PhaseInv
<1>18. CASE CollectWaited
  <2>1. UNCHANGED <<run, at>> /\ pc' \in {"target", "unwind"} /\ turn' \in {turn, NextTurn}
    BY <1>18 DEF CollectWaited, AbortForeign, StorePart, NoteFailure, Unwind
  <2>2. pc \in Serving
    BY <1>18 DEF CollectWaited
  <2>3. turn'.k \in DOMAIN Step.cameras /\ Step.kind \in {"bias", "control", "capture"}
    BY <2>1, <2>2, <1>1, <1>6 DEF PhaseInv
  <2>4. QED
    BY <2>1, <2>2, <2>3, <1>1, <1>2, <1>3, <1>4, <1>5, <1>6 DEF PhaseInv
<1>19. CASE AbortWaited
  BY <1>19, <1>1, <1>2, <1>3, <1>4, <1>5, <1>6
     DEF AbortWaited, AbortWaitedRequest, Unwind, PhaseInv, Active, NextTurn, FirstTurn, Camera
<1>20. CASE BeginJoin
  BY <1>20, <1>1, <1>2, <1>3, <1>4, <1>5, <1>6
     DEF BeginJoin, PhaseInv, Active, NextTurn, FirstTurn, Camera
<1>21. CASE EndJoinWait
  BY <1>21, <1>1, <1>2, <1>3, <1>4, <1>5, <1>6
     DEF EndJoinWait, PhaseInv, Active, NextTurn, FirstTurn, Camera
<1>22. CASE CollectJoined
  BY <1>22, <1>1, <1>2, <1>3, <1>4, <1>5, <1>6
     DEF CollectJoined, Advance, AbortForeign, StorePart, NoteFailure, PhaseInv, Active,
         NextTurn, FirstTurn, Camera
<1>23. CASE AbortJoined
  BY <1>23, <1>1, <1>2, <1>3, <1>4, <1>5, <1>6
     DEF AbortJoined, NextAbort, Unwind, PhaseInv, Active, NextTurn, FirstTurn, Camera
<1>24. CASE EndJoin
  BY <1>24, <1>1, <1>2, <1>3, <1>4, <1>5, <1>6
     DEF EndJoin, Unwind, PhaseInv, Active, NextTurn, FirstTurn, Camera
<1>25. CASE CheckSafety
  BY <1>25, <1>1, <1>2, <1>3, <1>4, <1>5, <1>6
     DEF CheckSafety, CloseStep, Unwind, PhaseInv, Active, NextTurn, FirstTurn, Camera
<1>26. CASE CancelHold
  BY <1>26, <1>1, <1>2, <1>3, <1>4, <1>5, <1>6
     DEF CancelHold, Unwind, PhaseInv, Active, NextTurn, FirstTurn, Camera
<1>27. CASE AbortUnfinished
  BY <1>27, <1>1, <1>2, <1>3, <1>4, <1>5, <1>6
     DEF AbortUnfinished, PhaseInv, Active, NextTurn, FirstTurn, Camera
<1>28. CASE StopChamber
  BY <1>28, <1>1, <1>2, <1>3, <1>4, <1>5, <1>6
     DEF StopChamber, PhaseInv, Active, NextTurn, FirstTurn, Camera
<1>29. CASE ReportUnfinished
  BY <1>29, <1>1, <1>2, <1>3, <1>4, <1>5, <1>6
     DEF ReportUnfinished, PhaseInv, Active, NextTurn, FirstTurn, Camera
<1>30. CASE Resume
  BY <1>30, <1>1, <1>2, <1>3, <1>4, <1>5, <1>6
     DEF Resume, PhaseInv, Active, NextTurn, FirstTurn, Camera
<1>31. CASE DecideAbort
  <2>1. UNCHANGED <<run, at, joining>> /\ pc' \in {"abort", "joined"} /\ pc = "decide"
    BY <1>31 DEF DecideAbort, NextAbort
  <2>2. pc' = "abort" => cursor' \in DOMAIN joining
    <3>1. cursor \in 1..Len(joining)
      BY <1>31, <1>1, <1>4 DEF DecideAbort, PhaseInv
    <3>2. cursor' = cursor \/ (cursor < Len(joining) /\ cursor' = cursor + 1)
      BY <1>31 DEF DecideAbort, NextAbort
    <3>3. QED
      BY <3>1, <3>2, <1>4
  <2>3. QED
    BY <2>1, <2>2, <1>1 DEF PhaseInv
<1>32. CASE AgentSends
  BY <1>32, <1>1, <1>2, <1>3, <1>4, <1>5, <1>6
     DEF AgentSends, PhaseInv, Active, NextTurn, FirstTurn, Camera
<1>33. CASE DeliverResult
  BY <1>33, <1>1, <1>2, <1>3, <1>4, <1>5, <1>6
     DEF DeliverResult, PhaseInv, Active, NextTurn, FirstTurn, Camera
<1>34. CASE DeliverAck
  BY <1>34, <1>1, <1>2, <1>3, <1>4, <1>5, <1>6
     DEF DeliverAck, PhaseInv, Active, NextTurn, FirstTurn, Camera
<1>35. CASE Cancel
  BY <1>35, <1>1, <1>2, <1>3, <1>4, <1>5, <1>6
     DEF Cancel, PhaseInv, Active, NextTurn, FirstTurn, Camera
<1>36. CASE RequestEmergencyStop
  BY <1>36, <1>1, <1>2, <1>3, <1>4, <1>5, <1>6
     DEF RequestEmergencyStop, PhaseInv, Active, NextTurn, FirstTurn, Camera
<1>37. CASE ResetEmergencyStop
  BY <1>37, <1>1, <1>2, <1>3, <1>4, <1>5, <1>6
     DEF ResetEmergencyStop, PhaseInv, Active, NextTurn, FirstTurn, Camera
<1>38. CASE UNCHANGED vars
  BY <1>38, <1>1, <1>2, <1>3, <1>4, <1>5, <1>6 DEF PhaseInv, Active, NextTurn, FirstTurn, Camera
<1>39. QED
  BY <1>7, <1>8, <1>9, <1>10, <1>11, <1>12, <1>13, <1>14, <1>15, <1>16, <1>17, <1>18, <1>19,
     <1>20, <1>21, <1>22, <1>23, <1>24, <1>25, <1>26, <1>27, <1>28, <1>29, <1>30, <1>31,
     <1>32, <1>33, <1>34, <1>35, <1>36, <1>37, <1>38
     DEF Next, Engine, CameraStep, Operator, Environment

-------------------------------------------------------------------------------
(* The chamber and the climate.                                             *)

\* The chamber is stopped before the run is over.
LEMMA StoppedStep ==
  ASSUME IInv, [Next]_vars
  PROVE  StoppedInv'
<1> USE DEF vars, runVars, flowVars, joinVars, captureVars, commandVars, chamberVars, skipVars,
           requestHistory, otherHistory, engineVars
<1>1. TypeOK /\ PhaseInv /\ StoppedInv /\ recipe' = recipe
  BY RecipeKept DEF IInv, Parts
<1>2. CASE StartRun
  BY <1>2, <1>1 DEF StartRun, StoppedInv, PhaseInv, StopsChamber
<1>3. CASE Preflight
  BY <1>3, <1>1 DEF Preflight, StoppedInv, PhaseInv, StopsChamber
<1>4. CASE BeginStep
  <2>1. Step.kind \in Kinds
    BY StepFacts DEF IInv, TypeOK, RunTypes, Step
  <2>2. pc' \notin {"report", "idle"}
    BY <1>4, <2>1 DEF BeginStep, Kinds, Quantities
  <2>3. QED
    BY <2>2 DEF StoppedInv
<1>5. CASE Device
  BY <1>5, <1>1 DEF Device, Unwind, StoppedInv, PhaseInv, StopsChamber
<1>6. CASE StartChamber
  BY <1>6, <1>1 DEF StartChamber, Unwind, StoppedInv, PhaseInv, StopsChamber
<1>7. CASE SetClimate
  BY <1>7, <1>1 DEF SetClimate, Watch, Unwind, StoppedInv, PhaseInv, StopsChamber
<1>8. CASE NextTarget
  BY <1>8, <1>1 DEF NextTarget, Unwind, StoppedInv, PhaseInv, StopsChamber
<1>9. CASE SendCommand
  BY <1>9, <1>1 DEF SendCommand, Unwind, StoppedInv, PhaseInv, StopsChamber
<1>10. CASE CommandAnswered
  BY <1>10, <1>1 DEF CommandAnswered, RecordBias, Unwind, StoppedInv, PhaseInv, StopsChamber
<1>11. CASE CommandUnanswered
  BY <1>11, <1>1 DEF CommandUnanswered, Unwind, StoppedInv, PhaseInv, StopsChamber
<1>12. CASE PublishCapture
  BY <1>12, <1>1
     DEF PublishCapture, NumberShots, Register, Unwind, StoppedInv, PhaseInv, StopsChamber
<1>13. CASE CollectWaited
  BY <1>13, <1>1
     DEF CollectWaited, AbortForeign, StorePart, NoteFailure, Unwind, StoppedInv, PhaseInv,
         StopsChamber
<1>14. CASE AbortWaited
  BY <1>14, <1>1 DEF AbortWaited, AbortWaitedRequest, Unwind, StoppedInv, PhaseInv, StopsChamber
<1>15. CASE BeginJoin
  BY <1>15, <1>1 DEF BeginJoin, StoppedInv, PhaseInv, StopsChamber
<1>16. CASE EndJoinWait
  BY <1>16, <1>1 DEF EndJoinWait, StoppedInv, PhaseInv, StopsChamber
<1>17. CASE CollectJoined
  BY <1>17, <1>1
     DEF CollectJoined, Advance, AbortForeign, StorePart, NoteFailure, StoppedInv, PhaseInv,
         StopsChamber
<1>18. CASE AbortJoined
  BY <1>18, <1>1 DEF AbortJoined, NextAbort, Unwind, StoppedInv, PhaseInv, StopsChamber
<1>19. CASE EndJoin
  BY <1>19, <1>1 DEF EndJoin, Unwind, StoppedInv, PhaseInv, StopsChamber
<1>20. CASE CheckSafety
  BY <1>20, <1>1 DEF CheckSafety, CloseStep, Unwind, StoppedInv, PhaseInv, StopsChamber
<1>21. CASE CancelHold
  BY <1>21, <1>1 DEF CancelHold, Unwind, StoppedInv, PhaseInv, StopsChamber
<1>22. CASE AbortUnfinished
  BY <1>22, <1>1 DEF AbortUnfinished, StoppedInv, PhaseInv, StopsChamber
<1>23. CASE StopChamber
  BY <1>23, <1>1 DEF StopChamber, StoppedInv, PhaseInv, StopsChamber
<1>24. CASE ReportUnfinished
  BY <1>24, <1>1 DEF ReportUnfinished, StoppedInv, PhaseInv, StopsChamber
<1>25. CASE Resume
  BY <1>25, <1>1 DEF Resume, StoppedInv, PhaseInv, StopsChamber
<1>26. CASE DecideAbort
  BY <1>26, <1>1 DEF DecideAbort, NextAbort, StoppedInv, PhaseInv, StopsChamber
<1>27. CASE AgentSends
  BY <1>27, <1>1 DEF AgentSends, StoppedInv, PhaseInv, StopsChamber
<1>28. CASE DeliverResult
  BY <1>28, <1>1 DEF DeliverResult, StoppedInv, PhaseInv, StopsChamber
<1>29. CASE DeliverAck
  BY <1>29, <1>1 DEF DeliverAck, StoppedInv, PhaseInv, StopsChamber
<1>30. CASE Cancel
  BY <1>30, <1>1 DEF Cancel, StoppedInv, PhaseInv, StopsChamber
<1>31. CASE RequestEmergencyStop
  BY <1>31, <1>1 DEF RequestEmergencyStop, StoppedInv, PhaseInv, StopsChamber
<1>32. CASE ResetEmergencyStop
  BY <1>32, <1>1 DEF ResetEmergencyStop, StoppedInv, PhaseInv, StopsChamber
<1>33. CASE UNCHANGED vars
  BY <1>33, <1>1 DEF StoppedInv, PhaseInv, StopsChamber
<1>34. QED
  BY <1>2, <1>3, <1>4, <1>5, <1>6, <1>7, <1>8, <1>9, <1>10, <1>11, <1>12, <1>13, <1>14,
     <1>15, <1>16, <1>17, <1>18, <1>19, <1>20, <1>21, <1>22, <1>23, <1>24, <1>25, <1>26,
     <1>27, <1>28, <1>29, <1>30, <1>31, <1>32, <1>33
     DEF Next, Engine, CameraStep, Operator, Environment

\* What is watched is kept up with the steps.
LEMMA WatchStep ==
  ASSUME IInv, [Next]_vars
  PROVE  WatchInv'
<1> USE DEF vars, runVars, flowVars, joinVars, captureVars, commandVars, chamberVars, skipVars,
           requestHistory, otherHistory, engineVars, InStep, Serving, Joining, Checking
<1>1. TypeOK /\ PhaseInv /\ WatchInv /\ recipe' = recipe /\ RunTypes /\ ChamberTypes
  BY RecipeKept DEF IInv, Parts, TypeOK
<1>2. at \in Steps /\ Steps = 1..Len(recipe.steps) /\ Len(recipe.steps) \in Nat /\ at \in Nat \ {0}
  BY <1>1, RecipeFacts DEF RunTypes
<1>3. watched \in [Quantities -> Nat] /\ \A q \in Quantities : watched[q] \in Steps \cup {0}
  BY <1>1, <1>2 DEF ChamberTypes
<1>4. WatchedUpTo(at - 1) /\ Step.kind \notin Quantities => WatchedUpTo(at)
  BY <1>2, <1>3 DEF WatchedUpTo, Step
<1>5. UNCHANGED watched => (WatchedUpTo(at - 1) => \A n \in Nat : n = at - 1 => WatchedUpTo(n)') /\ (WatchedUpTo(at) => \A n \in Nat : n = at => WatchedUpTo(n)')
  BY <1>1, <1>2 DEF WatchedUpTo
<1>6. CASE StartRun
  BY <1>6, <1>1, <1>2, <1>3, <1>4, <1>5 DEF StartRun, WatchInv, PhaseInv, WatchedUpTo
<1>7. CASE Preflight
  BY <1>7, <1>1, <1>2, <1>3, <1>4, <1>5 DEF Preflight, WatchInv, PhaseInv, WatchedUpTo
<1>8. CASE BeginStep
  BY <1>8, <1>1, <1>2, <1>3, <1>4, <1>5 DEF BeginStep, WatchInv, PhaseInv, WatchedUpTo
<1>9. CASE Device
  <2>1. UNCHANGED <<watched, at>> /\ pc \in InStep
    BY <1>9 DEF Device, Unwind
  <2>2. Step.kind \notin Quantities
    BY <1>9, <1>1 DEF Device, PhaseInv, Quantities
  <2>3. WatchedUpTo(at - 1) /\ WatchedUpTo(at)
    BY <2>1, <2>2, <1>1, <1>4 DEF WatchInv
  <2>4. QED
    BY <2>1, <2>3, <1>1 DEF WatchInv, WatchedUpTo
<1>10. CASE StartChamber
  BY <1>10, <1>1, <1>2, <1>3, <1>4, <1>5
     DEF StartChamber, Unwind, WatchInv, PhaseInv, WatchedUpTo
<1>11. CASE SetClimate
  <2>1. pc \in InStep /\ WatchedUpTo(at - 1) /\ at' = at /\ Step.kind \in Quantities
    BY <1>11, <1>1 DEF SetClimate, WatchInv, PhaseInv
  <2>2. CASE Watch
    <3>1. watched'[Step.kind] = at /\ \A q \in Quantities \ {Step.kind} : watched'[q] = watched[q]
      BY <2>1, <2>2, <1>3 DEF Watch
    <3>2. \A q \in Quantities \ {Step.kind} :
             /\ watched[q] <= at /\ (watched[q] /= 0 => recipe.steps[watched[q]].kind = q)
             /\ \A s \in 1..at : recipe.steps[s].kind = q => s <= watched[q]
      BY <2>1, <1>2, <1>3 DEF WatchedUpTo, Step
    <3>3. QED
      BY <1>11, <2>1, <3>1, <3>2, <1>1, <1>2
         DEF SetClimate, Watch, Unwind, WatchInv, WatchedUpTo, Step
  <2>3. CASE pc' = "unwind"
    BY <2>3 DEF WatchInv
  <2>4. QED
    BY <1>11, <2>2, <2>3 DEF SetClimate, Watch, Unwind
<1>12. CASE NextTarget
  <2>1. UNCHANGED <<watched, at>> /\ pc \in InStep
    BY <1>12 DEF NextTarget, Unwind
  <2>2. Step.kind \notin Quantities
    BY <1>12, <1>1 DEF NextTarget, PhaseInv, Quantities
  <2>3. WatchedUpTo(at - 1) /\ WatchedUpTo(at)
    BY <2>1, <2>2, <1>1, <1>4 DEF WatchInv
  <2>4. QED
    BY <2>1, <2>3, <1>1 DEF WatchInv, WatchedUpTo
<1>13. CASE SendCommand
  BY <1>13, <1>1, <1>2, <1>3, <1>4, <1>5
     DEF SendCommand, Unwind, WatchInv, PhaseInv, WatchedUpTo
<1>14. CASE CommandAnswered
  BY <1>14, <1>1, <1>2, <1>3, <1>4, <1>5
     DEF CommandAnswered, RecordBias, Unwind, WatchInv, PhaseInv, WatchedUpTo
<1>15. CASE CommandUnanswered
  BY <1>15, <1>1, <1>2, <1>3, <1>4, <1>5
     DEF CommandUnanswered, Unwind, WatchInv, PhaseInv, WatchedUpTo
<1>16. CASE PublishCapture
  BY <1>16, <1>1, <1>2, <1>3, <1>4, <1>5
     DEF PublishCapture, NumberShots, Register, Unwind, WatchInv, PhaseInv, WatchedUpTo
<1>17. CASE CollectWaited
  BY <1>17, <1>1, <1>2, <1>3, <1>4, <1>5
     DEF CollectWaited, AbortForeign, StorePart, NoteFailure, Unwind, WatchInv, PhaseInv,
         WatchedUpTo
<1>18. CASE AbortWaited
  BY <1>18, <1>1, <1>2, <1>3, <1>4, <1>5
     DEF AbortWaited, AbortWaitedRequest, Unwind, WatchInv, PhaseInv, WatchedUpTo
<1>19. CASE BeginJoin
  <2>1. UNCHANGED <<watched, at>> /\ pc \in InStep
    BY <1>19 DEF BeginJoin
  <2>2. Step.kind \notin Quantities
    BY <1>19, <1>1 DEF BeginJoin, PhaseInv, Quantities
  <2>3. WatchedUpTo(at - 1) /\ WatchedUpTo(at)
    BY <2>1, <2>2, <1>1, <1>4 DEF WatchInv
  <2>4. QED
    BY <2>1, <2>3, <1>1 DEF WatchInv, WatchedUpTo
<1>20. CASE EndJoinWait
  BY <1>20, <1>1, <1>2, <1>3, <1>4, <1>5 DEF EndJoinWait, WatchInv, PhaseInv, WatchedUpTo
<1>21. CASE CollectJoined
  <2>1. UNCHANGED <<watched, at>> /\ pc \in InStep
    BY <1>21 DEF CollectJoined, Advance, AbortForeign, StorePart, NoteFailure
  <2>2. Step.kind \notin Quantities
    BY <1>21, <1>1 DEF CollectJoined, PhaseInv, Quantities
  <2>3. WatchedUpTo(at - 1) /\ WatchedUpTo(at)
    BY <2>1, <2>2, <1>1, <1>4 DEF WatchInv
  <2>4. QED
    BY <2>1, <2>3, <1>1 DEF WatchInv, WatchedUpTo
<1>22. CASE AbortJoined
  BY <1>22, <1>1, <1>2, <1>3, <1>4, <1>5
     DEF AbortJoined, NextAbort, Unwind, WatchInv, PhaseInv, WatchedUpTo
<1>23. CASE EndJoin
  <2>1. UNCHANGED <<watched, at>> /\ pc \in InStep
    BY <1>23 DEF EndJoin, Unwind
  <2>2. Step.kind \notin Quantities
    BY <1>23, <1>1 DEF EndJoin, PhaseInv, Quantities
  <2>3. WatchedUpTo(at - 1) /\ WatchedUpTo(at)
    BY <2>1, <2>2, <1>1, <1>4 DEF WatchInv
  <2>4. QED
    BY <2>1, <2>3, <1>1 DEF WatchInv, WatchedUpTo
<1>24. CASE CheckSafety
  BY <1>24, <1>1, <1>2, <1>3, <1>4, <1>5
     DEF CheckSafety, CloseStep, Unwind, WatchInv, PhaseInv, WatchedUpTo
<1>25. CASE CancelHold
  BY <1>25, <1>1, <1>2, <1>3, <1>4, <1>5 DEF CancelHold, Unwind, WatchInv, PhaseInv, WatchedUpTo
<1>26. CASE AbortUnfinished
  BY <1>26, <1>1, <1>2, <1>3, <1>4, <1>5 DEF AbortUnfinished, WatchInv, PhaseInv, WatchedUpTo
<1>27. CASE StopChamber
  BY <1>27, <1>1, <1>2, <1>3, <1>4, <1>5 DEF StopChamber, WatchInv, PhaseInv, WatchedUpTo
<1>28. CASE ReportUnfinished
  BY <1>28, <1>1, <1>2, <1>3, <1>4, <1>5 DEF ReportUnfinished, WatchInv, PhaseInv, WatchedUpTo
<1>29. CASE Resume
  BY <1>29, <1>1, <1>2, <1>3, <1>4, <1>5 DEF Resume, WatchInv, PhaseInv, WatchedUpTo
<1>30. CASE DecideAbort
  BY <1>30, <1>1, <1>2, <1>3, <1>4, <1>5
     DEF DecideAbort, NextAbort, WatchInv, PhaseInv, WatchedUpTo
<1>31. CASE AgentSends
  BY <1>31, <1>1, <1>2, <1>3, <1>4, <1>5 DEF AgentSends, WatchInv, PhaseInv, WatchedUpTo
<1>32. CASE DeliverResult
  BY <1>32, <1>1, <1>2, <1>3, <1>4, <1>5 DEF DeliverResult, WatchInv, PhaseInv, WatchedUpTo
<1>33. CASE DeliverAck
  BY <1>33, <1>1, <1>2, <1>3, <1>4, <1>5 DEF DeliverAck, WatchInv, PhaseInv, WatchedUpTo
<1>34. CASE Cancel
  BY <1>34, <1>1, <1>2, <1>3, <1>4, <1>5 DEF Cancel, WatchInv, PhaseInv, WatchedUpTo
<1>35. CASE RequestEmergencyStop
  BY <1>35, <1>1, <1>2, <1>3, <1>4, <1>5
     DEF RequestEmergencyStop, WatchInv, PhaseInv, WatchedUpTo
<1>36. CASE ResetEmergencyStop
  BY <1>36, <1>1, <1>2, <1>3, <1>4, <1>5 DEF ResetEmergencyStop, WatchInv, PhaseInv, WatchedUpTo
<1>37. CASE UNCHANGED vars
  BY <1>37, <1>1, <1>2, <1>3, <1>4, <1>5 DEF WatchInv, PhaseInv, WatchedUpTo
<1>38. QED
  BY <1>6, <1>7, <1>8, <1>9, <1>10, <1>11, <1>12, <1>13, <1>14, <1>15, <1>16, <1>17, <1>18,
     <1>19, <1>20, <1>21, <1>22, <1>23, <1>24, <1>25, <1>26, <1>27, <1>28, <1>29, <1>30,
     <1>31, <1>32, <1>33, <1>34, <1>35, <1>36, <1>37
     DEF Next, Engine, CameraStep, Operator, Environment

\* A step is entered only after a reading within the limits that are watched.
LEMMA SafetyStep ==
  ASSUME IInv, [Next]_vars
  PROVE  SafetyBeforeStep'
<1> USE DEF vars, runVars, flowVars, joinVars, captureVars, commandVars, chamberVars, skipVars,
           requestHistory, otherHistory, engineVars
<1>1. TypeOK /\ PhaseInv /\ WatchInv /\ SafetyBeforeStep /\ recipe' = recipe /\ RunTypes /\ ChamberTypes
  BY RecipeKept DEF IInv, Parts, TypeOK
<1>2. Steps = 1..Len(recipe.steps) /\ Len(recipe.steps) \in Nat /\ at \in Nat \ {0} /\ Step.kind \in Kinds
  BY <1>1, RecipeFacts, StepFacts DEF RunTypes, Step
<1>3. CASE StartRun
  BY <1>3, <1>1, <1>2 DEF StartRun, SafetyBeforeStep, PhaseInv
<1>4. CASE Preflight
  BY <1>4, <1>1, <1>2 DEF Preflight, SafetyBeforeStep, PhaseInv
<1>5. CASE BeginStep
  <2>1. pc' /= "step"
    BY <1>5, <1>2 DEF BeginStep, Kinds, Quantities
  <2>2. QED
    BY <2>1 DEF SafetyBeforeStep
<1>6. CASE Device
  BY <1>6, <1>1, <1>2 DEF Device, Unwind, SafetyBeforeStep, PhaseInv
<1>7. CASE StartChamber
  BY <1>7, <1>1, <1>2 DEF StartChamber, Unwind, SafetyBeforeStep, PhaseInv
<1>8. CASE SetClimate
  BY <1>8, <1>1, <1>2 DEF SetClimate, Watch, Unwind, SafetyBeforeStep, PhaseInv
<1>9. CASE NextTarget
  BY <1>9, <1>1, <1>2 DEF NextTarget, Unwind, SafetyBeforeStep, PhaseInv
<1>10. CASE SendCommand
  BY <1>10, <1>1, <1>2 DEF SendCommand, Unwind, SafetyBeforeStep, PhaseInv
<1>11. CASE CommandAnswered
  BY <1>11, <1>1, <1>2 DEF CommandAnswered, RecordBias, Unwind, SafetyBeforeStep, PhaseInv
<1>12. CASE CommandUnanswered
  BY <1>12, <1>1, <1>2 DEF CommandUnanswered, Unwind, SafetyBeforeStep, PhaseInv
<1>13. CASE PublishCapture
  BY <1>13, <1>1, <1>2
     DEF PublishCapture, NumberShots, Register, Unwind, SafetyBeforeStep, PhaseInv
<1>14. CASE CollectWaited
  BY <1>14, <1>1, <1>2
     DEF CollectWaited, AbortForeign, StorePart, NoteFailure, Unwind, SafetyBeforeStep, PhaseInv
<1>15. CASE AbortWaited
  BY <1>15, <1>1, <1>2 DEF AbortWaited, AbortWaitedRequest, Unwind, SafetyBeforeStep, PhaseInv
<1>16. CASE BeginJoin
  BY <1>16, <1>1, <1>2 DEF BeginJoin, SafetyBeforeStep, PhaseInv
<1>17. CASE EndJoinWait
  BY <1>17, <1>1, <1>2 DEF EndJoinWait, SafetyBeforeStep, PhaseInv
<1>18. CASE CollectJoined
  BY <1>18, <1>1, <1>2
     DEF CollectJoined, Advance, AbortForeign, StorePart, NoteFailure, SafetyBeforeStep,
         PhaseInv
<1>19. CASE AbortJoined
  BY <1>19, <1>1, <1>2 DEF AbortJoined, NextAbort, Unwind, SafetyBeforeStep, PhaseInv
<1>20. CASE EndJoin
  BY <1>20, <1>1, <1>2 DEF EndJoin, Unwind, SafetyBeforeStep, PhaseInv
<1>21. CASE CheckSafety
  <2>1. SUFFICES ASSUME pc' = "step", ~cancelled, NEW s \in 1..(at' - 1),
                        recipe.steps[s].kind \in Quantities, recipe.steps[s].limits,
                        \A u \in (s + 1)..(at' - 1) : recipe.steps[u].kind /= recipe.steps[s].kind
                 PROVE  recipe.steps[s].kind \notin outside'
    BY <1>21, <1>1 DEF CheckSafety, SafetyBeforeStep
  <2>2. at' = at + 1 /\ WatchedUpTo(at) /\ (SafetyNotRead \/ outside' \cap Limited = {})
    BY <1>21, <2>1, <1>1 DEF CheckSafety, CloseStep, WatchInv, Checking, Unwind
  <2> DEFINE q == recipe.steps[s].kind
  <2>3. watched[q] \in 1..at /\ s <= watched[q] /\ recipe.steps[watched[q]].kind = q
    BY <2>1, <2>2, <1>1, <1>2 DEF WatchedUpTo, ChamberTypes
  <2>4. watched[q] = s
    BY <2>1, <2>2, <2>3, <1>2
  <2>5. q \in Limited
    BY <2>1, <2>4 DEF Limited
  <2>6. QED
    BY <2>1, <2>2, <2>5 DEF SafetyNotRead
<1>22. CASE CancelHold
  BY <1>22, <1>1, <1>2 DEF CancelHold, Unwind, SafetyBeforeStep, PhaseInv
<1>23. CASE AbortUnfinished
  BY <1>23, <1>1, <1>2 DEF AbortUnfinished, SafetyBeforeStep, PhaseInv
<1>24. CASE StopChamber
  BY <1>24, <1>1, <1>2 DEF StopChamber, SafetyBeforeStep, PhaseInv
<1>25. CASE ReportUnfinished
  BY <1>25, <1>1, <1>2 DEF ReportUnfinished, SafetyBeforeStep, PhaseInv
<1>26. CASE Resume
  BY <1>26, <1>1, <1>2 DEF Resume, SafetyBeforeStep, PhaseInv
<1>27. CASE DecideAbort
  BY <1>27, <1>1, <1>2 DEF DecideAbort, NextAbort, SafetyBeforeStep, PhaseInv
<1>28. CASE AgentSends
  BY <1>28, <1>1, <1>2 DEF AgentSends, SafetyBeforeStep, PhaseInv
<1>29. CASE DeliverResult
  BY <1>29, <1>1, <1>2 DEF DeliverResult, SafetyBeforeStep, PhaseInv
<1>30. CASE DeliverAck
  BY <1>30, <1>1, <1>2 DEF DeliverAck, SafetyBeforeStep, PhaseInv
<1>31. CASE Cancel
  BY <1>31, <1>1, <1>2 DEF Cancel, SafetyBeforeStep, PhaseInv
<1>32. CASE RequestEmergencyStop
  BY <1>32, <1>1, <1>2 DEF RequestEmergencyStop, SafetyBeforeStep, PhaseInv
<1>33. CASE ResetEmergencyStop
  BY <1>33, <1>1, <1>2 DEF ResetEmergencyStop, SafetyBeforeStep, PhaseInv
<1>34. CASE UNCHANGED vars
  BY <1>34, <1>1, <1>2 DEF SafetyBeforeStep, PhaseInv
<1>35. QED
  BY <1>3, <1>4, <1>5, <1>6, <1>7, <1>8, <1>9, <1>10, <1>11, <1>12, <1>13, <1>14, <1>15,
     <1>16, <1>17, <1>18, <1>19, <1>20, <1>21, <1>22, <1>23, <1>24, <1>25, <1>26, <1>27,
     <1>28, <1>29, <1>30, <1>31, <1>32, <1>33, <1>34
     DEF Next, Engine, CameraStep, Operator, Environment

-------------------------------------------------------------------------------
(* The BIAS and the file numbers.                                           *)

\* An acknowledged BIAS replaces the earlier ones of its camera.
LEMMA BiasStep ==
  ASSUME IInv, [Next]_vars
  PROVE  BiasIsLatest'
<1> USE DEF vars, runVars, flowVars, joinVars, captureVars, commandVars, chamberVars, skipVars,
           requestHistory, otherHistory, engineVars
<1>1. BiasTypes /\ BiasIsLatest /\ RunTypes /\ PhaseInv
  BY DEF IInv, Parts, TypeOK
<1>2. ASSUME UNCHANGED <<bias, latest>>
     PROVE  BiasIsLatest'
  BY <1>2, <1>1 DEF BiasIsLatest
<1>3. CASE StartRun
  BY <1>3 DEF StartRun, BiasIsLatest
<1>4. CASE Preflight
  BY <1>4, <1>2 DEF Preflight
<1>5. CASE BeginStep
  BY <1>5, <1>2 DEF BeginStep
<1>6. CASE Device
  BY <1>6, <1>2 DEF Device, Unwind
<1>7. CASE StartChamber
  BY <1>7, <1>2 DEF StartChamber, Unwind
<1>8. CASE SetClimate
  BY <1>8, <1>2 DEF SetClimate, Watch, Unwind
<1>9. CASE NextTarget
  BY <1>9, <1>2 DEF NextTarget, Unwind
<1>10. CASE SendCommand
  BY <1>10, <1>2 DEF SendCommand, Unwind
<1>11. CASE CommandAnswered
  <2>1. Camera \in Cameras
    BY <1>11, <1>1, RequestType DEF CommandAnswered, Serving
  <2>2. CASE UNCHANGED <<bias, latest>>
    BY <2>2, <1>2
  <2>3. CASE RecordBias(Camera, CommandRequest) /\ latest' = [latest EXCEPT ![Camera] = CommandRequest]
    <3>1. latest'[Camera] = CommandRequest /\ \A c \in Cameras : c /= Camera => latest'[c] = latest[c]
      BY <2>1, <2>3, <1>1 DEF BiasTypes
    <3>2. \A e \in bias : e.camera \in Cameras
      BY <1>1 DEF BiasTypes
    <3>3. QED
      BY <2>3, <3>1, <3>2, <1>1 DEF RecordBias, BiasIsLatest
  <2>4. QED
    BY <1>11, <2>2, <2>3 DEF CommandAnswered
<1>12. CASE CommandUnanswered
  BY <1>12, <1>2 DEF CommandUnanswered, Unwind
<1>13. CASE PublishCapture
  BY <1>13, <1>2 DEF PublishCapture, NumberShots, Register, Unwind
<1>14. CASE CollectWaited
  BY <1>14, <1>2 DEF CollectWaited, AbortForeign, StorePart, NoteFailure, Unwind
<1>15. CASE AbortWaited
  BY <1>15, <1>2 DEF AbortWaited, AbortWaitedRequest, Unwind
<1>16. CASE BeginJoin
  BY <1>16, <1>2 DEF BeginJoin
<1>17. CASE EndJoinWait
  BY <1>17, <1>2 DEF EndJoinWait
<1>18. CASE CollectJoined
  BY <1>18, <1>2 DEF CollectJoined, Advance, AbortForeign, StorePart, NoteFailure
<1>19. CASE AbortJoined
  BY <1>19, <1>2 DEF AbortJoined, NextAbort, Unwind
<1>20. CASE EndJoin
  BY <1>20, <1>2 DEF EndJoin, Unwind
<1>21. CASE CheckSafety
  BY <1>21, <1>2 DEF CheckSafety, CloseStep, Unwind
<1>22. CASE CancelHold
  BY <1>22, <1>2 DEF CancelHold, Unwind
<1>23. CASE AbortUnfinished
  BY <1>23, <1>2 DEF AbortUnfinished
<1>24. CASE StopChamber
  BY <1>24, <1>2 DEF StopChamber
<1>25. CASE ReportUnfinished
  BY <1>25, <1>2 DEF ReportUnfinished
<1>26. CASE Resume
  BY <1>26, <1>2 DEF Resume
<1>27. CASE DecideAbort
  BY <1>27, <1>2 DEF DecideAbort, NextAbort
<1>28. CASE AgentSends
  BY <1>28, <1>2 DEF AgentSends
<1>29. CASE DeliverResult
  BY <1>29, <1>2 DEF DeliverResult
<1>30. CASE DeliverAck
  BY <1>30, <1>2 DEF DeliverAck
<1>31. CASE Cancel
  BY <1>31, <1>2 DEF Cancel
<1>32. CASE RequestEmergencyStop
  BY <1>32, <1>2 DEF RequestEmergencyStop
<1>33. CASE ResetEmergencyStop
  BY <1>33, <1>2 DEF ResetEmergencyStop
<1>34. CASE UNCHANGED vars
  BY <1>34, <1>2
<1>35. QED
  BY <1>3, <1>4, <1>5, <1>6, <1>7, <1>8, <1>9, <1>10, <1>11, <1>12, <1>13, <1>14, <1>15,
     <1>16, <1>17, <1>18, <1>19, <1>20, <1>21, <1>22, <1>23, <1>24, <1>25, <1>26, <1>27,
     <1>28, <1>29, <1>30, <1>31, <1>32, <1>33, <1>34
     DEF Next, Engine, CameraStep, Operator, Environment

\* The numbers given out begin above all earlier ones of their destination.
LEMMA NumbersStep ==
  ASSUME IInv, [Next]_vars
  PROVE  NumbersInv' /\ FileNumbersDisjoint'
<1> USE DEF vars, runVars, flowVars, joinVars, captureVars, commandVars, chamberVars, skipVars,
           requestHistory, otherHistory, engineVars
<1>1. NumberTypes /\ NumbersInv /\ FileNumbersDisjoint /\ RunTypes /\ PhaseInv /\ condition \in Conditions
  BY DEF IInv, Parts, TypeOK, ChamberTypes
<1>2. ASSUME UNCHANGED <<nextNumber, ranges>>
     PROVE  NumbersInv' /\ FileNumbersDisjoint'
  BY <1>2, <1>1 DEF NumbersInv, FileNumbersDisjoint
<1>3. CASE StartRun
  BY <1>3 DEF StartRun, NumbersInv, FileNumbersDisjoint
<1>4. CASE Preflight
  BY <1>4, <1>2 DEF Preflight
<1>5. CASE BeginStep
  BY <1>5, <1>2 DEF BeginStep
<1>6. CASE Device
  BY <1>6, <1>2 DEF Device, Unwind
<1>7. CASE StartChamber
  BY <1>7, <1>2 DEF StartChamber, Unwind
<1>8. CASE SetClimate
  BY <1>8, <1>2 DEF SetClimate, Watch, Unwind
<1>9. CASE NextTarget
  BY <1>9, <1>2 DEF NextTarget, Unwind
<1>10. CASE SendCommand
  BY <1>10, <1>2 DEF SendCommand, Unwind
<1>11. CASE CommandAnswered
  BY <1>11, <1>2 DEF CommandAnswered, RecordBias, Unwind
<1>12. CASE CommandUnanswered
  BY <1>12, <1>2 DEF CommandUnanswered, Unwind
<1>13. CASE PublishCapture
  <2> DEFINE r == Request("capture")
             d == <<r.camera, condition>>
             first == FirstNumber(r, d)
             x == [by |-> r, at |-> d, first |-> first, count |-> Step.shots]
  <2>1. r.camera \in Cameras /\ r.round \in Nat \ {0}
    BY <1>13, <1>1, RequestType DEF PublishCapture, Serving, Requests
  <2>2. d \in Destinations /\ nextNumber[d] \in Nat
    BY <2>1, <1>1 DEF Destinations, NumberTypes
  <2>3. first \in Nat /\ Step.shots \in Nat /\ first >= nextNumber[d]
    BY <2>1, <2>2, <1>1, PlannedType DEF FirstNumber
  <2>4. x.at = d /\ x.first = first /\ x.count = Step.shots
    OBVIOUS
  <2>9. NumberShots(r)
    BY <1>13 DEF PublishCapture
  <2> HIDE DEF d, r, first
  <2>5. CASE UNCHANGED <<nextNumber, ranges>>
    BY <2>5, <1>2
  <2>6. CASE nextNumber' = [nextNumber EXCEPT ![d] = first + Step.shots] /\ ranges' = ranges \cup {x}
    <3> HIDE DEF x
    <3>1. \A y \in ranges : y.at \in Destinations /\ y.first \in Nat /\ y.count \in Nat
                            /\ y.first + y.count <= nextNumber[y.at]
      BY <1>1 DEF NumberTypes, NumbersInv
    <3>2. \A e \in Destinations : nextNumber'[e] = IF e = d THEN first + Step.shots ELSE nextNumber[e]
      BY <2>6, <2>2, <1>1 DEF NumberTypes
    <3>3. \A y \in ranges : y.first + y.count <= nextNumber'[y.at]
      BY <3>1, <3>2, <2>2, <2>3
    <3>4. x.first + x.count <= nextNumber'[x.at]
      BY <3>2, <2>2, <2>3, <2>4
    <3>5. \A y \in ranges : y.at = x.at => y.first + y.count <= x.first
      BY <3>1, <2>2, <2>3, <2>4
    <3>6. NumbersInv'
      BY <2>6, <3>3, <3>4 DEF NumbersInv
    <3>7. FileNumbersDisjoint'
      BY <2>6, <3>5, <1>1 DEF FileNumbersDisjoint
    <3>8. QED
      BY <3>6, <3>7
  <2>7. QED
    BY <2>9, <2>5, <2>6 DEF NumberShots, d, first, x
<1>14. CASE CollectWaited
  BY <1>14, <1>2 DEF CollectWaited, AbortForeign, StorePart, NoteFailure, Unwind
<1>15. CASE AbortWaited
  BY <1>15, <1>2 DEF AbortWaited, AbortWaitedRequest, Unwind
<1>16. CASE BeginJoin
  BY <1>16, <1>2 DEF BeginJoin
<1>17. CASE EndJoinWait
  BY <1>17, <1>2 DEF EndJoinWait
<1>18. CASE CollectJoined
  BY <1>18, <1>2 DEF CollectJoined, Advance, AbortForeign, StorePart, NoteFailure
<1>19. CASE AbortJoined
  BY <1>19, <1>2 DEF AbortJoined, NextAbort, Unwind
<1>20. CASE EndJoin
  BY <1>20, <1>2 DEF EndJoin, Unwind
<1>21. CASE CheckSafety
  BY <1>21, <1>2 DEF CheckSafety, CloseStep, Unwind
<1>22. CASE CancelHold
  BY <1>22, <1>2 DEF CancelHold, Unwind
<1>23. CASE AbortUnfinished
  BY <1>23, <1>2 DEF AbortUnfinished
<1>24. CASE StopChamber
  BY <1>24, <1>2 DEF StopChamber
<1>25. CASE ReportUnfinished
  BY <1>25, <1>2 DEF ReportUnfinished
<1>26. CASE Resume
  BY <1>26, <1>2 DEF Resume
<1>27. CASE DecideAbort
  BY <1>27, <1>2 DEF DecideAbort, NextAbort
<1>28. CASE AgentSends
  BY <1>28, <1>2 DEF AgentSends
<1>29. CASE DeliverResult
  BY <1>29, <1>2 DEF DeliverResult
<1>30. CASE DeliverAck
  BY <1>30, <1>2 DEF DeliverAck
<1>31. CASE Cancel
  BY <1>31, <1>2 DEF Cancel
<1>32. CASE RequestEmergencyStop
  BY <1>32, <1>2 DEF RequestEmergencyStop
<1>33. CASE ResetEmergencyStop
  BY <1>33, <1>2 DEF ResetEmergencyStop
<1>34. CASE UNCHANGED vars
  BY <1>34, <1>2
<1>35. QED
  BY <1>3, <1>4, <1>5, <1>6, <1>7, <1>8, <1>9, <1>10, <1>11, <1>12, <1>13, <1>14, <1>15,
     <1>16, <1>17, <1>18, <1>19, <1>20, <1>21, <1>22, <1>23, <1>24, <1>25, <1>26, <1>27,
     <1>28, <1>29, <1>30, <1>31, <1>32, <1>33, <1>34
     DEF Next, Engine, CameraStep, Operator, Environment

-------------------------------------------------------------------------------
(* Requests, batches and results.                                           *)

LEMMA AddKeeps ==
  ASSUME NEW b \in BatchType, NEW m, NEW n \in Nat
  PROVE  LET c == Add(b, m, n)
         IN /\ c.received \subseteq b.received \cup {m}
            /\ (b.done => c.done)
            /\ ((b.count >= n => b.done) => (c.count >= n => c.done))
<1>1. CASE m.kind = "foreign"
  BY <1>1 DEF Add, BatchType
<1>2. CASE m.kind # "foreign" /\ m \in b.received
  BY <1>2 DEF Add
<1>3. CASE m.kind # "foreign" /\ m \notin b.received
  <2>1. Add(b, m, n) = [received |-> b.received \cup {m}, count |-> b.count + 1, identity |-> b.identity,
                        done |-> b.done \/ b.count + 1 >= n \/ m.kind = "biasFile"]
    BY <1>3 DEF Add, BatchType
  <2> DEFINE c == Add(b, m, n)
  <2>2. c.received = b.received \cup {m} /\ c.count = b.count + 1
        /\ c.done = (b.done \/ b.count + 1 >= n \/ m.kind = "biasFile")
    BY <2>1
  <2> HIDE DEF c
  <2>3. (b.done => c.done) /\ (c.count >= n => c.done)
    BY <2>2
  <2>4. QED
    BY <2>2, <2>3 DEF c
<1>4. QED
  BY <1>1, <1>2, <1>3

LEMMA ExpectedType ==
  ASSUME RunTypes, NEW r \in Requests
  PROVE  Expected(r) \in Nat \ {0}
<1>1. r.step \in Steps
  BY DEF Requests
<1>2. QED
  BY <1>1, StepFacts DEF Expected

\* Requests, and the batches of their results, are those of the run.
LEMMA BatchStep ==
  ASSUME IInv, [Next]_vars
  PROVE  BatchInv'
<1> USE DEF vars, runVars, flowVars, joinVars, captureVars, commandVars, chamberVars, skipVars,
           requestHistory, otherHistory, engineVars, Expected
<1>1. BatchInv /\ BatchTypes /\ RunTypes /\ RequestTypes /\ PhaseInv /\ AwaitedInv /\ recipe' = recipe
  BY RecipeKept DEF IInv, Parts, TypeOK
<1>2. \A r \in DOMAIN batches : r \in published /\ r \in Requests
  BY <1>1 DEF BatchTypes, BatchInv
<1>3. published \subseteq Requests /\ aborted \subseteq published
  BY <1>1 DEF RequestTypes
<1>4. ASSUME UNCHANGED <<batches, published, aborted, sent, run>>
     PROVE  BatchInv'
  BY <1>4, <1>1 DEF BatchInv
<1>5. CASE StartRun
  BY <1>5, <1>1, <1>2, <1>3 DEF StartRun, BatchInv, CommandRequest, Request
<1>6. CASE Preflight
  BY <1>6, <1>4 DEF Preflight
<1>7. CASE BeginStep
  BY <1>7, <1>4 DEF BeginStep
<1>8. CASE Device
  BY <1>8, <1>4 DEF Device, Unwind
<1>9. CASE StartChamber
  BY <1>9, <1>4 DEF StartChamber, Unwind
<1>10. CASE SetClimate
  BY <1>10, <1>4 DEF SetClimate, Watch, Unwind
<1>11. CASE NextTarget
  BY <1>11, <1>4 DEF NextTarget, Unwind
<1>12. CASE SendCommand
  BY <1>12, <1>1, <1>2, <1>3 DEF SendCommand, Unwind, BatchInv, CommandRequest, Request
<1>13. CASE CommandAnswered
  BY <1>13, <1>4 DEF CommandAnswered, RecordBias, Unwind
<1>14. CASE CommandUnanswered
  BY <1>14, <1>1, <1>2, <1>3 DEF CommandUnanswered, Unwind, BatchInv, CommandRequest, Request
<1>15. CASE PublishCapture
  <2> DEFINE r == Request("capture")
  <2>1. r \in Requests /\ r.run = run
    BY <1>15, <1>1, RequestType DEF PublishCapture, Serving, Request
  <2>2. Expected(r) \in Nat \ {0}
    BY <2>1, <1>1, ExpectedType
  <2>6. recipe.steps[r.step].kind = "capture"
    BY <1>15, <1>1 DEF PublishCapture, PhaseInv, Request, Step
  <2> HIDE DEF r
  <2>3. CASE Register(r) /\ aborted' = aborted
    <3>1. DOMAIN batches' = DOMAIN batches \cup {r} /\ batches'[r] = EmptyBatch
          /\ \A q \in DOMAIN batches : q /= r => batches'[q] = batches[q]
      BY <2>3 DEF Register
    <3>2. EmptyBatch.received = {} /\ ~(EmptyBatch.count >= Expected(r))
      BY <2>2 DEF EmptyBatch
    <3>3. published' = published \cup {r} /\ UNCHANGED <<sent, run>>
      BY <1>15, <2>3 DEF PublishCapture, Register
    <3>4. QED
      BY <2>1, <2>3, <2>6, <3>1, <3>2, <3>3, <1>1 DEF BatchInv
  <2>4. CASE /\ published' \in {published, published \cup {r}} /\ UNCHANGED <<batches, sent, run>>
             /\ aborted \subseteq aborted' /\ (published' = published \/ r \in aborted')
    BY <2>1, <2>4, <1>1 DEF BatchInv
  <2>5. QED
    BY <1>15, <2>3, <2>4 DEF PublishCapture, r
<1>16. CASE CollectWaited
  BY <1>16, <1>1, <1>2, <1>3
     DEF CollectWaited, AbortForeign, StorePart, NoteFailure, Unwind, BatchInv, CommandRequest,
         Request
<1>17. CASE AbortWaited
  BY <1>17, <1>1, <1>2, <1>3
     DEF AbortWaited, AbortWaitedRequest, Unwind, BatchInv, CommandRequest, Request
<1>18. CASE BeginJoin
  BY <1>18, <1>4 DEF BeginJoin
<1>19. CASE EndJoinWait
  BY <1>19, <1>4 DEF EndJoinWait
<1>20. CASE CollectJoined
  BY <1>20, <1>1, <1>2, <1>3
     DEF CollectJoined, Advance, AbortForeign, StorePart, NoteFailure, BatchInv, CommandRequest,
         Request
<1>21. CASE AbortJoined
  BY <1>21, <1>1, <1>2, <1>3
     DEF AbortJoined, NextAbort, Unwind, BatchInv, CommandRequest, Request
<1>22. CASE EndJoin
  BY <1>22, <1>4 DEF EndJoin, Unwind
<1>23. CASE CheckSafety
  BY <1>23, <1>4 DEF CheckSafety, CloseStep, Unwind
<1>24. CASE CancelHold
  BY <1>24, <1>4 DEF CancelHold, Unwind
<1>25. CASE AbortUnfinished
  BY <1>25, <1>1, <1>2, <1>3 DEF AbortUnfinished, BatchInv, CommandRequest, Request
<1>26. CASE StopChamber
  BY <1>26, <1>4 DEF StopChamber
<1>27. CASE ReportUnfinished
  BY <1>27, <1>4 DEF ReportUnfinished
<1>28. CASE Resume
  BY <1>28, <1>4 DEF Resume
<1>29. CASE DecideAbort
  BY <1>29, <1>4 DEF DecideAbort, NextAbort
<1>30. CASE AgentSends
  <2>1. sent \subseteq sent' /\ UNCHANGED <<batches, published, aborted, run>>
    BY <1>30 DEF AgentSends
  <2>2. QED
    BY <2>1, <1>1 DEF BatchInv
<1>31. CASE DeliverResult
  <2>1. PICK m \in sent : /\ m.key \in waiters
                          /\ batches' = [batches EXCEPT ![m.key] = Add(batches[m.key], m, Expected(m.key))]
    BY <1>31 DEF DeliverResult
  <2>2. m.key \in DOMAIN batches /\ m.key \in Requests
    BY <2>1, <1>1, <1>2 DEF BatchTypes
  <2>3. Expected(m.key) \in Nat /\ batches[m.key] \in BatchType
    BY <2>2, <1>1, ExpectedType DEF BatchTypes
  <2> DEFINE b == Add(batches[m.key], m, Expected(m.key))
  <2>4. /\ b.received \subseteq batches[m.key].received \cup {m}
        /\ ((batches[m.key].count >= Expected(m.key) => batches[m.key].done) => (b.count >= Expected(m.key) => b.done))
    BY <2>3, AddKeeps
  <2> HIDE DEF b
  <2>5. DOMAIN batches' = DOMAIN batches /\ batches'[m.key] = b /\ \A q \in DOMAIN batches : q /= m.key => batches'[q] = batches[q]
    BY <2>1, <2>2 DEF b
  <2>6. UNCHANGED <<published, aborted, sent, run>>
    BY <1>31 DEF DeliverResult
  <2>7. \A q \in DOMAIN batches : batches'[q].received \subseteq {n \in sent : n.key = q}
    <3>1. \A q \in DOMAIN batches : batches[q].received \subseteq {n \in sent : n.key = q}
      BY <1>1 DEF BatchInv
    <3>2. QED
      BY <2>1, <2>2, <2>4, <2>5, <3>1
  <2>8. \A q \in DOMAIN batches : batches'[q].count >= Expected(q) => batches'[q].done
    BY <2>2, <2>4, <2>5, <1>1 DEF BatchInv
  <2>9. QED
    BY <2>5, <2>6, <2>7, <2>8, <1>1 DEF BatchInv
<1>32. CASE DeliverAck
  BY <1>32, <1>4 DEF DeliverAck
<1>33. CASE Cancel
  BY <1>33, <1>4 DEF Cancel
<1>34. CASE RequestEmergencyStop
  BY <1>34, <1>4 DEF RequestEmergencyStop
<1>35. CASE ResetEmergencyStop
  BY <1>35, <1>4 DEF ResetEmergencyStop
<1>36. CASE UNCHANGED vars
  BY <1>36, <1>4
<1>37. QED
  BY <1>5, <1>6, <1>7, <1>8, <1>9, <1>10, <1>11, <1>12, <1>13, <1>14, <1>15, <1>16, <1>17,
     <1>18, <1>19, <1>20, <1>21, <1>22, <1>23, <1>24, <1>25, <1>26, <1>27, <1>28, <1>29,
     <1>30, <1>31, <1>32, <1>33, <1>34, <1>35, <1>36
     DEF Next, Engine, CameraStep, Operator, Environment

\* What is waited for was published.
LEMMA AwaitedStep ==
  ASSUME IInv, [Next]_vars
  PROVE  AwaitedInv'
<1> USE DEF vars, runVars, flowVars, joinVars, captureVars, commandVars, chamberVars, skipVars,
           requestHistory, otherHistory, engineVars, CommandRequest, Request, Camera, Step
<1>1. AwaitedInv /\ RunTypes /\ recipe' = recipe
  BY RecipeKept DEF IInv, Parts, TypeOK
<1>2. Step.kind \in Kinds
  BY <1>1, StepFacts DEF RunTypes
<1>3. CASE StartRun
  BY <1>3, <1>1, <1>2 DEF StartRun, AwaitedInv
<1>4. CASE Preflight
  BY <1>4, <1>1, <1>2 DEF Preflight, AwaitedInv
<1>5. CASE BeginStep
  <2>1. pc' \notin {"answer", "capture"}
    BY <1>5, <1>2 DEF BeginStep, Kinds, Quantities
  <2>2. QED
    BY <2>1 DEF AwaitedInv
<1>6. CASE Device
  BY <1>6, <1>1, <1>2 DEF Device, Unwind, AwaitedInv
<1>7. CASE StartChamber
  BY <1>7, <1>1, <1>2 DEF StartChamber, Unwind, AwaitedInv
<1>8. CASE SetClimate
  BY <1>8, <1>1, <1>2 DEF SetClimate, Watch, Unwind, AwaitedInv
<1>9. CASE NextTarget
  BY <1>9, <1>1, <1>2 DEF NextTarget, Unwind, AwaitedInv
<1>10. CASE SendCommand
  BY <1>10, <1>1, <1>2 DEF SendCommand, Unwind, AwaitedInv
<1>11. CASE CommandAnswered
  BY <1>11, <1>1, <1>2 DEF CommandAnswered, RecordBias, Unwind, AwaitedInv
<1>12. CASE CommandUnanswered
  BY <1>12, <1>1, <1>2 DEF CommandUnanswered, Unwind, AwaitedInv
<1>13. CASE PublishCapture
  <2>1. pc' \notin {"answer", "capture"} \/ (pc' = "capture" /\ Register(Request("capture")) /\ turn' = turn)
    BY <1>13 DEF PublishCapture, Unwind
  <2>2. UNCHANGED <<at, run>>
    BY <1>13 DEF PublishCapture
  <2>3. QED
    BY <2>1, <2>2, <1>1 DEF AwaitedInv, Register
<1>14. CASE CollectWaited
  BY <1>14, <1>1, <1>2
     DEF CollectWaited, AbortForeign, StorePart, NoteFailure, Unwind, AwaitedInv
<1>15. CASE AbortWaited
  BY <1>15, <1>1, <1>2 DEF AbortWaited, AbortWaitedRequest, Unwind, AwaitedInv
<1>16. CASE BeginJoin
  BY <1>16, <1>1, <1>2 DEF BeginJoin, AwaitedInv
<1>17. CASE EndJoinWait
  BY <1>17, <1>1, <1>2 DEF EndJoinWait, AwaitedInv
<1>18. CASE CollectJoined
  BY <1>18, <1>1, <1>2
     DEF CollectJoined, Advance, AbortForeign, StorePart, NoteFailure, AwaitedInv
<1>19. CASE AbortJoined
  BY <1>19, <1>1, <1>2 DEF AbortJoined, NextAbort, Unwind, AwaitedInv
<1>20. CASE EndJoin
  BY <1>20, <1>1, <1>2 DEF EndJoin, Unwind, AwaitedInv
<1>21. CASE CheckSafety
  BY <1>21, <1>1, <1>2 DEF CheckSafety, CloseStep, Unwind, AwaitedInv
<1>22. CASE CancelHold
  BY <1>22, <1>1, <1>2 DEF CancelHold, Unwind, AwaitedInv
<1>23. CASE AbortUnfinished
  BY <1>23, <1>1, <1>2 DEF AbortUnfinished, AwaitedInv
<1>24. CASE StopChamber
  BY <1>24, <1>1, <1>2 DEF StopChamber, AwaitedInv
<1>25. CASE ReportUnfinished
  BY <1>25, <1>1, <1>2 DEF ReportUnfinished, AwaitedInv
<1>26. CASE Resume
  BY <1>26, <1>1, <1>2 DEF Resume, AwaitedInv
<1>27. CASE DecideAbort
  BY <1>27, <1>1, <1>2 DEF DecideAbort, NextAbort, AwaitedInv
<1>28. CASE AgentSends
  BY <1>28, <1>1, <1>2 DEF AgentSends, AwaitedInv
<1>29. CASE DeliverResult
  <2>1. DOMAIN batches' = DOMAIN batches /\ UNCHANGED <<pc, published, at, turn, run>>
    BY <1>29 DEF DeliverResult
  <2>2. QED
    BY <2>1, <1>1 DEF AwaitedInv
<1>30. CASE DeliverAck
  BY <1>30, <1>1, <1>2 DEF DeliverAck, AwaitedInv
<1>31. CASE Cancel
  BY <1>31, <1>1, <1>2 DEF Cancel, AwaitedInv
<1>32. CASE RequestEmergencyStop
  BY <1>32, <1>1, <1>2 DEF RequestEmergencyStop, AwaitedInv
<1>33. CASE ResetEmergencyStop
  BY <1>33, <1>1, <1>2 DEF ResetEmergencyStop, AwaitedInv
<1>34. CASE UNCHANGED vars
  BY <1>34, <1>1, <1>2 DEF AwaitedInv
<1>35. QED
  BY <1>3, <1>4, <1>5, <1>6, <1>7, <1>8, <1>9, <1>10, <1>11, <1>12, <1>13, <1>14, <1>15,
     <1>16, <1>17, <1>18, <1>19, <1>20, <1>21, <1>22, <1>23, <1>24, <1>25, <1>26, <1>27,
     <1>28, <1>29, <1>30, <1>31, <1>32, <1>33, <1>34
     DEF Next, Engine, CameraStep, Operator, Environment

\* Results are of the run their request was made in, and stored in it.
LEMMA SentStep ==
  ASSUME IInv, [Next]_vars
  PROVE  SentInv'
<1> USE DEF vars, runVars, flowVars, joinVars, captureVars, commandVars, chamberVars, skipVars,
           requestHistory, otherHistory, engineVars, Expected
<1>1. SentInv /\ BatchInv /\ RequestTypes /\ BatchTypes /\ AwaitedInv /\ RunTypes /\ recipe' = recipe
  BY RecipeKept DEF IInv, Parts, TypeOK
<1>2. \A r \in DOMAIN batches : Successes(r) \subseteq {m \in sent : m.key.run = run}
  BY <1>1 DEF Successes, BatchInv
<1>3. ASSUME UNCHANGED <<sent, stored, run>>
     PROVE  SentInv'
  BY <1>3, <1>1 DEF SentInv
<1>4. CASE StartRun
  BY <1>4, <1>1 DEF StartRun, SentInv
<1>5. CASE Preflight
  BY <1>5, <1>3 DEF Preflight
<1>6. CASE BeginStep
  BY <1>6, <1>3 DEF BeginStep
<1>7. CASE Device
  BY <1>7, <1>3 DEF Device, Unwind
<1>8. CASE StartChamber
  BY <1>8, <1>3 DEF StartChamber, Unwind
<1>9. CASE SetClimate
  BY <1>9, <1>3 DEF SetClimate, Watch, Unwind
<1>10. CASE NextTarget
  BY <1>10, <1>3 DEF NextTarget, Unwind
<1>11. CASE SendCommand
  BY <1>11, <1>3 DEF SendCommand, Unwind
<1>12. CASE CommandAnswered
  BY <1>12, <1>3 DEF CommandAnswered, RecordBias, Unwind
<1>13. CASE CommandUnanswered
  BY <1>13, <1>3 DEF CommandUnanswered, Unwind
<1>14. CASE PublishCapture
  BY <1>14, <1>3 DEF PublishCapture, NumberShots, Register, Unwind
<1>15. CASE CollectWaited
  <2>1. Successes(Request("capture")) \subseteq {m \in sent : m.key.run = run}
    BY <1>15, <1>1, <1>2 DEF CollectWaited, AwaitedInv
  <2>2. UNCHANGED <<sent, run>> /\ stored' \subseteq stored \cup Successes(Request("capture"))
    BY <1>15 DEF CollectWaited, AbortForeign, StorePart, NoteFailure, Unwind
  <2>3. QED
    BY <2>1, <2>2, <1>1 DEF SentInv
<1>16. CASE AbortWaited
  BY <1>16, <1>3 DEF AbortWaited, AbortWaitedRequest, Unwind
<1>17. CASE BeginJoin
  BY <1>17, <1>3 DEF BeginJoin
<1>18. CASE EndJoinWait
  BY <1>18, <1>3 DEF EndJoinWait
<1>19. CASE CollectJoined
  <2>1. Successes(joining[cursor]) \subseteq {m \in sent : m.key.run = run}
    BY <1>19, <1>2, JoinedItem DEF CollectJoined
  <2>2. UNCHANGED <<sent, run>> /\ stored' \subseteq stored \cup Successes(joining[cursor])
    BY <1>19 DEF CollectJoined, Advance, AbortForeign, StorePart, NoteFailure
  <2>3. QED
    BY <2>1, <2>2, <1>1 DEF SentInv
<1>20. CASE AbortJoined
  BY <1>20, <1>3 DEF AbortJoined, NextAbort, Unwind
<1>21. CASE EndJoin
  BY <1>21, <1>3 DEF EndJoin, Unwind
<1>22. CASE CheckSafety
  BY <1>22, <1>3 DEF CheckSafety, CloseStep, Unwind
<1>23. CASE CancelHold
  BY <1>23, <1>3 DEF CancelHold, Unwind
<1>24. CASE AbortUnfinished
  BY <1>24, <1>3 DEF AbortUnfinished
<1>25. CASE StopChamber
  BY <1>25, <1>3 DEF StopChamber
<1>26. CASE ReportUnfinished
  BY <1>26, <1>3 DEF ReportUnfinished
<1>27. CASE Resume
  BY <1>27, <1>3 DEF Resume
<1>28. CASE DecideAbort
  BY <1>28, <1>3 DEF DecideAbort, NextAbort
<1>29. CASE AgentSends
  <2>1. PICK r \in published, kind \in ResultKinds : \E id \in 1..Expected(r) :
               /\ ~\E m \in sent : m.key = r /\ m.origin = run /\ m.id = id
               /\ sent' = sent \cup {[key |-> r, id |-> id, kind |-> kind, origin |-> run]}
    BY <1>29 DEF AgentSends
  <2>2. PICK id \in 1..Expected(r) :
               /\ ~\E m \in sent : m.key = r /\ m.origin = run /\ m.id = id
               /\ sent' = sent \cup {[key |-> r, id |-> id, kind |-> kind, origin |-> run]}
    BY <2>1
  <2>3. r.run = run /\ UNCHANGED <<stored, run>>
    BY <1>29, <2>1, <1>1 DEF AgentSends, BatchInv
  <2>4. \A m \in sent : m.key = r => m.origin = run
    BY <2>3, <1>1 DEF SentInv
  <2> DEFINE new == [key |-> r, id |-> id, kind |-> kind, origin |-> run]
  <2>5. new.key = r /\ new.id = id /\ new.origin = run
    OBVIOUS
  <2> HIDE DEF new
  <2>6. \A m \in sent : ~(m.key = new.key /\ m.id = new.id)
    BY <2>2, <2>4, <2>5
  <2>7. sent' = sent \cup {new}
    BY <2>2 DEF new
  <2>8. \A m \in sent' : m.origin = m.key.run /\ m.id \in 1..Expected(m.key)
    BY <2>2, <2>3, <2>5, <2>7, <1>1 DEF SentInv
  <2>9. \A m, n \in sent' : m.key = n.key /\ m.id = n.id => m = n
    BY <2>6, <2>7, <1>1 DEF SentInv
  <2>10. QED
    BY <2>3, <2>7, <2>8, <2>9, <1>1 DEF SentInv
<1>30. CASE DeliverResult
  BY <1>30, <1>3 DEF DeliverResult
<1>31. CASE DeliverAck
  BY <1>31, <1>3 DEF DeliverAck
<1>32. CASE Cancel
  BY <1>32, <1>3 DEF Cancel
<1>33. CASE RequestEmergencyStop
  BY <1>33, <1>3 DEF RequestEmergencyStop
<1>34. CASE ResetEmergencyStop
  BY <1>34, <1>3 DEF ResetEmergencyStop
<1>35. CASE UNCHANGED vars
  BY <1>35, <1>3
<1>36. QED
  BY <1>4, <1>5, <1>6, <1>7, <1>8, <1>9, <1>10, <1>11, <1>12, <1>13, <1>14, <1>15, <1>16,
     <1>17, <1>18, <1>19, <1>20, <1>21, <1>22, <1>23, <1>24, <1>25, <1>26, <1>27, <1>28,
     <1>29, <1>30, <1>31, <1>32, <1>33, <1>34, <1>35
     DEF Next, Engine, CameraStep, Operator, Environment

\* No required capture, and no forked one at the end of the run, is left.
LEMMA UnjoinedStep ==
  ASSUME IInv, [Next]_vars
  PROVE  UnjoinedInv'
<1> USE DEF vars, runVars, flowVars, joinVars, captureVars, commandVars, chamberVars, skipVars,
           requestHistory, otherHistory, engineVars
<1>1. TypeOK /\ UnjoinedInv /\ BatchInv /\ RequestTypes /\ BatchTypes /\ JoinTypes /\ AwaitedInv /\ PhaseInv /\ RunTypes /\ recipe' = recipe
  BY RecipeKept DEF IInv, Parts, TypeOK
<1>2. \A k \in DOMAIN pending : pending[k] \in DOMAIN batches
  BY <1>1, LenProperties, ElementOfSeq DEF JoinTypes
<1>3. Step.kind \in Kinds
  BY <1>1, StepFacts DEF RunTypes, Step
<1>4. pending = <<>> => DOMAIN pending = {}
  OBVIOUS
<1>5. CASE StartRun
  BY <1>5, <1>1, <1>2, <1>3, <1>4
     DEF StartRun, UnjoinedInv, Request, Camera, Step, Over, CommandRequest, PhaseInv
<1>6. CASE Preflight
  BY <1>6, <1>1, <1>2, <1>3, <1>4
     DEF Preflight, UnjoinedInv, Request, Camera, Step, Over, CommandRequest, PhaseInv
<1>7. CASE BeginStep
  <2>1. pc' \notin Over \cup {"capture"} /\ pc = "step"
    BY <1>7, <1>3 DEF BeginStep, Kinds, Quantities, Over
  <2>2. UNCHANGED <<published, aborted, batches, recipe>>
    BY <1>7 DEF BeginStep
  <2>3. QED
    BY <2>1, <2>2, <1>1 DEF UnjoinedInv
<1>8. CASE Device
  BY <1>8, <1>1, <1>2, <1>3, <1>4
     DEF Device, Unwind, UnjoinedInv, Request, Camera, Step, Over, CommandRequest, PhaseInv
<1>9. CASE StartChamber
  BY <1>9, <1>1, <1>2, <1>3, <1>4
     DEF StartChamber, Unwind, UnjoinedInv, Request, Camera, Step, Over, CommandRequest,
         PhaseInv
<1>10. CASE SetClimate
  BY <1>10, <1>1, <1>2, <1>3, <1>4
     DEF SetClimate, Watch, Unwind, UnjoinedInv, Request, Camera, Step, Over, CommandRequest,
         PhaseInv
<1>11. CASE NextTarget
  BY <1>11, <1>1, <1>2, <1>3, <1>4
     DEF NextTarget, Unwind, UnjoinedInv, Request, Camera, Step, Over, CommandRequest, PhaseInv
<1>12. CASE SendCommand
  BY <1>12, <1>1, <1>2, <1>3, <1>4
     DEF SendCommand, Unwind, UnjoinedInv, Request, Camera, Step, Over, CommandRequest, PhaseInv
<1>13. CASE CommandAnswered
  BY <1>13, <1>1, <1>2, <1>3, <1>4
     DEF CommandAnswered, RecordBias, Unwind, UnjoinedInv, Request, Camera, Step, Over,
         CommandRequest, PhaseInv
<1>14. CASE CommandUnanswered
  BY <1>14, <1>1, <1>2, <1>3, <1>4
     DEF CommandUnanswered, Unwind, UnjoinedInv, Request, Camera, Step, Over, CommandRequest,
         PhaseInv
<1>15. CASE PublishCapture
  <2> DEFINE r == Request("capture")
  <2>1. pc = "publish" /\ pc' \in {"unwind", "target", "capture"} /\ UNCHANGED <<at, run>>
    BY <1>15 DEF PublishCapture, Unwind
  <2>2. recipe.steps[r.step] = Step
    BY DEF Request, Step
  <2>3. \A q \in published : q.op = "capture" /\ recipe.steps[q.step].production => q \in aborted \/ batches[q].done
    BY <2>1, <1>1 DEF UnjoinedInv
  <2>4. pc' = "capture" => r = Request("capture")'
    BY <1>15 DEF PublishCapture, Request, Camera, Step, Unwind
  <2>5. CASE Register(r) /\ aborted' = aborted /\ (pc' = "capture" \/ ~Step.production)
    <3>1. published' = published \cup {r} /\ \A q \in DOMAIN batches : q /= r => batches'[q] = batches[q]
      BY <2>5 DEF Register
    <3>2. \A q \in published : q.op = "capture" => q \in aborted \/ q \in DOMAIN batches
      BY <1>1 DEF BatchInv
    <3> HIDE DEF r
    <3>3. \A q \in published' : q.op = "capture" /\ recipe.steps[q.step].production
            => q \in aborted \/ batches'[q].done \/ (pc' = "capture" /\ q = r)
      BY <2>2, <2>3, <2>5, <3>1, <3>2
    <3>4. QED
      BY <2>1, <2>4, <2>5, <3>3, <1>1 DEF UnjoinedInv, Over
  <2>6. CASE /\ published' \in {published, published \cup {r}} /\ batches' = batches
             /\ aborted \subseteq aborted' /\ (published' = published \/ r \in aborted')
    <3> HIDE DEF r
    <3>1. QED
      BY <2>1, <2>3, <2>6, <1>1 DEF UnjoinedInv, Over
  <2>7. QED
    BY <1>15, <2>5, <2>6 DEF PublishCapture
<1>16. CASE CollectWaited
  <2> DEFINE r == Request("capture")
  <2>1. (batches[r].done \/ ~Step.production) /\ pc' \in {"unwind", "target"}
    BY <1>16 DEF CollectWaited, AbortForeign, StorePart, NoteFailure, Unwind
  <2>2. aborted \subseteq aborted' /\ UNCHANGED <<published, batches>>
    BY <1>16 DEF CollectWaited, AbortForeign, StorePart, NoteFailure, Unwind
  <2>3. recipe.steps[r.step] = Step
    BY DEF Request, Step
  <2> HIDE DEF r
  <2>4. \A q \in published : q.op = "capture" /\ recipe.steps[q.step].production => q \in aborted \/ batches[q].done \/ q = r
    BY <1>1 DEF UnjoinedInv, r
  <2>5. QED
    BY <2>1, <2>2, <2>3, <2>4, <1>1 DEF UnjoinedInv, Over
<1>17. CASE AbortWaited
  BY <1>17, <1>1, <1>2, <1>3, <1>4
     DEF AbortWaited, AbortWaitedRequest, Unwind, UnjoinedInv, Request, Camera, Step, Over,
         CommandRequest, PhaseInv
<1>18. CASE BeginJoin
  BY <1>18, <1>1, <1>2, <1>3, <1>4
     DEF BeginJoin, UnjoinedInv, Request, Camera, Step, Over, CommandRequest, PhaseInv
<1>19. CASE EndJoinWait
  BY <1>19, <1>1, <1>2, <1>3, <1>4
     DEF EndJoinWait, UnjoinedInv, Request, Camera, Step, Over, CommandRequest, PhaseInv
<1>20. CASE CollectJoined
  BY <1>20, <1>1, <1>2, <1>3, <1>4
     DEF CollectJoined, Advance, AbortForeign, StorePart, NoteFailure, UnjoinedInv, Request,
         Camera, Step, Over, CommandRequest, PhaseInv
<1>21. CASE AbortJoined
  BY <1>21, <1>1, <1>2, <1>3, <1>4
     DEF AbortJoined, NextAbort, Unwind, UnjoinedInv, Request, Camera, Step, Over,
         CommandRequest, PhaseInv
<1>22. CASE EndJoin
  BY <1>22, <1>1, <1>2, <1>3, <1>4
     DEF EndJoin, Unwind, UnjoinedInv, Request, Camera, Step, Over, CommandRequest, PhaseInv
<1>23. CASE CheckSafety
  BY <1>23, <1>1, <1>2, <1>3, <1>4
     DEF CheckSafety, CloseStep, Unwind, UnjoinedInv, Request, Camera, Step, Over,
         CommandRequest, PhaseInv
<1>24. CASE CancelHold
  BY <1>24, <1>1, <1>2, <1>3, <1>4
     DEF CancelHold, Unwind, UnjoinedInv, Request, Camera, Step, Over, CommandRequest, PhaseInv
<1>25. CASE AbortUnfinished
  <2>1. \A k \in DOMAIN pending : batches[pending[k]].done \/ pending[k] \in Unfinished
    <3>1. SUFFICES ASSUME NEW k \in DOMAIN pending, pending[k] \notin Unfinished PROVE batches[pending[k]].done
      OBVIOUS
    <3>2. batches[pending[k]].count \in Nat /\ Expected(pending[k]) \in Nat
      BY <1>1, <1>2, ExpectedType DEF BatchTypes, BatchType
    <3>3. ~(batches[pending[k]].count < Expected(pending[k]))
      BY <3>1 DEF Unfinished
    <3>4. QED
      BY <3>2, <3>3, <1>1, <1>2 DEF BatchInv
  <2>2. aborted' = aborted \cup Unfinished /\ UNCHANGED <<published, batches, pending>> /\ pc = "unwind"
    BY <1>25 DEF AbortUnfinished
  <2>3. QED
    BY <2>1, <2>2, <1>1 DEF UnjoinedInv
<1>26. CASE StopChamber
  BY <1>26, <1>1, <1>2, <1>3, <1>4
     DEF StopChamber, UnjoinedInv, Request, Camera, Step, Over, CommandRequest, PhaseInv
<1>27. CASE ReportUnfinished
  BY <1>27, <1>1, <1>2, <1>3, <1>4
     DEF ReportUnfinished, UnjoinedInv, Request, Camera, Step, Over, CommandRequest, PhaseInv
<1>28. CASE Resume
  BY <1>28, <1>1, <1>2, <1>3, <1>4
     DEF Resume, UnjoinedInv, Request, Camera, Step, Over, CommandRequest, PhaseInv
<1>29. CASE DecideAbort
  BY <1>29, <1>1, <1>2, <1>3, <1>4
     DEF DecideAbort, NextAbort, UnjoinedInv, Request, Camera, Step, Over, CommandRequest,
         PhaseInv
<1>30. CASE AgentSends
  BY <1>30, <1>1, <1>2, <1>3, <1>4
     DEF AgentSends, UnjoinedInv, Request, Camera, Step, Over, CommandRequest, PhaseInv
<1>31. CASE DeliverResult
  <2>1. PICK m \in sent : /\ m.key \in waiters
                          /\ batches' = [batches EXCEPT ![m.key] = Add(batches[m.key], m, Expected(m.key))]
    BY <1>31 DEF DeliverResult
  <2>2. m.key \in DOMAIN batches /\ m.key \in Requests
    BY <2>1, <1>1 DEF BatchTypes
  <2>3. Expected(m.key) \in Nat /\ batches[m.key] \in BatchType
    BY <2>2, <1>1, ExpectedType DEF BatchTypes
  <2>4. \A q \in DOMAIN batches : batches[q].done => batches'[q].done
    BY <2>1, <2>2, <2>3, AddKeeps
  <2>5. \A q \in published : q.op = "capture" => q \in aborted \/ q \in DOMAIN batches
    BY <1>1 DEF BatchInv
  <2>6. UNCHANGED <<published, aborted, pending, pc, at, run, turn>>
    BY <1>31 DEF DeliverResult
  <2>7. \A q \in published : q.op = "capture" /\ recipe.steps[q.step].production
          => q \in aborted \/ batches'[q].done \/ (pc = "capture" /\ q = Request("capture"))
    BY <2>4, <2>5, <1>1 DEF UnjoinedInv
  <2>8. pc \in Over => \A k \in DOMAIN pending : pending[k] \in aborted \/ batches'[pending[k]].done
    BY <2>4, <1>1, <1>2 DEF UnjoinedInv
  <2>9. QED
    BY <2>6, <2>7, <2>8, <1>1 DEF UnjoinedInv, Request, Camera, Step
<1>32. CASE DeliverAck
  BY <1>32, <1>1, <1>2, <1>3, <1>4
     DEF DeliverAck, UnjoinedInv, Request, Camera, Step, Over, CommandRequest, PhaseInv
<1>33. CASE Cancel
  BY <1>33, <1>1, <1>2, <1>3, <1>4
     DEF Cancel, UnjoinedInv, Request, Camera, Step, Over, CommandRequest, PhaseInv
<1>34. CASE RequestEmergencyStop
  BY <1>34, <1>1, <1>2, <1>3, <1>4
     DEF RequestEmergencyStop, UnjoinedInv, Request, Camera, Step, Over, CommandRequest,
         PhaseInv
<1>35. CASE ResetEmergencyStop
  BY <1>35, <1>1, <1>2, <1>3, <1>4
     DEF ResetEmergencyStop, UnjoinedInv, Request, Camera, Step, Over, CommandRequest, PhaseInv
<1>36. CASE UNCHANGED vars
  BY <1>36, <1>1, <1>2, <1>3, <1>4
     DEF UnjoinedInv, Request, Camera, Step, Over, CommandRequest, PhaseInv
<1>37. QED
  BY <1>5, <1>6, <1>7, <1>8, <1>9, <1>10, <1>11, <1>12, <1>13, <1>14, <1>15, <1>16, <1>17,
     <1>18, <1>19, <1>20, <1>21, <1>22, <1>23, <1>24, <1>25, <1>26, <1>27, <1>28, <1>29,
     <1>30, <1>31, <1>32, <1>33, <1>34, <1>35, <1>36
     DEF Next, Engine, CameraStep, Operator, Environment

-------------------------------------------------------------------------------
(* The steps and their receipts.                                            *)

LEMMA ExecFlags ==
  ASSUME NEW e \in ExecType, NEW d \in {Failed(e), Skipped(e)}
  PROVE  d.started = e.started /\ d.finished = e.finished /\ d.dispatched = e.dispatched /\ d.pending = e.pending
BY DEF ExecType, Failed, Skipped

\* Most actions set at most the outcome of the step in execution.
SetsOutcome ==
  exec' \in {exec, [exec EXCEPT ![at] = Failed(exec[at])], [exec EXCEPT ![at] = Skipped(exec[at])]}

\* What most actions leave of the steps: no step but the one in execution changes, and
\* of that one only the outcome.
OutcomeOnly ==
  /\ \A s \in Steps : s # at => exec'[s] = exec[s]
  /\ exec'[at].started = exec[at].started /\ exec'[at].finished = exec[at].finished
  /\ exec'[at].dispatched = exec[at].dispatched /\ exec'[at].pending = exec[at].pending

\* A run that is not left in the step has no outcome yet.
LeavesOrStays ==
  IF pc' = "unwind" THEN outcome' \in {"cancelled", "ng", "error"} ELSE outcome' = outcome

WithinStep ==
  /\ pc \in InStep \cup Checking /\ pc' \in InStep \cup Checking \cup {"unwind"}
  /\ UNCHANGED <<recipe, at, receipts, failures>> /\ LeavesOrStays
  /\ OutcomeOnly

LEMMA OutcomeChanges ==
  ASSUME RunTypes, StepTypes, SetsOutcome
  PROVE  OutcomeOnly
<1>1. at \in Steps /\ exec \in [Steps -> ExecType] /\ exec[at] \in ExecType
  BY DEF RunTypes, StepTypes
<1>2. QED
  BY <1>1, ExecFlags DEF OutcomeOnly, SetsOutcome

\* The actions of a step in execution, but for those that count or close steps.
LEMMA StepActions ==
  ASSUME IInv,
         \/ Device \/ StartChamber \/ SetClimate \/ NextTarget \/ SendCommand
         \/ CommandAnswered \/ CommandUnanswered \/ CollectWaited \/ AbortWaited
         \/ BeginJoin \/ EndJoinWait \/ AbortJoined \/ EndJoin
         \/ CancelHold \/ Resume \/ DecideAbort
  PROVE  WithinStep
<1> USE DEF vars, runVars, flowVars, joinVars, captureVars, commandVars, chamberVars, skipVars,
           requestHistory, otherHistory, engineVars, InStep, Checking, Serving, Joining
<1>1. RunTypes /\ StepTypes
  BY DEF IInv, TypeOK
<1>2. CASE Device
  <2>1. SetsOutcome
    BY <1>2 DEF Device, Unwind, SetsOutcome
  <2>2. /\ pc \in InStep \cup Checking /\ pc' \in InStep \cup Checking \cup {"unwind"}
        /\ UNCHANGED <<recipe, at, receipts, failures>> /\ LeavesOrStays
    BY <1>2 DEF Device, Unwind, LeavesOrStays
  <2>3. QED
    BY <2>1, <2>2, <1>1, OutcomeChanges DEF WithinStep
<1>3. CASE StartChamber
  <2>1. SetsOutcome
    BY <1>3 DEF StartChamber, Unwind, SetsOutcome
  <2>2. /\ pc \in InStep \cup Checking /\ pc' \in InStep \cup Checking \cup {"unwind"}
        /\ UNCHANGED <<recipe, at, receipts, failures>> /\ LeavesOrStays
    BY <1>3 DEF StartChamber, Unwind, LeavesOrStays
  <2>3. QED
    BY <2>1, <2>2, <1>1, OutcomeChanges DEF WithinStep
<1>4. CASE SetClimate
  <2>1. SetsOutcome
    BY <1>4 DEF SetClimate, Watch, Unwind, SetsOutcome
  <2>2. /\ pc \in InStep \cup Checking /\ pc' \in InStep \cup Checking \cup {"unwind"}
        /\ UNCHANGED <<recipe, at, receipts, failures>> /\ LeavesOrStays
    BY <1>4 DEF SetClimate, Watch, Unwind, LeavesOrStays
  <2>3. QED
    BY <2>1, <2>2, <1>1, OutcomeChanges DEF WithinStep
<1>5. CASE NextTarget
  <2>1. SetsOutcome
    BY <1>5 DEF NextTarget, Unwind, SetsOutcome
  <2>2. /\ pc \in InStep \cup Checking /\ pc' \in InStep \cup Checking \cup {"unwind"}
        /\ UNCHANGED <<recipe, at, receipts, failures>> /\ LeavesOrStays
    BY <1>5 DEF NextTarget, Unwind, LeavesOrStays
  <2>3. QED
    BY <2>1, <2>2, <1>1, OutcomeChanges DEF WithinStep
<1>6. CASE SendCommand
  <2>1. SetsOutcome
    BY <1>6 DEF SendCommand, Unwind, SetsOutcome
  <2>2. /\ pc \in InStep \cup Checking /\ pc' \in InStep \cup Checking \cup {"unwind"}
        /\ UNCHANGED <<recipe, at, receipts, failures>> /\ LeavesOrStays
    BY <1>6 DEF SendCommand, Unwind, LeavesOrStays
  <2>3. QED
    BY <2>1, <2>2, <1>1, OutcomeChanges DEF WithinStep
<1>7. CASE CommandAnswered
  <2>1. SetsOutcome
    BY <1>7 DEF CommandAnswered, RecordBias, Unwind, SetsOutcome
  <2>2. /\ pc \in InStep \cup Checking /\ pc' \in InStep \cup Checking \cup {"unwind"}
        /\ UNCHANGED <<recipe, at, receipts, failures>> /\ LeavesOrStays
    BY <1>7 DEF CommandAnswered, RecordBias, Unwind, LeavesOrStays
  <2>3. QED
    BY <2>1, <2>2, <1>1, OutcomeChanges DEF WithinStep
<1>8. CASE CommandUnanswered
  <2>1. SetsOutcome
    BY <1>8 DEF CommandUnanswered, Unwind, SetsOutcome
  <2>2. /\ pc \in InStep \cup Checking /\ pc' \in InStep \cup Checking \cup {"unwind"}
        /\ UNCHANGED <<recipe, at, receipts, failures>> /\ LeavesOrStays
    BY <1>8 DEF CommandUnanswered, Unwind, LeavesOrStays
  <2>3. QED
    BY <2>1, <2>2, <1>1, OutcomeChanges DEF WithinStep
<1>9. CASE CollectWaited
  <2>1. exec[at] \in ExecType /\ exec = [exec EXCEPT ![at] = exec[at]]
    BY <1>1 DEF RunTypes, StepTypes
  <2>2. Collected(exec[at], Request("capture")) \in {exec[at], Failed(exec[at])}
    BY DEF Collected
  <2>3. exec' \in {[exec EXCEPT ![at] = Collected(exec[at], Request("capture"))], [exec EXCEPT ![at] = Failed(exec[at])]}
    BY <1>9 DEF CollectWaited, AbortForeign, StorePart, NoteFailure, Unwind
  <2>4. SetsOutcome
    BY <2>1, <2>2, <2>3 DEF SetsOutcome
  <2>5. /\ pc \in InStep \cup Checking /\ pc' \in InStep \cup Checking \cup {"unwind"}
        /\ UNCHANGED <<recipe, at, receipts, failures>> /\ LeavesOrStays
    BY <1>9 DEF CollectWaited, AbortForeign, StorePart, NoteFailure, Unwind, LeavesOrStays
  <2>6. QED
    BY <2>4, <2>5, <1>1, OutcomeChanges DEF WithinStep
<1>10. CASE AbortWaited
  <2>1. SetsOutcome
    BY <1>10 DEF AbortWaited, AbortWaitedRequest, Unwind, SetsOutcome
  <2>2. /\ pc \in InStep \cup Checking /\ pc' \in InStep \cup Checking \cup {"unwind"}
        /\ UNCHANGED <<recipe, at, receipts, failures>> /\ LeavesOrStays
    BY <1>10 DEF AbortWaited, AbortWaitedRequest, Unwind, LeavesOrStays
  <2>3. QED
    BY <2>1, <2>2, <1>1, OutcomeChanges DEF WithinStep
<1>11. CASE BeginJoin
  <2>1. SetsOutcome
    BY <1>11 DEF BeginJoin, SetsOutcome
  <2>2. /\ pc \in InStep \cup Checking /\ pc' \in InStep \cup Checking \cup {"unwind"}
        /\ UNCHANGED <<recipe, at, receipts, failures>> /\ LeavesOrStays
    BY <1>11 DEF BeginJoin, LeavesOrStays
  <2>3. QED
    BY <2>1, <2>2, <1>1, OutcomeChanges DEF WithinStep
<1>12. CASE EndJoinWait
  <2>1. SetsOutcome
    BY <1>12 DEF EndJoinWait, SetsOutcome
  <2>2. /\ pc \in InStep \cup Checking /\ pc' \in InStep \cup Checking \cup {"unwind"}
        /\ UNCHANGED <<recipe, at, receipts, failures>> /\ LeavesOrStays
    BY <1>12 DEF EndJoinWait, LeavesOrStays
  <2>3. QED
    BY <2>1, <2>2, <1>1, OutcomeChanges DEF WithinStep
<1>13. CASE AbortJoined
  <2>1. SetsOutcome
    BY <1>13 DEF AbortJoined, NextAbort, Unwind, SetsOutcome
  <2>2. /\ pc \in InStep \cup Checking /\ pc' \in InStep \cup Checking \cup {"unwind"}
        /\ UNCHANGED <<recipe, at, receipts, failures>> /\ LeavesOrStays
    BY <1>13 DEF AbortJoined, NextAbort, Unwind, LeavesOrStays
  <2>3. QED
    BY <2>1, <2>2, <1>1, OutcomeChanges DEF WithinStep
<1>14. CASE EndJoin
  <2>1. SetsOutcome
    BY <1>14 DEF EndJoin, Unwind, SetsOutcome
  <2>2. /\ pc \in InStep \cup Checking /\ pc' \in InStep \cup Checking \cup {"unwind"}
        /\ UNCHANGED <<recipe, at, receipts, failures>> /\ LeavesOrStays
    BY <1>14 DEF EndJoin, Unwind, LeavesOrStays
  <2>3. QED
    BY <2>1, <2>2, <1>1, OutcomeChanges DEF WithinStep
<1>15. CASE CancelHold
  <2>1. SetsOutcome
    BY <1>15 DEF CancelHold, Unwind, SetsOutcome
  <2>2. /\ pc \in InStep \cup Checking /\ pc' \in InStep \cup Checking \cup {"unwind"}
        /\ UNCHANGED <<recipe, at, receipts, failures>> /\ LeavesOrStays
    BY <1>15 DEF CancelHold, Unwind, LeavesOrStays
  <2>3. QED
    BY <2>1, <2>2, <1>1, OutcomeChanges DEF WithinStep
<1>16. CASE Resume
  <2>1. SetsOutcome
    BY <1>16 DEF Resume, SetsOutcome
  <2>2. /\ pc \in InStep \cup Checking /\ pc' \in InStep \cup Checking \cup {"unwind"}
        /\ UNCHANGED <<recipe, at, receipts, failures>> /\ LeavesOrStays
    BY <1>16 DEF Resume, LeavesOrStays
  <2>3. QED
    BY <2>1, <2>2, <1>1, OutcomeChanges DEF WithinStep
<1>17. CASE DecideAbort
  <2>1. SetsOutcome
    BY <1>17 DEF DecideAbort, NextAbort, SetsOutcome
  <2>2. /\ pc \in InStep \cup Checking /\ pc' \in InStep \cup Checking \cup {"unwind"}
        /\ UNCHANGED <<recipe, at, receipts, failures>> /\ LeavesOrStays
    BY <1>17 DEF DecideAbort, NextAbort, LeavesOrStays
  <2>3. QED
    BY <2>1, <2>2, <1>1, OutcomeChanges DEF WithinStep
<1>18. QED
  BY <1>2, <1>3, <1>4, <1>5, <1>6, <1>7, <1>8, <1>9, <1>10, <1>11, <1>12, <1>13, <1>14, <1>15, <1>16, <1>17

\* Each step is reported at most once, and in time.
LEMMA StepsStep ==
  ASSUME IInv, [Next]_vars
  PROVE  StepsInv'
<1> USE DEF vars, runVars, flowVars, joinVars, captureVars, commandVars, chamberVars, skipVars,
           requestHistory, otherHistory, engineVars
<1>1. StepsInv /\ RunTypes /\ StepTypes /\ JoinTypes /\ PhaseInv /\ recipe' = recipe /\ Steps' = Steps
  BY RecipeKept DEF IInv, Parts, TypeOK
<1>2. at \in Steps /\ Steps = 1..Len(recipe.steps) /\ Len(recipe.steps) \in Nat
  BY <1>1, RecipeFacts DEF RunTypes
<1>3. exec \in [Steps -> ExecType] /\ receipts \in [Steps -> Seq({"succeeded", "skipped", "failed"})]
  BY <1>1 DEF StepTypes
<1>4. ASSUME WithinStep
     PROVE  StepsInv'
  BY <1>4, <1>1, <1>2
     DEF WithinStep, OutcomeOnly, StepsInv, NotBegun, InStep, Serving, Joining, Checking
<1>5. ASSUME UNCHANGED <<pc, at, exec, receipts, failures>>
     PROVE  StepsInv'
  BY <1>5, <1>1 DEF StepsInv, NotBegun
<1>6. CASE StartRun
  BY <1>6, <1>1, <1>2
     DEF StartRun, StepsInv, NotBegun, FreshExec, InStep, Serving, Joining, Checking
<1>7. CASE Preflight
  BY <1>7, <1>1, <1>2, <1>3
     DEF Preflight, StepsInv, NotBegun, PhaseInv, FreshExec, InStep, Serving, Joining, Checking
<1>8. CASE BeginStep
  <2> DEFINE started == [FreshExec EXCEPT !.started = TRUE]
  <2>1. started \in ExecType /\ started.started /\ ~started.finished /\ ~started.dispatched /\ started.pending = 0
    BY DEF FreshExec, ExecType
  <2>2. \A d \in {started, Failed(started), Skipped(started)} :
          d.started /\ ~d.finished /\ ~d.dispatched /\ d.pending = 0
    BY <2>1, ExecFlags
  <2>3. pc = "step" /\ pc' \in InStep \cup Checking \cup {"unwind"} /\ UNCHANGED <<at, receipts>> /\ failures \subseteq failures'
    <3>1. Step.kind \in Kinds
      BY <1>2, <1>1, StepFacts DEF Step
    <3>2. QED
      BY <1>8, <3>1 DEF BeginStep, Kinds, Quantities, InStep, Serving, Joining, Checking
  <2>4. (exec' = exec /\ pc' = "unwind") \/ \E d \in {started, Failed(started), Skipped(started)} : exec' = [exec EXCEPT ![at] = d]
    BY <1>8 DEF BeginStep
  <2>5. receipts[at] = <<>>
    BY <2>3, <1>1, <1>2 DEF StepsInv, NotBegun
  <2> HIDE DEF started
  <2>6. CASE exec' = exec /\ pc' = "unwind"
    BY <2>3, <2>6, <1>1, <1>2 DEF StepsInv, NotBegun, InStep, Serving, Joining, Checking
  <2>7. CASE \E d \in {started, Failed(started), Skipped(started)} : exec' = [exec EXCEPT ![at] = d]
    <3>1. PICK d \in {started, Failed(started), Skipped(started)} : exec' = [exec EXCEPT ![at] = d]
      BY <2>7
    <3>2. exec'[at] = d /\ \A s \in Steps : s /= at => exec'[s] = exec[s]
      BY <3>1, <1>2, <1>3
    <3>3. QED
      BY <2>2, <2>3, <2>5, <3>1, <3>2, <1>1, <1>2
         DEF StepsInv, NotBegun, InStep, Serving, Joining, Checking
  <2>8. QED
    BY <2>4, <2>6, <2>7
<1>9. CASE Device
  BY <1>9, StepActions, <1>4
<1>10. CASE StartChamber
  BY <1>10, StepActions, <1>4
<1>11. CASE SetClimate
  BY <1>11, StepActions, <1>4
<1>12. CASE NextTarget
  BY <1>12, StepActions, <1>4
<1>13. CASE SendCommand
  BY <1>13, StepActions, <1>4
<1>14. CASE CommandAnswered
  BY <1>14, StepActions, <1>4
<1>15. CASE CommandUnanswered
  BY <1>15, StepActions, <1>4
<1>16. CASE PublishCapture
  <2>1. pc = "publish" /\ pc' \in {"target", "capture", "unwind"} /\ UNCHANGED <<at, receipts, failures>>
    BY <1>16 DEF PublishCapture, NumberShots, Register, Unwind
  <2>2. exec' \in {exec, [exec EXCEPT ![at] = Failed(exec[at])], [exec EXCEPT ![at] = Fork(exec[at])]}
    BY <1>16 DEF PublishCapture, Unwind
  <2>3. \A d \in {exec[at], Failed(exec[at]), Fork(exec[at])} :
          d.started = exec[at].started /\ d.finished = exec[at].finished /\ d.dispatched = exec[at].dispatched
    BY <1>2, <1>3 DEF ExecType, Failed, Fork
  <2>4. /\ \A s \in Steps : s /= at => exec'[s] = exec[s]
        /\ exec'[at] \in {exec[at], Failed(exec[at]), Fork(exec[at])}
    BY <2>2, <1>2, <1>3
  <2>5. ~exec[at].finished
    BY <2>1, <1>1 DEF StepsInv, InStep, Serving
  <2>6. QED
    BY <2>1, <2>3, <2>4, <2>5, <1>1, <1>2
       DEF StepsInv, NotBegun, InStep, Serving, Joining, Checking
<1>17. CASE CollectWaited
  BY <1>17, StepActions, <1>4
<1>18. CASE AbortWaited
  BY <1>18, StepActions, <1>4
<1>19. CASE BeginJoin
  BY <1>19, StepActions, <1>4
<1>20. CASE EndJoinWait
  BY <1>20, StepActions, <1>4
<1>21. CASE CollectJoined
  <2> DEFINE r == joining[cursor]
             s == r.step
             before == IF cancelled THEN Failed(exec[s]) ELSE exec[s]
             after == [Collected(before, r) EXCEPT !.pending = @ - 1]
             closed == [after EXCEPT !.finished = TRUE]
  <2>1. s \in Steps /\ exec[s] \in ExecType /\ exec[s].pending \in Nat \ {0}
    BY <1>21, JoinedItem, CollectedIsCounted DEF CollectJoined
  <2>2. s < at /\ ~exec[s].finished /\ receipts[s] = <<>>
    <3>1. s /= at
      BY <1>21, JoinedItem DEF CollectJoined, IInv, Parts, BatchInv, PhaseInv, Joining, Step
    <3>2. ~(s > at)
      BY <2>1, <1>1, <1>2 DEF StepsInv, NotBegun, FreshExec
    <3>3. ~exec[s].finished /\ receipts[s] = <<>>
      BY <2>1, <1>1 DEF StepsInv
    <3>4. QED
      BY <3>1, <3>2, <3>3, <2>1, <1>2
  <2>3. before \in ExecType /\ before.started = exec[s].started /\ before.finished = exec[s].finished
        /\ before.dispatched = exec[s].dispatched
    BY <2>1, ExecTypes, ExecFlags
  <2>4. Collected(before, r) \in {before, Failed(before)}
    BY DEF Collected
  <2>16. Failed(before) \in ExecType /\ Failed(before).started = before.started
         /\ Failed(before).finished = before.finished /\ Failed(before).dispatched = before.dispatched
    BY <2>3, ExecTypes, ExecFlags
  <2>5. Collected(before, r) \in ExecType /\ Collected(before, r).started = exec[s].started
        /\ Collected(before, r).finished = exec[s].finished /\ Collected(before, r).dispatched = exec[s].dispatched
    BY <2>3, <2>4, <2>16
  <2>6. after.started = exec[s].started /\ ~after.finished /\ after.dispatched = exec[s].dispatched
    BY <2>2, <2>5 DEF ExecType
  <2>7. closed.started = exec[s].started /\ closed.finished /\ closed.pending = after.pending
    BY <2>5, <2>6 DEF ExecType
  <2>8. \A u \in Steps : Failed(exec[u]).started = exec[u].started /\ Failed(exec[u]).finished = exec[u].finished
          /\ Failed(exec[u]).dispatched = exec[u].dispatched /\ Failed(exec[u]).pending = exec[u].pending
    BY <1>3, ExecFlags
  <2> HIDE DEF before, after, closed
  <2>9. pc = "collect" /\ pc' \in {"collect", "abort", "safety", "unwind"} /\ at' = at /\ failures \subseteq failures'
    BY <1>21 DEF CollectJoined, Advance
  <2>10. \/ /\ exec' = [u \in Steps |-> IF u \in {s, at} THEN Failed(exec[u]) ELSE exec[u]]
            /\ receipts' = receipts /\ pc' = "unwind"
         \/ exec' = [exec EXCEPT ![s] = after] /\ receipts' = receipts
         \/ Due(after) /\ exec' = [exec EXCEPT ![s] = closed] /\ receipts' = [receipts EXCEPT ![s] = Append(receipts[s], after.outcome)]
         \/ /\ Due(after)
            /\ exec' = [u \in Steps |-> IF u = s THEN closed ELSE IF u = at THEN Failed(exec[u]) ELSE exec[u]]
            /\ receipts' = receipts /\ "receipt" \in failures' /\ pc' = "unwind"
    BY <1>21 DEF CollectJoined, before, after, closed
  <2> HIDE DEF s
  <2>11. CASE /\ exec' = [u \in Steps |-> IF u \in {s, at} THEN Failed(exec[u]) ELSE exec[u]]
              /\ receipts' = receipts /\ pc' = "unwind"
    BY <2>1, <2>2, <2>8, <2>9, <2>11, <1>1, <1>2
       DEF StepsInv, NotBegun, InStep, Serving, Joining, Checking
  <2>12. CASE exec' = [exec EXCEPT ![s] = after] /\ receipts' = receipts
    <3>1. exec'[s] = after /\ \A u \in Steps : u /= s => exec'[u] = exec[u]
      BY <2>1, <2>12, <1>3
    <3>2. QED
      BY <2>1, <2>2, <2>6, <2>9, <2>12, <3>1, <1>1, <1>2
         DEF StepsInv, NotBegun, InStep, Serving, Joining, Checking
  <2>13. CASE Due(after) /\ exec' = [exec EXCEPT ![s] = closed] /\ receipts' = [receipts EXCEPT ![s] = Append(receipts[s], after.outcome)]
    <3>1. exec'[s] = closed /\ \A u \in Steps : u /= s => exec'[u] = exec[u]
      BY <2>1, <2>13, <1>3
    <3>2. Len(receipts'[s]) = 1 /\ \A u \in Steps : u /= s => receipts'[u] = receipts[u]
      BY <2>1, <2>2, <2>13, <1>3
    <3>3. closed.pending = 0
      BY <2>7, <2>13 DEF Due
    <3>4. QED
      BY <2>1, <2>2, <2>7, <2>9, <3>1, <3>2, <3>3, <1>1, <1>2
         DEF StepsInv, NotBegun, InStep, Serving, Joining, Checking
  <2>14. CASE /\ Due(after)
              /\ exec' = [u \in Steps |-> IF u = s THEN closed ELSE IF u = at THEN Failed(exec[u]) ELSE exec[u]]
              /\ receipts' = receipts /\ "receipt" \in failures' /\ pc' = "unwind"
    <3>1. closed.pending = 0
      BY <2>7, <2>14 DEF Due
    <3>2. QED
      BY <2>1, <2>2, <2>7, <2>8, <2>9, <2>14, <3>1, <1>1, <1>2
         DEF StepsInv, NotBegun, InStep, Serving, Joining, Checking
  <2>15. QED
    BY <2>10, <2>11, <2>12, <2>13, <2>14
<1>22. CASE AbortJoined
  BY <1>22, StepActions, <1>4
<1>23. CASE EndJoin
  BY <1>23, StepActions, <1>4
<1>24. CASE CheckSafety
  <2> DEFINE f == IF cancelled THEN Failed(exec[at]) ELSE exec[at]
             e == [f EXCEPT !.dispatched = TRUE]
  <2>1. exec[at].started /\ ~exec[at].finished /\ receipts[at] = <<>> /\ pc = "safety"
    BY <1>24, <1>1, <1>2 DEF CheckSafety, StepsInv, Checking
  <2>2. f \in ExecType /\ f.started = exec[at].started /\ f.finished = exec[at].finished /\ f.pending = exec[at].pending
    BY <1>2, <1>3, ExecTypes, ExecFlags
  <2>3. e \in ExecType /\ e.started /\ ~e.finished /\ e.dispatched
    BY <2>1, <2>2 DEF ExecType
  <2> HIDE DEF e, f
  <2>4. Failed(e) \in ExecType /\ Failed(e).started = e.started /\ Failed(e).pending = e.pending
    BY <2>3, ExecTypes, ExecFlags
  <2>5. \A d \in {e, Failed(e)} : LET c == [d EXCEPT !.finished = TRUE]
                                 IN c.started /\ c.finished /\ c.pending = e.pending
    BY <2>3, <2>4 DEF ExecType
  <2>6. at' \in {at, at + 1} /\ (at' = at + 1 <=> pc' = "step") /\ pc' \in {"step", "unwind", "hold"} /\ failures \subseteq failures'
    BY <1>24, <2>1, <1>2 DEF CheckSafety, CloseStep, Unwind
  <2>7. CASE /\ exec' \in {exec, [exec EXCEPT ![at] = Failed(exec[at])]}
             /\ UNCHANGED <<at, receipts, failures>> /\ LeavesOrStays
    <3>1. OutcomeOnly
      BY <2>7, <1>1, OutcomeChanges DEF SetsOutcome
    <3>2. WithinStep
      BY <1>24, <2>1, <2>6, <2>7, <3>1, <1>1, <1>2 DEF WithinStep, Checking, InStep
    <3>3. QED
      BY <3>2, <1>4
  <2>8. CASE exec' = [exec EXCEPT ![at] = e] /\ receipts' = receipts /\ pc' /= "hold"
    <3>1. exec'[at] = e /\ \A u \in Steps : u /= at => exec'[u] = exec[u]
      BY <2>8, <1>2, <1>3
    <3>2. QED
      BY <2>1, <2>3, <2>6, <2>8, <3>1, <1>1, <1>2
         DEF StepsInv, NotBegun, InStep, Serving, Joining, Checking
  <2>9. CASE Due(e) /\ pc' /= "hold" /\ exec' = [exec EXCEPT ![at] = [e EXCEPT !.finished = TRUE]] /\ receipts' = [receipts EXCEPT ![at] = Append(receipts[at], e.outcome)]
    <3> DEFINE c == [e EXCEPT !.finished = TRUE]
    <3>1. c.started /\ c.finished /\ c.pending = 0
      BY <2>5, <2>9 DEF Due
    <3> HIDE DEF c
    <3>2. exec'[at] = c /\ \A u \in Steps : u /= at => exec'[u] = exec[u]
      BY <2>9, <1>2, <1>3 DEF c
    <3>3. Len(receipts'[at]) = 1 /\ \A u \in Steps : u /= at => receipts'[u] = receipts[u]
      BY <2>1, <2>9, <1>2, <1>3
    <3>4. \A u \in Steps : u > at => exec'[u] = FreshExec /\ receipts'[u] = <<>>
      BY <2>1, <2>9, <3>1, <3>2, <3>3, <1>1, <1>2 DEF StepsInv, NotBegun
    <3>5. pc' \in {"step", "unwind"} /\ \A u \in Steps : NotBegun(u)' => u > at
      BY <2>6, <2>9, <1>1, <1>2 DEF NotBegun
    <3>6. QED
      BY <2>1, <2>6, <3>1, <3>2, <3>3, <3>4, <3>5, <1>1
         DEF StepsInv, InStep, Serving, Joining, Checking
  <2>10. CASE /\ Due(e) /\ exec' = [exec EXCEPT ![at] = [Failed(e) EXCEPT !.finished = TRUE]]
              /\ "receipt" \in failures' /\ receipts' = receipts /\ pc' = "unwind"
    <3> DEFINE c == [Failed(e) EXCEPT !.finished = TRUE]
    <3>1. c.started /\ c.finished /\ c.pending = 0
      BY <2>5, <2>10 DEF Due
    <3> HIDE DEF c
    <3>2. exec'[at] = c /\ \A u \in Steps : u /= at => exec'[u] = exec[u]
      BY <2>10, <1>2, <1>3 DEF c
    <3>3. \A u \in Steps : u > at => exec'[u] = FreshExec /\ receipts'[u] = <<>>
      BY <2>1, <2>10, <3>1, <3>2, <1>1, <1>2 DEF StepsInv, NotBegun
    <3>4. pc' \in {"step", "unwind"} /\ \A u \in Steps : NotBegun(u)' => u > at
      BY <2>6, <2>10, <1>1, <1>2 DEF NotBegun
    <3>5. QED
      BY <2>1, <2>6, <2>10, <3>1, <3>2, <3>3, <3>4, <1>1
         DEF StepsInv, InStep, Serving, Joining, Checking
  <2>11. QED
    BY <1>24, <2>7, <2>8, <2>9, <2>10 DEF CheckSafety, CloseStep, Unwind, LeavesOrStays, e, f
<1>25. CASE CancelHold
  BY <1>25, StepActions, <1>4
<1>26. CASE AbortUnfinished
  <2> DEFINE given(s) == [Failed(exec[s]) EXCEPT !.pending = 0, !.dispatched = TRUE]
  <2>1. \A s \in Steps : /\ given(s).started = exec[s].started /\ given(s).finished = exec[s].finished
                         /\ given(s).dispatched /\ given(s).pending = 0 /\ given(s).outcome = "failed"
    BY <1>3 DEF ExecType, Failed
  <2> HIDE DEF given
  <2>2. \A s \in Steps : exec'[s] = IF exec[s].started /\ ~exec[s].finished THEN given(s) ELSE exec[s]
    BY <1>26 DEF AbortUnfinished, given
  <2>3. pc = "unwind" /\ pc' = "stop" /\ UNCHANGED <<at, receipts, failures>>
    BY <1>26 DEF AbortUnfinished
  <2>4. \A s \in Steps : s > at => exec'[s] = FreshExec
    BY <2>2, <1>1, <1>2 DEF StepsInv, NotBegun, FreshExec
  <2>5. QED
    BY <2>1, <2>2, <2>3, <2>4, <1>1, <1>2
       DEF StepsInv, NotBegun, Due, InStep, Serving, Joining, Checking
<1>27. CASE StopChamber
  BY <1>27, <1>1, <1>2, <1>3
     DEF StopChamber, StepsInv, NotBegun, InStep, Serving, Joining, Checking
<1>28. CASE ReportUnfinished
  <2>1. pc = "report" /\ pc' \in {"report", "idle"} /\ at' = at /\ failures \subseteq failures'
    BY <1>28 DEF ReportUnfinished
  <2>2. CASE UNCHANGED <<exec, receipts>> /\ \A s \in Steps : ~Due(exec[s])
    BY <2>1, <2>2, <1>1, <1>2 DEF StepsInv, NotBegun, InStep, Serving, Joining, Checking
  <2>3. ASSUME NEW s \in Steps, Due(exec[s]), exec' = [exec EXCEPT ![s].finished = TRUE],
               \/ receipts' = [receipts EXCEPT ![s] = Append(receipts[s], exec[s].outcome)] /\ pc' = "report"
               \/ receipts' = receipts /\ "receipt" \in failures'
        PROVE  StepsInv'
    <3>1. exec'[s].finished /\ exec'[s].pending = 0 /\ exec'[s].started = exec[s].started
          /\ \A u \in Steps : u /= s => exec'[u] = exec[u]
      BY <2>3, <1>3 DEF Due, ExecType
    <3>2. ~exec[s].finished /\ receipts[s] = <<>>
      BY <2>3, <1>1 DEF Due, StepsInv
    <3>3. ~(s > at)
      BY <2>3, <1>1 DEF StepsInv, NotBegun, Due, FreshExec
    <3>4. CASE receipts' = [receipts EXCEPT ![s] = Append(receipts[s], exec[s].outcome)] /\ pc' = "report"
      <4>1. Len(receipts'[s]) = 1 /\ \A u \in Steps : u /= s => receipts'[u] = receipts[u]
        BY <3>2, <3>4, <1>3
      <4>2. QED
        BY <2>1, <3>1, <3>3, <3>4, <4>1, <1>1, <1>2
           DEF StepsInv, NotBegun, InStep, Serving, Joining, Checking
    <3>5. CASE receipts' = receipts /\ "receipt" \in failures'
      BY <2>1, <3>1, <3>2, <3>3, <3>5, <1>1, <1>2
         DEF StepsInv, NotBegun, InStep, Serving, Joining, Checking
    <3>6. QED
      BY <2>3, <3>4, <3>5
  <2>4. QED
    BY <1>28, <2>2, <2>3 DEF ReportUnfinished
<1>29. CASE Resume
  BY <1>29, StepActions, <1>4
<1>30. CASE DecideAbort
  BY <1>30, StepActions, <1>4
<1>31. CASE AgentSends
  BY <1>31, <1>5 DEF AgentSends
<1>32. CASE DeliverResult
  BY <1>32, <1>5 DEF DeliverResult
<1>33. CASE DeliverAck
  BY <1>33, <1>5 DEF DeliverAck
<1>34. CASE Cancel
  BY <1>34, <1>5 DEF Cancel
<1>35. CASE RequestEmergencyStop
  BY <1>35, <1>5 DEF RequestEmergencyStop
<1>36. CASE ResetEmergencyStop
  BY <1>36, <1>5 DEF ResetEmergencyStop
<1>37. CASE UNCHANGED vars
  BY <1>37, <1>5
<1>38. QED
  BY <1>6, <1>7, <1>8, <1>9, <1>10, <1>11, <1>12, <1>13, <1>14, <1>15, <1>16, <1>17, <1>18,
     <1>19, <1>20, <1>21, <1>22, <1>23, <1>24, <1>25, <1>26, <1>27, <1>28, <1>29, <1>30,
     <1>31, <1>32, <1>33, <1>34, <1>35, <1>36, <1>37
     DEF Next, Engine, CameraStep, Operator, Environment

\* A step counts the captures of it that are open.
LEMMA CountStep ==
  ASSUME IInv, [Next]_vars
  PROVE  CountInv'
<1> USE DEF vars, runVars, flowVars, joinVars, captureVars, commandVars, chamberVars, skipVars,
           requestHistory, otherHistory, engineVars
<1>1. CountInv /\ StepsInv /\ RunTypes /\ StepTypes /\ JoinTypes /\ PhaseInv /\ recipe' = recipe /\ Steps' = Steps
  BY RecipeKept DEF IInv, Parts, TypeOK
<1>2. at \in Steps /\ Steps = 1..Len(recipe.steps) /\ Len(recipe.steps) \in Nat
  BY <1>1, RecipeFacts DEF RunTypes
<1>3. exec \in [Steps -> ExecType] /\ \A s \in Steps : exec[s] \in ExecType /\ exec[s].pending \in Nat
  BY <1>1 DEF StepTypes, ExecType
<1>4. \A s : IsFiniteSet(PendingOf(s)) /\ IsFiniteSet(JoiningOf(s)) /\ Cardinality(PendingOf(s)) \in Nat /\ Cardinality(JoiningOf(s)) \in Nat
  BY <1>1, OpenFinite
<1>5. ASSUME UNCHANGED pending, pc \notin Over,
             pc' \in {"joinWait", "collect"} => pc \in {"joinWait", "collect"} /\ UNCHANGED <<joining, cursor>>,
             \A s \in Steps : exec'[s].pending = exec[s].pending
     PROVE  CountInv'
  <2>1. ASSUME NEW s \in Steps
        PROVE  exec'[s].pending >= Cardinality(PendingOf(s)') + Cardinality(JoiningOf(s)')
    <3>1. PendingOf(s)' = PendingOf(s)
      BY <1>5 DEF PendingOf
    <3>2. JoiningOf(s)' \in SUBSET JoiningOf(s)
      BY <1>5 DEF JoiningOf
    <3>3. Cardinality(JoiningOf(s)') <= Cardinality(JoiningOf(s)) /\ Cardinality(JoiningOf(s)') \in Nat
      BY <3>2, <1>4, FS_Subset, FS_CardinalityType
    <3>4. exec[s].pending >= Cardinality(PendingOf(s)) + Cardinality(JoiningOf(s))
      BY <1>5, <1>1 DEF CountInv
    <3>5. QED
      BY <3>1, <3>3, <3>4, <1>3, <1>4, <1>5
  <2>2. QED
    BY <2>1, <1>1 DEF CountInv
<1>6. ASSUME WithinStep
     PROVE  pc \notin Over /\ \A s \in Steps : exec'[s].pending = exec[s].pending
  BY <1>6, <1>2 DEF WithinStep, OutcomeOnly, Over, InStep, Serving, Joining, Checking
<1>7. ASSUME UNCHANGED <<pc, exec, pending, joining, cursor>>
     PROVE  CountInv'
  BY <1>7, <1>1 DEF CountInv, PendingOf, JoiningOf
<1>8. CASE StartRun
  <2>1. \A s : PendingOf(s)' = {} /\ JoiningOf(s)' = {}
    BY <1>8 DEF StartRun, PendingOf, JoiningOf
  <2>2. \A s \in Steps : exec'[s].pending = 0
    BY <1>8 DEF StartRun, FreshExec
  <2>3. QED
    BY <2>1, <2>2, <1>1, FS_EmptySet DEF CountInv
<1>9. CASE Preflight
  BY <1>9, <1>5 DEF Preflight, Over, CountInv
<1>10. CASE BeginStep
  <2> DEFINE started == [FreshExec EXCEPT !.started = TRUE]
  <2>1. started \in ExecType /\ started.pending = 0
    BY DEF FreshExec, ExecType
  <2>2. \A d \in {started, Failed(started), Skipped(started)} : d.pending = 0
    BY <2>1, ExecFlags
  <2>3. exec' = exec \/ \E d \in {started, Failed(started), Skipped(started)} : exec' = [exec EXCEPT ![at] = d]
    BY <1>10 DEF BeginStep
  <2> HIDE DEF started
  <2>4. exec[at].pending = 0
    BY <1>10, <1>1, <1>2 DEF BeginStep, StepsInv, NotBegun, FreshExec
  <2>5. \A s \in Steps : exec'[s].pending = exec[s].pending
    BY <2>2, <2>3, <2>4, <1>2, <1>3
  <2>6. Step.kind \in Kinds
    BY <1>2, <1>1, StepFacts DEF Step
  <2>7. UNCHANGED pending /\ pc = "step" /\ pc' \notin {"joinWait", "collect"}
    BY <1>10, <2>6 DEF BeginStep, Kinds, Quantities
  <2>8. QED
    BY <2>5, <2>7, <1>5 DEF Over
<1>11. CASE Device
  BY <1>11, StepActions, <1>5, <1>6 DEF Device, Unwind
<1>12. CASE StartChamber
  BY <1>12, StepActions, <1>5, <1>6 DEF StartChamber, Unwind
<1>13. CASE SetClimate
  BY <1>13, StepActions, <1>5, <1>6 DEF SetClimate, Watch, Unwind
<1>14. CASE NextTarget
  BY <1>14, StepActions, <1>5, <1>6 DEF NextTarget, Unwind
<1>15. CASE SendCommand
  BY <1>15, StepActions, <1>5, <1>6 DEF SendCommand, Unwind
<1>16. CASE CommandAnswered
  BY <1>16, StepActions, <1>5, <1>6 DEF CommandAnswered, RecordBias, Unwind
<1>17. CASE CommandUnanswered
  BY <1>17, StepActions, <1>5, <1>6 DEF CommandUnanswered, Unwind
<1>18. CASE PublishCapture
  <2> DEFINE r == Request("capture")
  <2>1. pc = "publish" /\ pc' \in {"target", "capture", "unwind"}
    BY <1>18 DEF PublishCapture, Unwind
  <2>2. CASE pending' = pending /\ exec' \in {exec, [exec EXCEPT ![at] = Failed(exec[at])]}
    <3>1. \A s \in Steps : exec'[s].pending = exec[s].pending
      BY <2>2, <1>2, <1>3, ExecFlags
    <3>2. QED
      BY <2>1, <2>2, <3>1, <1>5 DEF Over
  <2>3. CASE pending' = Append(pending, r) /\ exec' = [exec EXCEPT ![at] = Fork(exec[at])] /\ Register(r)
    <3>1. r.step = at
      BY DEF Request
    <3>2. DOMAIN pending = 1..Len(pending) /\ Len(pending) \in Nat
      BY <1>1, LenProperties DEF JoinTypes
    <3>3. pending \in Seq(DOMAIN batches \cup {r})
      BY <1>1, SeqMonotonic DEF JoinTypes
    <3> HIDE DEF r
    <3>4. DOMAIN pending' = 1..(Len(pending) + 1) /\ pending'[Len(pending) + 1] = r
          /\ \A k \in 1..Len(pending) : pending'[k] = pending[k]
      BY <2>3, <3>3, AppendProperties, LenProperties
    <3>5. \A s \in Steps : PendingOf(s)' = IF s = at THEN PendingOf(s) \cup {Len(pending) + 1} ELSE PendingOf(s)
      BY <3>1, <3>2, <3>4 DEF PendingOf
    <3>6. \A s : JoiningOf(s)' = {}
      BY <2>1 DEF JoiningOf
    <3>7. exec'[at].pending = exec[at].pending + 1 /\ \A s \in Steps : s /= at => exec'[s] = exec[s]
      BY <2>3, <1>2, <1>3 DEF Fork, ExecType
    <3>8. Cardinality(PendingOf(at) \cup {Len(pending) + 1}) \in Nat
          /\ Cardinality(PendingOf(at) \cup {Len(pending) + 1}) <= Cardinality(PendingOf(at)) + 1
      <4>1. Cardinality(PendingOf(at) \cup {Len(pending) + 1}) =
              IF Len(pending) + 1 \in PendingOf(at) THEN Cardinality(PendingOf(at)) ELSE Cardinality(PendingOf(at)) + 1
        BY <1>4, FS_AddElement
      <4>2. QED
        BY <4>1, <1>4
    <3>9. \A s \in Steps : exec[s].pending >= Cardinality(PendingOf(s))
      BY <2>1, <1>1, <1>3, <1>4 DEF CountInv, Over
    <3>10. \A s \in Steps : exec'[s].pending >= Cardinality(PendingOf(s)')
      <4>1. \A s \in Steps : s = at => exec'[s].pending >= Cardinality(PendingOf(s)')
        <5>1. exec[at].pending >= Cardinality(PendingOf(at))
          BY <3>9, <1>2
        <5>2. exec'[at].pending >= Cardinality(PendingOf(at) \cup {Len(pending) + 1})
          BY <5>1, <3>7, <3>8, <1>2, <1>3, <1>4
        <5>3. QED
          BY <5>2, <3>5
      <4>2. \A s \in Steps : s /= at => exec'[s].pending >= Cardinality(PendingOf(s)')
        BY <3>5, <3>7, <3>9
      <4>3. QED
        BY <4>1, <4>2
    <3>11. \A s \in Steps : Cardinality(PendingOf(s)') \in Nat
      BY <3>5, <3>8, <1>4
    <3>12. \A s \in Steps : exec'[s].pending >= Cardinality(PendingOf(s)') + Cardinality(JoiningOf(s)')
      BY <3>6, <3>10, <3>11, FS_EmptySet
    <3>13. QED
      BY <3>12, <1>1 DEF CountInv
  <2>4. QED
    BY <1>18, <2>2, <2>3 DEF PublishCapture, Unwind
<1>19. CASE CollectWaited
  BY <1>19, StepActions, <1>5, <1>6
     DEF CollectWaited, AbortForeign, StorePart, NoteFailure, Unwind
<1>20. CASE AbortWaited
  BY <1>20, StepActions, <1>5, <1>6 DEF AbortWaited, AbortWaitedRequest, Unwind
<1>21. CASE BeginJoin
  <2>1. WithinStep
    BY <1>21, StepActions
  <2>2. \A s : JoiningOf(s) = {}
    BY <1>21 DEF BeginJoin, JoiningOf
  <2>3. CASE pending /= <<>>
    <3>1. pending' = <<>> /\ joining' = pending /\ pc' = "joinWait" /\ cursor' = 1
      BY <1>21, <2>3 DEF BeginJoin
    <3>2. \A s : PendingOf(s)' = {}
      BY <3>1 DEF PendingOf
    <3>3. \A s : JoiningOf(s)' = PendingOf(s)
      <4>1. \A k \in DOMAIN pending : k \in Nat /\ k >= 1
        BY <1>1, LenProperties DEF JoinTypes
      <4>2. QED
        BY <3>1, <4>1 DEF JoiningOf, PendingOf
    <3>4. QED
      <4>1. ASSUME NEW s \in Steps
            PROVE  exec'[s].pending >= Cardinality(PendingOf(s)') + Cardinality(JoiningOf(s)')
        <5>1. exec[s].pending >= Cardinality(PendingOf(s)) + Cardinality(JoiningOf(s)) /\ exec'[s].pending = exec[s].pending
          BY <2>1, <1>1, <1>6 DEF CountInv
        <5>2. Cardinality(JoiningOf(s)) = 0 /\ Cardinality(PendingOf(s)') = 0 /\ Cardinality(JoiningOf(s)') = Cardinality(PendingOf(s))
          BY <2>2, <3>2, <3>3, FS_EmptySet
        <5>3. QED
          BY <5>1, <5>2, <1>3, <1>4
      <4>2. QED
        BY <4>1, <1>1 DEF CountInv
  <2>4. CASE pending = <<>>
    BY <1>21, <2>1, <2>4, <1>5, <1>6 DEF BeginJoin
  <2>5. QED
    BY <2>3, <2>4
<1>22. CASE EndJoinWait
  BY <1>22, StepActions, <1>5, <1>6 DEF EndJoinWait
<1>23. CASE CollectJoined
  <2> DEFINE r == joining[cursor]
             s == r.step
             before == IF cancelled THEN Failed(exec[s]) ELSE exec[s]
             after == [Collected(before, r) EXCEPT !.pending = @ - 1]
             closed == [after EXCEPT !.finished = TRUE]
  <2>1. s \in Steps /\ exec[s] \in ExecType /\ exec[s].pending \in Nat \ {0}
    BY <1>23, JoinedItem, CollectedIsCounted DEF CollectJoined
  <2>2. before \in ExecType /\ before.pending = exec[s].pending
    BY <2>1, ExecTypes, ExecFlags
  <2>3. Collected(before, r) \in ExecType /\ Collected(before, r).pending = exec[s].pending
    BY <2>2, CollectedType DEF Collected, Failed, ExecType
  <2>4. after.pending = exec[s].pending - 1 /\ closed.pending = after.pending
    BY <2>3 DEF ExecType
  <2>5. \A u \in Steps : Failed(exec[u]).pending = exec[u].pending
    BY <1>3, ExecFlags
  <2> HIDE DEF before, after, closed
  <2>6. pc = "collect" /\ UNCHANGED <<pending, joining>>
        /\ \/ pc' \notin {"joinWait", "collect"}
           \/ pc' = "collect" /\ cursor' = cursor + 1
    BY <1>23 DEF CollectJoined, Advance
  <2>7. \/ /\ exec' = [u \in Steps |-> IF u \in {s, at} THEN Failed(exec[u]) ELSE exec[u]]
           /\ pc' = "unwind"
        \/ exec' = [exec EXCEPT ![s] = after]
        \/ exec' = [exec EXCEPT ![s] = closed]
        \/ /\ exec' = [u \in Steps |-> IF u = s THEN closed ELSE IF u = at THEN Failed(exec[u]) ELSE exec[u]]
           /\ pc' = "unwind"
    BY <1>23 DEF CollectJoined, before, after, closed
  <2>8. cursor \in DOMAIN joining /\ DOMAIN joining = 1..Len(joining) /\ Len(joining) \in Nat
    BY <1>23, JoinedItem, LenProperties, <1>1 DEF CollectJoined, JoinTypes
  <2>9. ASSUME NEW u \in Steps
        PROVE  exec'[u].pending >= Cardinality(PendingOf(u)') + Cardinality(JoiningOf(u)')
    <3>1. PendingOf(u)' = PendingOf(u)
      BY <2>6 DEF PendingOf
    <3>2. JoiningOf(u)' \in SUBSET (JoiningOf(u) \ {cursor})
      BY <2>6, <2>8 DEF JoiningOf
    <3>3. cursor \in JoiningOf(u) <=> u = s
      BY <2>6, <2>8 DEF JoiningOf
    <3>4. IsFiniteSet(JoiningOf(u) \ {cursor}) /\ Cardinality(JoiningOf(u) \ {cursor}) =
            IF u = s THEN Cardinality(JoiningOf(u)) - 1 ELSE Cardinality(JoiningOf(u))
      BY <3>3, <1>4, FS_RemoveElement
    <3>5. Cardinality(JoiningOf(u)') <= Cardinality(JoiningOf(u) \ {cursor}) /\ Cardinality(JoiningOf(u)') \in Nat
      BY <3>2, <3>4, FS_Subset, FS_CardinalityType
    <3>6. exec[u].pending >= Cardinality(PendingOf(u)) + Cardinality(JoiningOf(u))
      BY <2>6, <1>1 DEF CountInv, Over
    <3>7. exec'[u].pending >= IF u = s THEN exec[u].pending - 1 ELSE exec[u].pending
      BY <2>1, <2>4, <2>5, <2>7, <1>3
    <3> HIDE DEF s
    <3>10. exec'[u].pending \in Nat
      BY StepTypesStep, <1>1 DEF StepTypes, ExecType
    <3>8. QED
      BY <3>1, <3>4, <3>5, <3>6, <3>7, <3>10, <1>3, <1>4
  <2>10. QED
    BY <2>9, <1>1 DEF CountInv
<1>24. CASE AbortJoined
  BY <1>24, StepActions, <1>5, <1>6 DEF AbortJoined, NextAbort, Unwind
<1>25. CASE EndJoin
  BY <1>25, StepActions, <1>5, <1>6 DEF EndJoin, Unwind
<1>26. CASE CheckSafety
  <2> DEFINE f == IF cancelled THEN Failed(exec[at]) ELSE exec[at]
             e == [f EXCEPT !.dispatched = TRUE]
  <2>1. f \in ExecType /\ f.pending = exec[at].pending
    BY <1>2, <1>3, ExecTypes, ExecFlags
  <2>2. e \in ExecType /\ e.pending = exec[at].pending
    BY <2>1 DEF ExecType
  <2> HIDE DEF e, f
  <2>3. Failed(e) \in ExecType /\ Failed(e).pending = exec[at].pending /\ Failed(exec[at]).pending = exec[at].pending
    BY <2>2, <1>2, <1>3, ExecTypes, ExecFlags
  <2>4. [e EXCEPT !.finished = TRUE].pending = exec[at].pending /\ [Failed(e) EXCEPT !.finished = TRUE].pending = exec[at].pending
    BY <2>2, <2>3 DEF ExecType
  <2>5. exec' \in {exec, [exec EXCEPT ![at] = Failed(exec[at])], [exec EXCEPT ![at] = e],
                   [exec EXCEPT ![at] = [e EXCEPT !.finished = TRUE]], [exec EXCEPT ![at] = [Failed(e) EXCEPT !.finished = TRUE]]}
    BY <1>26 DEF CheckSafety, CloseStep, Unwind, e, f
  <2>6. \A s \in Steps : exec'[s].pending = exec[s].pending
    BY <2>2, <2>3, <2>4, <2>5, <1>2, <1>3
  <2>7. UNCHANGED pending /\ pc = "safety" /\ pc' \notin {"joinWait", "collect"}
    BY <1>26 DEF CheckSafety, CloseStep, Unwind
  <2>8. QED
    BY <2>6, <2>7, <1>5 DEF Over
<1>27. CASE CancelHold
  BY <1>27, StepActions, <1>5, <1>6 DEF CancelHold, Unwind
<1>28. CASE AbortUnfinished
  <2>1. pc' \in Over
    BY <1>28 DEF AbortUnfinished, Over
  <2>2. QED
    BY <2>1 DEF CountInv
<1>29. CASE StopChamber
  <2>1. pc' \in Over
    BY <1>29 DEF StopChamber, Over
  <2>2. QED
    BY <2>1 DEF CountInv
<1>30. CASE ReportUnfinished
  <2>1. pc' \in Over
    BY <1>30 DEF ReportUnfinished, Over
  <2>2. QED
    BY <2>1 DEF CountInv
<1>31. CASE Resume
  BY <1>31, StepActions, <1>5, <1>6 DEF Resume
<1>32. CASE DecideAbort
  BY <1>32, StepActions, <1>5, <1>6 DEF DecideAbort, NextAbort
<1>33. CASE AgentSends
  BY <1>33, <1>7 DEF AgentSends
<1>34. CASE DeliverResult
  BY <1>34, <1>7 DEF DeliverResult
<1>35. CASE DeliverAck
  BY <1>35, <1>7 DEF DeliverAck
<1>36. CASE Cancel
  BY <1>36, <1>7 DEF Cancel
<1>37. CASE RequestEmergencyStop
  BY <1>37, <1>7 DEF RequestEmergencyStop
<1>38. CASE ResetEmergencyStop
  BY <1>38, <1>7 DEF ResetEmergencyStop
<1>39. CASE UNCHANGED vars
  BY <1>39, <1>7
<1>40. QED
  BY <1>8, <1>9, <1>10, <1>11, <1>12, <1>13, <1>14, <1>15, <1>16, <1>17, <1>18, <1>19, <1>20,
     <1>21, <1>22, <1>23, <1>24, <1>25, <1>26, <1>27, <1>28, <1>29, <1>30, <1>31, <1>32,
     <1>33, <1>34, <1>35, <1>36, <1>37, <1>38, <1>39
     DEF Next, Engine, CameraStep, Operator, Environment

\* No step is finished with captures of it pending.
LEMMA FinishedStep ==
  ASSUME IInv, [Next]_vars
  PROVE  FinishedInv'
<1> USE DEF vars, runVars, flowVars, joinVars, captureVars, commandVars, chamberVars, skipVars,
           requestHistory, otherHistory, engineVars
<1>1. FinishedInv /\ recipe' = recipe /\ Steps' = Steps
  BY RecipeKept DEF IInv, Parts, TypeOK
<1>2. CountInv' /\ StepsInv' /\ StepTypes' /\ JoinTypes'
  BY CountStep, StepsStep, StepTypesStep, JoinTypesStep
<1>3. ASSUME pc' \notin Over
     PROVE  FinishedInv'
  <2>1. SUFFICES ASSUME NEW s \in Steps, NEW k \in DOMAIN pending', exec'[s].finished
                 PROVE  pending'[k].step # s
    BY <1>1 DEF FinishedInv
  <2>2. exec'[s].pending = 0
    BY <2>1, <1>1, <1>2 DEF StepsInv
  <2>3. /\ Cardinality(PendingOf(s)') \in Nat /\ Cardinality(JoiningOf(s)') \in Nat
        /\ IsFiniteSet(PendingOf(s)')
    <3>1. ASSUME JoinTypes'
          PROVE  (IsFiniteSet(PendingOf(s)) /\ Cardinality(PendingOf(s)) \in Nat /\ Cardinality(JoiningOf(s)) \in Nat)'
      BY <3>1, OpenFinite, PTL
    <3>2. QED
      BY <3>1, <1>2
  <2>4. 0 >= Cardinality(PendingOf(s)') + Cardinality(JoiningOf(s)')
    BY <2>1, <2>2, <1>1, <1>2, <1>3 DEF CountInv
  <2>5. PendingOf(s)' = {}
    BY <2>3, <2>4, FS_EmptySet
  <2>6. QED
    BY <2>1, <2>5 DEF PendingOf
<1>4. ASSUME UNCHANGED <<pc, exec, pending>>
     PROVE  FinishedInv'
  BY <1>4, <1>1 DEF FinishedInv
<1>5. CASE StartRun
  BY <1>5 DEF StartRun, FinishedInv
<1>6. CASE Preflight
  BY <1>6, <1>3 DEF Preflight, Over, FinishedInv
<1>7. CASE BeginStep
  <2>1. Step.kind \in Kinds
    BY StepFacts DEF Step, IInv, TypeOK, RunTypes
  <2>2. pc' \notin Over
    BY <1>7, <2>1 DEF BeginStep, Kinds, Quantities, Over
  <2>3. QED
    BY <2>2, <1>3
<1>8. CASE Device
  BY <1>8, StepActions, <1>3 DEF WithinStep, Over, InStep, Serving, Joining, Checking
<1>9. CASE StartChamber
  BY <1>9, StepActions, <1>3 DEF WithinStep, Over, InStep, Serving, Joining, Checking
<1>10. CASE SetClimate
  BY <1>10, StepActions, <1>3 DEF WithinStep, Over, InStep, Serving, Joining, Checking
<1>11. CASE NextTarget
  BY <1>11, StepActions, <1>3 DEF WithinStep, Over, InStep, Serving, Joining, Checking
<1>12. CASE SendCommand
  BY <1>12, StepActions, <1>3 DEF WithinStep, Over, InStep, Serving, Joining, Checking
<1>13. CASE CommandAnswered
  BY <1>13, StepActions, <1>3 DEF WithinStep, Over, InStep, Serving, Joining, Checking
<1>14. CASE CommandUnanswered
  BY <1>14, StepActions, <1>3 DEF WithinStep, Over, InStep, Serving, Joining, Checking
<1>15. CASE PublishCapture
  <2>1. pc' \notin Over
    BY <1>15 DEF PublishCapture, Unwind, Over
  <2>2. QED
    BY <2>1, <1>3
<1>16. CASE CollectWaited
  BY <1>16, StepActions, <1>3 DEF WithinStep, Over, InStep, Serving, Joining, Checking
<1>17. CASE AbortWaited
  BY <1>17, StepActions, <1>3 DEF WithinStep, Over, InStep, Serving, Joining, Checking
<1>18. CASE BeginJoin
  BY <1>18, StepActions, <1>3 DEF WithinStep, Over, InStep, Serving, Joining, Checking
<1>19. CASE EndJoinWait
  BY <1>19, StepActions, <1>3 DEF WithinStep, Over, InStep, Serving, Joining, Checking
<1>20. CASE CollectJoined
  <2>1. pc' \notin Over
    BY <1>20 DEF CollectJoined, Advance, Over
  <2>2. QED
    BY <2>1, <1>3
<1>21. CASE AbortJoined
  BY <1>21, StepActions, <1>3 DEF WithinStep, Over, InStep, Serving, Joining, Checking
<1>22. CASE EndJoin
  BY <1>22, StepActions, <1>3 DEF WithinStep, Over, InStep, Serving, Joining, Checking
<1>23. CASE CheckSafety
  <2>1. pc' \notin Over
    BY <1>23 DEF CheckSafety, CloseStep, Unwind, Over
  <2>2. QED
    BY <2>1, <1>3
<1>24. CASE CancelHold
  BY <1>24, StepActions, <1>3 DEF WithinStep, Over, InStep, Serving, Joining, Checking
<1>25. CASE AbortUnfinished
  <2>1. \A s \in Steps : exec'[s].finished => exec[s].finished
    <3>1. \A s \in Steps : exec[s] \in ExecType
      BY DEF IInv, TypeOK, StepTypes
    <3>2. \A s \in Steps : [Failed(exec[s]) EXCEPT !.pending = 0, !.dispatched = TRUE].finished = exec[s].finished
      BY <3>1 DEF ExecType, Failed
    <3>3. QED
      BY <1>25, <3>2 DEF AbortUnfinished
  <2>2. QED
    BY <1>25, <2>1, <1>1 DEF AbortUnfinished, FinishedInv
<1>26. CASE StopChamber
  BY <1>26 DEF StopChamber, FinishedInv
<1>27. CASE ReportUnfinished
  BY <1>27 DEF ReportUnfinished, FinishedInv
<1>28. CASE Resume
  BY <1>28, StepActions, <1>3 DEF WithinStep, Over, InStep, Serving, Joining, Checking
<1>29. CASE DecideAbort
  BY <1>29, StepActions, <1>3 DEF WithinStep, Over, InStep, Serving, Joining, Checking
<1>30. CASE AgentSends
  BY <1>30, <1>4 DEF AgentSends
<1>31. CASE DeliverResult
  BY <1>31, <1>4 DEF DeliverResult
<1>32. CASE DeliverAck
  BY <1>32, <1>4 DEF DeliverAck
<1>33. CASE Cancel
  BY <1>33, <1>4 DEF Cancel
<1>34. CASE RequestEmergencyStop
  BY <1>34, <1>4 DEF RequestEmergencyStop
<1>35. CASE ResetEmergencyStop
  BY <1>35, <1>4 DEF ResetEmergencyStop
<1>36. CASE UNCHANGED vars
  BY <1>36, <1>4
<1>37. QED
  BY <1>5, <1>6, <1>7, <1>8, <1>9, <1>10, <1>11, <1>12, <1>13, <1>14, <1>15, <1>16, <1>17,
     <1>18, <1>19, <1>20, <1>21, <1>22, <1>23, <1>24, <1>25, <1>26, <1>27, <1>28, <1>29,
     <1>30, <1>31, <1>32, <1>33, <1>34, <1>35, <1>36
     DEF Next, Engine, CameraStep, Operator, Environment

-------------------------------------------------------------------------------
(* The invariant and the theorems.                                          *)

LEMMA InitInv == Init => IInv
<1> SUFFICES ASSUME Init PROVE IInv
  OBVIOUS
<1> USE DEF Init
<1>1. recipe \in RecipeType /\ recipe.steps \in Seq(StepType) /\ recipe.steps # <<>>
  BY RecipesAssumption DEF RecipeType
<1>2. Steps = 1..Len(recipe.steps) /\ Len(recipe.steps) \in Nat \ {0} /\ 1 \in Steps
  BY <1>1, LenProperties, EmptySeq DEF Steps
<1>3. FreshExec \in ExecType /\ ~FreshExec.started /\ ~FreshExec.finished /\ FreshExec.pending = 0
  BY DEF FreshExec, ExecType
<1>4. RunTypes
  <2>1. turn \in [round : Nat \ {0}, k : Nat \ {0}]
    BY DEF FirstTurn
  <2>2. run \in 0..MaxRuns /\ at \in Steps
    BY <1>2, BoundsAssumption
  <2>3. QED
    BY <2>1, <2>2 DEF RunTypes, Phases
<1>5. StepTypes
  BY <1>3, EmptySeq DEF StepTypes
<1>6. BatchTypes
  BY DEF BatchTypes
<1>7. JoinTypes
  <2>1. <<>> \in Seq(DOMAIN batches)
    BY EmptySeq
  <2>2. pending \in Seq(DOMAIN batches) /\ joining \in Seq(DOMAIN batches)
    BY <2>1, Zenon
  <2>3. cursor \in Nat \ {0}
    OBVIOUS
  <2>4. late \in BOOLEAN /\ proceed \in BOOLEAN
    OBVIOUS
  <2>5. QED
    BY <2>2, <2>3, <2>4 DEF JoinTypes
<1>8. RequestTypes
  BY DEF RequestTypes
<1>9. BiasTypes
  BY DEF BiasTypes
<1>10. NumberTypes
  BY DEF NumberTypes
<1>11. ChamberTypes
  BY DEF ChamberTypes, Conditions
<1>12. PhaseInv /\ AwaitedInv /\ WatchInv /\ StoppedInv /\ SafetyBeforeStep
  BY DEF PhaseInv, AwaitedInv, WatchInv, StoppedInv, SafetyBeforeStep, InStep, Serving, Joining, Checking
<1>13. StepsInv /\ FinishedInv
  BY <1>3 DEF StepsInv, FinishedInv, NotBegun, InStep, Serving, Joining, Checking
<1>14. CountInv
  BY DEF CountInv, Over
<1>15. BatchInv /\ SentInv /\ UnjoinedInv
  BY DEF BatchInv, SentInv, UnjoinedInv
<1>16. NumbersInv /\ BiasIsLatest /\ FileNumbersDisjoint
  BY DEF NumbersInv, BiasIsLatest, FileNumbersDisjoint
<1>17. QED
  BY <1>4, <1>5, <1>6, <1>7, <1>8, <1>9, <1>10, <1>11, <1>12, <1>13, <1>14, <1>15, <1>16
     DEF IInv, TypeOK, Parts

LEMMA NextInv == IInv /\ [Next]_vars => IInv'
BY TypeStep, PhaseStep, StepsStep, CountStep, FinishedStep, BatchStep, AwaitedStep, SentStep,
   UnjoinedStep, NumbersStep, WatchStep, StoppedStep, BiasStep, SafetyStep DEF IInv, Parts

LEMMA Invariance == Spec => []IInv
<1>1. Init => IInv
  BY InitInv
<1>2. IInv /\ [Next]_vars => IInv'
  BY NextInv
<1>3. QED
  BY <1>1, <1>2, PTL DEF Spec

\* All the state of a run has the type it is said to have, in every phase.
THEOREM TypeCorrect == Spec => []TypeOK
<1>1. IInv => TypeOK
  BY DEF IInv
<1>2. QED
  BY <1>1, Invariance, PTL

\* However captures are forked, joined, cancelled or given up, FinishStep reports no step
\* twice, none while a capture of it is pending, and misses none that was started.
THEOREM ReportedExactlyOnce == Spec => []ReceiptsExactlyOnce
<1>1. IInv => ReceiptsExactlyOnce
  <2>1. SUFFICES ASSUME StepsInv, FinishedInv, NEW s \in Steps
                 PROVE  /\ Len(receipts[s]) <= 1
                        /\ receipts[s] # <<>> /\ pc \notin {"report", "idle"} =>
                              \A k \in DOMAIN pending : pending[k].step # s
                        /\ pc = "idle" /\ exec[s].started /\ "receipt" \notin failures => Len(receipts[s]) = 1
    BY DEF IInv, Parts, ReceiptsExactlyOnce
  <2>2. Len(receipts[s]) <= 1
    <3>1. Len(<<>>) = 0
      BY EmptySeq
    <3>2. Len(receipts[s]) = 0 \/ Len(receipts[s]) = 1
      BY <2>1, <3>1, Zenon DEF StepsInv
    <3> DEFINE n == Len(receipts[s])
    <3>3. n = 0 \/ n = 1
      BY <3>2
    <3> HIDE DEF n
    <3>4. n <= 1
      BY <3>3
    <3>5. QED
      BY <3>4, Zenon DEF n
  <2>3. receipts[s] # <<>> /\ pc \notin {"report", "idle"} => \A k \in DOMAIN pending : pending[k].step # s
    BY <2>1 DEF StepsInv, FinishedInv
  <2>4. pc = "idle" /\ exec[s].started /\ "receipt" \notin failures => Len(receipts[s]) = 1
    BY <2>1 DEF StepsInv
  <2>5. QED
    BY <2>2, <2>3, <2>4
<1>2. QED
  BY <1>1, Invariance, PTL

\* No result of an earlier run is stored, however late it arrives.
THEOREM ResultsAreOfTheRun == Spec => []StoresOwnResults
<1>1. IInv => StoresOwnResults
  BY DEF IInv, Parts, SentInv, StoresOwnResults
<1>2. QED
  BY <1>1, Invariance, PTL

\* A run that is over leaves no required capture and no forked capture to its agent.
THEOREM CapturesAreGivenUp == Spec => []UnjoinedAborted
<1>1. IInv => UnjoinedAborted
  <2>1. SUFFICES ASSUME UnjoinedInv, pc = "idle" PROVE UnjoinedAborted
    BY DEF IInv, Parts, UnjoinedAborted
  <2>2. QED
    BY <2>1 DEF UnjoinedInv, Over, UnjoinedAborted
<1>2. QED
  BY <1>1, Invariance, PTL

\* A BIAS that a capture may name is the last one its camera acknowledged.
THEOREM BiasIsTheLast == Spec => []BiasIsLatest
<1>1. IInv => BiasIsLatest
  BY DEF IInv, Parts
<1>2. QED
  BY <1>1, Invariance, PTL

\* Whatever offsets a plan has, no file number of a destination is given twice in a run.
THEOREM NumbersAreDisjoint == Spec => []FileNumbersDisjoint
<1>1. IInv => FileNumbersDisjoint
  BY DEF IInv, Parts
<1>2. QED
  BY <1>1, Invariance, PTL

\* No step is entered with a watched quantity last read outside its limits.
THEOREM StepsAreSafe == Spec => []SafetyBeforeStep
<1>1. IInv => SafetyBeforeStep
  BY DEF IInv, Parts
<1>2. QED
  BY <1>1, Invariance, PTL

\* A chamber the engine started is off when the run is over, or the alarm was raised.
THEOREM ChamberIsStopped == Spec => []StartedChamberStopped
<1>1. IInv => StartedChamberStopped
  BY DEF IInv, Parts, StoppedInv, StartedChamberStopped
<1>2. QED
  BY <1>1, Invariance, PTL

===============================================================================
