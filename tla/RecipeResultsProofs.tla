------------------------- MODULE RecipeResultsProofs -------------------------
(***************************************************************************)
(* What RecipeEngine reports of its steps, for all recipes, cameras and    *)
(* numbers of runs: a capture step reported as succeeded has all of its    *)
(* results stored, and the reports implement StepReports.  The invariant   *)
(* of RecipeEngineProofs is taken as proved, and added to.                 *)
(***************************************************************************)
EXTENDS RecipeEngineProofs

(* What is added to the inductive invariant. *)

RequestOf(s, n, k) ==
  [op |-> "capture", run |-> run, step |-> s, round |-> n, camera |-> recipe.steps[s].cameras[k]]
OkStored(r) == {m \in stored : m.key = r /\ m.kind = "ok"}
IsStored(r) == Cardinality(OkStored(r)) = Expected(r)

\* The capture is forked, and no join has collected it.
IsOpen(r) ==
  \/ \E j \in DOMAIN pending : pending[j] = r
  \/ \E j \in DOMAIN joining : pc \in {"joinWait", "collect"} /\ j >= cursor /\ joining[j] = r

\* The step has served the camera at its place k in the round n.
Served(s, n, k) ==
  \/ s < at
  \/ s = at /\ pc \in Checking
  \/ s = at /\ pc \in InStep /\ (n < turn.round \/ (n = turn.round /\ k < turn.k))

\* A capture step that may yet be reported as succeeded.
Promising(s) ==
  recipe.steps[s].kind = "capture" /\ ~exec[s].finished /\ exec[s].outcome = "succeeded"

\* As long as it may, each of its cameras that was served has its results stored or its
\* capture open.
Executing == {"step"} \cup InStep \cup Checking
ServedInv ==
  pc \in Executing =>
    \A s \in Steps : Promising(s) =>
      \A k \in DOMAIN recipe.steps[s].cameras, n \in 1..recipe.steps[s].rounds :
        Served(s, n, k) => IsStored(RequestOf(s, n, k)) \/ IsOpen(RequestOf(s, n, k))

\* Only steps that were begun are dispatched.
BegunInv == \A s \in Steps : exec[s].dispatched => exec[s].started

RInv == IInv /\ BegunInv /\ ServedInv /\ SucceededMeansStored

-------------------------------------------------------------------------------
(* What is stored of a request.                                             *)

\* Agents number the results of a request from 1, so no more can be stored than expected.
OkBounded ==
  \A q \in Requests : /\ IsFiniteSet(OkStored(q)) /\ Cardinality(OkStored(q)) \in Nat
                      /\ Cardinality(OkStored(q)) <= Expected(q)

LEMMA NoMoreThanExpected == IInv => OkBounded
<1> SUFFICES ASSUME IInv, NEW r \in Requests
             PROVE  /\ IsFiniteSet(OkStored(r)) /\ Cardinality(OkStored(r)) \in Nat
                    /\ Cardinality(OkStored(r)) <= Expected(r)
  BY DEF OkBounded
<1>1. Expected(r) \in Nat \ {0}
  BY ExpectedType DEF IInv, TypeOK
<1>2. IsFiniteSet(1..Expected(r)) /\ Cardinality(1..Expected(r)) = Expected(r)
  BY <1>1, FS_Interval
<1> DEFINE f == [m \in OkStored(r) |-> m.id]
<1>3. \A m \in OkStored(r) : m.id \in 1..Expected(r)
  BY DEF OkStored, SentInv, IInv, Parts
<1>4. \A m, n \in OkStored(r) : m.id = n.id => m = n
  BY DEF OkStored, SentInv, IInv, Parts
<1>5. f \in Injection(OkStored(r), 1..Expected(r))
  BY <1>3, <1>4 DEF Injection, IsInjective
<1>6. QED
  BY <1>2, <1>5, FS_Injection, FS_CardinalityType

\* What a step of the engine adds to the results stored.
LEMMA StoredBy ==
  ASSUME IInv, [Next]_vars, NEW r \in Requests, NEW X, X \subseteq OkStored(r)',
         ~(Cardinality(X) < Expected(r))
  PROVE  IsStored(r)'
<1>1. IInv'
  BY NextInv
<1>2. OkBounded'
  BY <1>1, NoMoreThanExpected, PTL
<1>3. recipe' = recipe /\ Requests' = Requests
  BY RecipeKept, TypesKept DEF IInv, TypeOK
<1>4. Expected(r)' = Expected(r) /\ Expected(r) \in Nat
  BY <1>3, ExpectedType DEF Expected, IInv, TypeOK
<1>5. IsFiniteSet(OkStored(r)') /\ Cardinality(OkStored(r)') \in Nat
  BY <1>2, <1>3 DEF OkBounded
<1>6. Cardinality(OkStored(r)') <= Expected(r)
  BY <1>2, <1>3, <1>4 DEF OkBounded
<1>7. Cardinality(X) \in Nat /\ Cardinality(X) <= Cardinality(OkStored(r)')
  BY <1>5, FS_Subset, FS_CardinalityType
<1>8. Cardinality(OkStored(r)') = Expected(r)
  BY <1>4, <1>5, <1>6, <1>7
<1>9. QED
  BY <1>4, <1>8 DEF IsStored

LEMMA StoredStays ==
  ASSUME IInv, [Next]_vars, NEW r \in Requests, IsStored(r), stored \subseteq stored'
  PROVE  IsStored(r)'
<1>1. OkStored(r) \subseteq OkStored(r)'
  BY DEF OkStored
<1>2. Expected(r) \in Nat /\ Cardinality(OkStored(r)) = Expected(r)
  BY ExpectedType DEF IInv, TypeOK, IsStored
<1>3. QED
  BY <1>1, <1>2, StoredBy

\* A step that is successful with a request collected has all of its results stored.
LEMMA CollectedAll ==
  ASSUME IInv, [Next]_vars, NEW r \in DOMAIN batches, NEW e \in ExecType,
         Collected(e, r).outcome = "succeeded", Successes(r) \subseteq stored'
  PROVE  IsStored(r)' /\ e.outcome = "succeeded"
<1>1. Failed(e).outcome # "succeeded"
  BY DEF Failed, ExecType
<1>2. ~(Cardinality(Successes(r)) < Expected(r)) /\ Collected(e, r) = e
  BY <1>1 DEF Collected
<1>3. Successes(r) \subseteq OkStored(r)'
  BY DEF Successes, OkStored, IInv, Parts, BatchInv
<1>4. r \in Requests
  BY DEF IInv, TypeOK, BatchTypes
<1>5. QED
  BY <1>2, <1>3, <1>4, StoredBy

LEMMA RequestOfType ==
  ASSUME RunTypes, run # 0, NEW s \in Steps, NEW k \in DOMAIN recipe.steps[s].cameras,
         NEW n \in 1..recipe.steps[s].rounds
  PROVE  /\ RequestOf(s, n, k) \in Requests /\ RequestOf(s, n, k).step = s
         /\ k \in Nat \ {0} /\ n \in Nat \ {0} /\ k <= Len(recipe.steps[s].cameras)
<1>1. recipe.steps[s].cameras \in Seq(Cameras) /\ recipe.steps[s].rounds \in Nat
  BY StepFacts
<1>2. recipe.steps[s].cameras[k] \in Cameras /\ n \in Nat \ {0}
  BY <1>1, LenProperties, ElementOfSeq
<1>3. run \in 1..MaxRuns
  BY BoundsAssumption DEF RunTypes
<1>4. k \in Nat \ {0} /\ k <= Len(recipe.steps[s].cameras)
  BY <1>1, LenProperties
<1>5. QED
  BY <1>2, <1>3, <1>4 DEF RequestOf, Requests

-------------------------------------------------------------------------------
(* Steps that may yet be reported as succeeded.                             *)

\* A step that begins a run executes nothing.
LEMMA RunKept ==
  ASSUME [Next]_vars, pc' \in Executing
  PROVE  run' = run
<1> USE DEF vars, runVars, flowVars, joinVars, captureVars, commandVars, chamberVars, skipVars,
           requestHistory, otherHistory, engineVars
<1>1. CASE StartRun
  BY <1>1 DEF StartRun, Executing, InStep, Checking, Serving, Joining
<1>2. CASE Preflight
  BY <1>2 DEF Preflight
<1>3. CASE BeginStep
  BY <1>3 DEF BeginStep
<1>4. CASE Device
  BY <1>4 DEF Device, Unwind
<1>5. CASE StartChamber
  BY <1>5 DEF StartChamber, Unwind
<1>6. CASE SetClimate
  BY <1>6 DEF SetClimate, Watch, Unwind
<1>7. CASE NextTarget
  BY <1>7 DEF NextTarget, Unwind
<1>8. CASE SendCommand
  BY <1>8 DEF SendCommand, Unwind
<1>9. CASE CommandAnswered
  BY <1>9 DEF CommandAnswered, RecordBias, Unwind
<1>10. CASE CommandUnanswered
  BY <1>10 DEF CommandUnanswered, Unwind
<1>11. CASE PublishCapture
  BY <1>11 DEF PublishCapture, NumberShots, Register, Unwind
<1>12. CASE CollectWaited
  BY <1>12 DEF CollectWaited, AbortForeign, StorePart, NoteFailure, Unwind
<1>13. CASE AbortWaited
  BY <1>13 DEF AbortWaited, AbortWaitedRequest, Unwind
<1>14. CASE BeginJoin
  BY <1>14 DEF BeginJoin
<1>15. CASE EndJoinWait
  BY <1>15 DEF EndJoinWait
<1>16. CASE CollectJoined
  BY <1>16 DEF CollectJoined, Advance, AbortForeign, StorePart, NoteFailure
<1>17. CASE AbortJoined
  BY <1>17 DEF AbortJoined, NextAbort, Unwind
<1>18. CASE EndJoin
  BY <1>18 DEF EndJoin, Unwind
<1>19. CASE CheckSafety
  BY <1>19 DEF CheckSafety, CloseStep, Unwind
<1>20. CASE CancelHold
  BY <1>20 DEF CancelHold, Unwind
<1>21. CASE AbortUnfinished
  BY <1>21 DEF AbortUnfinished
<1>22. CASE StopChamber
  BY <1>22 DEF StopChamber
<1>23. CASE ReportUnfinished
  BY <1>23 DEF ReportUnfinished
<1>24. CASE Resume
  BY <1>24 DEF Resume
<1>25. CASE DecideAbort
  BY <1>25 DEF DecideAbort, NextAbort
<1>26. CASE AgentSends
  BY <1>26 DEF AgentSends
<1>27. CASE DeliverResult
  BY <1>27 DEF DeliverResult
<1>28. CASE DeliverAck
  BY <1>28 DEF DeliverAck
<1>29. CASE Cancel
  BY <1>29 DEF Cancel
<1>30. CASE RequestEmergencyStop
  BY <1>30 DEF RequestEmergencyStop
<1>31. CASE ResetEmergencyStop
  BY <1>31 DEF ResetEmergencyStop
<1>32. CASE UNCHANGED vars
  BY <1>32
<1>33. QED
  BY <1>1, <1>2, <1>3, <1>4, <1>5, <1>6, <1>7, <1>8, <1>9, <1>10, <1>11, <1>12, <1>13, <1>14,
     <1>15, <1>16, <1>17, <1>18, <1>19, <1>20, <1>21, <1>22, <1>23, <1>24, <1>25, <1>26,
     <1>27, <1>28, <1>29, <1>30, <1>31, <1>32
     DEF Next, Engine, CameraStep, Operator, Environment

\* A step that may be reported as succeeded after its outcome was set is as it was.
LEMMA PromiseIsKept ==
  ASSUME RunTypes, StepTypes, NEW s \in Steps,
         SetsOutcome,
         exec'[s].outcome = "succeeded"
  PROVE  exec'[s] = exec[s]
<1>1. at \in Steps /\ exec \in [Steps -> ExecType] /\ exec[at] \in ExecType
  BY DEF RunTypes, StepTypes
<1>2. Failed(exec[at]).outcome # "succeeded" /\ Skipped(exec[at]).outcome # "succeeded"
  BY <1>1 DEF ExecType, Failed, Skipped
<1>3. QED
  BY <1>1, <1>2 DEF SetsOutcome

\* What the next turn is, in numbers.
LEMMA NextTurnIs ==
  ASSUME RunTypes, turn.k \in DOMAIN Step.cameras
  PROVE  \/ turn.k < Len(Step.cameras) /\ NextTurn.round = turn.round /\ NextTurn.k = turn.k + 1
         \/ turn.k = Len(Step.cameras) /\ NextTurn.round = turn.round + 1 /\ NextTurn.k = 1
<1>1. turn \in [round : Nat \ {0}, k : Nat \ {0}] /\ Step.cameras \in Seq(Cameras)
  BY StepFacts DEF RunTypes, Step
<1>2. turn.k \in 1..Len(Step.cameras) /\ Len(Step.cameras) \in Nat
  BY <1>1, LenProperties
<1>3. QED
  BY <1>1, <1>2 DEF NextTurn

\* The run was under way before any step of it.
LEMMA RunningBefore ==
  ASSUME RunTypes, PhaseInv, [Next]_vars, pc' \in Executing
  PROVE  run # 0 /\ pc # "idle"
<1> USE DEF vars, runVars, flowVars, joinVars, captureVars, commandVars, chamberVars, skipVars,
           requestHistory, otherHistory, engineVars
<1>1. CASE StartRun
  BY <1>1 DEF StartRun, PhaseInv, Executing, InStep, Checking, Serving, Joining
<1>2. CASE Preflight
  BY <1>2 DEF Preflight, PhaseInv, Executing, InStep, Checking, Serving, Joining
<1>3. CASE BeginStep
  BY <1>3 DEF BeginStep, PhaseInv, Executing, InStep, Checking, Serving, Joining
<1>4. CASE Device
  BY <1>4 DEF Device, Unwind, PhaseInv, Executing, InStep, Checking, Serving, Joining
<1>5. CASE StartChamber
  BY <1>5 DEF StartChamber, Unwind, PhaseInv, Executing, InStep, Checking, Serving, Joining
<1>6. CASE SetClimate
  BY <1>6 DEF SetClimate, Watch, Unwind, PhaseInv, Executing, InStep, Checking, Serving, Joining
<1>7. CASE NextTarget
  BY <1>7 DEF NextTarget, Unwind, PhaseInv, Executing, InStep, Checking, Serving, Joining
<1>8. CASE SendCommand
  BY <1>8 DEF SendCommand, Unwind, PhaseInv, Executing, InStep, Checking, Serving, Joining
<1>9. CASE CommandAnswered
  BY <1>9
     DEF CommandAnswered, RecordBias, Unwind, PhaseInv, Executing, InStep, Checking, Serving,
         Joining
<1>10. CASE CommandUnanswered
  BY <1>10
     DEF CommandUnanswered, Unwind, PhaseInv, Executing, InStep, Checking, Serving, Joining
<1>11. CASE PublishCapture
  BY <1>11
     DEF PublishCapture, NumberShots, Register, Unwind, PhaseInv, Executing, InStep, Checking,
         Serving, Joining
<1>12. CASE CollectWaited
  BY <1>12
     DEF CollectWaited, AbortForeign, StorePart, NoteFailure, Unwind, PhaseInv, Executing,
         InStep, Checking, Serving, Joining
<1>13. CASE AbortWaited
  BY <1>13
     DEF AbortWaited, AbortWaitedRequest, Unwind, PhaseInv, Executing, InStep, Checking,
         Serving, Joining
<1>14. CASE BeginJoin
  BY <1>14 DEF BeginJoin, PhaseInv, Executing, InStep, Checking, Serving, Joining
<1>15. CASE EndJoinWait
  BY <1>15 DEF EndJoinWait, PhaseInv, Executing, InStep, Checking, Serving, Joining
<1>16. CASE CollectJoined
  BY <1>16
     DEF CollectJoined, Advance, AbortForeign, StorePart, NoteFailure, PhaseInv, Executing,
         InStep, Checking, Serving, Joining
<1>17. CASE AbortJoined
  BY <1>17
     DEF AbortJoined, NextAbort, Unwind, PhaseInv, Executing, InStep, Checking, Serving, Joining
<1>18. CASE EndJoin
  BY <1>18 DEF EndJoin, Unwind, PhaseInv, Executing, InStep, Checking, Serving, Joining
<1>19. CASE CheckSafety
  BY <1>19
     DEF CheckSafety, CloseStep, Unwind, PhaseInv, Executing, InStep, Checking, Serving, Joining
<1>20. CASE CancelHold
  BY <1>20 DEF CancelHold, Unwind, PhaseInv, Executing, InStep, Checking, Serving, Joining
<1>21. CASE AbortUnfinished
  BY <1>21 DEF AbortUnfinished, PhaseInv, Executing, InStep, Checking, Serving, Joining
<1>22. CASE StopChamber
  BY <1>22 DEF StopChamber, PhaseInv, Executing, InStep, Checking, Serving, Joining
<1>23. CASE ReportUnfinished
  BY <1>23 DEF ReportUnfinished, PhaseInv, Executing, InStep, Checking, Serving, Joining
<1>24. CASE Resume
  BY <1>24 DEF Resume, PhaseInv, Executing, InStep, Checking, Serving, Joining
<1>25. CASE DecideAbort
  BY <1>25 DEF DecideAbort, NextAbort, PhaseInv, Executing, InStep, Checking, Serving, Joining
<1>26. CASE AgentSends
  BY <1>26 DEF AgentSends, PhaseInv, Executing, InStep, Checking, Serving, Joining
<1>27. CASE DeliverResult
  BY <1>27 DEF DeliverResult, PhaseInv, Executing, InStep, Checking, Serving, Joining
<1>28. CASE DeliverAck
  BY <1>28 DEF DeliverAck, PhaseInv, Executing, InStep, Checking, Serving, Joining
<1>29. CASE Cancel
  BY <1>29 DEF Cancel, PhaseInv, Executing, InStep, Checking, Serving, Joining
<1>30. CASE RequestEmergencyStop
  BY <1>30 DEF RequestEmergencyStop, PhaseInv, Executing, InStep, Checking, Serving, Joining
<1>31. CASE ResetEmergencyStop
  BY <1>31 DEF ResetEmergencyStop, PhaseInv, Executing, InStep, Checking, Serving, Joining
<1>32. CASE UNCHANGED vars
  BY <1>32 DEF PhaseInv, Executing, InStep, Checking, Serving, Joining
<1>33. QED
  BY <1>1, <1>2, <1>3, <1>4, <1>5, <1>6, <1>7, <1>8, <1>9, <1>10, <1>11, <1>12, <1>13, <1>14,
     <1>15, <1>16, <1>17, <1>18, <1>19, <1>20, <1>21, <1>22, <1>23, <1>24, <1>25, <1>26,
     <1>27, <1>28, <1>29, <1>30, <1>31, <1>32
     DEF Next, Engine, CameraStep, Operator, Environment

\* Of each camera served the results are stored or the capture is open.
LEMMA ServedStep ==
  ASSUME IInv, ServedInv, [Next]_vars
  PROVE  ServedInv'
<1> USE DEF vars, runVars, flowVars, joinVars, captureVars, commandVars, chamberVars, skipVars,
           requestHistory, otherHistory, engineVars
<1>1. /\ RunTypes /\ StepTypes /\ BatchTypes /\ JoinTypes /\ PhaseInv /\ StepsInv
      /\ recipe' = recipe /\ Steps' = Steps /\ Requests' = Requests
  BY RecipeKept, TypesKept DEF IInv, Parts, TypeOK
<1>2. at \in Steps /\ at \in Nat /\ turn.round \in Nat \ {0} /\ turn.k \in Nat \ {0}
  BY <1>1, RecipeFacts DEF RunTypes
<1>3. SUFFICES ASSUME pc' \in Executing, NEW s \in Steps, Promising(s)',
                      NEW k \in DOMAIN recipe.steps[s].cameras, NEW n \in 1..recipe.steps[s].rounds,
                      Served(s, n, k)'
               PROVE  (IsStored(RequestOf(s, n, k)) \/ IsOpen(RequestOf(s, n, k)))'
  BY <1>1 DEF ServedInv
<1>4. run' = run
  BY <1>3, RunKept
<1>5. s \in Nat /\ run # 0 /\ pc # "idle"
  BY <1>1, <1>3, <1>4, RecipeFacts, RunningBefore
<1>6. /\ RequestOf(s, n, k) \in Requests /\ RequestOf(s, n, k).step = s
      /\ k \in Nat \ {0} /\ n \in Nat \ {0} /\ k <= Len(recipe.steps[s].cameras)
  BY <1>1, <1>5, RequestOfType
<1>7. RequestOf(s, n, k)' = RequestOf(s, n, k)
  BY <1>1, <1>4 DEF RequestOf
<1>8. SUFFICES ASSUME NEW r \in Requests, r = RequestOf(s, n, k), r.step = s
               PROVE  IsStored(r)' \/ IsOpen(r)'
  BY <1>6, <1>7 DEF IsStored, OkStored, IsOpen, Expected
<1>9. /\ exec'[s].outcome = "succeeded" /\ ~exec'[s].finished /\ recipe.steps[s].kind = "capture"
      /\ (s = at => Step.kind = "capture")
  BY <1>1, <1>3 DEF Promising, Step
\* It is enough that the camera was served before and what was open remains so.
<1>10. ASSUME pc \in Executing, Promising(s), Served(s, n, k), stored \subseteq stored',
              IsOpen(r) => IsOpen(r)' \/ IsStored(r)'
       PROVE  IsStored(r)' \/ IsOpen(r)'
  <2>1. IsStored(r) \/ IsOpen(r)
    BY <1>8, <1>10 DEF ServedInv
  <2>2. IsStored(r) => IsStored(r)'
    BY <1>10, StoredStays
  <2>3. QED
    BY <1>10, <2>1, <2>2
\* The actions that only set the outcome of the step.
<1>11. ASSUME SetsOutcome
       PROVE  Promising(s)
  <2>1. exec'[s] = exec[s]
    BY <1>1, <1>9, <1>11, PromiseIsKept
  <2>2. QED
    BY <2>1, <1>9 DEF Promising
<1>12. ASSUME UNCHANGED <<at, turn>>, pc \in InStep \cup Checking, pc' \in Checking => pc \in Checking
       PROVE  Served(s, n, k)
  BY <1>3, <1>12 DEF Served, InStep, Checking, Serving, Joining
<1>13. ASSUME s # at, UNCHANGED at
       PROVE  Served(s, n, k)
  BY <1>3, <1>13 DEF Served
<1>14. ASSUME UNCHANGED pending, pc \notin {"joinWait", "collect"}
       PROVE  IsOpen(r) => IsOpen(r)'
  BY <1>14 DEF IsOpen
<1>15. ASSUME UNCHANGED <<pc, at, turn, exec, pending, joining, cursor, stored>>
       PROVE  IsStored(r)' \/ IsOpen(r)'
  <2>1. Promising(s)
    BY <1>11, <1>15 DEF SetsOutcome
  <2>2. Served(s, n, k) /\ pc \in Executing
    BY <1>3, <1>15 DEF Served
  <2>3. IsOpen(r) => IsOpen(r)'
    BY <1>15 DEF IsOpen
  <2>4. QED
    BY <1>10, <1>15, <2>1, <2>2, <2>3
\* The actions of a step that is no capture.
<1>16. ASSUME Step.kind # "capture", UNCHANGED <<at, pending, stored>>, pc \in InStep \ {"joinWait", "collect"},
              SetsOutcome
       PROVE  IsStored(r)' \/ IsOpen(r)'
  <2>1. Promising(s)
    BY <1>11, <1>16
  <2>2. Served(s, n, k)
    BY <1>9, <1>13, <1>16
  <2>3. IsOpen(r) => IsOpen(r)'
    BY <1>14, <1>16
  <2>4. QED
    BY <1>10, <1>16, <2>1, <2>2, <2>3 DEF Executing
\* The actions that leave the turn as it is.
<1>17. ASSUME UNCHANGED <<at, turn, pending, stored>>, pc \in Serving \cup Checking, pc' \in Checking => pc \in Checking,
              SetsOutcome
       PROVE  IsStored(r)' \/ IsOpen(r)'
  <2>1. Promising(s)
    BY <1>11, <1>17
  <2>2. pc \in InStep \cup Checking /\ pc \in Executing /\ pc \notin {"joinWait", "collect"}
    BY <1>17 DEF Executing, InStep, Serving, Checking
  <2>3. Served(s, n, k)
    BY <1>12, <1>17, <2>2
  <2>4. IsOpen(r) => IsOpen(r)'
    BY <1>14, <1>17, <2>2
  <2>5. QED
    BY <1>10, <1>17, <2>1, <2>2, <2>3, <2>4
\* The camera of a turn is served when the next one begins.
<1>18. ASSUME pc \in Serving, s = at, UNCHANGED at, turn' = NextTurn, pc' \notin Checking
       PROVE  Served(s, n, k) \/ (n = turn.round /\ k = turn.k)
  <2>1. n < turn'.round \/ (n = turn'.round /\ k < turn'.k)
    BY <1>2, <1>3, <1>18 DEF Served
  <2>2. turn.k \in DOMAIN Step.cameras
    BY <1>1, <1>18 DEF PhaseInv
  <2>3. \/ turn'.round = turn.round /\ turn'.k = turn.k + 1
        \/ turn'.round = turn.round + 1 /\ turn'.k = 1 /\ turn.k = Len(Step.cameras)
    BY <1>1, <1>18, <2>2, NextTurnIs
  <2>4. k <= Len(Step.cameras) /\ Len(Step.cameras) \in Nat
    BY <1>1, <1>6, <1>18, StepFacts, LenProperties DEF Step
  <2>5. n < turn.round \/ (n = turn.round /\ (k < turn.k \/ k = turn.k))
    <3>1. CASE turn'.round = turn.round /\ turn'.k = turn.k + 1
      BY <3>1, <2>1, <1>2, <1>6
    <3>2. CASE turn'.round = turn.round + 1 /\ turn'.k = 1 /\ turn.k = Len(Step.cameras)
      <4>1. n <= turn.round
        BY <3>2, <2>1, <1>2, <1>6
      <4>2. k <= turn.k
        BY <3>2, <2>4
      <4>3. QED
        BY <4>1, <4>2, <1>2, <1>6
    <3>3. QED
      BY <2>3, <3>1, <3>2
  <2>6. QED
    BY <1>18, <2>5 DEF Served, InStep
<1>19. ASSUME n = turn.round, k = turn.k, s = at
       PROVE  r = Request("capture")
  BY <1>8, <1>19 DEF RequestOf, Request, Camera, Step
<1>20. CASE StartRun
  BY <1>20, <1>3 DEF StartRun, Executing, InStep, Checking, Serving, Joining
<1>21. CASE Preflight
  <2>1. pc' = "step" /\ at = 1 /\ at' = at
    BY <1>21, <1>1, <1>3 DEF Preflight, PhaseInv, Executing, InStep, Checking, Serving, Joining
  <2>2. s < 1
    BY <2>1, <1>3 DEF Served, InStep, Checking, Serving, Joining
  <2>3. QED
    BY <2>2, <1>1, RecipeFacts
<1>22. CASE BeginStep
  <2>1. UNCHANGED <<at, pending, joining, cursor, stored>> /\ pc = "step"
    BY <1>22 DEF BeginStep
  <2>2. s # at
    <3>1. SUFFICES ASSUME s = at PROVE FALSE
      OBVIOUS
    <3> DEFINE started == [FreshExec EXCEPT !.started = TRUE]
               none == Step.kind \in {"bias", "control", "capture"} /\ Active = {}
    <3>2. Step.kind = "capture"
      BY <3>1, <1>9
    <3>3. started.outcome = "succeeded" /\ started \in ExecType
      BY DEF FreshExec, ExecType
    <3>4. turn' = FirstTurn /\ (none => exec'[at] = Skipped(started)) /\ (~none => pc' = "target")
      <4>1. pc' # "unwind"
        BY <1>3 DEF Executing, InStep, Checking, Serving, Joining
      <4>2. exec' = [exec EXCEPT ![at] = IF none \/ Active # DOMAIN Step.cameras THEN Skipped(started) ELSE started]
        BY <1>22, <3>2, <4>1 DEF BeginStep
      <4>3. turn' = FirstTurn
        BY <1>22, <3>2, <4>1 DEF BeginStep
      <4>6. ~none => pc' = "target"
        BY <1>22, <3>2, <4>1 DEF BeginStep, Quantities
      <4>4. none => exec' = [exec EXCEPT ![at] = Skipped(started)]
        BY <4>2
      <4>5. QED
        BY <4>3, <4>4, <4>6, <1>1, <1>2 DEF StepTypes
    <3>5. Skipped(started).outcome # "succeeded"
      BY <3>3 DEF Skipped, ExecType
    <3>6. pc' = "target"
      BY <2>1, <3>1, <3>4, <3>5, <1>9
    <3>7. n < 1 \/ (n = 1 /\ k < 1)
      BY <2>1, <3>1, <3>4, <3>6, <1>2, <1>3
         DEF Served, FirstTurn, InStep, Checking, Serving, Joining
    <3>8. QED
      BY <3>7, <1>6
  <2>3. Promising(s)
    <3>1. exec'[s] = exec[s]
      BY <1>22, <1>1, <1>2, <1>3, <2>2
         DEF BeginStep, StepTypes, Executing, InStep, Checking, Serving, Joining
    <3>2. QED
      BY <3>1, <1>9 DEF Promising
  <2>4. Served(s, n, k) /\ (IsOpen(r) => IsOpen(r)')
    BY <2>1, <2>2, <1>13, <1>14
  <2>5. QED
    BY <2>1, <2>3, <2>4, <1>10 DEF Executing
<1>23. CASE Device
  <2>1. /\ UNCHANGED <<at, pending, stored>> /\ pc \in InStep \ {"joinWait", "collect"}
        /\ Step.kind # "capture"
    BY <1>23, <1>1 DEF Device, Unwind, PhaseInv, InStep, Serving, Joining, Quantities
  <2>2. SetsOutcome
    BY <1>23 DEF Device, Unwind, SetsOutcome
  <2>3. QED
    BY <2>1, <2>2, <1>16
<1>24. CASE StartChamber
  <2>1. /\ UNCHANGED <<at, pending, stored>> /\ pc \in InStep \ {"joinWait", "collect"}
        /\ Step.kind # "capture"
    BY <1>24, <1>1 DEF StartChamber, Unwind, PhaseInv, InStep, Serving, Joining, Quantities
  <2>2. SetsOutcome
    BY <1>24 DEF StartChamber, Unwind, SetsOutcome
  <2>3. QED
    BY <2>1, <2>2, <1>16
<1>25. CASE SetClimate
  <2>1. /\ UNCHANGED <<at, pending, stored>> /\ pc \in InStep \ {"joinWait", "collect"}
        /\ Step.kind # "capture"
    BY <1>25, <1>1 DEF SetClimate, Watch, Unwind, PhaseInv, InStep, Serving, Joining, Quantities
  <2>2. SetsOutcome
    BY <1>25 DEF SetClimate, Watch, Unwind, SetsOutcome
  <2>3. QED
    BY <2>1, <2>2, <1>16
<1>26. CASE NextTarget
  <2>1. UNCHANGED <<at, pending, joining, cursor, stored>> /\ pc = "target" /\ pc \in Serving
    BY <1>26 DEF NextTarget, Serving
  <2>2. SetsOutcome
    BY <1>26 DEF NextTarget, Unwind, SetsOutcome
  <2>3. CASE turn.round > Step.rounds /\ turn' = turn
    <3>1. s = at => n < turn.round
      BY <2>3, <1>1, <1>2, <1>3, StepFacts DEF Step
    <3>2. Served(s, n, k)
      BY <2>1, <3>1, <1>13 DEF Served, InStep
    <3>3. QED
      BY <2>1, <2>2, <3>2, <1>10, <1>11, <1>14 DEF Executing, InStep
  <2>4. CASE turn' = turn /\ pc' \in Serving
    BY <2>1, <2>2, <2>4, <1>17 DEF Serving, Checking
  <2>5. CASE turn' = NextTurn /\ exec' = [exec EXCEPT ![at] = Skipped(exec[at])]
    <3>1. Skipped(exec[at]).outcome # "succeeded"
      BY <1>1, <1>2 DEF Skipped, StepTypes, ExecType
    <3>2. s # at
      BY <2>5, <3>1, <1>1, <1>2, <1>9 DEF StepTypes
    <3>3. QED
      BY <2>1, <2>2, <3>2, <1>10, <1>11, <1>13, <1>14 DEF Executing, InStep
  <2>6. QED
    BY <1>26, <2>3, <2>4, <2>5, <1>3
       DEF NextTarget, Unwind, Executing, InStep, Checking, Serving, Joining
<1>27. CASE SendCommand
  <2>1. /\ UNCHANGED <<at, turn, pending, stored>> /\ pc \in Serving \cup Checking
        /\ (pc' \in Checking => pc \in Checking)
    BY <1>27 DEF SendCommand, Unwind, Serving, Checking
  <2>2. SetsOutcome
    BY <1>27 DEF SendCommand, Unwind, SetsOutcome
  <2>3. QED
    BY <2>1, <2>2, <1>17
<1>28. CASE CommandAnswered
  <2>1. UNCHANGED <<at, pending, joining, cursor, stored>> /\ pc = "answer" /\ pc \in Serving
    BY <1>28 DEF CommandAnswered, Serving
  <2>2. SetsOutcome
    BY <1>28 DEF CommandAnswered, Unwind, SetsOutcome
  <2>3. CASE Step.kind = "capture"
    <3>1. turn' = turn /\ pc' = "publish"
      BY <1>28, <2>3, <1>3
         DEF CommandAnswered, Unwind, Executing, InStep, Checking, Serving, Joining
    <3>2. QED
      BY <2>1, <2>2, <3>1, <1>17 DEF Checking
  <2>4. CASE Step.kind # "capture"
    BY <2>1, <2>2, <2>4, <1>16 DEF InStep
  <2>5. QED
    BY <2>3, <2>4
<1>29. CASE CommandUnanswered
  <2>1. /\ UNCHANGED <<at, turn, pending, stored>> /\ pc \in Serving \cup Checking
        /\ (pc' \in Checking => pc \in Checking)
    BY <1>29 DEF CommandUnanswered, Unwind, Serving, Checking
  <2>2. SetsOutcome
    BY <1>29 DEF CommandUnanswered, Unwind, SetsOutcome
  <2>3. QED
    BY <2>1, <2>2, <1>17
<1>30. CASE PublishCapture
  <2> DEFINE q == Request("capture")
  <2>1. UNCHANGED <<at, joining, cursor, stored>> /\ pc = "publish" /\ pc \in Serving /\ pc' \notin Checking /\ pc \in Executing
    BY <1>30, <1>3 DEF PublishCapture, Unwind, Serving, Checking, Executing, InStep
  <2>2. CASE pending' = Append(pending, q) /\ exec' = [exec EXCEPT ![at] = Fork(exec[at])] /\ turn' = NextTurn
    <3>1. Promising(s)
      <4>1. Fork(exec[at]).outcome = exec[at].outcome /\ Fork(exec[at]).finished = exec[at].finished
        BY <1>1, <1>2 DEF Fork, StepTypes, ExecType
      <4>2. exec'[s].outcome = exec[s].outcome /\ exec'[s].finished = exec[s].finished
        BY <2>2, <4>1, <1>1, <1>2 DEF StepTypes
      <4>3. QED
        BY <4>2, <1>9 DEF Promising
    <3>2. /\ Len(pending) \in Nat /\ DOMAIN pending = 1..Len(pending)
          /\ DOMAIN pending' = 1..(Len(pending) + 1) /\ pending'[Len(pending) + 1] = q
          /\ \A j \in DOMAIN pending : pending'[j] = pending[j]
      <4>1. pending \in Seq(DOMAIN batches)
        BY <1>1 DEF JoinTypes
      <4> DEFINE X == DOMAIN batches \cup {q}
      <4>2. pending \in Seq(X) /\ q \in X
        BY <4>1
      <4>3. QED
        BY <2>2, <4>2, AppendProperties, LenProperties
    <3>3. IsOpen(r) => IsOpen(r)'
      BY <2>1, <3>2 DEF IsOpen
    <3>4. r = q => IsOpen(r)'
      BY <3>2 DEF IsOpen
    <3>5. Served(s, n, k) \/ r = q
      BY <2>1, <2>2, <1>13, <1>18, <1>19
    <3>6. QED
      BY <2>1, <3>1, <3>3, <3>4, <3>5, <1>10
  <2>3. CASE UNCHANGED <<pending, exec, turn>>
    BY <2>1, <2>3, <1>17 DEF SetsOutcome
  <2>4. CASE exec' = [exec EXCEPT ![at] = Failed(exec[at])] /\ UNCHANGED pending
    <3>1. Failed(exec[at]).outcome # "succeeded"
      BY <1>1, <1>2 DEF Failed, StepTypes, ExecType
    <3>2. s # at
      BY <2>4, <3>1, <1>1, <1>2, <1>9 DEF StepTypes
    <3>3. QED
      BY <2>1, <2>4, <3>2, <1>10, <1>11, <1>13, <1>14 DEF SetsOutcome
  <2>5. QED
    BY <1>30, <2>2, <2>3, <2>4, <1>3
       DEF PublishCapture, Register, Unwind, Executing, InStep, Checking, Serving, Joining
<1>31. CASE CollectWaited
  <2> DEFINE q == Request("capture")
  <2>1. UNCHANGED <<at, pending, joining, cursor>> /\ pc = "capture" /\ pc \in Serving /\ pc \in Executing
    BY <1>31 DEF CollectWaited, Serving, Executing, InStep
  <2>2. /\ exec' = [exec EXCEPT ![at] = Collected(exec[at], q)] /\ stored' = stored \cup Successes(q)
        /\ turn' = NextTurn /\ pc' = "target"
    BY <1>31, <1>3 DEF CollectWaited, Unwind, Executing, InStep, Checking, Serving, Joining
  <2>3. exec[at] \in ExecType /\ exec'[at] = Collected(exec[at], q) /\ q \in DOMAIN batches
    BY <1>31, <2>1, <2>2, <1>1, <1>2 DEF StepTypes, IInv, Parts, AwaitedInv
  <2>4. Collected(exec[at], q) \in {exec[at], Failed(exec[at])}
    BY DEF Collected
  <2>5. Promising(s)
    <3>1. SetsOutcome
      <4>1. exec = [exec EXCEPT ![at] = exec[at]]
        BY <1>1, <1>2 DEF StepTypes
      <4>2. QED
        BY <2>2, <2>4, <4>1 DEF SetsOutcome
    <3>2. QED
      BY <3>1, <1>11
  <2>6. ASSUME s = at, r = q
        PROVE  IsStored(r)'
    <3>1. Collected(exec[at], r).outcome = "succeeded"
      BY <2>3, <2>6, <1>9
    <3>2. r \in DOMAIN batches /\ Successes(r) \subseteq stored'
      BY <2>2, <2>3, <2>6
    <3>3. QED
      BY <2>3, <3>1, <3>2, CollectedAll
  <2>7. Served(s, n, k) \/ (r = q /\ s = at)
    BY <2>1, <2>2, <1>13, <1>18, <1>19 DEF Checking
  <2>8. IsOpen(r) => IsOpen(r)'
    BY <2>1, <1>14
  <2>9. QED
    BY <2>1, <2>2, <2>5, <2>6, <2>7, <2>8, <1>10
<1>32. CASE AbortWaited
  <2>1. /\ UNCHANGED <<at, turn, pending, stored>> /\ pc \in Serving \cup Checking
        /\ (pc' \in Checking => pc \in Checking)
    BY <1>32 DEF AbortWaited, AbortWaitedRequest, Unwind, Serving, Checking
  <2>2. SetsOutcome
    BY <1>32 DEF AbortWaited, AbortWaitedRequest, Unwind, SetsOutcome
  <2>3. QED
    BY <2>1, <2>2, <1>17
<1>33. CASE BeginJoin
  <2>1. /\ UNCHANGED <<at, exec, stored>> /\ pc = "join" /\ Step.kind = "join" /\ cursor' = 1
        /\ pc \in Executing
    BY <1>33, <1>1 DEF BeginJoin, PhaseInv, Joining, Executing, InStep
  <2>2. \/ pending = <<>> /\ pending' = pending
        \/ joining' = pending /\ pc' = "joinWait"
    BY <1>33 DEF BeginJoin
  <2>3. DOMAIN pending \subseteq Nat \ {0}
    BY <1>1, LenProperties DEF JoinTypes
  <2>4. IsOpen(r) => IsOpen(r)'
    <3>1. IsOpen(r) => \E j \in DOMAIN pending : pending[j] = r
      BY <2>1 DEF IsOpen
    <3>2. CASE pending' = pending
      BY <3>1, <3>2 DEF IsOpen
    <3>3. CASE joining' = pending /\ pc' = "joinWait"
      BY <2>1, <2>3, <3>1, <3>3 DEF IsOpen
    <3>4. QED
      BY <2>2, <3>2, <3>3
  <2>5. Promising(s) /\ Served(s, n, k)
    BY <2>1, <1>9, <1>11, <1>13 DEF SetsOutcome
  <2>6. QED
    BY <2>1, <2>4, <2>5, <1>10
<1>34. CASE EndJoinWait
  <2>1. /\ UNCHANGED <<at, exec, stored, pending, joining, cursor>> /\ pc = "joinWait" /\ pc' = "collect"
        /\ Step.kind = "join" /\ pc \in Executing
    BY <1>34, <1>1 DEF EndJoinWait, PhaseInv, Joining, Executing, InStep
  <2>2. IsOpen(r) => IsOpen(r)'
    BY <2>1 DEF IsOpen
  <2>3. Promising(s) /\ Served(s, n, k)
    BY <2>1, <1>9, <1>11, <1>13 DEF SetsOutcome
  <2>4. QED
    BY <2>1, <2>2, <2>3, <1>10
<1>35. CASE CollectJoined
  <2>1. PICK q \in DOMAIN batches : q = joining[cursor] /\ q.step \in Steps /\ q \in Requests
    BY <1>35, JoinedItem DEF CollectJoined
  <2>2. /\ UNCHANGED <<at, pending, joining>> /\ pc = "collect" /\ s # at /\ pc \in Executing
        /\ cursor \in DOMAIN joining
    BY <1>35, <1>1, <1>9 DEF CollectJoined, PhaseInv, Joining, Executing, InStep
  <2> DEFINE before == IF cancelled THEN Failed(exec[q.step]) ELSE exec[q.step]
             c == Collected(before, q)
             after == [c EXCEPT !.pending = @ - 1]
  <2>3. /\ stored' = stored \cup Successes(q) /\ Advance
        /\ \/ exec' = [exec EXCEPT ![q.step] = after]
           \/ exec' = [exec EXCEPT ![q.step] = [after EXCEPT !.finished = TRUE]]
    BY <1>35, <2>1, <1>3 DEF CollectJoined, Executing, InStep, Checking, Serving, Joining
  <2>4. exec[q.step] \in ExecType /\ before \in ExecType /\ c \in {before, Failed(before)} /\ c \in ExecType
    <3>1. exec[q.step] \in ExecType
      BY <2>1, <1>1 DEF StepTypes
    <3>2. before \in ExecType
      BY <3>1, ExecTypes
    <3>3. QED
      BY <3>1, <3>2, ExecTypes, CollectedType DEF Collected
  <2>5. s = q.step => exec'[s].outcome = c.outcome /\ exec'[s].finished \in {c.finished, TRUE}
    <3> HIDE DEF c
    <3>1. after.outcome = c.outcome /\ after.finished = c.finished
      BY <2>4 DEF ExecType
    <3>2. [after EXCEPT !.finished = TRUE].outcome = c.outcome /\ [after EXCEPT !.finished = TRUE].finished = TRUE
      BY <2>4 DEF ExecType
    <3>3. exec'[q.step] \in {after, [after EXCEPT !.finished = TRUE]}
      BY <2>1, <2>3, <1>1 DEF StepTypes
    <3>4. QED
      BY <3>1, <3>2, <3>3
  <2>6. ASSUME s = q.step
        PROVE  IsStored(q)' /\ Promising(s)
    <3>1. c.outcome = "succeeded" /\ ~c.finished
      BY <2>5, <2>6, <1>9
    <3>2. Successes(q) \subseteq stored'
      BY <2>3
    <3>3. IsStored(q)' /\ before.outcome = "succeeded"
      BY <2>1, <2>4, <3>1, <3>2, CollectedAll
    <3>4. before = exec[s]
      BY <2>4, <2>6, <3>3 DEF Failed, ExecType
    <3>5. c.finished = before.finished
      BY <2>4, ExecFlags
    <3>6. QED
      BY <3>1, <3>3, <3>4, <3>5, <1>9 DEF Promising
  <2>7. Promising(s)
    <3>1. s # q.step => exec'[s] = exec[s]
      BY <2>1, <2>3, <1>1 DEF StepTypes
    <3>2. QED
      BY <2>6, <3>1, <1>9 DEF Promising
  <2>8. IsOpen(r) => r = q \/ IsOpen(r)'
    <3>1. CASE \E j \in DOMAIN pending : pending[j] = r
      BY <2>2, <3>1 DEF IsOpen
    <3>2. ASSUME NEW j \in DOMAIN joining, j >= cursor, joining[j] = r, j # cursor
          PROVE  IsOpen(r)'
      <4>1. j \in Nat /\ cursor \in Nat /\ j <= Len(joining) /\ Len(joining) \in Nat
        BY <2>2, <1>1, LenProperties DEF JoinTypes
      <4>2. cursor < Len(joining) /\ j >= cursor + 1
        BY <3>2, <4>1
      <4>3. cursor' = cursor + 1 /\ pc' = "collect"
        BY <2>2, <2>3, <4>2 DEF Advance
      <4>4. QED
        BY <2>2, <3>2, <4>2, <4>3 DEF IsOpen
    <3>3. QED
      BY <2>1, <3>1, <3>2 DEF IsOpen
  <2>9. QED
    BY <2>2, <2>3, <2>6, <2>7, <2>8, <1>8, <1>10, <1>13
<1>36. CASE AbortJoined
  <2>1. /\ UNCHANGED <<at, pending, stored>> /\ pc \in InStep \ {"joinWait", "collect"}
        /\ Step.kind # "capture"
    BY <1>36, <1>1
       DEF AbortJoined, NextAbort, Unwind, PhaseInv, InStep, Serving, Joining, Quantities
  <2>2. SetsOutcome
    BY <1>36 DEF AbortJoined, NextAbort, Unwind, SetsOutcome
  <2>3. QED
    BY <2>1, <2>2, <1>16
<1>37. CASE EndJoin
  <2>1. /\ UNCHANGED <<at, pending, stored>> /\ pc \in InStep \ {"joinWait", "collect"}
        /\ Step.kind # "capture"
    BY <1>37, <1>1 DEF EndJoin, Unwind, PhaseInv, InStep, Serving, Joining, Quantities
  <2>2. SetsOutcome
    BY <1>37 DEF EndJoin, Unwind, SetsOutcome
  <2>3. QED
    BY <2>1, <2>2, <1>16
<1>38. CASE CheckSafety
  <2>1. /\ UNCHANGED <<pending, joining, cursor, stored, turn>> /\ pc = "safety" /\ pc \in Checking /\ pc \in Executing
    BY <1>38 DEF CheckSafety, Checking, Executing
  <2>2. CASE UNCHANGED <<at, exec>>
    BY <2>1, <2>2, <1>17 DEF SetsOutcome
  <2>3. CASE CloseStep /\ at' # at
    <3> DEFINE e == [(IF cancelled THEN Failed(exec[at]) ELSE exec[at]) EXCEPT !.dispatched = TRUE]
    <3>1. at' = at + 1 /\ pc' = "step" /\ exec' \in {[exec EXCEPT ![at] = e], [exec EXCEPT ![at] = [e EXCEPT !.finished = TRUE]]}
      BY <2>3, <1>3 DEF CloseStep, Executing, InStep, Checking, Serving, Joining
    <3>2. s < at + 1
      BY <3>1, <1>3 DEF Served, InStep, Checking, Serving, Joining
    <3>3. Served(s, n, k)
      BY <2>1, <3>2, <1>2, <1>5 DEF Served
    <3>4. Promising(s)
      <4>1. exec[at] \in ExecType /\ e \in ExecType
        BY <1>1, <1>2, ExecTypes DEF StepTypes
      <4>2. CASE s # at
        BY <3>1, <4>2, <1>1, <1>2, <1>9 DEF StepTypes, Promising
      <4>3. CASE s = at
        <5>1. exec'[s] \in {e, [e EXCEPT !.finished = TRUE]}
          BY <3>1, <4>3, <1>1, <1>2 DEF StepTypes
        <5>2. e.outcome = "succeeded"
          BY <4>1, <5>1, <1>9 DEF ExecType
        <5>3. ~cancelled
          BY <4>1, <5>2 DEF Failed, ExecType
        <5>4. exec[at].outcome = "succeeded"
          BY <4>1, <5>2, <5>3 DEF ExecType
        <5>5. ~exec[at].finished
          BY <2>1, <1>1 DEF StepsInv
        <5>6. QED
          BY <4>3, <5>4, <5>5, <1>9 DEF Promising
      <4>4. QED
        BY <4>2, <4>3
    <3>5. QED
      BY <2>1, <3>3, <3>4, <1>10, <1>14
  <2>4. CASE CloseStep /\ at' = at
    BY <2>4, <1>2, <1>3 DEF CloseStep, Executing, InStep, Checking, Serving, Joining
  <2>5. QED
    BY <1>38, <2>2, <2>3, <2>4, <1>3
       DEF CheckSafety, Unwind, Executing, InStep, Checking, Serving, Joining
<1>39. CASE CancelHold
  <2>1. /\ UNCHANGED <<at, turn, pending, stored>> /\ pc \in Serving \cup Checking
        /\ (pc' \in Checking => pc \in Checking)
    BY <1>39 DEF CancelHold, Unwind, Serving, Checking
  <2>2. SetsOutcome
    BY <1>39 DEF CancelHold, Unwind, SetsOutcome
  <2>3. QED
    BY <2>1, <2>2, <1>17
<1>40. CASE AbortUnfinished
  BY <1>40, <1>3 DEF AbortUnfinished, Executing, InStep, Checking, Serving, Joining
<1>41. CASE StopChamber
  BY <1>41, <1>3 DEF StopChamber, Executing, InStep, Checking, Serving, Joining
<1>42. CASE ReportUnfinished
  BY <1>42, <1>3 DEF ReportUnfinished, Executing, InStep, Checking, Serving, Joining
<1>43. CASE Resume
  <2>1. /\ UNCHANGED <<at, turn, pending, stored>> /\ pc \in Serving \cup Checking
        /\ (pc' \in Checking => pc \in Checking)
    BY <1>43 DEF Resume, Serving, Checking
  <2>2. SetsOutcome
    BY <1>43 DEF Resume, SetsOutcome
  <2>3. QED
    BY <2>1, <2>2, <1>17
<1>44. CASE DecideAbort
  <2>1. /\ UNCHANGED <<at, pending, stored>> /\ pc \in InStep \ {"joinWait", "collect"}
        /\ Step.kind # "capture"
    BY <1>44, <1>1 DEF DecideAbort, NextAbort, PhaseInv, InStep, Serving, Joining, Quantities
  <2>2. SetsOutcome
    BY <1>44 DEF DecideAbort, NextAbort, SetsOutcome
  <2>3. QED
    BY <2>1, <2>2, <1>16
<1>45. CASE AgentSends
  BY <1>45, <1>15 DEF AgentSends
<1>46. CASE DeliverResult
  BY <1>46, <1>15 DEF DeliverResult
<1>47. CASE DeliverAck
  BY <1>47, <1>15 DEF DeliverAck
<1>48. CASE Cancel
  BY <1>48, <1>15 DEF Cancel
<1>49. CASE RequestEmergencyStop
  BY <1>49, <1>15 DEF RequestEmergencyStop
<1>50. CASE ResetEmergencyStop
  BY <1>50, <1>15 DEF ResetEmergencyStop
<1>51. CASE UNCHANGED vars
  BY <1>51, <1>15
<1>52. QED
  BY <1>20, <1>21, <1>22, <1>23, <1>24, <1>25, <1>26, <1>27, <1>28, <1>29, <1>30, <1>31,
     <1>32, <1>33, <1>34, <1>35, <1>36, <1>37, <1>38, <1>39, <1>40, <1>41, <1>42, <1>43,
     <1>44, <1>45, <1>46, <1>47, <1>48, <1>49, <1>50, <1>51
     DEF Next, Engine, CameraStep, Operator, Environment

\* Only what has begun is dispatched.
LEMMA BegunStep ==
  ASSUME IInv, BegunInv, [Next]_vars
  PROVE  BegunInv'
<1> USE DEF vars, runVars, flowVars, joinVars, captureVars, commandVars, chamberVars, skipVars,
           requestHistory, otherHistory, engineVars
<1>1. /\ RunTypes /\ StepTypes /\ StepsInv /\ recipe' = recipe /\ Steps' = Steps /\ at \in Steps
      /\ exec \in [Steps -> ExecType]
  BY RecipeKept, TypesKept DEF IInv, Parts, TypeOK, RunTypes, StepTypes
<1>2. SUFFICES ASSUME NEW s \in Steps, exec'[s].dispatched
               PROVE  exec'[s].started
  BY <1>1 DEF BegunInv
<1>3. ASSUME exec'[s].dispatched = exec[s].dispatched, exec'[s].started = exec[s].started
      PROVE  exec'[s].started
  BY <1>2, <1>3 DEF BegunInv
<1>4. ASSUME WithinStep
      PROVE  exec'[s].started
  BY <1>3, <1>4 DEF WithinStep, OutcomeOnly
<1>5. CASE StartRun
  BY <1>5, <1>2 DEF StartRun, FreshExec
<1>6. CASE Preflight
  BY <1>6, <1>3 DEF Preflight
<1>7. CASE BeginStep
  <2> DEFINE started == [FreshExec EXCEPT !.started = TRUE]
  <2>1. started \in ExecType /\ started.started
    BY DEF FreshExec, ExecType
  <2>2. Failed(started).started /\ Skipped(started).started
    BY <2>1, ExecFlags
  <2>3. exec' = exec \/ \E e \in {started, Failed(started), Skipped(started)} : exec' = [exec EXCEPT ![at] = e]
    BY <1>7 DEF BeginStep
  <2>4. exec'[s] = exec[s] \/ exec'[s].started
    BY <2>1, <2>2, <2>3, <1>1
  <2>5. QED
    BY <2>4, <1>3
<1>8. CASE Device
  BY <1>8, <1>4, StepActions
<1>9. CASE StartChamber
  BY <1>9, <1>4, StepActions
<1>10. CASE SetClimate
  BY <1>10, <1>4, StepActions
<1>11. CASE NextTarget
  BY <1>11, <1>4, StepActions
<1>12. CASE SendCommand
  BY <1>12, <1>4, StepActions
<1>13. CASE CommandAnswered
  BY <1>13, <1>4, StepActions
<1>14. CASE CommandUnanswered
  BY <1>14, <1>4, StepActions
<1>15. CASE PublishCapture
  <2>1. exec[at] \in ExecType
    BY <1>1
  <2>2. \E e \in {exec[at], Fork(exec[at]), Failed(exec[at])} : exec' = [exec EXCEPT ![at] = e]
    <3>1. exec = [exec EXCEPT ![at] = exec[at]]
      BY <1>1
    <3>2. QED
      BY <1>15, <3>1 DEF PublishCapture, NumberShots, Register, Unwind
  <2>3. \A e \in {exec[at], Fork(exec[at]), Failed(exec[at])} : e.started = exec[at].started /\ e.dispatched = exec[at].dispatched
    BY <2>1 DEF Fork, Failed, ExecType
  <2>4. QED
    BY <2>2, <2>3, <1>1, <1>3
<1>16. CASE CollectWaited
  BY <1>16, <1>4, StepActions
<1>17. CASE AbortWaited
  BY <1>17, <1>4, StepActions
<1>18. CASE BeginJoin
  BY <1>18, <1>4, StepActions
<1>19. CASE EndJoinWait
  BY <1>19, <1>4, StepActions
<1>20. CASE CollectJoined
  <2>1. PICK q \in DOMAIN batches : q = joining[cursor] /\ q.step \in Steps
    BY <1>20, JoinedItem DEF CollectJoined
  <2> DEFINE before == IF cancelled THEN Failed(exec[q.step]) ELSE exec[q.step]
             c == Collected(before, q)
             after == [c EXCEPT !.pending = @ - 1]
  <2>2. exec[q.step] \in ExecType /\ before \in ExecType /\ c \in ExecType /\ c \in {before, Failed(before)}
    <3>1. exec[q.step] \in ExecType
      BY <2>1, <1>1
    <3>2. before \in ExecType
      BY <3>1, ExecTypes
    <3>3. QED
      BY <3>1, <3>2, ExecTypes, CollectedType DEF Collected
  <2>3. c.started = exec[q.step].started /\ c.dispatched = exec[q.step].dispatched
    <3>1. before.started = exec[q.step].started /\ before.dispatched = exec[q.step].dispatched
      BY <2>2, ExecFlags
    <3>2. QED
      BY <2>2, <3>1, ExecFlags
  <2> HIDE DEF c
  <2>4. \A e \in {after, [after EXCEPT !.finished = TRUE]} : e.started = c.started /\ e.dispatched = c.dispatched
    BY <2>2 DEF ExecType
  <2>5. \/ \E e \in {after, [after EXCEPT !.finished = TRUE]} : exec' = [exec EXCEPT ![q.step] = e]
        \/ \E e \in {after, [after EXCEPT !.finished = TRUE]} :
              exec' = [u \in Steps |-> IF u = q.step THEN e ELSE IF u = at THEN Failed(exec[u]) ELSE exec[u]]
        \/ exec' = [u \in Steps |-> IF u \in {q.step, at} THEN Failed(exec[u]) ELSE exec[u]]
    BY <1>20, <2>1 DEF CollectJoined, c
  <2>6. exec[s] \in ExecType /\ Failed(exec[s]).started = exec[s].started /\ Failed(exec[s]).dispatched = exec[s].dispatched
    BY <1>1, <1>2, ExecFlags
  <2>7. exec'[s].dispatched = exec[s].dispatched /\ exec'[s].started = exec[s].started
    BY <1>1, <2>1, <2>3, <2>4, <2>5, <2>6
  <2>8. QED
    BY <2>7, <1>3
<1>21. CASE AbortJoined
  BY <1>21, <1>4, StepActions
<1>22. CASE EndJoin
  BY <1>22, <1>4, StepActions
<1>23. CASE CheckSafety
  <2>1. exec[at] \in ExecType /\ exec[at].started
    BY <1>23, <1>1 DEF CheckSafety, StepsInv, Checking
  <2>2. exec' = exec \/ \E e \in ExecType : exec' = [exec EXCEPT ![at] = e] /\ e.started
    <3> DEFINE f == IF cancelled THEN Failed(exec[at]) ELSE exec[at]
               e == [f EXCEPT !.dispatched = TRUE]
    <3>1. f \in ExecType /\ f.started
      BY <2>1, ExecTypes, ExecFlags
    <3> HIDE DEF f
    <3>2. e \in ExecType /\ e.started
      BY <3>1 DEF ExecType
    <3> HIDE DEF e
    <3>3. /\ [e EXCEPT !.finished = TRUE] \in ExecType /\ [e EXCEPT !.finished = TRUE].started
          /\ [Failed(e) EXCEPT !.finished = TRUE] \in ExecType /\ [Failed(e) EXCEPT !.finished = TRUE].started
          /\ Failed(exec[at]) \in ExecType /\ Failed(exec[at]).started
      BY <2>1, <3>2 DEF Failed, ExecType
    <3>4. exec' = exec \/ \E d \in {e, [e EXCEPT !.finished = TRUE], [Failed(e) EXCEPT !.finished = TRUE], Failed(exec[at])} :
                             exec' = [exec EXCEPT ![at] = d]
      BY <1>23 DEF CheckSafety, CloseStep, Unwind, e, f
    <3>5. QED
      BY <3>2, <3>3, <3>4
  <2>3. exec'[s] = exec[s] \/ exec'[s].started
    BY <2>2, <1>1
  <2>4. QED
    BY <2>3, <1>3
<1>24. CASE CancelHold
  BY <1>24, <1>4, StepActions
<1>25. CASE AbortUnfinished
  <2>1. exec[s].started \/ exec'[s] = exec[s]
    BY <1>25, <1>1 DEF AbortUnfinished
  <2>2. exec[s].started => exec'[s].started
    BY <1>25, <1>1 DEF AbortUnfinished, ExecType, Failed
  <2>3. QED
    BY <2>1, <2>2, <1>3
<1>26. CASE StopChamber
  BY <1>26, <1>3 DEF StopChamber
<1>27. CASE ReportUnfinished
  <2>1. exec' = exec \/ \E u \in Steps : exec' = [exec EXCEPT ![u] = [exec[u] EXCEPT !.finished = TRUE]]
    BY <1>27 DEF ReportUnfinished
  <2>2. \A u \in Steps : LET e == [exec[u] EXCEPT !.finished = TRUE]
                         IN e.started = exec[u].started /\ e.dispatched = exec[u].dispatched
    BY <1>1 DEF ExecType
  <2>3. QED
    BY <2>1, <2>2, <1>1, <1>3
<1>28. CASE Resume
  BY <1>28, <1>4, StepActions
<1>29. CASE DecideAbort
  BY <1>29, <1>4, StepActions
<1>30. CASE AgentSends
  BY <1>30, <1>3 DEF AgentSends
<1>31. CASE DeliverResult
  BY <1>31, <1>3 DEF DeliverResult
<1>32. CASE DeliverAck
  BY <1>32, <1>3 DEF DeliverAck
<1>33. CASE Cancel
  BY <1>33, <1>3 DEF Cancel
<1>34. CASE RequestEmergencyStop
  BY <1>34, <1>3 DEF RequestEmergencyStop
<1>35. CASE ResetEmergencyStop
  BY <1>35, <1>3 DEF ResetEmergencyStop
<1>36. CASE UNCHANGED vars
  BY <1>36, <1>3
<1>37. QED
  BY <1>5, <1>6, <1>7, <1>8, <1>9, <1>10, <1>11, <1>12, <1>13, <1>14, <1>15, <1>16, <1>17,
     <1>18, <1>19, <1>20, <1>21, <1>22, <1>23, <1>24, <1>25, <1>26, <1>27, <1>28, <1>29,
     <1>30, <1>31, <1>32, <1>33, <1>34, <1>35, <1>36
     DEF Next, Engine, CameraStep, Operator, Environment

-------------------------------------------------------------------------------
(* Receipts.                                                                *)

LEMMA NothingOpen ==
  ASSUME IInv, NEW r \in Requests, pc \notin Over, exec[r.step].pending = 0
  PROVE  ~IsOpen(r)
<1>1. r.step \in Steps
  BY DEF Requests
<1>2. /\ IsFiniteSet(PendingOf(r.step)) /\ IsFiniteSet(JoiningOf(r.step))
      /\ Cardinality(PendingOf(r.step)) \in Nat /\ Cardinality(JoiningOf(r.step)) \in Nat
  BY OpenFinite, FS_CardinalityType DEF IInv, TypeOK
<1>3. exec[r.step].pending >= Cardinality(PendingOf(r.step)) + Cardinality(JoiningOf(r.step))
  BY <1>1 DEF IInv, Parts, CountInv
<1>4. PendingOf(r.step) = {} /\ JoiningOf(r.step) = {}
  BY <1>2, <1>3, FS_EmptySet
<1>5. QED
  BY <1>4 DEF IsOpen, PendingOf, JoiningOf

\* The last item of a step that a join collects is the only one open.
LEMMA LastOpen ==
  ASSUME IInv, pc = "collect", NEW r \in Requests, r.step = joining[cursor].step, exec[r.step].pending = 1, IsOpen(r)
  PROVE  r = joining[cursor]
<1>1. r.step \in Steps /\ cursor \in DOMAIN joining /\ joining \in Seq(DOMAIN batches)
  BY JoinedItem DEF Requests, IInv, TypeOK, JoinTypes
<1>2. /\ IsFiniteSet(PendingOf(r.step)) /\ IsFiniteSet(JoiningOf(r.step))
      /\ Cardinality(PendingOf(r.step)) \in Nat /\ Cardinality(JoiningOf(r.step)) \in Nat
  BY OpenFinite, FS_CardinalityType DEF IInv, TypeOK
<1>3. 1 >= Cardinality(PendingOf(r.step)) + Cardinality(JoiningOf(r.step))
  BY <1>1 DEF IInv, Parts, CountInv, Over
<1>4. cursor \in JoiningOf(r.step)
  BY <1>1, LenProperties DEF JoiningOf
<1>5. Cardinality(JoiningOf(r.step)) # 0
  BY <1>2, <1>4, FS_EmptySet
<1>6. Cardinality(PendingOf(r.step)) = 0 /\ Cardinality(JoiningOf(r.step)) = 1
  BY <1>2, <1>3, <1>5
<1>7. PendingOf(r.step) = {}
  BY <1>2, <1>6, FS_EmptySet
<1>8. JoiningOf(r.step) = {cursor}
  <2>1. \E x : JoiningOf(r.step) = {x}
    BY <1>2, <1>6, FS_Singleton
  <2>2. QED
    BY <2>1, <1>4
<1>9. QED
  BY <1>7, <1>8 DEF IsOpen, PendingOf, JoiningOf

\* A step is reported as succeeded with all of its results stored.
LEMMA SucceededStep ==
  ASSUME RInv, [Next]_vars
  PROVE  SucceededMeansStored'
<1> USE DEF vars, runVars, flowVars, joinVars, captureVars, commandVars, chamberVars, skipVars,
           requestHistory, otherHistory, engineVars
<1>1. /\ IInv /\ BegunInv /\ ServedInv /\ SucceededMeansStored
      /\ RunTypes /\ StepTypes /\ BatchTypes /\ JoinTypes /\ PhaseInv /\ StepsInv
      /\ recipe' = recipe /\ Steps' = Steps /\ at \in Steps /\ Steps \subseteq Nat /\ at \in Nat
      /\ exec \in [Steps -> ExecType] /\ receipts \in [Steps -> Seq({"succeeded", "skipped", "failed"})]
  BY RecipeKept, TypesKept, RecipeFacts DEF RInv, IInv, Parts, TypeOK, RunTypes, StepTypes
<1>2. SUFFICES ASSUME NEW s \in Steps, recipe.steps[s].kind = "capture", receipts'[s] = <<"succeeded">>,
                      NEW k \in DOMAIN recipe.steps[s].cameras, NEW n \in 1..recipe.steps[s].rounds
               PROVE  IsStored(RequestOf(s, n, k))'
  BY <1>1 DEF SucceededMeansStored, IsStored, OkStored, RequestOf
<1>3. receipts[s] = <<"succeeded">> => IsStored(RequestOf(s, n, k))
  BY <1>1, <1>2 DEF SucceededMeansStored, IsStored, OkStored, RequestOf
\* What was stored of a step that was reported remains stored.
<1>4. ASSUME UNCHANGED <<run, stored>>, receipts'[s] = receipts[s]
      PROVE  IsStored(RequestOf(s, n, k))'
  BY <1>1, <1>2, <1>3, <1>4 DEF IsStored, OkStored, RequestOf, Expected
<1>5. ASSUME UNCHANGED run, pc # "idle",
             ASSUME NEW r \in Requests, r = RequestOf(s, n, k), r.step = s
             PROVE  IsStored(r)'
      PROVE  IsStored(RequestOf(s, n, k))'
  <2>1. RequestOf(s, n, k) \in Requests /\ RequestOf(s, n, k).step = s
    BY <1>1, <1>2, <1>5, RequestOfType DEF PhaseInv
  <2>2. RequestOf(s, n, k)' = RequestOf(s, n, k)
    BY <1>1, <1>5 DEF RequestOf
  <2>3. PICK r \in Requests : r = RequestOf(s, n, k) /\ r.step = s
    BY <2>1
  <2>4. IsStored(r)'
    BY <2>3, <1>5
  <2>5. QED
    BY <2>2, <2>3, <2>4 DEF IsStored, OkStored, Expected
<1>6. ASSUME UNCHANGED run, pc # "idle", stored \subseteq stored', receipts'[s] = receipts[s]
      PROVE  IsStored(RequestOf(s, n, k))'
  <2>1. ASSUME NEW r \in Requests, r = RequestOf(s, n, k)
        PROVE  IsStored(r)'
    BY <1>1, <1>2, <1>3, <1>6, <2>1, StoredStays
  <2>2. QED
    BY <1>5, <1>6, <2>1
\* The first receipt of a step says what its outcome is.
<1>7. ASSUME receipts[s] = <<>>, NEW x, receipts'[s] = Append(receipts[s], x)
      PROVE  x = "succeeded"
  <2>1. Append(<<>>, x) = <<x>>
    OBVIOUS
  <2>2. <<x>>[1] = x /\ <<"succeeded">>[1] = "succeeded"
    OBVIOUS
  <2>3. QED
    BY <1>2, <1>7, <2>1, <2>2, Zenon
<1>8. CASE StartRun
  <2>1. receipts'[s] = <<>>
    BY <1>8, <1>1 DEF StartRun
  <2>2. <<"succeeded">> # <<>>
    OBVIOUS
  <2>3. QED
    BY <2>1, <2>2, <1>2, Zenon
<1>9. CASE Preflight
  BY <1>9, <1>4 DEF Preflight
<1>10. CASE BeginStep
  BY <1>10, <1>4 DEF BeginStep
<1>11. CASE Device
  BY <1>11, <1>4 DEF Device, Unwind
<1>12. CASE StartChamber
  BY <1>12, <1>4 DEF StartChamber, Unwind
<1>13. CASE SetClimate
  BY <1>13, <1>4 DEF SetClimate, Watch, Unwind
<1>14. CASE NextTarget
  BY <1>14, <1>4 DEF NextTarget, Unwind
<1>15. CASE SendCommand
  BY <1>15, <1>4 DEF SendCommand, Unwind
<1>16. CASE CommandAnswered
  BY <1>16, <1>4 DEF CommandAnswered, RecordBias, Unwind
<1>17. CASE CommandUnanswered
  BY <1>17, <1>4 DEF CommandUnanswered, Unwind
<1>18. CASE PublishCapture
  BY <1>18, <1>4 DEF PublishCapture, NumberShots, Register, Unwind
<1>19. CASE CollectWaited
  BY <1>19, <1>6 DEF CollectWaited, AbortForeign, StorePart, NoteFailure, Unwind
<1>20. CASE AbortWaited
  BY <1>20, <1>4 DEF AbortWaited, AbortWaitedRequest, Unwind
<1>21. CASE BeginJoin
  BY <1>21, <1>4 DEF BeginJoin
<1>22. CASE EndJoinWait
  BY <1>22, <1>4 DEF EndJoinWait
<1>23. CASE CollectJoined
  <2>1. UNCHANGED <<run, at>> /\ pc = "collect" /\ stored \subseteq stored'
    BY <1>23 DEF CollectJoined, StorePart
  <2>2. CASE receipts'[s] = receipts[s]
    BY <2>1, <2>2, <1>6
  <2>3. CASE receipts'[s] # receipts[s]
    <3>1. PICK q \in DOMAIN batches : q = joining[cursor] /\ q.step \in Steps /\ q \in Requests
      BY <2>1, <1>1, JoinedItem
    <3> DEFINE before == IF cancelled THEN Failed(exec[q.step]) ELSE exec[q.step]
               c == Collected(before, q)
               after == [c EXCEPT !.pending = @ - 1]
    <3>2. /\ Due(after) /\ receipts' = [receipts EXCEPT ![q.step] = Append(@, after.outcome)]
          /\ stored' = stored \cup Successes(q)
      BY <1>23, <2>3, <3>1 DEF CollectJoined
    <3>3. s = q.step
      BY <3>1, <3>2, <2>3, <1>1, <1>2
    <3>4. exec[s] \in ExecType /\ before \in ExecType /\ c \in {before, Failed(before)} /\ c \in ExecType
      <4>1. exec[s] \in ExecType
        BY <1>1, <1>2
      <4>2. before \in ExecType
        BY <3>3, <4>1, ExecTypes
      <4>3. QED
        BY <4>1, <4>2, ExecTypes, CollectedType DEF Collected
    <3>5. receipts'[s] = Append(receipts[s], after.outcome)
      BY <3>1, <3>2, <3>3, <1>1
    <3>6. after.outcome = c.outcome /\ ~c.finished /\ c.dispatched /\ c.pending - 1 = 0
      <4> HIDE DEF c
      <4>1. QED
        BY <3>2, <3>4 DEF Due, ExecType
    <3>7. /\ c.finished = exec[s].finished /\ c.dispatched = exec[s].dispatched
          /\ c.pending = exec[s].pending
      <4>1. /\ before.finished = exec[s].finished /\ before.dispatched = exec[s].dispatched
            /\ before.pending = exec[s].pending
        BY <3>3, <3>4, ExecFlags
      <4>2. QED
        BY <3>4, <4>1, ExecFlags
    <3>8. receipts[s] = <<>>
      BY <3>6, <3>7, <1>1, <1>2 DEF StepsInv
    <3>9. c.outcome = "succeeded"
      <4> HIDE DEF after
      <4>1. after.outcome = "succeeded"
        BY <3>5, <3>8, <1>7
      <4>2. QED
        BY <3>6, <4>1
    <3>10. IsStored(q)' /\ before.outcome = "succeeded"
      <4>1. Successes(q) \subseteq stored'
        BY <3>2
      <4>2. QED
        BY <3>1, <3>4, <3>9, <4>1, <1>1, CollectedAll
    <3>11. Promising(s)
      <4>1. before = exec[s]
        BY <3>3, <3>4, <3>10 DEF Failed, ExecType
      <4>2. QED
        BY <4>1, <3>6, <3>7, <3>10, <1>2 DEF Promising
    \* The step was dispatched, so it is an earlier one.
    <3>12. s < at
      <4>1. ~exec[at].dispatched
        BY <2>1, <1>1 DEF StepsInv, InStep, Joining
      <4>2. s > at => exec[s] = FreshExec
        BY <1>1, <1>2 DEF StepsInv, NotBegun
      <4>3. ~(s > at)
        BY <4>2, <3>6, <3>7 DEF FreshExec
      <4>4. s # at
        BY <4>1, <3>6, <3>7
      <4>5. QED
        BY <4>3, <4>4, <1>1, <1>2
    <3>13. ASSUME NEW r \in Requests, r = RequestOf(s, n, k), r.step = s
           PROVE  IsStored(r)'
      <4>1. IsStored(r) \/ IsOpen(r)
        BY <2>1, <3>11, <3>12, <3>13, <1>1, <1>2
           DEF ServedInv, Served, Executing, InStep, Joining
      <4>2. CASE IsStored(r)
        BY <4>2, <3>2, <1>1, StoredStays
      <4>3. CASE IsOpen(r)
        <5>1. exec[s].pending = 1
          BY <3>4, <3>6, <3>7 DEF ExecType
        <5>2. r = q
          BY <2>1, <4>3, <5>1, <3>1, <3>3, <3>13, <1>1, LastOpen
        <5>3. QED
          BY <5>2, <3>10
      <4>4. QED
        BY <4>1, <4>2, <4>3
    <3>14. QED
      BY <2>1, <3>13, <1>5
  <2>4. QED
    BY <2>2, <2>3
<1>24. CASE AbortJoined
  BY <1>24, <1>4 DEF AbortJoined, NextAbort, Unwind
<1>25. CASE EndJoin
  BY <1>25, <1>4 DEF EndJoin, Unwind
<1>26. CASE CheckSafety
  <2>1. UNCHANGED <<run, stored>> /\ pc = "safety"
    BY <1>26 DEF CheckSafety
  <2>2. CASE receipts'[s] = receipts[s]
    BY <2>1, <2>2, <1>4
  <2>3. CASE receipts'[s] # receipts[s]
    <3> DEFINE e == [(IF cancelled THEN Failed(exec[at]) ELSE exec[at]) EXCEPT !.dispatched = TRUE]
    <3>1. CloseStep
      BY <1>26, <2>3 DEF CheckSafety, Unwind
    <3>2. Due(e) /\ receipts' = [receipts EXCEPT ![at] = Append(@, e.outcome)]
      BY <3>1, <2>3 DEF CloseStep
    <3>3. s = at
      BY <3>2, <2>3, <1>1, <1>2
    <3>4. exec[at].started /\ ~exec[at].finished /\ receipts[at] = <<>> /\ exec[at] \in ExecType
      BY <2>1, <1>1 DEF StepsInv, Checking
    <3>5. receipts'[s] = Append(receipts[s], e.outcome)
      BY <3>2, <3>3, <1>1
    <3> HIDE DEF e
    <3>6. e.outcome = "succeeded"
      BY <3>3, <3>4, <3>5, <1>7
    <3>7. ~cancelled /\ exec[at].outcome = "succeeded"
      BY <3>4, <3>6 DEF e, Failed, ExecType
    <3>8. exec[at].pending = 0
      BY <3>2, <3>4, <3>7 DEF e, Due, ExecType
    <3>9. Promising(s) /\ Served(s, n, k) /\ pc \in Executing /\ pc \notin Over
      BY <2>1, <3>3, <3>4, <3>7, <1>2 DEF Promising, Served, Checking, Executing, Over
    <3>10. ASSUME NEW r \in Requests, r = RequestOf(s, n, k), r.step = s
           PROVE  IsStored(r)'
      <4>1. IsStored(r) \/ IsOpen(r)
        BY <3>9, <3>10, <1>1, <1>2 DEF ServedInv
      <4>2. ~IsOpen(r)
        BY <3>3, <3>8, <3>9, <3>10, <1>1, NothingOpen
      <4>3. QED
        BY <4>1, <4>2, <2>1, <1>1, StoredStays
    <3>11. QED
      BY <2>1, <3>10, <1>5
  <2>4. QED
    BY <2>2, <2>3
<1>27. CASE CancelHold
  BY <1>27, <1>4 DEF CancelHold, Unwind
<1>28. CASE AbortUnfinished
  BY <1>28, <1>4 DEF AbortUnfinished
<1>29. CASE StopChamber
  BY <1>29, <1>4 DEF StopChamber
<1>30. CASE ReportUnfinished
  <2>1. UNCHANGED <<run, stored>> /\ pc = "report"
    BY <1>30 DEF ReportUnfinished
  <2>2. CASE receipts'[s] = receipts[s]
    BY <2>1, <2>2, <1>4
  <2>3. CASE receipts'[s] # receipts[s]
    <3>1. PICK u \in Steps : Due(exec[u]) /\ receipts' = [receipts EXCEPT ![u] = Append(@, exec[u].outcome)]
      BY <1>30, <2>3 DEF ReportUnfinished
    <3>2. s = u
      BY <3>1, <2>3, <1>1, <1>2
    <3>3. exec[s].dispatched /\ ~exec[s].finished
      BY <3>1, <3>2 DEF Due
    <3>4. exec[s].started
      BY <3>3, <1>1, <1>2 DEF BegunInv
    <3>5. exec[s].outcome = "failed" /\ receipts[s] = <<>>
      BY <2>1, <3>3, <3>4, <1>1, <1>2 DEF StepsInv
    <3>6. receipts'[s] = Append(receipts[s], exec[s].outcome)
      BY <3>1, <3>2, <1>1
    <3>7. exec[s].outcome = "succeeded"
      BY <3>5, <3>6, <1>7
    <3>8. QED
      BY <3>5, <3>7
  <2>4. QED
    BY <2>2, <2>3
<1>31. CASE Resume
  BY <1>31, <1>4 DEF Resume
<1>32. CASE DecideAbort
  BY <1>32, <1>4 DEF DecideAbort, NextAbort
<1>33. CASE AgentSends
  BY <1>33, <1>4 DEF AgentSends
<1>34. CASE DeliverResult
  BY <1>34, <1>4 DEF DeliverResult
<1>35. CASE DeliverAck
  BY <1>35, <1>4 DEF DeliverAck
<1>36. CASE Cancel
  BY <1>36, <1>4 DEF Cancel
<1>37. CASE RequestEmergencyStop
  BY <1>37, <1>4 DEF RequestEmergencyStop
<1>38. CASE ResetEmergencyStop
  BY <1>38, <1>4 DEF ResetEmergencyStop
<1>39. CASE UNCHANGED vars
  BY <1>39, <1>4
<1>40. QED
  BY <1>8, <1>9, <1>10, <1>11, <1>12, <1>13, <1>14, <1>15, <1>16, <1>17, <1>18, <1>19, <1>20,
     <1>21, <1>22, <1>23, <1>24, <1>25, <1>26, <1>27, <1>28, <1>29, <1>30, <1>31, <1>32,
     <1>33, <1>34, <1>35, <1>36, <1>37, <1>38, <1>39
     DEF Next, Engine, CameraStep, Operator, Environment

-------------------------------------------------------------------------------
(* The invariant and the theorem.                                           *)

LEMMA RInit == Init => RInv
<1> SUFFICES ASSUME Init PROVE RInv
  OBVIOUS
<1>1. IInv
  BY InitInv
<1>2. BegunInv /\ \A s \in Steps : receipts[s] = <<>>
  BY DEF Init, BegunInv, FreshExec
<1>3. ServedInv
  BY DEF Init, ServedInv, Executing, InStep, Checking, Serving, Joining
<1>4. Len(<<"succeeded">>) = 1 /\ Len(<<>>) = 0
  OBVIOUS
<1>5. SucceededMeansStored
  BY <1>2, <1>4 DEF SucceededMeansStored
<1>6. QED
  BY <1>1, <1>2, <1>3, <1>5 DEF RInv

LEMMA RNext == RInv /\ [Next]_vars => RInv'
BY NextInv, BegunStep, ServedStep, SucceededStep DEF RInv

\* Whatever results are lost, repeated or late, and however captures are forked, joined,
\* skipped or cancelled, a capture step reported as succeeded has every result stored.
THEOREM SucceededIsStored == Spec => []SucceededMeansStored
<1>1. RInv => SucceededMeansStored
  BY DEF RInv
<1>2. QED
  BY <1>1, RInit, RNext, PTL DEF Spec

-------------------------------------------------------------------------------
(* What is reported of the steps: the additions to the invariant.           *)

\* A receipt that cannot be stored ends the loop.
ReceiptInv == "receipt" \in failures => pc \in {"unwind"} \cup Over
\* Only forked captures leave their step with results outstanding.
ForkInv == \A s \in Steps : exec[s].pending # 0 => s \in ForkedSteps
\* The steps before the one in execution are done, but for their forked captures.
Done(e) == e.started /\ (e.finished \/ (e.dispatched /\ e.pending # 0))
PassedInv == pc \notin Over => \A s \in Steps : s < at => Done(exec[s])
\* A run that comes to its end has been through all of its steps.
LeftInv ==
  pc = "unwind" => /\ outcome \in {"completed", "cancelled", "ng", "error"}
                   /\ outcome = "completed" => \A s \in Steps : Done(exec[s])

SInv == IInv /\ BegunInv /\ ReceiptInv /\ ForkInv /\ PassedInv /\ LeftInv

\* What happens besides the run does not touch its steps.
Aside == UNCHANGED <<recipe, pc, at, exec, receipts, failures, outcome>>

\* The actions that say something of a step, and all the others.
LEMMA ReportingActions ==
  ASSUME IInv, [Next]_vars
  PROVE  \/ StartRun \/ Preflight \/ BeginStep \/ PublishCapture \/ CollectJoined \/ CheckSafety
         \/ AbortUnfinished \/ StopChamber \/ ReportUnfinished
         \/ WithinStep \/ Aside
<1> USE DEF vars, runVars, flowVars, joinVars, captureVars, commandVars, chamberVars, skipVars,
           requestHistory, otherHistory, engineVars
<1>1. CASE Device
  BY <1>1, StepActions
<1>2. CASE StartChamber
  BY <1>2, StepActions
<1>3. CASE SetClimate
  BY <1>3, StepActions
<1>4. CASE NextTarget
  BY <1>4, StepActions
<1>5. CASE SendCommand
  BY <1>5, StepActions
<1>6. CASE CommandAnswered
  BY <1>6, StepActions
<1>7. CASE CommandUnanswered
  BY <1>7, StepActions
<1>8. CASE CollectWaited
  BY <1>8, StepActions
<1>9. CASE AbortWaited
  BY <1>9, StepActions
<1>10. CASE BeginJoin
  BY <1>10, StepActions
<1>11. CASE EndJoinWait
  BY <1>11, StepActions
<1>12. CASE AbortJoined
  BY <1>12, StepActions
<1>13. CASE EndJoin
  BY <1>13, StepActions
<1>14. CASE CancelHold
  BY <1>14, StepActions
<1>15. CASE Resume
  BY <1>15, StepActions
<1>16. CASE DecideAbort
  BY <1>16, StepActions
<1>17. CASE AgentSends
  BY <1>17 DEF AgentSends, Aside
<1>18. CASE DeliverResult
  BY <1>18 DEF DeliverResult, Aside
<1>19. CASE DeliverAck
  BY <1>19 DEF DeliverAck, Aside
<1>20. CASE Cancel
  BY <1>20 DEF Cancel, Aside
<1>21. CASE RequestEmergencyStop
  BY <1>21 DEF RequestEmergencyStop, Aside
<1>22. CASE ResetEmergencyStop
  BY <1>22 DEF ResetEmergencyStop, Aside
<1>23. CASE UNCHANGED vars
  BY <1>23 DEF Aside
<1>24. QED
  BY <1>1, <1>2, <1>3, <1>4, <1>5, <1>6, <1>7, <1>8, <1>9, <1>10, <1>11, <1>12, <1>13, <1>14,
     <1>15, <1>16, <1>17, <1>18, <1>19, <1>20, <1>21, <1>22, <1>23
     DEF Next, Engine, CameraStep, Operator, Environment

-------------------------------------------------------------------------------
(* What each of them does to the steps.                                     *)

\* Nothing is reported of a step.
SameReport(s) ==
  /\ exec'[s].started = exec[s].started /\ exec'[s].finished = exec[s].finished
  /\ exec[s].finished => exec'[s].outcome = exec[s].outcome
\* Nothing else is kept of it either, but for what it came to.
SameStep(s) ==
  /\ SameReport(s)
  /\ exec'[s].dispatched = exec[s].dispatched /\ exec'[s].pending = exec[s].pending

LEMMA WithinSays ==
  ASSUME IInv, WithinStep
  PROVE  \A s \in Steps : SameStep(s)
<1>1. StepsInv /\ ~exec[at].finished
  BY DEF IInv, Parts, StepsInv, WithinStep
<1>2. QED
  BY <1>1 DEF WithinStep, OutcomeOnly, SameStep, SameReport

\* A step that begins is as it begins.
Begun(e) == e.started /\ ~e.finished /\ ~e.dispatched /\ e.pending = 0
LEMMA BeginSays ==
  ASSUME IInv, BeginStep
  PROVE  /\ pc = "step" /\ UNCHANGED <<recipe, at, receipts>>
         /\ exec[at] = FreshExec /\ at \in Steps
         /\ \/ UNCHANGED <<exec, failures>> /\ pc' = "unwind" /\ outcome' = "cancelled"
            \/ /\ \A s \in Steps : s # at => exec'[s] = exec[s]
               /\ Begun(exec'[at])
               /\ \/ pc' = "unwind" /\ outcome' = "error" /\ "receipt" \in failures'
                  \/ UNCHANGED failures /\ pc' \notin {"step"} \cup Over /\ LeavesOrStays
<1>1. RunTypes /\ StepTypes /\ StepsInv /\ at \in Steps /\ exec \in [Steps -> ExecType]
  BY DEF IInv, TypeOK, Parts, RunTypes, StepTypes
<1> DEFINE started == [FreshExec EXCEPT !.started = TRUE]
<1>2. started \in ExecType /\ Begun(started)
  BY DEF FreshExec, ExecType, Begun
<1>3. \A d \in {started, Failed(started), Skipped(started)} : Begun(d)
  BY <1>2, ExecFlags DEF Begun
<1>4. pc = "step" /\ UNCHANGED <<recipe, at, receipts>>
  BY DEF BeginStep
<1>5. exec[at] = FreshExec
  BY <1>1, <1>4 DEF StepsInv, NotBegun
<1>6. Step.kind \in Kinds
  BY <1>1, StepFacts DEF Step
<1>7. CASE cancelled
  BY <1>1, <1>4, <1>5, <1>7 DEF BeginStep
<1>8. CASE ~cancelled
  <2>1. \E d \in {started, Failed(started), Skipped(started)} : exec' = [exec EXCEPT ![at] = d]
    BY <1>8 DEF BeginStep
  <2>2. Begun(exec'[at]) /\ \A s \in Steps : s # at => exec'[s] = exec[s]
    BY <2>1, <1>1, <1>3
  <2>3. \/ pc' = "unwind" /\ outcome' = "error" /\ "receipt" \in failures'
        \/ UNCHANGED failures /\ pc' \notin {"step"} \cup Over /\ LeavesOrStays
    BY <1>6, <1>8 DEF BeginStep, Kinds, Quantities, Over, LeavesOrStays
  <2>4. QED
    BY <2>2, <2>3, <1>1, <1>4, <1>5
<1>9. QED
  BY <1>7, <1>8

\* A capture is forked at most; the step in execution goes on or is left.
LEMMA PublishSays ==
  ASSUME IInv, PublishCapture
  PROVE  /\ pc = "publish" /\ UNCHANGED <<recipe, at, receipts, failures>> /\ at \in Steps
         /\ pc' \in {"target", "capture", "unwind"} /\ LeavesOrStays
         /\ \A s \in Steps : SameReport(s) /\ exec'[s].dispatched = exec[s].dispatched
         /\ \A s \in Steps : s # at => exec'[s] = exec[s]
         /\ exec'[at].pending # exec[at].pending => at \in ForkedSteps
<1>1. RunTypes /\ StepTypes /\ StepsInv /\ PhaseInv /\ at \in Steps /\ exec \in [Steps -> ExecType]
  BY DEF IInv, TypeOK, Parts, RunTypes, StepTypes
<1>2. pc = "publish" /\ UNCHANGED <<recipe, at, receipts, failures>>
      /\ pc' \in {"target", "capture", "unwind"} /\ LeavesOrStays
  BY DEF PublishCapture, NumberShots, Register, Unwind, LeavesOrStays
<1>3. ~exec[at].finished /\ Step.kind = "capture"
  BY <1>1, <1>2 DEF StepsInv, PhaseInv, InStep, Serving
<1>4. \/ \E d \in {exec[at], Failed(exec[at])} : exec' = [exec EXCEPT ![at] = d]
      \/ exec' = [exec EXCEPT ![at] = Fork(exec[at])] /\ ~Step.wait /\ ~Step.production
  <2>1. exec = [exec EXCEPT ![at] = exec[at]]
    BY <1>1
  <2>2. QED
    BY <2>1 DEF PublishCapture, Unwind
<1>5. \A d \in {exec[at], Failed(exec[at]), Fork(exec[at])} :
        d.started = exec[at].started /\ d.finished = exec[at].finished /\ d.dispatched = exec[at].dispatched
  BY <1>1 DEF ExecType, Failed, Fork
<1>6. \A s \in Steps : s # at => exec'[s] = exec[s]
  BY <1>1, <1>4
<1>7. \/ exec'[at] \in {exec[at], Failed(exec[at])}
      \/ exec'[at] = Fork(exec[at]) /\ ~Step.wait /\ ~Step.production
  BY <1>1, <1>4
<1>11. Failed(exec[at]).pending = exec[at].pending
  BY <1>1, ExecFlags
<1>8. exec'[at].pending # exec[at].pending => at \in ForkedSteps
  BY <1>1, <1>3, <1>7, <1>11 DEF ForkedSteps, Step
<1>9. \A s \in Steps : SameReport(s) /\ exec'[s].dispatched = exec[s].dispatched
  BY <1>3, <1>5, <1>6, <1>7 DEF SameReport
<1>10. QED
  BY <1>1, <1>2, <1>6, <1>8, <1>9


\* A step is reported, and nothing is of any other.
Finishes(s) ==
  /\ exec[s].started /\ ~exec[s].finished
  /\ exec'[s].started /\ exec'[s].finished /\ exec'[s].pending = 0
  /\ exec'[s].outcome \in {"succeeded", "skipped", "failed"}
  /\ \A u \in Steps : u # s => SameStep(u)
\* The receipt of it is not stored.
ReceiptLost == pc' = "unwind" /\ outcome' = "error" /\ "receipt" \in failures'

\* A join collects an item of an earlier step, which is finished with its last one.
LEMMA CollectSays ==
  ASSUME IInv, PassedInv, CollectJoined
  PROVE  /\ pc = "collect" /\ UNCHANGED <<recipe, at>>
         /\ \E s \in Steps :
              /\ s # at /\ exec[s].started /\ ~exec[s].finished /\ exec[s].pending # 0
              /\ \/ /\ \A u \in Steps : SameReport(u) /\ (u # s => SameStep(u))
                    /\ exec'[s].dispatched = exec[s].dispatched
                    /\ exec'[s].dispatched => exec'[s].pending # 0
                    /\ UNCHANGED failures /\ pc' \notin {"step"} \cup Over /\ LeavesOrStays
                 \/ /\ Finishes(s)
                    /\ \/ UNCHANGED <<outcome, failures>> /\ pc' \notin {"step", "unwind"} \cup Over
                       \/ ReceiptLost
<1>1. StepTypes /\ StepsInv /\ exec \in [Steps -> ExecType]
  BY DEF IInv, TypeOK, Parts, StepTypes
<1>2. PICK q \in DOMAIN batches : q = joining[cursor] /\ q.step \in Steps
  BY JoinedItem DEF CollectJoined
<1> DEFINE s == q.step
           before == IF cancelled THEN Failed(exec[s]) ELSE exec[s]
           c == Collected(before, q)
           after == [c EXCEPT !.pending = @ - 1]
           closed == [after EXCEPT !.finished = TRUE]
<1>3. exec[s] \in ExecType /\ exec[s].pending \in Nat \ {0}
  BY <1>2, CollectedIsCounted DEF CollectJoined
<1>4. pc = "collect" /\ UNCHANGED <<recipe, at>> /\ at \in Steps
  BY DEF CollectJoined, IInv, TypeOK, RunTypes
<1>5. s # at
  BY <1>2, <1>4 DEF IInv, Parts, BatchInv, PhaseInv, Joining, Step
<1>6. ~exec[s].finished /\ exec[s].started /\ exec[s].dispatched
  <2>1. s > at => exec[s] = FreshExec
    BY <1>1, <1>2 DEF StepsInv, NotBegun
  <2>2. ~(s > at)
    BY <2>1, <1>3 DEF FreshExec
  <2>3. s < at
    BY <2>2, <1>2, <1>4, <1>5, RecipeFacts DEF IInv, TypeOK
  <2>4. ~exec[s].finished
    BY <1>1, <1>2, <1>3 DEF StepsInv
  <2>5. QED
    BY <2>3, <2>4, <1>2, <1>4 DEF PassedInv, Done, Over
<1>7. /\ before \in ExecType /\ before.started = exec[s].started /\ before.finished = exec[s].finished
      /\ before.dispatched = exec[s].dispatched /\ before.pending = exec[s].pending
  BY <1>3, ExecTypes, ExecFlags
<1>8. /\ c \in ExecType /\ c.started = exec[s].started /\ c.finished = exec[s].finished
      /\ c.dispatched = exec[s].dispatched /\ c.pending = exec[s].pending
  <2>1. c \in {before, Failed(before)} /\ c \in ExecType
    BY <1>7, CollectedType DEF Collected
  <2>2. /\ Failed(before).started = before.started /\ Failed(before).finished = before.finished
        /\ Failed(before).dispatched = before.dispatched /\ Failed(before).pending = before.pending
    BY <1>7, ExecFlags
  <2> HIDE DEF before, c
  <2>3. QED
    BY <2>1, <2>2, <1>7
<1> HIDE DEF before, c
<1>9. /\ after.started = exec[s].started /\ after.finished = exec[s].finished
      /\ after.dispatched = exec[s].dispatched /\ after.outcome \in {"succeeded", "skipped", "failed"}
      /\ closed.started = exec[s].started /\ closed.finished /\ closed.pending = after.pending /\ closed.outcome = after.outcome
  BY <1>8 DEF ExecType
<1> HIDE DEF after, closed
<1>10. Due(after) <=> after.pending = 0
  BY <1>6, <1>9 DEF Due
<1>11. \A u \in Steps : /\ Failed(exec[u]).started = exec[u].started /\ Failed(exec[u]).finished = exec[u].finished
                        /\ Failed(exec[u]).dispatched = exec[u].dispatched /\ Failed(exec[u]).pending = exec[u].pending
  BY <1>1, ExecFlags
<1>12. ~exec[at].finished
  BY <1>1, <1>4 DEF StepsInv, InStep, Joining
<1>13. CASE /\ exec' = [u \in Steps |-> IF u \in {s, at} THEN Failed(exec[u]) ELSE exec[u]]
            /\ UNCHANGED failures /\ pc' = "unwind" /\ outcome' \in {"ng", "error"}
  <2>1. \A u \in Steps : SameStep(u)
    BY <1>6, <1>11, <1>12, <1>13 DEF SameStep, SameReport
  <2>2. QED
    BY <2>1, <1>2, <1>3, <1>4, <1>5, <1>6, <1>13 DEF SameStep, LeavesOrStays, Over
<1>14. CASE /\ ~Due(after) /\ exec' = [exec EXCEPT ![s] = after]
            /\ UNCHANGED <<outcome, failures>> /\ pc' \in {"collect", "abort", "safety"}
  <2>1. exec'[s] = after /\ \A u \in Steps : u # s => exec'[u] = exec[u]
    BY <1>1, <1>2, <1>14
  <2>2. \A u \in Steps : SameReport(u) /\ (u # s => SameStep(u))
    BY <2>1, <1>6, <1>9 DEF SameStep, SameReport
  <2>3. exec'[s].dispatched = exec[s].dispatched /\ exec'[s].pending # 0
    <3>1. after.pending # 0
      BY <1>10, <1>14
    <3>2. QED
      BY <2>1, <3>1, <1>9
  <2>4. pc' \notin {"step"} \cup Over /\ LeavesOrStays
    BY <1>14 DEF LeavesOrStays, Over
  <2>5. QED
    BY <2>2, <2>3, <2>4, <1>2, <1>3, <1>4, <1>5, <1>6, <1>14
<1>15. CASE /\ Due(after) /\ exec' = [exec EXCEPT ![s] = closed]
            /\ UNCHANGED <<outcome, failures>> /\ pc' \in {"collect", "abort", "safety"}
  <2>1. exec'[s] = closed /\ \A u \in Steps : u # s => exec'[u] = exec[u]
    BY <1>1, <1>2, <1>15
  <2>2. Finishes(s)
    BY <2>1, <1>6, <1>9, <1>10, <1>15 DEF Finishes, SameStep, SameReport
  <2>3. QED
    BY <2>2, <1>2, <1>3, <1>4, <1>5, <1>6, <1>15 DEF Over
<1>16. CASE /\ Due(after) /\ ReceiptLost
            /\ exec' = [u \in Steps |-> IF u = s THEN closed ELSE IF u = at THEN Failed(exec[u]) ELSE exec[u]]
  <2>1. exec'[s] = closed /\ \A u \in Steps : u # s => exec'[u] \in {exec[u], Failed(exec[u])} /\ (u # at => exec'[u] = exec[u])
    BY <1>2, <1>16
  <2>2. \A u \in Steps : u # s => SameStep(u)
    BY <2>1, <1>11, <1>12 DEF SameStep, SameReport
  <2>3. Finishes(s)
    BY <2>1, <2>2, <1>6, <1>9, <1>10, <1>16 DEF Finishes
  <2>4. QED
    BY <2>3, <1>2, <1>3, <1>4, <1>5, <1>6, <1>16
<1>17. QED
  BY <1>2, <1>13, <1>14, <1>15, <1>16 DEF CollectJoined, Advance, ReceiptLost, before, c, after, closed

\* The run goes on to the next step, or has come to its end.
Onward ==
  IF at < Len(recipe.steps) THEN at' = at + 1 /\ pc' = "step" /\ outcome' = outcome
  ELSE at' = at /\ pc' = "unwind" /\ outcome' = "completed"

\* At the end of its turn a step is dispatched, and finished if nothing of it is open.
LEMMA SafetySays ==
  ASSUME IInv, CheckSafety
  PROVE  /\ pc = "safety" /\ UNCHANGED recipe /\ at \in Steps
         /\ exec[at].started /\ ~exec[at].finished
         /\ \/ WithinStep
            \/ /\ Onward /\ UNCHANGED failures
               /\ \A u \in Steps : SameReport(u) /\ (u # at => SameStep(u))
               /\ exec'[at].dispatched /\ exec'[at].pending = exec[at].pending /\ exec[at].pending # 0
            \/ Onward /\ UNCHANGED failures /\ Finishes(at)
            \/ ReceiptLost /\ at' = at /\ Finishes(at)
<1>1. RunTypes /\ StepTypes /\ StepsInv /\ at \in Steps /\ exec \in [Steps -> ExecType]
  BY DEF IInv, TypeOK, Parts, RunTypes, StepTypes
<1>2. pc = "safety" /\ UNCHANGED recipe /\ exec[at].started /\ ~exec[at].finished
  BY <1>1 DEF CheckSafety, StepsInv, Checking
<1> DEFINE f == IF cancelled THEN Failed(exec[at]) ELSE exec[at]
           e == [f EXCEPT !.dispatched = TRUE]
<1>3. f \in ExecType /\ f.started = exec[at].started /\ f.finished = exec[at].finished /\ f.pending = exec[at].pending
  BY <1>1, ExecTypes, ExecFlags
<1> HIDE DEF f
<1>4. /\ e \in ExecType /\ e.started = exec[at].started /\ e.finished = exec[at].finished
      /\ e.dispatched /\ e.pending = exec[at].pending
  BY <1>3 DEF ExecType
<1> HIDE DEF e
<1>5. \A d \in {e, Failed(e)} : /\ d.pending = e.pending
                                /\ [d EXCEPT !.finished = TRUE].started /\ [d EXCEPT !.finished = TRUE].finished
                                /\ [d EXCEPT !.finished = TRUE].pending = e.pending
                                /\ [d EXCEPT !.finished = TRUE].outcome \in {"succeeded", "skipped", "failed"}
  BY <1>2, <1>4 DEF ExecType, Failed
<1>6. Due(e) <=> e.pending = 0
  BY <1>2, <1>4 DEF Due
<1>7. CASE /\ exec' \in {exec, [exec EXCEPT ![at] = Failed(exec[at])]} /\ pc' \in {"hold", "unwind"}
           /\ UNCHANGED <<at, receipts, failures>> /\ LeavesOrStays
  <2>1. OutcomeOnly
    BY <1>1, <1>7, OutcomeChanges DEF SetsOutcome
  <2>2. WithinStep
    BY <2>1, <1>2, <1>7 DEF WithinStep, Checking
  <2>3. QED
    BY <2>2, <1>1, <1>2
<1>8. CASE ~Due(e) /\ exec' = [exec EXCEPT ![at] = e] /\ Onward /\ UNCHANGED failures
  <2>1. exec'[at] = e /\ \A u \in Steps : u # at => exec'[u] = exec[u]
    BY <1>1, <1>8
  <2>2. \A u \in Steps : SameReport(u) /\ (u # at => SameStep(u))
    BY <2>1, <1>2, <1>4 DEF SameStep, SameReport
  <2>3. exec'[at].dispatched /\ exec'[at].pending = exec[at].pending /\ exec[at].pending # 0
    <3>1. e.pending # 0
      BY <1>6, <1>8
    <3>2. QED
      BY <2>1, <3>1, <1>4
  <2>4. QED
    BY <2>2, <2>3, <1>1, <1>2, <1>8
<1>9. ASSUME Due(e), NEW d \in {e, Failed(e)}, exec' = [exec EXCEPT ![at] = [d EXCEPT !.finished = TRUE]]
      PROVE  Finishes(at)
  <2> DEFINE x == [d EXCEPT !.finished = TRUE]
  <2>1. x.started /\ x.finished /\ x.pending = 0 /\ x.outcome \in {"succeeded", "skipped", "failed"}
    BY <1>5, <1>6, <1>9
  <2>2. exec' = [exec EXCEPT ![at] = x]
    BY <1>9
  <2> HIDE DEF x
  <2>3. exec'[at] = x /\ \A u \in Steps : u # at => exec'[u] = exec[u]
    BY <2>2, <1>1
  <2>4. QED
    BY <2>1, <2>3, <1>2 DEF Finishes, SameStep, SameReport
<1>10. \/ /\ exec' \in {exec, [exec EXCEPT ![at] = Failed(exec[at])]} /\ pc' \in {"hold", "unwind"}
          /\ UNCHANGED <<at, receipts, failures>> /\ LeavesOrStays
       \/ ~Due(e) /\ exec' = [exec EXCEPT ![at] = e] /\ Onward /\ UNCHANGED failures
       \/ Due(e) /\ exec' = [exec EXCEPT ![at] = [e EXCEPT !.finished = TRUE]] /\ Onward /\ UNCHANGED failures
       \/ Due(e) /\ exec' = [exec EXCEPT ![at] = [Failed(e) EXCEPT !.finished = TRUE]] /\ ReceiptLost /\ at' = at
  BY DEF CheckSafety, CloseStep, Unwind, LeavesOrStays, Onward, ReceiptLost, e, f
<1>11. QED
  BY <1>1, <1>2, <1>7, <1>8, <1>9, <1>10

\* The finally block reports nothing before the chamber is stopped.
LEMMA AbortSays ==
  ASSUME IInv, AbortUnfinished
  PROVE  /\ pc = "unwind" /\ pc' = "stop" /\ UNCHANGED <<recipe, at, failures, outcome>>
         /\ \A s \in Steps : SameReport(s) /\ exec'[s].pending \in {0, exec[s].pending}
<1>1. exec \in [Steps -> ExecType]
  BY DEF IInv, TypeOK, StepTypes
<1> DEFINE given(s) == [Failed(exec[s]) EXCEPT !.pending = 0, !.dispatched = TRUE]
<1>2. \A s \in Steps : /\ given(s).started = exec[s].started /\ given(s).finished = exec[s].finished
                       /\ given(s).pending = 0
  BY <1>1 DEF ExecType, Failed
<1>3. \A s \in Steps : exec'[s] = IF exec[s].started /\ ~exec[s].finished THEN given(s) ELSE exec[s]
  BY DEF AbortUnfinished
<1> HIDE DEF given
<1>4. \A s \in Steps : SameReport(s) /\ exec'[s].pending \in {0, exec[s].pending}
  BY <1>2, <1>3 DEF SameReport
<1>5. QED
  BY <1>4 DEF AbortUnfinished, runVars, otherHistory

\* What is open then is reported as failed, in the order of the steps.
LEMMA ReportSays ==
  ASSUME IInv, BegunInv, ReportUnfinished
  PROVE  /\ pc = "report" /\ UNCHANGED <<recipe, at>>
         /\ \/ /\ pc' = "idle" /\ UNCHANGED <<exec, failures, outcome>>
               /\ \A s \in Steps : exec[s].started => exec[s].finished
            \/ \E s \in Steps :
                 /\ Finishes(s) /\ exec'[s].outcome = "failed"
                 /\ \A u \in Steps : exec[u].started /\ ~exec[u].finished => s <= u
                 /\ \/ pc' = pc /\ UNCHANGED <<outcome, failures>>
                    \/ pc' = "idle" /\ outcome' = "error" /\ "receipt" \in failures'
<1>1. StepsInv /\ exec \in [Steps -> ExecType] /\ Steps \subseteq Nat
  BY RecipeFacts DEF IInv, TypeOK, Parts, StepTypes
<1>2. pc = "report" /\ UNCHANGED <<recipe, at>>
  BY DEF ReportUnfinished
<1>3. \A u \in Steps : exec[u].started /\ ~exec[u].finished => Due(exec[u]) /\ exec[u].outcome = "failed"
  BY <1>1, <1>2 DEF StepsInv
<1>4. CASE (\A s \in Steps : ~Due(exec[s])) /\ pc' = "idle" /\ UNCHANGED <<exec, failures, outcome>>
  BY <1>2, <1>3, <1>4
<1>5. ASSUME NEW s \in Steps, Due(exec[s]), \A u \in Steps : u < s => ~Due(exec[u]),
             exec' = [exec EXCEPT ![s] = [exec[s] EXCEPT !.finished = TRUE]],
             \/ UNCHANGED <<pc, failures, outcome>>
             \/ pc' = "idle" /\ outcome' = "error" /\ failures' = failures \cup {"receipt"}
      PROVE  \E v \in Steps :
                 /\ Finishes(v) /\ exec'[v].outcome = "failed"
                 /\ \A u \in Steps : exec[u].started /\ ~exec[u].finished => v <= u
                 /\ \/ pc' = pc /\ UNCHANGED <<outcome, failures>>
                    \/ pc' = "idle" /\ outcome' = "error" /\ "receipt" \in failures'
  <2>1. exec[s].dispatched /\ ~exec[s].finished /\ exec[s].pending = 0 /\ exec[s].started
    BY <1>5 DEF Due, BegunInv
  <2>2. exec[s].outcome = "failed" /\ exec[s] \in ExecType
    BY <2>1, <1>1, <1>3
  <2> DEFINE x == [exec[s] EXCEPT !.finished = TRUE]
  <2>3. x.started /\ x.finished /\ x.pending = 0 /\ x.outcome = "failed"
    BY <2>1, <2>2 DEF ExecType
  <2>4. exec' = [exec EXCEPT ![s] = x]
    BY <1>5
  <2> HIDE DEF x
  <2>5. exec'[s] = x /\ \A u \in Steps : u # s => exec'[u] = exec[u]
    BY <2>4, <1>1
  <2>6. Finishes(s)
    BY <2>1, <2>3, <2>5 DEF Finishes, SameStep, SameReport
  <2>7. \A u \in Steps : exec[u].started /\ ~exec[u].finished => s <= u
    BY <1>1, <1>3, <1>5
  <2>8. QED
    BY <2>3, <2>5, <2>6, <2>7, <1>5
<1>6. QED
  BY <1>2, <1>4, <1>5 DEF ReportUnfinished

-------------------------------------------------------------------------------
(* The additions are invariant.                                             *)

LEMMA ForkStep ==
  ASSUME IInv, BegunInv, ForkInv, PassedInv, [Next]_vars
  PROVE  ForkInv'
<1>1. Steps' = Steps /\ recipe' = recipe /\ ForkedSteps' = ForkedSteps
  BY RecipeKept DEF IInv, TypeOK, ForkedSteps
<1>2. SUFFICES \A s \in Steps : exec'[s].pending # 0 => exec[s].pending # 0 \/ s \in ForkedSteps
  BY <1>1 DEF ForkInv
<1>3. CASE StartRun
  BY <1>1, <1>3 DEF StartRun, FreshExec
<1>4. CASE Preflight \/ StopChamber \/ Aside
  BY <1>4 DEF Preflight, StopChamber, Aside
<1>5. CASE BeginStep
  BY <1>5, BeginSays DEF Begun
<1>6. CASE PublishCapture
  BY <1>6, PublishSays
<1>7. CASE CollectJoined
  BY <1>7, CollectSays DEF SameStep, Finishes
<1>8. CASE CheckSafety
  BY <1>8, SafetySays, WithinSays DEF SameStep, Finishes
<1>9. CASE AbortUnfinished
  BY <1>9, AbortSays
<1>10. CASE ReportUnfinished
  BY <1>10, ReportSays DEF SameStep, Finishes
<1>11. CASE WithinStep
  BY <1>11, WithinSays DEF SameStep
<1>12. QED
  BY <1>3, <1>4, <1>5, <1>6, <1>7, <1>8, <1>9, <1>10, <1>11, ReportingActions

LEMMA ReceiptStep ==
  ASSUME IInv, BegunInv, ReceiptInv, PassedInv, [Next]_vars
  PROVE  ReceiptInv'
<1>1. CASE StartRun
  BY <1>1 DEF StartRun, ReceiptInv
<1>2. CASE Preflight
  BY <1>2 DEF Preflight, otherHistory, ReceiptInv, Over
<1>3. CASE StopChamber
  BY <1>3 DEF StopChamber, ReceiptInv, Over
<1>4. CASE Aside
  BY <1>4 DEF Aside, ReceiptInv
<1>5. CASE BeginStep
  BY <1>5, BeginSays DEF ReceiptInv, Over
<1>6. CASE PublishCapture
  BY <1>6, PublishSays DEF ReceiptInv, Over
<1>7. CASE CollectJoined
  BY <1>7, CollectSays DEF ReceiptInv, ReceiptLost, Over
<1>8. CASE WithinStep
  BY <1>8 DEF WithinStep, ReceiptInv, InStep, Serving, Joining, Checking, Over
<1>9. CASE CheckSafety
  BY <1>8, <1>9, SafetySays DEF ReceiptInv, ReceiptLost, Over
<1>10. CASE AbortUnfinished
  BY <1>10, AbortSays DEF ReceiptInv, Over
<1>11. CASE ReportUnfinished
  BY <1>11, ReportSays DEF ReceiptInv, Over
<1>12. QED
  BY <1>1, <1>2, <1>3, <1>4, <1>5, <1>6, <1>7, <1>8, <1>9, <1>10, <1>11, ReportingActions

\* Of a step that is done nothing more is asked before the run is over.
LEMMA StaysDone ==
  ASSUME NEW s \in Steps, Done(exec[s]), SameStep(s)
  PROVE  Done(exec'[s])
BY DEF Done, SameStep, SameReport

LEMMA PassedStep ==
  ASSUME IInv, BegunInv, PassedInv, [Next]_vars
  PROVE  PassedInv'
<1>1. Steps' = Steps /\ recipe' = recipe /\ at \in Steps /\ Steps = 1..Len(recipe.steps) /\ Len(recipe.steps) \in Nat
  BY RecipeKept, RecipeFacts DEF IInv, TypeOK, RunTypes
<1>2. SUFFICES ASSUME pc' \notin Over, NEW s \in Steps, s < at'
               PROVE  Done(exec'[s])
  BY <1>1 DEF PassedInv
<1>3. ASSUME at' = at, pc \notin Over, SameStep(s)
      PROVE  Done(exec'[s])
  BY <1>1, <1>2, <1>3, StaysDone DEF PassedInv
<1>4. CASE StartRun
  BY <1>1, <1>2, <1>4 DEF StartRun
<1>5. CASE Preflight
  BY <1>2, <1>3, <1>5 DEF Preflight, SameStep, SameReport, Over
<1>6. CASE StopChamber
  BY <1>2, <1>6 DEF StopChamber, Over
<1>7. CASE Aside
  BY <1>2, <1>3, <1>7 DEF Aside, SameStep, SameReport
<1>8. CASE BeginStep
  <2>1. at' = at /\ pc \notin Over /\ SameStep(s)
    BY <1>1, <1>2, <1>8, BeginSays DEF SameStep, SameReport, Over
  <2>2. QED
    BY <2>1, <1>3
<1>9. CASE PublishCapture
  <2>1. at' = at /\ pc \notin Over /\ SameStep(s)
    BY <1>1, <1>2, <1>9, PublishSays DEF SameStep, SameReport, Over
  <2>2. QED
    BY <2>1, <1>3
<1>10. CASE CollectJoined
  <2>1. at' = at /\ pc \notin Over /\ Done(exec[s])
    BY <1>1, <1>2, <1>10, CollectSays DEF PassedInv, Over
  <2>2. SameStep(s) \/ Done(exec'[s])
    BY <2>1, <1>10, CollectSays DEF Done, Finishes, SameReport
  <2>3. QED
    BY <2>1, <2>2, <1>3
<1>11. CASE WithinStep
  <2>1. at' = at /\ pc \notin Over /\ SameStep(s)
    BY <1>11, WithinSays DEF WithinStep, InStep, Serving, Joining, Checking, Over
  <2>2. QED
    BY <2>1, <1>3
<1>12. CASE CheckSafety
  <2>1. pc \notin Over /\ at' \in {at, at + 1}
    BY <1>12, SafetySays DEF Onward, WithinStep, Over
  <2>2. s # at => s < at
    BY <2>1, <1>1, <1>2
  <2>3. s # at => Done(exec'[s])
    <3>1. SUFFICES ASSUME s # at PROVE Done(exec'[s])
      OBVIOUS
    <3>2. SameStep(s)
      BY <3>1, <1>12, SafetySays, WithinSays DEF Finishes
    <3>3. Done(exec[s])
      BY <2>1, <2>2, <3>1 DEF PassedInv
    <3>4. QED
      BY <3>2, <3>3, StaysDone
  <2>4. CASE WithinStep
    BY <2>4, <1>11
  <2>5. CASE ~WithinStep
    <3>1. Done(exec'[at])
      BY <2>5, <1>12, SafetySays DEF Done, Finishes, SameReport
    <3>2. QED
      BY <2>3, <3>1
  <2>6. QED
    BY <2>4, <2>5
<1>13. CASE AbortUnfinished
  BY <1>2, <1>13, AbortSays DEF Over
<1>14. CASE ReportUnfinished
  BY <1>2, <1>14, ReportSays DEF Over
<1>15. QED
  BY <1>4, <1>5, <1>6, <1>7, <1>8, <1>9, <1>10, <1>11, <1>12, <1>13, <1>14, ReportingActions

LEMMA LeftStep ==
  ASSUME IInv, BegunInv, PassedInv, LeftInv, [Next]_vars
  PROVE  LeftInv'
<1>1. Steps' = Steps /\ recipe' = recipe /\ at \in Steps /\ Steps = 1..Len(recipe.steps) /\ Len(recipe.steps) \in Nat
  BY RecipeKept, RecipeFacts DEF IInv, TypeOK, RunTypes
<1>2. SUFFICES ASSUME pc' = "unwind"
               PROVE  /\ outcome' \in {"completed", "cancelled", "ng", "error"}
                      /\ outcome' = "completed" => \A s \in Steps : Done(exec'[s])
  BY <1>1 DEF LeftInv
<1>3. ASSUME outcome' \in {"cancelled", "ng", "error"}
      PROVE  /\ outcome' \in {"completed", "cancelled", "ng", "error"}
             /\ outcome' = "completed" => \A s \in Steps : Done(exec'[s])
  BY <1>3
<1>4. CASE StartRun \/ Preflight \/ StopChamber \/ AbortUnfinished \/ ReportUnfinished
  BY <1>2, <1>4 DEF StartRun, Preflight, StopChamber, AbortUnfinished, ReportUnfinished
<1>5. CASE Aside
  BY <1>1, <1>2, <1>5 DEF Aside, LeftInv
<1>6. CASE BeginStep
  BY <1>2, <1>3, <1>6, BeginSays DEF LeavesOrStays
<1>7. CASE PublishCapture
  BY <1>2, <1>3, <1>7, PublishSays DEF LeavesOrStays
<1>8. CASE CollectJoined
  BY <1>2, <1>3, <1>8, CollectSays DEF LeavesOrStays, ReceiptLost
<1>9. CASE WithinStep
  BY <1>2, <1>3, <1>9 DEF WithinStep, LeavesOrStays
<1>10. CASE CheckSafety
  <2>1. CASE WithinStep
    BY <2>1, <1>9
  <2>2. CASE ReceiptLost
    BY <2>2, <1>3 DEF ReceiptLost
  <2>3. CASE ~WithinStep /\ ~ReceiptLost
    <3>1. Onward /\ pc = "safety"
      BY <2>3, <1>10, SafetySays
    <3>2. at = Len(recipe.steps) /\ outcome' = "completed"
      BY <3>1, <1>1, <1>2 DEF Onward
    <3>3. Done(exec'[at])
      BY <2>3, <1>10, SafetySays DEF Done, Finishes, SameReport
    <3>4. ASSUME NEW s \in Steps, s # at PROVE Done(exec'[s])
      <4>1. SameStep(s)
        BY <2>3, <3>4, <1>10, SafetySays DEF Finishes
      <4>2. Done(exec[s])
        BY <3>1, <3>2, <3>4, <1>1 DEF PassedInv, Over
      <4>3. QED
        BY <4>1, <4>2, StaysDone
    <3>5. QED
      BY <3>2, <3>3, <3>4
  <2>4. QED
    BY <2>1, <2>2, <2>3
<1>11. QED
  BY <1>4, <1>5, <1>6, <1>7, <1>8, <1>9, <1>10, ReportingActions

LEMMA SInit == Init => SInv
<1> SUFFICES ASSUME Init PROVE SInv
  OBVIOUS
<1>1. IInv /\ BegunInv
  BY RInit DEF RInv
<1>2. ReceiptInv /\ ForkInv /\ PassedInv /\ LeftInv
  BY DEF Init, ReceiptInv, ForkInv, PassedInv, LeftInv, FreshExec, Over
<1>3. QED
  BY <1>1, <1>2 DEF SInv

LEMMA SNext == SInv /\ [Next]_vars => SInv'
BY NextInv, BegunStep, ReceiptStep, ForkStep, PassedStep, LeftStep DEF SInv

LEMMA SInvariance == Spec => []SInv
BY SInit, SNext, PTL DEF Spec

-------------------------------------------------------------------------------
(* The engine implements the promise of StepReports.                        *)

Mapped == <<ReportMode, NotStarted, NotReported, ForkedSteps, LastReports, Ending>>

\* The mapped state of the steps changes by what is reported only.
LEMMA ReportedSame ==
  ASSUME NEW s \in Steps, SameReport(s)
  PROVE  Reported(exec'[s]) = Reported(exec[s])
BY DEF SameReport, Reported

LEMMA NothingReported ==
  ASSUME IInv, [Next]_vars, pc # "idle", pc' # "idle", ReportMode' = ReportMode, Ending' = Ending,
         \A s \in Steps : SameReport(s)
  PROVE  UNCHANGED Mapped
<1>1. Steps' = Steps /\ recipe' = recipe /\ ForkedSteps' = ForkedSteps
  BY RecipeKept DEF IInv, TypeOK, ForkedSteps
<1>2. LastReports' = LastReports
  BY <1>1, ReportedSame DEF LastReports
<1>3. NotReported' = NotReported /\ NotStarted' = NotStarted
  BY <1>1 DEF NotReported, NotStarted, SameReport
<1>4. QED
  BY <1>1, <1>2, <1>3 DEF Mapped

\* A step that is reported.
LEMMA OneReported ==
  ASSUME IInv, [Next]_vars, pc # "idle", NEW s \in Steps, Finishes(s)
  PROVE  /\ ForkedSteps' = ForkedSteps
         /\ s \in NotReported
         /\ pc' # "idle" => NotReported' = NotReported \ {s}
         /\ LastReports' = [LastReports EXCEPT ![s] = Reported(exec'[s])]
         /\ Reported(exec'[s]) \in {"Succeeded", "Skipped", "Failed"}
         /\ exec'[s].outcome = "failed" => Reported(exec'[s]) = "Failed"
         /\ ReportMode' = "running" /\ ReportMode = "running" => NotStarted' = NotStarted
<1>1. Steps' = Steps /\ recipe' = recipe /\ ForkedSteps' = ForkedSteps
  BY RecipeKept DEF IInv, TypeOK, ForkedSteps
<1>2. \A u \in Steps : u # s => Reported(exec'[u]) = Reported(exec[u])
  BY ReportedSame DEF Finishes, SameStep
<1>3. LastReports' = [LastReports EXCEPT ![s] = Reported(exec'[s])]
  BY <1>1, <1>2 DEF LastReports
<1>4. s \in NotReported
  BY DEF NotReported, Finishes
<1>5. pc' # "idle" => NotReported' = NotReported \ {s}
  BY <1>1 DEF NotReported, Finishes, SameStep, SameReport
<1>6. ReportMode' = "running" /\ ReportMode = "running" => NotStarted' = NotStarted
  BY <1>1 DEF NotStarted, Finishes, SameStep, SameReport
<1>7. /\ Reported(exec'[s]) \in {"Succeeded", "Skipped", "Failed"}
      /\ exec'[s].outcome = "failed" => Reported(exec'[s]) = "Failed"
  BY DEF Reported, Finishes
<1>8. QED
  BY <1>1, <1>3, <1>4, <1>5, <1>6, <1>7

\* What each phase of the run is mapped to.
ModesHold ==
  /\ pc = "idle" => ReportMode = "closing"
  /\ pc \in {"stop", "report"} => ReportMode = "unwinding"
  /\ pc \notin {"unwind"} \cup Over => ReportMode = "running"
  /\ pc = "unwind" => ReportMode = IF "receipt" \in failures THEN "unwinding" ELSE "running"
  /\ ReportMode # "running" => NotStarted = {}
  /\ pc = "idle" => NotReported = {}
  /\ ReportMode = "running" => Ending = "ok"
  /\ ReportMode # "running" =>
       /\ outcome = "completed" => Ending = "ok"
       /\ outcome = "cancelled" => Ending = "cancelled"
       /\ outcome \in {"ng", "error"} => Ending = "error"
LEMMA Modes == ModesHold
BY DEF ModesHold, ReportMode, NotStarted, NotReported, Ending, Over
LEMMA ModesAfter == ModesHold'
BY Modes, PTL

LEMMA BeginReported ==
  ASSUME SInv, [Next]_vars, StartRun
  PROVE  Reports!Next
<1>1. Steps' = Steps /\ ForkedSteps' = ForkedSteps
  BY RecipeKept DEF SInv, IInv, TypeOK, ForkedSteps
<1>2. pc = "idle" /\ exec' = [s \in Steps |-> FreshExec]
  BY DEF StartRun
<1>3. LastReports' = [s \in Steps |-> "none"]
  BY <1>1, <1>2 DEF LastReports, Reported, FreshExec
<1>4. NotReported' = {} /\ NotReported = {} /\ ReportMode = "closing"
  BY <1>1, <1>2, Modes DEF ModesHold, NotReported, FreshExec
<1>5. CASE estop
  <2>1. pc' = "idle" /\ outcome' = "cancelled"
    BY <1>2, <1>5 DEF StartRun
  <2>2. ReportMode' = "closing" /\ NotStarted' = {} /\ Ending' = "cancelled"
    BY <2>1, ModesAfter DEF ModesHold
  <2>3. Reports!Refuse("cancelled")
    BY <1>1, <1>3, <1>4, <2>2 DEF Reports!Refuse
  <2>4. QED
    BY <2>3 DEF Reports!Next
<1>6. CASE ~estop
  <2>1. pc' = "preflight"
    BY <1>6 DEF StartRun
  <2>2. ReportMode' = "running" /\ Ending' = "ok"
    BY <2>1, ModesAfter DEF ModesHold, Over
  <2>3. NotStarted' = Steps
    BY <1>1, <1>2, <2>2 DEF NotStarted, FreshExec
  <2>4. Reports!Begin
    BY <1>1, <1>3, <1>4, <2>2, <2>3 DEF Reports!Begin
  <2>5. QED
    BY <2>4 DEF Reports!Next
<1>7. QED
  BY <1>5, <1>6

LEMMA PreflightReported ==
  ASSUME SInv, [Next]_vars, Preflight
  PROVE  Reports!Next \/ UNCHANGED Mapped
<1>1. /\ Steps' = Steps /\ ForkedSteps' = ForkedSteps /\ RunTypes /\ PhaseInv /\ StepsInv
      /\ exec' = exec /\ pc = "preflight" /\ failures' = failures
  BY RecipeKept DEF SInv, IInv, Parts, TypeOK, ForkedSteps, Preflight, otherHistory
<1>2. \A s \in Steps : exec[s] = FreshExec
  BY <1>1, RecipeFacts DEF PhaseInv, StepsInv, NotBegun
<1>3. LastReports = [s \in Steps |-> "none"] /\ LastReports' = LastReports
  BY <1>1, <1>2 DEF LastReports, Reported, FreshExec
<1>4. ReportMode = "running" /\ Ending = "ok" /\ NotReported = {}
  BY <1>1, <1>2, Modes DEF ModesHold, NotReported, FreshExec, Over
<1>5. CASE pc' = "step"
  <2>1. ReportMode' = "running" /\ Ending' = "ok"
    BY <1>5, ModesAfter DEF ModesHold, Over
  <2>2. \A s \in Steps : SameReport(s)
    BY <1>1 DEF SameReport
  <2>3. QED
    BY <1>1, <1>4, <1>5, <2>1, <2>2, NothingReported DEF SInv
<1>6. CASE pc' = "idle"
  <2>1. PICK how \in {"cancelled", "error"} : outcome' = how
    BY <1>6 DEF Preflight
  <2>2. ReportMode' = "closing" /\ Ending' = how /\ NotStarted' = {} /\ NotReported' = {}
    BY <1>6, <2>1, ModesAfter DEF ModesHold
  <2>3. Reports!Refuse(how)
    BY <1>1, <1>3, <1>4, <2>2 DEF Reports!Refuse
  <2>4. QED
    BY <2>3 DEF Reports!Next
<1>7. QED
  BY <1>5, <1>6 DEF Preflight

\* Steps are started in their order, with nothing else open but forked captures.
LEMMA StartReported ==
  ASSUME SInv, [Next]_vars, BeginStep
  PROVE  Reports!Next \/ UNCHANGED Mapped
<1>1. /\ Steps' = Steps /\ ForkedSteps' = ForkedSteps /\ at \in Steps /\ Steps \subseteq Nat
      /\ pc = "step" /\ exec[at] = FreshExec /\ StepsInv /\ IInv
  BY RecipeKept, RecipeFacts, BeginSays DEF SInv, IInv, Parts, TypeOK, ForkedSteps
<1>2. ReportMode = "running" /\ Ending = "ok" /\ "receipt" \notin failures
  BY <1>1, Modes DEF ModesHold, Over, SInv, ReceiptInv
<1>3. CASE UNCHANGED <<exec, failures>> /\ pc' = "unwind"
  <2>1. ReportMode' = "running" /\ Ending' = "ok"
    BY <1>2, <1>3, ModesAfter DEF ModesHold
  <2>2. \A s \in Steps : SameReport(s)
    BY <1>3 DEF SameReport
  <2>3. QED
    BY <1>1, <1>2, <1>3, <2>1, <2>2, NothingReported
<1>4. CASE ~(UNCHANGED <<exec, failures>> /\ pc' = "unwind")
  <2> DEFINE saved == "receipt" \notin failures'
  <2>1. /\ \A s \in Steps : s # at => exec'[s] = exec[s]
        /\ exec'[at].started /\ ~exec'[at].finished
        /\ IF saved THEN pc' \notin Over ELSE pc' = "unwind" /\ outcome' = "error"
    BY <1>2, <1>4, BeginSays, <1>1 DEF Begun
  <2>2. ~exec[at].started /\ \A s \in Steps : s < at => exec[s].started /\ (exec[s].finished \/ s \in ForkedSteps)
    BY <1>1 DEF SInv, ForkInv, PassedInv, Done, Over, FreshExec
  <2>3. \A s \in Steps : s > at => ~exec[s].started
    BY <1>1 DEF StepsInv, NotBegun, FreshExec
  <2>4. at \in NotStarted /\ \A q \in NotStarted : q = at \/ Earlier(at, q)
    BY <1>1, <1>2, <2>2 DEF NotStarted, Earlier
  <2>5. NotReported \subseteq ForkedSteps
    <3>1. SUFFICES ASSUME NEW u \in NotReported PROVE u \in ForkedSteps
      OBVIOUS
    <3>2. u \in Steps /\ exec[u].started /\ ~exec[u].finished
      BY <1>1 DEF NotReported
    <3>3. u # at /\ ~(u > at)
      BY <2>2, <2>3, <3>2
    <3>4. u < at
      BY <1>1, <3>2, <3>3
    <3>5. QED
      BY <2>2, <3>2, <3>4
  <2>6. NotReported' = NotReported \cup {at}
    BY <1>1, <2>1 DEF NotReported, Over
  <2>7. LastReports' = [LastReports EXCEPT ![at] = "Started"]
    BY <1>1, <2>1 DEF LastReports, Reported
  <2>8. /\ ReportMode' = IF saved THEN "running" ELSE "unwinding"
        /\ Ending' = IF saved THEN "ok" ELSE "error"
    BY <2>1, ModesAfter DEF ModesHold
  <2>9. NotStarted' = IF saved THEN NotStarted \ {at} ELSE {}
    BY <1>1, <1>2, <2>1, <2>8 DEF NotStarted
  <2> HIDE DEF saved
  <2>10. PICK b \in BOOLEAN : b = saved
    BY DEF saved
  <2>11. Reports!Start(at, b)
    BY <1>1, <1>2, <2>4, <2>5, <2>6, <2>7, <2>8, <2>9, <2>10
       DEF Reports!Start, Reports!IsFirst, Reports!GoesOn
  <2>12. QED
    BY <2>4, <2>11 DEF Reports!Next
<1>5. QED
  BY <1>3, <1>4

\* A step is reported while the run goes on, or is left for that report.
LEMMA FinishReported ==
  ASSUME SInv, [Next]_vars, NEW s \in Steps, Finishes(s),
         pc \in InStep \cup Checking,
         (UNCHANGED failures /\ pc' \notin Over) \/ ReceiptLost
  PROVE  Reports!Next
<1>1. ReportMode = "running" /\ Ending = "ok" /\ pc \notin {"idle", "unwind"} /\ "receipt" \notin failures /\ pc' # "idle"
  BY Modes DEF ModesHold, InStep, Serving, Joining, Checking, Over, SInv, ReceiptInv, ReceiptLost
<1> DEFINE saved == ~ReceiptLost
<1>2. /\ ReportMode' = IF saved THEN "running" ELSE "unwinding"
      /\ Ending' = IF saved THEN "ok" ELSE "error"
  <2>1. CASE ReceiptLost
    BY <2>1, ModesAfter DEF ModesHold, ReceiptLost
  <2>2. CASE ~ReceiptLost
    BY <2>2, <1>1, ModesAfter DEF ModesHold
  <2>3. QED
    BY <2>1, <2>2
<1>3. NotStarted' = IF saved THEN NotStarted ELSE {}
  BY <1>1, <1>2, OneReported, ModesAfter DEF ModesHold, SInv
<1>4. /\ ForkedSteps' = ForkedSteps /\ s \in NotReported /\ NotReported' = NotReported \ {s}
      /\ LastReports' = [LastReports EXCEPT ![s] = Reported(exec'[s])]
      /\ Reported(exec'[s]) \in {"Succeeded", "Skipped", "Failed"}
  BY <1>1, OneReported DEF SInv
<1> HIDE DEF saved
<1>5. PICK b \in BOOLEAN : b = saved
  BY DEF saved
<1>6. PICK o \in {"Succeeded", "Skipped", "Failed"} : o = Reported(exec'[s])
  BY <1>4
<1>7. Reports!Report(s, o, b)
  BY <1>1, <1>2, <1>3, <1>4, <1>5, <1>6 DEF Reports!Report, Reports!GoesOn
<1>8. QED
  BY <1>4, <1>7 DEF Reports!Next, Reports!Outcomes

\* The loop goes on, or is left, without a report.
LEMMA GoesOnUnreported ==
  ASSUME SInv, [Next]_vars, pc \notin {"unwind"} \cup Over, pc' \notin Over, UNCHANGED failures,
         \A s \in Steps : SameReport(s)
  PROVE  UNCHANGED Mapped
<1>1. "receipt" \notin failures
  BY DEF SInv, ReceiptInv
<1>2. ReportMode = "running" /\ Ending = "ok" /\ ReportMode' = "running" /\ Ending' = "ok"
  BY <1>1, Modes, ModesAfter DEF ModesHold
<1>3. QED
  BY <1>2, NothingReported DEF SInv, Over

\* The finally block begins, unless a receipt that was lost began it.
LEMMA StopReported ==
  ASSUME SInv, [Next]_vars, AbortUnfinished
  PROVE  Reports!Next \/ UNCHANGED Mapped
<1>1. /\ pc = "unwind" /\ pc' = "stop" /\ UNCHANGED <<failures, outcome>>
      /\ \A s \in Steps : SameReport(s)
  BY AbortSays DEF SInv
<1>2. Steps' = Steps /\ ForkedSteps' = ForkedSteps
  BY RecipeKept DEF SInv, IInv, TypeOK, ForkedSteps
<1>3. ReportMode' = "unwinding" /\ NotStarted' = {}
  BY <1>1, ModesAfter DEF ModesHold
<1>4. outcome \in {"completed", "cancelled", "ng", "error"}
  BY <1>1 DEF SInv, LeftInv
<1>5. CASE "receipt" \in failures
  <2>1. ReportMode = "unwinding"
    BY <1>1, <1>5, Modes DEF ModesHold
  <2>2. Ending' = Ending
    BY <1>1, <1>3, <1>4, <2>1, Modes, ModesAfter DEF ModesHold
  <2>3. QED
    BY <1>1, <1>3, <2>1, <2>2, NothingReported DEF SInv
<1>6. CASE "receipt" \notin failures
  <2>1. ReportMode = "running" /\ Ending = "ok"
    BY <1>1, <1>6, Modes DEF ModesHold
  <2>2. PICK how \in {"ok", "cancelled", "error"} :
          how = CASE outcome = "completed" -> "ok" [] outcome = "cancelled" -> "cancelled" [] OTHER -> "error"
    OBVIOUS
  <2>3. Ending' = how
    BY <1>1, <1>3, <1>4, <2>2, ModesAfter DEF ModesHold
  <2>4. LastReports' = LastReports /\ NotReported' = NotReported
    BY <1>1, <1>2, ReportedSame DEF LastReports, NotReported, SameReport
  <2>5. how = "ok" => NotStarted = {} /\ NotReported \subseteq ForkedSteps
    BY <1>1, <1>4, <2>1, <2>2 DEF SInv, LeftInv, ForkInv, Done, NotStarted, NotReported
  <2>6. Reports!Stop(how)
    BY <1>2, <1>3, <2>1, <2>3, <2>4, <2>5 DEF Reports!Stop
  <2>7. QED
    BY <2>6 DEF Reports!Next
<1>7. QED
  BY <1>5, <1>6

LEMMA ChamberUnreported ==
  ASSUME SInv, [Next]_vars, StopChamber
  PROVE  UNCHANGED Mapped
<1>1. pc = "stop" /\ pc' = "report" /\ UNCHANGED <<exec, outcome>>
  BY DEF StopChamber, runVars
<1>2. ReportMode' = ReportMode /\ Ending' = Ending
  BY <1>1 DEF ReportMode, Ending
<1>3. QED
  BY <1>1, <1>2, NothingReported DEF SInv, SameReport

\* What is open is reported as failed, in order, until a receipt is lost.
LEMMA UnwindReported ==
  ASSUME SInv, [Next]_vars, ReportUnfinished
  PROVE  Reports!Next
<1>1. pc = "report" /\ IInv /\ BegunInv
  BY ReportSays DEF SInv
<1>2. Steps' = Steps /\ ForkedSteps' = ForkedSteps /\ Steps \subseteq Nat
  BY RecipeKept, RecipeFacts DEF SInv, IInv, TypeOK, ForkedSteps
<1>3. ReportMode = "unwinding" /\ NotStarted = {}
  BY <1>1, Modes DEF ModesHold
<1>4. CASE /\ pc' = "idle" /\ UNCHANGED <<exec, failures, outcome>>
           /\ \A s \in Steps : exec[s].started => exec[s].finished
  <2>1. NotReported = {} /\ NotReported' = {} /\ LastReports' = LastReports /\ ReportMode' = "closing" /\ NotStarted' = {}
    BY <1>2, <1>4, ModesAfter DEF ModesHold, NotReported, LastReports
  <2>2. Ending' = Ending
    BY <1>3, <1>4, <2>1 DEF Ending
  <2>3. Reports!Return
    BY <1>2, <1>3, <2>1, <2>2 DEF Reports!Return
  <2>4. QED
    BY <2>3 DEF Reports!Next
<1>5. ASSUME NEW s \in Steps, Finishes(s), exec'[s].outcome = "failed",
             \A u \in Steps : exec[u].started /\ ~exec[u].finished => s <= u,
             \/ pc' = pc /\ UNCHANGED <<outcome, failures>>
             \/ pc' = "idle" /\ outcome' = "error" /\ "receipt" \in failures'
      PROVE  Reports!Next
  <2> DEFINE saved == pc' = pc
  <2>1. /\ s \in NotReported /\ LastReports' = [LastReports EXCEPT ![s] = "Failed"]
        /\ NotReported' = IF saved THEN NotReported \ {s} ELSE {}
    BY <1>1, <1>5, OneReported, ModesAfter DEF ModesHold
  <2>2. /\ ReportMode' = IF saved THEN "unwinding" ELSE "closing"
        /\ NotStarted' = {}
    BY <1>1, <1>5, ModesAfter DEF ModesHold
  <2>3. Ending' = IF saved THEN Ending ELSE "error"
    <3>1. CASE saved
      BY <1>1, <1>3, <1>5, <2>2, <3>1 DEF Ending
    <3>2. CASE ~saved
      <4>1. outcome' = "error" /\ ReportMode' = "closing"
        BY <1>5, <2>2, <3>2
      <4>2. QED
        BY <3>2, <4>1, ModesAfter DEF ModesHold
    <3>3. QED
      BY <3>1, <3>2
  <2>4. ASSUME NEW q \in NotReported
        PROVE  q = s \/ Earlier(s, q)
    <3>1. q \in Steps /\ exec[q].started /\ ~exec[q].finished
      BY <1>1 DEF NotReported
    <3>2. s <= q
      BY <1>5, <3>1
    <3>3. s \in Int /\ q \in Int
      BY <1>2, <3>1
    <3>4. QED
      BY <3>2, <3>3 DEF Earlier
  <2> HIDE DEF saved
  <2>5. PICK b \in BOOLEAN : b = saved
    BY DEF saved
  <2>6. Reports!GiveUp(s, b)
    BY <1>2, <1>3, <2>1, <2>2, <2>3, <2>4, <2>5 DEF Reports!GiveUp, Reports!IsFirst
  <2>7. QED
    BY <2>1, <2>6 DEF Reports!Next
<1>6. QED
  BY <1>1, <1>4, <1>5, ReportSays

LEMMA ReportsStep ==
  ASSUME SInv, [Next]_vars
  PROVE  Reports!Next \/ UNCHANGED Mapped
<1>1. CASE StartRun
  BY <1>1, BeginReported
<1>2. CASE Preflight
  BY <1>2, PreflightReported
<1>3. CASE BeginStep
  BY <1>3, StartReported
<1>4. CASE PublishCapture
  BY <1>4, PublishSays, GoesOnUnreported DEF SInv, Over
<1>5. CASE CollectJoined
  <2>1. PICK s \in Steps : \/ /\ \A u \in Steps : SameReport(u)
                              /\ UNCHANGED failures /\ pc' \notin Over
                           \/ /\ Finishes(s)
                              /\ (UNCHANGED failures /\ pc' \notin Over) \/ ReceiptLost
    BY <1>5, CollectSays DEF SInv
  <2>2. pc = "collect"
    BY <1>5 DEF CollectJoined
  <2>3. QED
    BY <2>1, <2>2, FinishReported, GoesOnUnreported DEF InStep, Joining, Over
<1>6. CASE WithinStep
  <2>1. pc \notin {"unwind"} \cup Over /\ pc' \notin Over /\ UNCHANGED failures
    BY <1>6 DEF WithinStep, InStep, Serving, Joining, Checking, Over
  <2>2. \A s \in Steps : SameReport(s)
    BY <1>6, WithinSays DEF SInv, SameStep
  <2>3. QED
    BY <2>1, <2>2, GoesOnUnreported
<1>7. CASE CheckSafety
  <2>1. pc = "safety" /\ at \in Steps
    BY <1>7, SafetySays DEF SInv
  <2>2. CASE WithinStep
    BY <2>2, <1>6
  <2>3. CASE ~WithinStep
    <3>1. \/ /\ \A u \in Steps : SameReport(u)
             /\ UNCHANGED failures /\ pc' \notin Over
          \/ /\ Finishes(at)
             /\ (UNCHANGED failures /\ pc' \notin Over) \/ ReceiptLost
      BY <1>7, <2>3, SafetySays DEF SInv, Onward, Over
    <3>2. QED
      BY <2>1, <3>1, FinishReported, GoesOnUnreported DEF Checking, Over
  <2>4. QED
    BY <2>2, <2>3
<1>8. CASE AbortUnfinished
  BY <1>8, StopReported
<1>9. CASE StopChamber
  BY <1>9, ChamberUnreported
<1>10. CASE ReportUnfinished
  BY <1>10, UnwindReported
<1>11. CASE Aside
  BY <1>11, RecipeKept DEF SInv, IInv, TypeOK, Aside, Mapped, ReportMode, NotStarted, NotReported, ForkedSteps, LastReports, Ending
<1>12. QED
  BY <1>1, <1>2, <1>3, <1>4, <1>5, <1>6, <1>7, <1>8, <1>9, <1>10, <1>11, ReportingActions DEF SInv

\* Whatever agents, operators and the emergency stop do, the engine reports to the keeper of
\* the receipts what StepReports promises: CapturePlanRun relies on no more.
THEOREM ReportsImplemented == Spec => ReportsSpec
<1>1. Init => Reports!Init
  <2> SUFFICES ASSUME Init PROVE Reports!Init
    OBVIOUS
  <2>1. \A s \in Steps : exec[s] = FreshExec
    BY DEF Init
  <2>2. pc = "idle" /\ outcome = "none"
    BY DEF Init
  <2>3. LastReports = [s \in Steps |-> "none"]
    BY <2>1 DEF LastReports, Reported, FreshExec
  <2>4. ReportMode = "closing" /\ NotStarted = {} /\ NotReported = {} /\ Ending = "ok"
    BY <2>2 DEF ReportMode, NotStarted, NotReported, Ending
  <2>5. QED
    BY <2>3, <2>4 DEF Reports!Init
<1>2. SInv /\ [Next]_vars => [Reports!Next]_(Reports!reportVars)
  BY ReportsStep DEF Mapped, Reports!reportVars
<1>3. QED
  BY <1>1, <1>2, SInvariance, PTL DEF Spec, ReportsSpec, Reports!Spec

=============================================================================
