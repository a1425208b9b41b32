------------------------ MODULE CameraOperationsProofs ------------------------
(* Invariants of CameraOperations for any number of handlers, requests,    *)
(* bindings, shots and attempts.                                           *)
EXTENDS CameraOperations, TLAPS

-----------------------------------------------------------------------------
(* The camera gate.                                                        *)

\* GateExclusion with the typing its steps need.
GateInv ==
    /\ pc \in [Tasks -> Phases]
    /\ entered \subseteq Tasks
    /\ GateExclusion

LEMMA GateInit == Init => GateInv
  BY DEF Init, GateInv, GateExclusion, Phases, GatedPhases, WorkPhases

LEMMA GateStep == GateInv /\ [Next]_vars => GateInv'
<1> SUFFICES ASSUME GateInv, [Next]_vars PROVE GateInv'
  OBVIOUS
<1> USE DEF GateInv, GateExclusion, Phases, GatedPhases, WorkPhases, Goto
<1>1. ASSUME NEW t \in Tasks, NEW c \in Commands, Receive(t, c) PROVE GateInv'
  BY <1>1 DEF Receive, connectorVars, panelVars, bindingVars, historyVars
<1>2. ASSUME NEW t \in Tasks, Handle(t) PROVE GateInv'
  <2>1. CASE CaptureStep(t)
    <3>1. CASE EnterCapture(t)
      BY <3>1 DEF EnterCapture, Fail, connectorVars, panelVars, bindingVars, historyVars
    <3>2. CASE AcquireCaptureLease(t)
      BY <3>2 DEF AcquireCaptureLease, Fail, connectorVars, bindingVars, historyVars
    <3>3. CASE EnsureBias(t)
      BY <3>3 DEF EnsureBias, Fail, ForgetStaleBias, BiasReplaced, panelVars, bindingVars, historyVars
    <3>4. CASE EnsureBiasFile(t)
      BY <3>4 DEF EnsureBiasFile, Fail, AttemptFails, ForgetStaleBias, BiasReplaced, panelVars, bindingVars,
         historyVars
    <3>5. CASE BeginShot(t)
      BY <3>5 DEF BeginShot, Fail, ForgetStaleBias, BiasReplaced, panelVars, bindingVars, historyVars
    <3>6. CASE TakeFrame(t)
      BY <3>6 DEF TakeFrame, AfterShot, connectorVars, panelVars, bindingVars, historyVars
    <3>7. CASE LoseFrame(t)
      BY <3>7 DEF LoseFrame, Fail, AfterShot, connectorVars, panelVars, bindingVars,
         historyVars
    <3>8. CASE BeginSync(t)
      BY <3>8 DEF BeginSync, Fail, ForgetStaleBias, BiasReplaced, panelVars, bindingVars, historyVars
    <3>9. CASE EndSync(t)
      BY <3>9 DEF EndSync, Fail, ForgetStaleBias, BiasReplaced, panelVars, bindingVars, historyVars
    <3>10. CASE ReleaseCaptureLease(t)
      BY <3>10 DEF ReleaseCaptureLease, LeavePanel, connectorVars, bindingVars, historyVars
    <3> QED BY <2>1, <3>1, <3>2, <3>3, <3>4, <3>5, <3>6, <3>7, <3>8, <3>9, <3>10 DEF
       CaptureStep
  <2>2. CASE BiasStep(t)
    <3>1. CASE EnterBias(t)
      BY <3>1 DEF EnterBias, Fail, panelVars, bindingVars, historyVars
    <3>2. CASE BeginAttempt(t)
      BY <3>2 DEF BeginAttempt, connectorVars, bindingVars, historyVars
    <3>3. CASE AttemptRefused(t)
      BY <3>3 DEF AttemptRefused, Fail, AttemptFails, connectorVars, panelVars, bindingVars,
         historyVars
    <3>4. CASE SearchBias(t)
      BY <3>4 DEF SearchBias, connectorVars, bindingVars, historyVars, taskVars
    <3>5. CASE BiasApplied(t)
      BY <3>5 DEF BiasApplied, LeavePanel, connectorVars, bindingVars, historyVars
    <3>6. CASE BiasNotApplied(t)
      BY <3>6 DEF BiasNotApplied, Fail, AttemptFails, LeavePanel, connectorVars, bindingVars,
         historyVars
    <3>7. CASE ConfirmApplication(t)
      BY <3>7 DEF ConfirmApplication, Fail, AttemptFails, connectorVars, panelVars,
         bindingVars, historyVars, AfterConfirm
    <3>8. CASE PersistBias(t)
      BY <3>8 DEF PersistBias, Fail, AttemptFails, connectorVars, panelVars, bindingVars,
         historyVars
    <3>9. CASE BiasPersisted(t)
      BY <3>9 DEF BiasPersisted, Fail, AttemptFails, connectorVars, panelVars, bindingVars,
         historyVars
    <3>10. CASE VerifyBias(t)
      BY <3>10 DEF VerifyBias, Fail, connectorVars, panelVars, bindingVars, historyVars
    <3>11. CASE CommitBias(t)
      BY <3>11 DEF CommitBias, panelVars, bindingVars
    <3> QED BY <2>2, <3>1, <3>2, <3>3, <3>4, <3>5, <3>6, <3>7, <3>8, <3>9, <3>10, <3>11 DEF
       BiasStep
  <2>3. CASE AbortStep(t)
    <3>1. CASE RememberAbort(t)
      BY <3>1 DEF RememberAbort, Remember, Forget, panelVars, bindingVars
    <3>2. CASE LookupActive(t)
      BY <3>2 DEF LookupActive, Remember, Forget, panelVars, bindingVars
    <3>3. CASE AwaitFinished(t)
      BY <3>3 DEF AwaitFinished, connectorVars, panelVars, bindingVars, historyVars
    <3> QED BY <2>3, <3>1, <3>2, <3>3 DEF AbortStep
  <2>4. CASE ControlStep(t)
    <3>1. CASE InvalidateRuntime(t)
      BY <3>1 DEF InvalidateRuntime, CancelForBindingChange, panelVars, bindingVars,
         historyVars
    <3>2. CASE EnterControl(t)
      BY <3>2 DEF EnterControl, Fail, bindingVars, historyVars
    <3>3. CASE EndControl(t)
      BY <3>3 DEF EndControl, LeavePanel, connectorVars, bindingVars, historyVars
    <3>4. CASE BeginSwap(t)
      BY <3>4 DEF BeginSwap, Fail, connectorVars, bindingVars, historyVars
    <3>5. CASE EndSwap(t)
      BY <3>5 DEF EndSwap, LeavePanel, connectorVars, bindingVars, historyVars
    <3>6. CASE EnterSerialConfig(t)
      BY <3>6 DEF EnterSerialConfig, Fail, CancelForBindingChange, panelVars, bindingVars,
         historyVars
    <3>7. CASE ApplySerialConfig(t)
      BY <3>7 DEF ApplySerialConfig, Fail, connectorVars, historyVars
    <3> QED BY <2>4, <3>1, <3>2, <3>3, <3>4, <3>5, <3>6, <3>7 DEF ControlStep
  <2>5. CASE Register(t)
    BY <2>5 DEF Register, panelVars, bindingVars, historyVars
  <2>6. CASE CheckStart(t)
    BY <2>6 DEF CheckStart, panelVars, bindingVars, historyVars
  <2>7. CASE EnterGate(t)
    BY <2>7 DEF EnterGate, panelVars, bindingVars, historyVars
  <2>8. CASE GateRefused(t)
    BY <2>8 DEF GateRefused, Fail, connectorVars, panelVars, bindingVars, historyVars
  <2>9. CASE Finish(t)
    BY <2>9 DEF Finish, ReleaseGate, SignalFinished, bindingVars, historyVars
  <2>10. CASE Reply(t)
    BY <2>10 DEF Reply, connectorVars, panelVars, bindingVars
  <2> QED BY <1>2, <2>1, <2>2, <2>3, <2>4, <2>5, <2>6, <2>7, <2>8, <2>9, <2>10 DEF Handle
<1>3. CASE Environment
  <2>1. CASE OperatorBegin
    BY <2>1 DEF OperatorBegin, connectorVars, bindingVars, historyVars, taskVars
  <2>2. CASE OperatorEnd
    BY <2>2 DEF OperatorEnd, connectorVars, bindingVars, historyVars, taskVars
  <2>3. CASE BindingChanges
    BY <2>3 DEF BindingChanges, connectorVars, panelVars, historyVars, taskVars
  <2>4. CASE RebuildPanel
    BY <2>4 DEF RebuildPanel, ForgetApplied, historyVars, taskVars
  <2>5. CASE SyncSubscriptions
    BY <2>5 DEF SyncSubscriptions, CancelForBindingChange, panelVars, historyVars, taskVars
  <2>6. ASSUME NEW k \in Keys, Expire(k) PROVE GateInv'
    BY <2>6 DEF Expire, Forget, panelVars, bindingVars, taskVars
  <2> QED BY <1>3, <2>1, <2>2, <2>3, <2>4, <2>5, <2>6 DEF Environment
<1>4. CASE UNCHANGED vars
  BY <1>4 DEF vars, taskVars, connectorVars, panelVars, bindingVars, historyVars
<1> QED BY <1>1, <1>2, <1>3, <1>4 DEF Next

\* The operations of a camera exclude each other, and the permit of the SemaphoreSlim is
\* neither lost nor returned twice, whatever handlers give up while they queue.
THEOREM GateIsExclusive == Spec => []GateExclusion
<1>1. GateInv => GateExclusion
  BY DEF GateInv
<1> QED BY GateInit, GateStep, <1>1, PTL DEF Spec

-----------------------------------------------------------------------------
(* Types.                                                                  *)

OperationPhases == {"check", "gate", "entered", "release", "finish"} \cup WorkPhases
IsOperation(t) == IsCapture(t) \/ IsBias(t)

\* Which commands reach which phase.
PhaseInv ==
    \A t \in Tasks :
        /\ pc[t] \in {"register", "check"} => IsOperation(t)
        /\ pc[t] \in {"lease", "required", "biasFile", "shot", "frame", "sync", "synced",
                      "release"} => IsCapture(t)
        /\ pc[t] \in {"attempt", "apply", "confirm", "persist", "persisted", "verify",
                      "commit"} => IsBias(t)
        /\ pc[t] \in {"remember", "lookup", "await"} => IsAbort(t)
        /\ pc[t] \in {"invalidate", "control", "swap", "swapping", "serial"} => ~IsOperation(t)
        /\ IsAbort(t) => pc[t] \in {"remember", "lookup", "await", "reply"}

\* The active slots hold exactly the operations between registration and Finish.
ActiveInv ==
    /\ \A s \in Slots : active[s] # None =>
            /\ pc[active[s]] \in OperationPhases
            /\ IsOperation(active[s])
            /\ SlotOf(active[s]) = s
    /\ \A t \in Tasks : pc[t] \in OperationPhases /\ IsOperation(t) => active[SlotOf(t)] = t

\* The counters of a capture, and the application a BIAS relies on.
WorkInv ==
    \A t \in Tasks :
        /\ work[t].taken <= work[t].shots /\ work[t].results <= work[t].shots
        /\ pc[t] \in {"shot", "frame"} => work[t].shots < Shots
        /\ pc[t] \notin {"shot", "frame", "sync", "synced", "release", "finish", "reply"} =>
              work[t].shots = 0
        /\ pc[t] \in {"persist", "persisted", "verify", "commit"} =>
              work[t].chosen \in Applications

TypeInv == TypeOK /\ PhaseInv /\ ActiveInv /\ WorkInv

\* What the commands of each kind carry.
LEMMA CommandFields ==
    ASSUME NEW c \in Commands \cup {NoCommand}
    PROVE  /\ c.op = "capture" =>
                 c.request \in CaptureRequests /\ c.bias \in BiasRequests \cup {None}
           /\ c.op \in {"bias", "useCurrent"} =>
                 c.request \in BiasRequests /\ c.band \in Bands /\ c.file \in BOOLEAN
           /\ c.op = "captureAbort" => c.target \in CaptureRequests \cup {None}
           /\ c.op = "biasAbort" => c.target \in BiasRequests \cup {None}
           /\ c.op \in {"none", "capture", "bias", "useCurrent", "captureAbort", "biasAbort",
                        "control", "runtimeLoad", "runtimeUnload", "serialConfig"}
           /\ c \in Commands => c.op # "none"
<1>1. CASE c \in CaptureCommands
  BY <1>1 DEF CaptureCommands
<1>2. CASE c \in BiasCommands
  BY <1>2 DEF BiasCommands
<1>3. CASE c \in AbortCommands
  BY <1>3 DEF AbortCommands
<1>4. CASE c \in ControlCommands
  BY <1>4 DEF ControlCommands
<1>5. CASE c \notin Commands
  BY <1>5 DEF NoCommand
<1> QED BY <1>1, <1>2, <1>3, <1>4, <1>5, CommandsAssumption DEF CommandType

LEMMA PhaseStep == PhaseInv /\ TypeOK /\ [Next]_vars => PhaseInv'
<1> SUFFICES ASSUME PhaseInv, TypeOK, [Next]_vars PROVE PhaseInv'
  OBVIOUS
<1> USE CommandFields, TasksAssumption DEF PhaseInv, IsCapture, IsBias, IsAbort, IsOperation,
   TypeOK, HandlerTypes, Phases, Goto, NoCommand
<1>1. ASSUME NEW t \in Tasks, NEW c \in Commands, Receive(t, c) PROVE PhaseInv'
  BY <1>1 DEF Receive, connectorVars, panelVars, bindingVars, historyVars
<1>2. ASSUME NEW t \in Tasks, Handle(t) PROVE PhaseInv'
  <2>1. CASE CaptureStep(t)
    <3>1. CASE EnterCapture(t)
      BY <3>1 DEF EnterCapture, Fail, connectorVars, panelVars, bindingVars, historyVars
    <3>2. CASE AcquireCaptureLease(t)
      BY <3>2 DEF AcquireCaptureLease, Fail, connectorVars, bindingVars, historyVars,
         IsProduction
    <3>3. CASE EnsureBias(t)
      BY <3>3 DEF EnsureBias, Fail, ForgetStaleBias, BiasReplaced, panelVars, bindingVars, historyVars
    <3>4. CASE EnsureBiasFile(t)
      BY <3>4 DEF EnsureBiasFile, Fail, AttemptFails, ForgetStaleBias, BiasReplaced, panelVars, bindingVars,
         historyVars
    <3>5. CASE BeginShot(t)
      BY <3>5 DEF BeginShot, Fail, ForgetStaleBias, BiasReplaced, panelVars, bindingVars, historyVars,
         IsProduction
    <3>6. CASE TakeFrame(t)
      BY <3>6 DEF TakeFrame, AfterShot, connectorVars, panelVars, bindingVars, historyVars,
         IsProduction
    <3>7. CASE LoseFrame(t)
      BY <3>7 DEF LoseFrame, Fail, AfterShot, connectorVars, panelVars, bindingVars,
         historyVars, IsProduction
    <3>8. CASE BeginSync(t)
      BY <3>8 DEF BeginSync, Fail, ForgetStaleBias, BiasReplaced, panelVars, bindingVars, historyVars
    <3>9. CASE EndSync(t)
      BY <3>9 DEF EndSync, Fail, ForgetStaleBias, BiasReplaced, panelVars, bindingVars, historyVars
    <3>10. CASE ReleaseCaptureLease(t)
      BY <3>10 DEF ReleaseCaptureLease, LeavePanel, connectorVars, bindingVars, historyVars
    <3> QED BY <2>1, <3>1, <3>2, <3>3, <3>4, <3>5, <3>6, <3>7, <3>8, <3>9, <3>10 DEF
       CaptureStep
  <2>2. CASE BiasStep(t)
    <3>1. CASE EnterBias(t)
      BY <3>1 DEF EnterBias, Fail, panelVars, bindingVars, historyVars
    <3>2. CASE BeginAttempt(t)
      BY <3>2 DEF BeginAttempt, connectorVars, bindingVars, historyVars
    <3>3. CASE AttemptRefused(t)
      BY <3>3 DEF AttemptRefused, Fail, AttemptFails, connectorVars, panelVars, bindingVars,
         historyVars
    <3>4. CASE SearchBias(t)
      BY <3>4 DEF SearchBias, connectorVars, bindingVars, historyVars, taskVars
    <3>5. CASE BiasApplied(t)
      BY <3>5 DEF BiasApplied, LeavePanel, connectorVars, bindingVars, historyVars
    <3>6. CASE BiasNotApplied(t)
      BY <3>6 DEF BiasNotApplied, Fail, AttemptFails, LeavePanel, connectorVars, bindingVars,
         historyVars
    <3>7. CASE ConfirmApplication(t)
      BY <3>7 DEF ConfirmApplication, Fail, AttemptFails, connectorVars, panelVars,
         bindingVars, historyVars, AfterConfirm
    <3>8. CASE PersistBias(t)
      BY <3>8 DEF PersistBias, Fail, AttemptFails, connectorVars, panelVars, bindingVars,
         historyVars
    <3>9. CASE BiasPersisted(t)
      BY <3>9 DEF BiasPersisted, Fail, AttemptFails, connectorVars, panelVars, bindingVars,
         historyVars
    <3>10. CASE VerifyBias(t)
      BY <3>10 DEF VerifyBias, Fail, connectorVars, panelVars, bindingVars, historyVars
    <3>11. CASE CommitBias(t)
      BY <3>11 DEF CommitBias, panelVars, bindingVars
    <3> QED BY <2>2, <3>1, <3>2, <3>3, <3>4, <3>5, <3>6, <3>7, <3>8, <3>9, <3>10, <3>11 DEF
       BiasStep
  <2>3. CASE AbortStep(t)
    <3>1. CASE RememberAbort(t)
      BY <3>1 DEF RememberAbort, Remember, Forget, panelVars, bindingVars
    <3>2. CASE LookupActive(t)
      BY <3>2 DEF LookupActive, Remember, Forget, panelVars, bindingVars
    <3>3. CASE AwaitFinished(t)
      BY <3>3 DEF AwaitFinished, connectorVars, panelVars, bindingVars, historyVars
    <3> QED BY <2>3, <3>1, <3>2, <3>3 DEF AbortStep
  <2>4. CASE ControlStep(t)
    <3>1. CASE InvalidateRuntime(t)
      BY <3>1 DEF InvalidateRuntime, CancelForBindingChange, panelVars, bindingVars,
         historyVars
    <3>2. CASE EnterControl(t)
      BY <3>2 DEF EnterControl, Fail, bindingVars, historyVars
    <3>3. CASE EndControl(t)
      BY <3>3 DEF EndControl, LeavePanel, connectorVars, bindingVars, historyVars
    <3>4. CASE BeginSwap(t)
      BY <3>4 DEF BeginSwap, Fail, connectorVars, bindingVars, historyVars
    <3>5. CASE EndSwap(t)
      BY <3>5 DEF EndSwap, LeavePanel, connectorVars, bindingVars, historyVars
    <3>6. CASE EnterSerialConfig(t)
      BY <3>6 DEF EnterSerialConfig, Fail, CancelForBindingChange, panelVars, bindingVars,
         historyVars
    <3>7. CASE ApplySerialConfig(t)
      BY <3>7 DEF ApplySerialConfig, Fail, connectorVars, historyVars
    <3> QED BY <2>4, <3>1, <3>2, <3>3, <3>4, <3>5, <3>6, <3>7 DEF ControlStep
  <2>5. CASE Register(t)
    BY <2>5 DEF Register, panelVars, bindingVars, historyVars
  <2>6. CASE CheckStart(t)
    BY <2>6 DEF CheckStart, panelVars, bindingVars, historyVars
  <2>7. CASE EnterGate(t)
    BY <2>7 DEF EnterGate, panelVars, bindingVars, historyVars
  <2>8. CASE GateRefused(t)
    BY <2>8 DEF GateRefused, Fail, connectorVars, panelVars, bindingVars, historyVars
  <2>9. CASE Finish(t)
    BY <2>9 DEF Finish, ReleaseGate, SignalFinished, bindingVars, historyVars
  <2>10. CASE Reply(t)
    BY <2>10 DEF Reply, connectorVars, panelVars, bindingVars
  <2> QED BY <1>2, <2>1, <2>2, <2>3, <2>4, <2>5, <2>6, <2>7, <2>8, <2>9, <2>10 DEF Handle
<1>3. CASE Environment
  <2>1. CASE OperatorBegin
    BY <2>1 DEF OperatorBegin, connectorVars, bindingVars, historyVars, taskVars
  <2>2. CASE OperatorEnd
    BY <2>2 DEF OperatorEnd, connectorVars, bindingVars, historyVars, taskVars
  <2>3. CASE BindingChanges
    BY <2>3 DEF BindingChanges, connectorVars, panelVars, historyVars, taskVars
  <2>4. CASE RebuildPanel
    BY <2>4 DEF RebuildPanel, ForgetApplied, historyVars, taskVars
  <2>5. CASE SyncSubscriptions
    BY <2>5 DEF SyncSubscriptions, CancelForBindingChange, panelVars, historyVars, taskVars
  <2>6. ASSUME NEW k \in Keys, Expire(k) PROVE PhaseInv'
    BY <2>6 DEF Expire, Forget, panelVars, bindingVars, taskVars
  <2> QED BY <1>3, <2>1, <2>2, <2>3, <2>4, <2>5, <2>6 DEF Environment
<1>4. CASE UNCHANGED vars
  BY <1>4 DEF vars, taskVars, connectorVars, panelVars, bindingVars, historyVars
<1> QED BY <1>1, <1>2, <1>3, <1>4 DEF Next
LEMMA ActiveStep == ActiveInv /\ PhaseInv /\ TypeOK /\ [Next]_vars => ActiveInv'
<1> SUFFICES ASSUME ActiveInv, PhaseInv, TypeOK, [Next]_vars PROVE ActiveInv'
  OBVIOUS
<1> USE CommandFields, TasksAssumption DEF ActiveInv, OperationPhases, WorkPhases, PhaseInv,
   IsCapture, IsBias, IsAbort, IsOperation, SlotOf, Slots, TypeOK, HandlerTypes,
   ConnectorTypes, Phases, Goto
<1>1. ASSUME NEW t \in Tasks, NEW c \in Commands, Receive(t, c) PROVE ActiveInv'
  BY <1>1 DEF Receive, connectorVars, panelVars, bindingVars, historyVars
<1>2. ASSUME NEW t \in Tasks, Handle(t) PROVE ActiveInv'
  <2>1. CASE CaptureStep(t)
    <3>1. CASE EnterCapture(t)
      BY <3>1 DEF EnterCapture, Fail, connectorVars, panelVars, bindingVars, historyVars
    <3>2. CASE AcquireCaptureLease(t)
      BY <3>2 DEF AcquireCaptureLease, Fail, connectorVars, bindingVars, historyVars,
         IsProduction
    <3>3. CASE EnsureBias(t)
      BY <3>3 DEF EnsureBias, Fail, ForgetStaleBias, BiasReplaced, panelVars, bindingVars, historyVars
    <3>4. CASE EnsureBiasFile(t)
      BY <3>4 DEF EnsureBiasFile, Fail, AttemptFails, ForgetStaleBias, BiasReplaced, panelVars, bindingVars,
         historyVars
    <3>5. CASE BeginShot(t)
      BY <3>5 DEF BeginShot, Fail, ForgetStaleBias, BiasReplaced, panelVars, bindingVars, historyVars,
         IsProduction
    <3>6. CASE TakeFrame(t)
      BY <3>6 DEF TakeFrame, AfterShot, connectorVars, panelVars, bindingVars, historyVars,
         IsProduction
    <3>7. CASE LoseFrame(t)
      BY <3>7 DEF LoseFrame, Fail, AfterShot, connectorVars, panelVars, bindingVars,
         historyVars, IsProduction
    <3>8. CASE BeginSync(t)
      BY <3>8 DEF BeginSync, Fail, ForgetStaleBias, BiasReplaced, panelVars, bindingVars, historyVars
    <3>9. CASE EndSync(t)
      BY <3>9 DEF EndSync, Fail, ForgetStaleBias, BiasReplaced, panelVars, bindingVars, historyVars
    <3>10. CASE ReleaseCaptureLease(t)
      BY <3>10 DEF ReleaseCaptureLease, LeavePanel, connectorVars, bindingVars, historyVars
    <3> QED BY <2>1, <3>1, <3>2, <3>3, <3>4, <3>5, <3>6, <3>7, <3>8, <3>9, <3>10 DEF
       CaptureStep
  <2>2. CASE BiasStep(t)
    <3>1. CASE EnterBias(t)
      BY <3>1 DEF EnterBias, Fail, panelVars, bindingVars, historyVars
    <3>2. CASE BeginAttempt(t)
      BY <3>2 DEF BeginAttempt, connectorVars, bindingVars, historyVars
    <3>3. CASE AttemptRefused(t)
      BY <3>3 DEF AttemptRefused, Fail, AttemptFails, connectorVars, panelVars, bindingVars,
         historyVars
    <3>4. CASE SearchBias(t)
      BY <3>4 DEF SearchBias, connectorVars, bindingVars, historyVars, taskVars
    <3>5. CASE BiasApplied(t)
      BY <3>5 DEF BiasApplied, LeavePanel, connectorVars, bindingVars, historyVars
    <3>6. CASE BiasNotApplied(t)
      BY <3>6 DEF BiasNotApplied, Fail, AttemptFails, LeavePanel, connectorVars, bindingVars,
         historyVars
    <3>7. CASE ConfirmApplication(t)
      BY <3>7 DEF ConfirmApplication, Fail, AttemptFails, connectorVars, panelVars,
         bindingVars, historyVars, AfterConfirm
    <3>8. CASE PersistBias(t)
      BY <3>8 DEF PersistBias, Fail, AttemptFails, connectorVars, panelVars, bindingVars,
         historyVars
    <3>9. CASE BiasPersisted(t)
      BY <3>9 DEF BiasPersisted, Fail, AttemptFails, connectorVars, panelVars, bindingVars,
         historyVars
    <3>10. CASE VerifyBias(t)
      BY <3>10 DEF VerifyBias, Fail, connectorVars, panelVars, bindingVars, historyVars
    <3>11. CASE CommitBias(t)
      BY <3>11 DEF CommitBias, panelVars, bindingVars
    <3> QED BY <2>2, <3>1, <3>2, <3>3, <3>4, <3>5, <3>6, <3>7, <3>8, <3>9, <3>10, <3>11 DEF
       BiasStep
  <2>3. CASE AbortStep(t)
    <3>1. CASE RememberAbort(t)
      BY <3>1 DEF RememberAbort, Remember, Forget, panelVars, bindingVars
    <3>2. CASE LookupActive(t)
      BY <3>2 DEF LookupActive, Remember, Forget, panelVars, bindingVars
    <3>3. CASE AwaitFinished(t)
      BY <3>3 DEF AwaitFinished, connectorVars, panelVars, bindingVars, historyVars
    <3> QED BY <2>3, <3>1, <3>2, <3>3 DEF AbortStep
  <2>4. CASE ControlStep(t)
    <3>1. CASE InvalidateRuntime(t)
      BY <3>1 DEF InvalidateRuntime, CancelForBindingChange, panelVars, bindingVars,
         historyVars
    <3>2. CASE EnterControl(t)
      BY <3>2 DEF EnterControl, Fail, bindingVars, historyVars
    <3>3. CASE EndControl(t)
      BY <3>3 DEF EndControl, LeavePanel, connectorVars, bindingVars, historyVars
    <3>4. CASE BeginSwap(t)
      BY <3>4 DEF BeginSwap, Fail, connectorVars, bindingVars, historyVars
    <3>5. CASE EndSwap(t)
      BY <3>5 DEF EndSwap, LeavePanel, connectorVars, bindingVars, historyVars
    <3>6. CASE EnterSerialConfig(t)
      BY <3>6 DEF EnterSerialConfig, Fail, CancelForBindingChange, panelVars, bindingVars,
         historyVars
    <3>7. CASE ApplySerialConfig(t)
      BY <3>7 DEF ApplySerialConfig, Fail, connectorVars, historyVars
    <3> QED BY <2>4, <3>1, <3>2, <3>3, <3>4, <3>5, <3>6, <3>7 DEF ControlStep
  <2>5. CASE Register(t)
    BY <2>5 DEF Register, panelVars, bindingVars, historyVars
  <2>6. CASE CheckStart(t)
    BY <2>6 DEF CheckStart, panelVars, bindingVars, historyVars
  <2>7. CASE EnterGate(t)
    BY <2>7 DEF EnterGate, panelVars, bindingVars, historyVars
  <2>8. CASE GateRefused(t)
    BY <2>8 DEF GateRefused, Fail, connectorVars, panelVars, bindingVars, historyVars
  <2>9. CASE Finish(t)
    BY <2>9 DEF Finish, ReleaseGate, SignalFinished, bindingVars, historyVars
  <2>10. CASE Reply(t)
    BY <2>10 DEF Reply, connectorVars, panelVars, bindingVars
  <2> QED BY <1>2, <2>1, <2>2, <2>3, <2>4, <2>5, <2>6, <2>7, <2>8, <2>9, <2>10 DEF Handle
<1>3. CASE Environment
  <2>1. CASE OperatorBegin
    BY <2>1 DEF OperatorBegin, connectorVars, bindingVars, historyVars, taskVars
  <2>2. CASE OperatorEnd
    BY <2>2 DEF OperatorEnd, connectorVars, bindingVars, historyVars, taskVars
  <2>3. CASE BindingChanges
    BY <2>3 DEF BindingChanges, connectorVars, panelVars, historyVars, taskVars
  <2>4. CASE RebuildPanel
    BY <2>4 DEF RebuildPanel, ForgetApplied, historyVars, taskVars
  <2>5. CASE SyncSubscriptions
    BY <2>5 DEF SyncSubscriptions, CancelForBindingChange, panelVars, historyVars, taskVars
  <2>6. ASSUME NEW k \in Keys, Expire(k) PROVE ActiveInv'
    BY <2>6 DEF Expire, Forget, panelVars, bindingVars, taskVars
  <2> QED BY <1>3, <2>1, <2>2, <2>3, <2>4, <2>5, <2>6 DEF Environment
<1>4. CASE UNCHANGED vars
  BY <1>4 DEF vars, taskVars, connectorVars, panelVars, bindingVars, historyVars
<1> QED BY <1>1, <1>2, <1>3, <1>4 DEF Next
LEMMA WorkStep == WorkInv /\ ActiveInv /\ PhaseInv /\ TypeOK /\ [Next]_vars => WorkInv'
<1> SUFFICES ASSUME WorkInv, PhaseInv, TypeOK, [Next]_vars PROVE WorkInv'
  OBVIOUS
<1>0. /\ pc \in [Tasks -> Phases] /\ work \in [Tasks -> WorkType]
      /\ applied \in Applications \cup {None}
  BY DEF TypeOK, HandlerTypes, BiasTypes
<1> USE <1>0
<1> USE NumbersAssumption DEF WorkInv, WorkType, FreshWork, Goto
<1>1. ASSUME NEW t \in Tasks, NEW c \in Commands, Receive(t, c) PROVE WorkInv'
  BY <1>1 DEF Receive
<1>2. ASSUME NEW t \in Tasks, Handle(t) PROVE WorkInv'
  <2>1. CASE CaptureStep(t)
    <3>1. CASE EnterCapture(t)
      BY <3>1 DEF EnterCapture, Fail
    <3>2. CASE AcquireCaptureLease(t)
      BY <3>2 DEF AcquireCaptureLease, Fail, IsProduction
    <3>3. CASE EnsureBias(t)
      BY <3>3 DEF EnsureBias, Fail
    <3>4. CASE EnsureBiasFile(t)
      BY <3>4 DEF EnsureBiasFile, Fail, AttemptFails
    <3>5. CASE BeginShot(t)
      BY <3>5 DEF BeginShot, Fail, IsProduction
    <3>6. CASE TakeFrame(t)
      BY <3>6 DEF TakeFrame, AfterShot, IsProduction
    <3>7. CASE LoseFrame(t)
      BY <3>7 DEF LoseFrame, Fail, AfterShot, IsProduction
    <3>8. CASE BeginSync(t)
      BY <3>8 DEF BeginSync, Fail
    <3>9. CASE EndSync(t)
      <4>1. PICK ok \in BOOLEAN : /\ work' = [work EXCEPT ![t].ok = ok]
                                 /\ pc' = [pc EXCEPT ![t] = "release"]
        BY <3>9 DEF EndSync, Fail
      <4> QED BY <3>9, <4>1 DEF EndSync
    <3>10. CASE ReleaseCaptureLease(t)
      BY <3>10 DEF ReleaseCaptureLease
    <3> QED BY <2>1, <3>1, <3>2, <3>3, <3>4, <3>5, <3>6, <3>7, <3>8, <3>9, <3>10 DEF
       CaptureStep
  <2>2. CASE BiasStep(t)
    <3>1. CASE EnterBias(t)
      BY <3>1 DEF EnterBias, Fail
    <3>2. CASE BeginAttempt(t)
      BY <3>2 DEF BeginAttempt
    <3>3. CASE AttemptRefused(t)
      BY <3>3 DEF AttemptRefused, Fail, AttemptFails
    <3>4. CASE SearchBias(t)
      BY <3>4 DEF SearchBias, taskVars
    <3>5. CASE BiasApplied(t)
      BY <3>5 DEF BiasApplied
    <3>6. CASE BiasNotApplied(t)
      BY <3>6 DEF BiasNotApplied, Fail, AttemptFails
    <3>7. CASE ConfirmApplication(t)
      BY <3>7 DEF ConfirmApplication, CanReadApplied, Fail, AttemptFails, AfterConfirm
    <3>8. CASE PersistBias(t)
      BY <3>8 DEF PersistBias, Fail, AttemptFails
    <3>9. CASE BiasPersisted(t)
      BY <3>9 DEF BiasPersisted, Fail, AttemptFails
    <3>10. CASE VerifyBias(t)
      BY <3>10 DEF VerifyBias, Fail
    <3>11. CASE CommitBias(t)
      BY <3>11 DEF CommitBias
    <3> QED BY <2>2, <3>1, <3>2, <3>3, <3>4, <3>5, <3>6, <3>7, <3>8, <3>9, <3>10, <3>11 DEF
       BiasStep
  <2>3. CASE AbortStep(t)
    BY <2>3 DEF AbortStep, RememberAbort, LookupActive, AwaitFinished
  <2>4. CASE ControlStep(t)
    BY <2>4 DEF ControlStep, InvalidateRuntime, EnterControl, Fail, EndControl, BeginSwap,
       EndSwap, EnterSerialConfig, ApplySerialConfig
  <2>5. CASE Register(t)
    BY <2>5 DEF Register
  <2>6. CASE CheckStart(t)
    BY <2>6 DEF CheckStart
  <2>7. CASE EnterGate(t)
    BY <2>7 DEF EnterGate
  <2>8. CASE GateRefused(t)
    BY <2>8 DEF GateRefused, Fail
  <2>9. CASE Finish(t)
    BY <2>9 DEF Finish
  <2>10. CASE Reply(t)
    BY <2>10 DEF Reply
  <2> QED BY <1>2, <2>1, <2>2, <2>3, <2>4, <2>5, <2>6, <2>7, <2>8, <2>9, <2>10 DEF Handle
<1>3. CASE Environment
  <2>1. CASE OperatorBegin
    BY <2>1 DEF OperatorBegin, taskVars
  <2>2. CASE OperatorEnd
    BY <2>2 DEF OperatorEnd, taskVars
  <2>3. CASE BindingChanges
    BY <2>3 DEF BindingChanges, taskVars
  <2>4. CASE RebuildPanel
    BY <2>4 DEF RebuildPanel, taskVars
  <2>5. CASE SyncSubscriptions
    BY <2>5 DEF SyncSubscriptions, taskVars
  <2>6. ASSUME NEW k \in Keys, Expire(k) PROVE WorkInv'
    BY <2>6 DEF Expire, taskVars
  <2> QED BY <1>3, <2>1, <2>2, <2>3, <2>4, <2>5, <2>6 DEF Environment
<1>4. CASE UNCHANGED vars
  BY <1>4 DEF vars, taskVars, connectorVars, panelVars, bindingVars, historyVars
<1> QED BY <1>1, <1>2, <1>3, <1>4 DEF Next

\* How the handlers update their local data.
LEMMA FailTyped ==
    ASSUME work \in [Tasks -> WorkType], NEW t \in Tasks, NEW phase, Fail(t, phase)
    PROVE  work' \in [Tasks -> WorkType]
  BY DEF Fail, WorkType

LEMMA AttemptTyped ==
    ASSUME work \in [Tasks -> WorkType], NEW t \in Tasks, NEW again, NEW failed,
           AttemptFails(t, again, failed)
    PROVE  work' \in [Tasks -> WorkType]
<1>1. CASE work[t].attempt < MaxAttempts
  BY <1>1, NumbersAssumption DEF AttemptFails, WorkType
<1>2. CASE ~(work[t].attempt < MaxAttempts)
  BY <1>2, FailTyped DEF AttemptFails
<1> QED BY <1>1, <1>2

LEMMA OutcomeTyped ==
    ASSUME work \in [Tasks -> WorkType], NEW t \in Tasks, NEW ok \in BOOLEAN
    PROVE  [work EXCEPT ![t].ok = ok] \in [Tasks -> WorkType]
  BY DEF WorkType

LEMMA ChosenTyped ==
    ASSUME work \in [Tasks -> WorkType], NEW t \in Tasks, NEW a \in Applications \cup {None},
           work' = [work EXCEPT ![t].chosen = a]
    PROVE  work' \in [Tasks -> WorkType]
  BY DEF WorkType

LEMMA MadeTyped ==
    ASSUME work \in [Tasks -> WorkType], NEW t \in Tasks, NEW a \in Applications,
           work' = [work EXCEPT ![t].made = a]
    PROVE  work' \in [Tasks -> WorkType]
  BY DEF WorkType

LEMMA LostTyped ==
    ASSUME work \in [Tasks -> WorkType], NEW t \in Tasks, NEW ok \in BOOLEAN,
           NEW n \in 0..Shots, NEW results \in 0..Shots,
           work' = [work EXCEPT ![t].shots = n, ![t].results = results, ![t].ok = ok]
    PROVE  work' \in [Tasks -> WorkType]
<1> DEFINE w == [work[t] EXCEPT !.shots = n, !.results = results, !.ok = ok]
<1>1. w \in WorkType
  BY DEF WorkType
<1>2. work' = [work EXCEPT ![t] = w]
  OBVIOUS
<1> QED BY <1>1, <1>2

LEMMA TakenTyped ==
    ASSUME work \in [Tasks -> WorkType], NEW t \in Tasks, NEW ok \in BOOLEAN,
           NEW n \in 0..Shots, NEW taken \in 0..Shots, NEW results \in 0..Shots,
           NEW exposed \in SUBSET (Applications \cup {Dirty}),
           work' = [work EXCEPT ![t].shots = n, ![t].taken = taken, ![t].exposed = exposed,
                                ![t].results = results, ![t].ok = ok]
    PROVE  work' \in [Tasks -> WorkType]
<1> DEFINE w == [work[t] EXCEPT !.shots = n, !.taken = taken, !.exposed = exposed,
                                !.results = results, !.ok = ok]
<1>1. w \in WorkType
  BY DEF WorkType
<1>2. work' = [work EXCEPT ![t] = w]
  OBVIOUS
<1> QED BY <1>1, <1>2


LEMMA HandlerStep == TypeInv /\ GateInv' /\ [Next]_vars => HandlerTypes'
<1> SUFFICES ASSUME TypeInv, GateInv', [Next]_vars PROVE HandlerTypes'
  OBVIOUS
<1>0. /\ HandlerTypes /\ pc' \in [Tasks -> Phases]
      /\ applied \in Applications \cup {None} /\ binding \in Bindings \cup {Offline}
  BY DEF TypeInv, TypeOK, BiasTypes, PanelTypes, GateInv
<1> USE <1>0
<1> USE FailTyped, AttemptTyped DEF HandlerTypes
<1>1. ASSUME NEW t \in Tasks, NEW c \in Commands, Receive(t, c) PROVE HandlerTypes'
  BY <1>1 DEF Receive
<1>2. ASSUME NEW t \in Tasks, Handle(t) PROVE HandlerTypes'
  <2>1. CASE CaptureStep(t)
    <3>1. CASE EnterCapture(t)
      BY <3>1 DEF EnterCapture
    <3>2. CASE AcquireCaptureLease(t)
      BY <3>2 DEF AcquireCaptureLease
    <3>3. CASE EnsureBias(t)
      <4>1. CASE BiasIsCurrent(t) /\ t \notin cancelled
        <5>1. verified.application \in Applications
          BY <4>1 DEF TypeInv, TypeOK, BiasTypes, BiasIsCurrent, BiasReplaced
        <5>2. work' = [work EXCEPT ![t].chosen = verified.application]
          BY <3>3, <4>1 DEF EnsureBias
        <5>3. work' \in [Tasks -> WorkType]
          BY <5>1, <5>2, ChosenTyped
        <5> QED BY <3>3, <5>3 DEF EnsureBias
      <4>2. CASE ~(BiasIsCurrent(t) /\ t \notin cancelled)
        BY <3>3, <4>2 DEF EnsureBias
      <4> QED BY <4>1, <4>2
    <3>4. CASE EnsureBiasFile(t)
      BY <3>4 DEF EnsureBiasFile
    <3>5. CASE BeginShot(t)
      BY <3>5 DEF BeginShot
    <3>6. CASE TakeFrame(t)
      <4> DEFINE n == work[t].shots + 1
                 taken == work[t].taken + 1
                 results == IF IsProduction(t) THEN work[t].results ELSE work[t].results + 1
                 exposed == work[t].exposed \cup {registers}
                 ok == ~IsProduction(t) /\ n = Shots
      <4>1. /\ n \in 0..Shots /\ taken \in 0..Shots /\ results \in 0..Shots
            /\ exposed \in SUBSET (Applications \cup {Dirty}) /\ ok \in BOOLEAN
        BY <3>6, NumbersAssumption
           DEF TakeFrame, TypeInv, TypeOK, BiasTypes, WorkInv, WorkType
      <4>2. work' = [work EXCEPT ![t].shots = n, ![t].taken = taken, ![t].exposed = exposed,
                                 ![t].results = results, ![t].ok = ok]
        BY <3>6 DEF TakeFrame
      <4> HIDE DEF n, taken, results, exposed, ok
      <4>3. work' \in [Tasks -> WorkType]
        BY <4>1, <4>2, TakenTyped
      <4> QED BY <3>6, <4>3 DEF TakeFrame
    <3>7. CASE LoseFrame(t)
      <4> DEFINE n == work[t].shots + 1
                 results == work[t].results + 1
                 ok == n = Shots
      <4>1. n \in 0..Shots /\ results \in 0..Shots /\ ok \in BOOLEAN
        BY <3>7, NumbersAssumption DEF LoseFrame, TypeInv, WorkInv, WorkType
      <4>2. \/ \E phase : Fail(t, phase)
            \/ UNCHANGED work
            \/ work' = [work EXCEPT ![t].shots = n, ![t].results = results, ![t].ok = ok]
        BY <3>7 DEF LoseFrame
      <4> HIDE DEF n, results, ok
      <4>3. work' \in [Tasks -> WorkType]
        BY <4>1, <4>2, LostTyped
      <4> QED BY <3>7, <4>3 DEF LoseFrame
    <3>8. CASE BeginSync(t)
      BY <3>8 DEF BeginSync
    <3>9. CASE EndSync(t)
      <4>1. CASE Fail(t, "release") /\ cmd' = cmd /\ seen' = seen
        BY <4>1, FailTyped
      <4>2. CASE ~Fail(t, "release")
        <5>1. (work[t].taken = Shots) \in BOOLEAN
          OBVIOUS
        <5> QED BY <3>9, <4>2, <5>1, OutcomeTyped DEF EndSync
      <4> QED BY <3>9, <4>1, <4>2 DEF EndSync
    <3>10. CASE ReleaseCaptureLease(t)
      BY <3>10, OutcomeTyped DEF ReleaseCaptureLease
    <3> QED BY <2>1, <3>1, <3>2, <3>3, <3>4, <3>5, <3>6, <3>7, <3>8, <3>9, <3>10 DEF
       CaptureStep
  <2>2. CASE BiasStep(t)
    <3>1. CASE EnterBias(t)
      <4> DEFINE chosen == IF cmd[t].op = "useCurrent" THEN applied ELSE None
      <4>1. chosen \in Applications \cup {None}
        OBVIOUS
      <4>2. \/ Fail(t, "finish")
            \/ work' = [work EXCEPT ![t].chosen = chosen]
        BY <3>1 DEF EnterBias
      <4> HIDE DEF chosen
      <4>3. work' \in [Tasks -> WorkType]
        BY <4>1, <4>2, ChosenTyped
      <4> QED BY <3>1, <4>3 DEF EnterBias
    <3>2. CASE BeginAttempt(t)
      BY <3>2 DEF BeginAttempt
    <3>3. CASE AttemptRefused(t)
      BY <3>3 DEF AttemptRefused
    <3>4. CASE SearchBias(t)
      BY <3>4 DEF SearchBias, taskVars
    <3>5. CASE BiasApplied(t)
      <4> DEFINE made == [id |-> applications + 1, band |-> cmd[t].band]
      <4>1. CASE cmd[t].op = "bias"
        <5>1. made \in Applications
          BY <3>5, <4>1, CommandFields, NumbersAssumption
             DEF BiasApplied, TypeInv, TypeOK, BiasTypes, Applications
        <5>2. work' = [work EXCEPT ![t].made = made]
          BY <3>5, <4>1 DEF BiasApplied
        <5> HIDE DEF made
        <5>3. work' \in [Tasks -> WorkType]
          BY <5>1, <5>2, MadeTyped
        <5> QED BY <3>5, <5>3 DEF BiasApplied
      <4>2. CASE cmd[t].op # "bias"
        BY <3>5, <4>2 DEF BiasApplied
      <4> QED BY <4>1, <4>2
    <3>6. CASE BiasNotApplied(t)
      BY <3>6 DEF BiasNotApplied
    <3>7. CASE ConfirmApplication(t)
      <4>1. \/ Fail(t, "finish")
            \/ AttemptFails(t, "attempt", "finish")
            \/ work' = [work EXCEPT ![t].chosen = applied]
        BY <3>7 DEF ConfirmApplication
      <4>2. work' \in [Tasks -> WorkType]
        BY <4>1, ChosenTyped
      <4> QED BY <3>7, <4>2 DEF ConfirmApplication
    <3>8. CASE PersistBias(t)
      BY <3>8 DEF PersistBias
    <3>9. CASE BiasPersisted(t)
      BY <3>9 DEF BiasPersisted
    <3>10. CASE VerifyBias(t)
      BY <3>10 DEF VerifyBias
    <3>11. CASE CommitBias(t)
      BY <3>11, OutcomeTyped DEF CommitBias
    <3> QED BY <2>2, <3>1, <3>2, <3>3, <3>4, <3>5, <3>6, <3>7, <3>8, <3>9, <3>10, <3>11 DEF
       BiasStep
  <2>3. CASE AbortStep(t)
    BY <2>3 DEF AbortStep, RememberAbort, LookupActive, AwaitFinished
  <2>4. CASE ControlStep(t)
    <3>1. CASE InvalidateRuntime(t)
      BY <3>1 DEF InvalidateRuntime
    <3>2. CASE EnterControl(t)
      BY <3>2 DEF EnterControl
    <3>3. CASE EndControl(t)
      BY <3>3, OutcomeTyped DEF EndControl
    <3>4. CASE BeginSwap(t)
      BY <3>4 DEF BeginSwap
    <3>5. CASE EndSwap(t)
      BY <3>5, OutcomeTyped DEF EndSwap
    <3>6. CASE EnterSerialConfig(t)
      BY <3>6 DEF EnterSerialConfig
    <3>7. CASE ApplySerialConfig(t)
      BY <3>7, FailTyped, OutcomeTyped DEF ApplySerialConfig
    <3> QED BY <2>4, <3>1, <3>2, <3>3, <3>4, <3>5, <3>6, <3>7 DEF ControlStep
  <2>5. CASE Register(t)
    BY <2>5 DEF Register
  <2>6. CASE CheckStart(t)
    BY <2>6 DEF CheckStart
  <2>7. CASE EnterGate(t)
    BY <2>7 DEF EnterGate
  <2>8. CASE GateRefused(t)
    BY <2>8 DEF GateRefused
  <2>9. CASE Finish(t)
    BY <2>9 DEF Finish
  <2>10. CASE Reply(t)
    <3>1. FreshWork \in WorkType
      BY NumbersAssumption DEF FreshWork, WorkType
    <3> QED BY <2>10, <3>1 DEF Reply
  <2> QED BY <1>2, <2>1, <2>2, <2>3, <2>4, <2>5, <2>6, <2>7, <2>8, <2>9, <2>10 DEF Handle
<1>3. CASE Environment
  <2>1. CASE OperatorBegin
    BY <2>1 DEF OperatorBegin, taskVars
  <2>2. CASE OperatorEnd
    BY <2>2 DEF OperatorEnd, taskVars
  <2>3. CASE BindingChanges
    BY <2>3 DEF BindingChanges, taskVars
  <2>4. CASE RebuildPanel
    BY <2>4 DEF RebuildPanel, taskVars
  <2>5. CASE SyncSubscriptions
    BY <2>5 DEF SyncSubscriptions, taskVars
  <2>6. ASSUME NEW k \in Keys, Expire(k) PROVE HandlerTypes'
    BY <2>6 DEF Expire, taskVars
  <2> QED BY <1>3, <2>1, <2>2, <2>3, <2>4, <2>5, <2>6 DEF Environment
<1>4. CASE UNCHANGED vars
  BY <1>4 DEF vars, taskVars, connectorVars, panelVars, bindingVars, historyVars
<1> QED BY <1>1, <1>2, <1>3, <1>4 DEF Next

LEMMA ConnectorStep == TypeInv /\ GateInv' /\ [Next]_vars => ConnectorTypes'
<1> SUFFICES ASSUME TypeInv, GateInv', [Next]_vars PROVE ConnectorTypes'
  OBVIOUS
<1>a. \A t \in Tasks : /\ SlotOf(t) \in Slots
                       /\ IsOperation(t) => Key(t) \in Keys
                       /\ IsAbort(t) /\ cmd[t].target # None => TargetKey(t) \in Keys
  BY CommandFields DEF TypeInv, TypeOK, HandlerTypes, IsOperation, IsCapture, IsBias, IsAbort,
     Key, TargetKey, SlotOf, Slots, Keys
<1>b. /\ ConnectorTypes /\ binding \in Bindings \cup {Offline} /\ gate' \in {0, 1}
      /\ PhaseInv /\ ActiveInv
  BY DEF TypeInv, TypeOK, PanelTypes, GateInv, GateExclusion
<1> USE <1>a, <1>b DEF ConnectorTypes
<1>1. ASSUME NEW t \in Tasks, NEW c \in Commands, Receive(t, c) PROVE ConnectorTypes'
  BY <1>1 DEF Receive, connectorVars, bindingVars
<1>2. ASSUME NEW t \in Tasks, Handle(t) PROVE ConnectorTypes'
  <2>1. CASE CaptureStep(t)
    BY <2>1 DEF CaptureStep, EnterCapture, connectorVars, bindingVars, AcquireCaptureLease,
       EnsureBias, EnsureBiasFile, BeginShot, TakeFrame, LoseFrame, BeginSync, EndSync,
       ReleaseCaptureLease
  <2>2. CASE BiasStep(t)
    BY <2>2 DEF BiasStep, EnterBias, bindingVars, BeginAttempt, connectorVars, AttemptRefused,
       SearchBias, BiasApplied, BiasNotApplied, ConfirmApplication, PersistBias,
       BiasPersisted, VerifyBias, CommitBias
  <2>3. CASE AbortStep(t)
    <3>1. CASE RememberAbort(t)
      BY <3>1 DEF RememberAbort, Remember, PhaseInv, panelVars, bindingVars
    <3>2. CASE LookupActive(t)
      <4>1. CASE /\ active[SlotOf(t)] # None
                 /\ Remember(Key(active[SlotOf(t)]))
                 /\ cancelled' = cancelled \cup {active[SlotOf(t)]}
                 /\ waiting' = [waiting EXCEPT ![t] = active[SlotOf(t)]]
        <5>1. active[SlotOf(t)] \in Tasks /\ Key(active[SlotOf(t)]) \in Keys
          BY <4>1 DEF ActiveInv
        <5> QED BY <3>2, <4>1, <5>1 DEF LookupActive, Remember, panelVars, bindingVars
      <4>2. CASE UNCHANGED <<remembered, cancelled, waiting>>
        BY <3>2, <4>2 DEF LookupActive, panelVars, bindingVars
      <4> QED BY <3>2, <4>1, <4>2 DEF LookupActive
    <3>3. CASE AwaitFinished(t)
      BY <3>3 DEF AwaitFinished, connectorVars, bindingVars
    <3> QED BY <2>3, <3>1, <3>2, <3>3 DEF AbortStep
  <2>4. CASE ControlStep(t)
    BY <2>4 DEF ControlStep, InvalidateRuntime, CancelForBindingChange, bindingVars,
       ActiveOperations, EnterControl, EndControl, connectorVars, BeginSwap, EndSwap,
       EnterSerialConfig, ApplySerialConfig
  <2>5. CASE Register(t)
    BY <2>5 DEF Register, bindingVars
  <2>6. CASE CheckStart(t)
    BY <2>6 DEF CheckStart, bindingVars
  <2>7. CASE EnterGate(t)
    BY <2>7 DEF EnterGate, bindingVars
  <2>8. CASE GateRefused(t)
    BY <2>8 DEF GateRefused, connectorVars, bindingVars
  <2>9. CASE Finish(t)
    BY <2>9 DEF Finish, SignalFinished, bindingVars
  <2>10. CASE Reply(t)
    BY <2>10 DEF Reply, connectorVars, bindingVars
  <2> QED BY <1>2, <2>1, <2>2, <2>3, <2>4, <2>5, <2>6, <2>7, <2>8, <2>9, <2>10 DEF Handle
<1>3. CASE Environment
  <2>1. CASE OperatorBegin
    BY <2>1 DEF OperatorBegin, connectorVars, bindingVars
  <2>2. CASE OperatorEnd
    BY <2>2 DEF OperatorEnd, connectorVars, bindingVars
  <2>3. CASE BindingChanges
    BY <2>3 DEF BindingChanges, connectorVars
  <2>4. CASE RebuildPanel
    BY <2>4 DEF RebuildPanel, ActiveOperations
  <2>5. CASE SyncSubscriptions
    BY <2>5 DEF SyncSubscriptions, CancelForBindingChange, ActiveOperations
  <2>6. ASSUME NEW k \in Keys, Expire(k) PROVE ConnectorTypes'
    BY <2>6 DEF Expire, bindingVars
  <2> QED BY <1>3, <2>1, <2>2, <2>3, <2>4, <2>5, <2>6 DEF Environment
<1>4. CASE UNCHANGED vars
  BY <1>4 DEF vars, taskVars, connectorVars, panelVars, bindingVars, historyVars
<1> QED BY <1>1, <1>2, <1>3, <1>4 DEF Next

LEMMA PanelStep == TypeInv /\ [Next]_vars => PanelTypes'
<1> SUFFICES ASSUME TypeInv, [Next]_vars PROVE PanelTypes'
  OBVIOUS
<1>a. PanelTypes
  BY DEF TypeInv, TypeOK
<1> USE <1>a DEF PanelTypes
<1>1. ASSUME NEW t \in Tasks, NEW c \in Commands, Receive(t, c) PROVE PanelTypes'
  BY <1>1 DEF Receive, panelVars, bindingVars
<1>2. ASSUME NEW t \in Tasks, Handle(t) PROVE PanelTypes'
  <2>1. CASE CaptureStep(t)
    BY <2>1 DEF CaptureStep, EnterCapture, panelVars, bindingVars, AcquireCaptureLease,
       EnsureBias, EnsureBiasFile, BeginShot, TakeFrame, LoseFrame, BeginSync, EndSync,
       ReleaseCaptureLease, LeavePanel
  <2>2. CASE BiasStep(t)
    BY <2>2 DEF BiasStep, EnterBias, panelVars, bindingVars, BeginAttempt, AttemptRefused,
       SearchBias, BiasApplied, LeavePanel, BiasNotApplied, ConfirmApplication, PersistBias,
       BiasPersisted, VerifyBias, CommitBias
  <2>3. CASE AbortStep(t)
    BY <2>3 DEF AbortStep, RememberAbort, panelVars, bindingVars, LookupActive, AwaitFinished
  <2>4. CASE ControlStep(t)
    BY <2>4 DEF ControlStep, InvalidateRuntime, panelVars, bindingVars, EnterControl,
       EndControl, LeavePanel, BeginSwap, EndSwap, EnterSerialConfig, ApplySerialConfig
  <2>5. CASE Register(t)
    BY <2>5 DEF Register, panelVars, bindingVars
  <2>6. CASE CheckStart(t)
    BY <2>6 DEF CheckStart, panelVars, bindingVars
  <2>7. CASE EnterGate(t)
    BY <2>7 DEF EnterGate, panelVars, bindingVars
  <2>8. CASE GateRefused(t)
    BY <2>8 DEF GateRefused, panelVars, bindingVars
  <2>9. CASE Finish(t)
    BY <2>9 DEF Finish, bindingVars
  <2>10. CASE Reply(t)
    BY <2>10 DEF Reply, panelVars, bindingVars
  <2> QED BY <1>2, <2>1, <2>2, <2>3, <2>4, <2>5, <2>6, <2>7, <2>8, <2>9, <2>10 DEF Handle
<1>3. CASE Environment
  <2>1. CASE OperatorBegin
    BY <2>1 DEF OperatorBegin, bindingVars
  <2>2. CASE OperatorEnd
    BY <2>2 DEF OperatorEnd, bindingVars
  <2>3. CASE BindingChanges
    BY <2>3 DEF BindingChanges, panelVars
  <2>4. CASE RebuildPanel
    BY <2>4 DEF RebuildPanel
  <2>5. CASE SyncSubscriptions
    BY <2>5 DEF SyncSubscriptions, panelVars
  <2>6. ASSUME NEW k \in Keys, Expire(k) PROVE PanelTypes'
    BY <2>6 DEF Expire, panelVars, bindingVars
  <2> QED BY <1>3, <2>1, <2>2, <2>3, <2>4, <2>5, <2>6 DEF Environment
<1>4. CASE UNCHANGED vars
  BY <1>4 DEF vars, taskVars, connectorVars, panelVars, bindingVars, historyVars
<1> QED BY <1>1, <1>2, <1>3, <1>4 DEF Next

LEMMA BiasTypesStep == TypeInv /\ [Next]_vars => BiasTypes'
<1> SUFFICES ASSUME TypeInv, [Next]_vars PROVE BiasTypes'
  OBVIOUS
<1>a. BiasTypes
  BY DEF TypeInv, TypeOK
<1>b. \A b \in Bands : applications < MaxApplications =>
        /\ [id |-> applications + 1, band |-> b] \in Applications
        /\ applications + 1 \in 0..MaxApplications
  BY NumbersAssumption DEF Applications, TypeInv, TypeOK, BiasTypes
<1>c. \A t \in Tasks : IsBias(t) => cmd[t].band \in Bands /\ cmd[t].request \in BiasRequests
  BY CommandFields DEF TypeInv, TypeOK, HandlerTypes, IsBias
<1> USE <1>a DEF BiasTypes
<1>1. ASSUME NEW t \in Tasks, NEW c \in Commands, Receive(t, c) PROVE BiasTypes'
  BY <1>1 DEF Receive, connectorVars, panelVars, historyVars
<1>2. ASSUME NEW t \in Tasks, Handle(t) PROVE BiasTypes'
  <2>1. CASE CaptureStep(t)
    <3>1. CASE EnterCapture(t)
      BY <3>1 DEF EnterCapture, connectorVars, panelVars, historyVars
    <3>2. CASE AcquireCaptureLease(t)
      BY <3>2 DEF AcquireCaptureLease, connectorVars, historyVars
    <3>3. CASE EnsureBias(t)
      BY <3>3 DEF EnsureBias, ForgetStaleBias, BiasReplaced, panelVars, historyVars
    <3>4. CASE EnsureBiasFile(t)
      BY <3>4 DEF EnsureBiasFile, BiasIsCurrent, BiasReplaced, ForgetStaleBias, panelVars, historyVars
    <3>5. CASE BeginShot(t)
      BY <3>5 DEF BeginShot, ForgetStaleBias, BiasReplaced, panelVars, historyVars
    <3>6. CASE TakeFrame(t)
      BY <3>6 DEF TakeFrame, connectorVars, panelVars, historyVars
    <3>7. CASE LoseFrame(t)
      BY <3>7 DEF LoseFrame, connectorVars, panelVars, historyVars
    <3>8. CASE BeginSync(t)
      BY <3>8 DEF BeginSync, ForgetStaleBias, BiasReplaced, panelVars, historyVars
    <3>9. CASE EndSync(t)
      BY <3>9 DEF EndSync, ForgetStaleBias, BiasReplaced, panelVars, historyVars
    <3>10. CASE ReleaseCaptureLease(t)
      BY <3>10 DEF ReleaseCaptureLease, connectorVars, historyVars
    <3> QED BY <2>1, <3>1, <3>2, <3>3, <3>4, <3>5, <3>6, <3>7, <3>8, <3>9, <3>10 DEF
       CaptureStep
  <2>2. CASE BiasStep(t)
    <3>1. CASE EnterBias(t)
      BY <3>1 DEF EnterBias, panelVars, historyVars
    <3>2. CASE BeginAttempt(t)
      BY <3>2 DEF BeginAttempt, connectorVars, historyVars
    <3>3. CASE AttemptRefused(t)
      BY <3>3 DEF AttemptRefused, connectorVars, panelVars, historyVars
    <3>4. CASE SearchBias(t)
      BY <3>4 DEF SearchBias, connectorVars, historyVars
    <3>5. CASE BiasApplied(t)
      BY <3>5, <1>b, <1>c DEF BiasApplied, TypeInv, PhaseInv, connectorVars, historyVars
    <3>6. CASE BiasNotApplied(t)
      BY <3>6 DEF BiasNotApplied, connectorVars, historyVars
    <3>7. CASE ConfirmApplication(t)
      BY <3>7 DEF ConfirmApplication, connectorVars, panelVars, historyVars
    <3>8. CASE PersistBias(t)
      BY <3>8 DEF PersistBias, connectorVars, panelVars, historyVars
    <3>9. CASE BiasPersisted(t)
      BY <3>9 DEF BiasPersisted, connectorVars, panelVars, historyVars
    <3>10. CASE VerifyBias(t)
      BY <3>10 DEF VerifyBias, connectorVars, panelVars, historyVars
    <3>11. CASE CommitBias(t)
      <4>1. [request |-> cmd[t].request, application |-> work[t].chosen]
               \in [request : BiasRequests, application : Applications]
        BY <3>11, <1>c DEF CommitBias, TypeInv, PhaseInv, WorkInv
      <4> QED BY <3>11, <4>1 DEF CommitBias, panelVars
    <3> QED BY <2>2, <3>1, <3>2, <3>3, <3>4, <3>5, <3>6, <3>7, <3>8, <3>9, <3>10, <3>11 DEF
       BiasStep
  <2>3. CASE AbortStep(t)
    BY <2>3 DEF AbortStep, RememberAbort, panelVars, LookupActive, AwaitFinished,
       connectorVars, historyVars
  <2>4. CASE ControlStep(t)
    BY <2>4 DEF ControlStep, InvalidateRuntime, CancelForBindingChange, panelVars,
       historyVars, EnterControl, EndControl, connectorVars, BeginSwap, EndSwap,
       EnterSerialConfig, ApplySerialConfig
  <2>5. CASE Register(t)
    BY <2>5 DEF Register, panelVars, historyVars
  <2>6. CASE CheckStart(t)
    BY <2>6 DEF CheckStart, panelVars, historyVars
  <2>7. CASE EnterGate(t)
    BY <2>7 DEF EnterGate, panelVars, historyVars
  <2>8. CASE GateRefused(t)
    BY <2>8 DEF GateRefused, connectorVars, panelVars, historyVars
  <2>9. CASE Finish(t)
    BY <2>9 DEF Finish, historyVars
  <2>10. CASE Reply(t)
    BY <2>10 DEF Reply, connectorVars, panelVars
  <2> QED BY <1>2, <2>1, <2>2, <2>3, <2>4, <2>5, <2>6, <2>7, <2>8, <2>9, <2>10 DEF Handle
<1>3. CASE Environment
  <2>1. CASE OperatorBegin
    BY <2>1 DEF OperatorBegin, connectorVars, historyVars
  <2>2. CASE OperatorEnd
    BY <2>2, <1>b DEF OperatorEnd, connectorVars, historyVars
  <2>3. CASE BindingChanges
    BY <2>3 DEF BindingChanges, connectorVars, panelVars, historyVars
  <2>4. CASE RebuildPanel
    BY <2>4 DEF RebuildPanel, ForgetApplied, historyVars
  <2>5. CASE SyncSubscriptions
    BY <2>5 DEF SyncSubscriptions, CancelForBindingChange, panelVars, historyVars
  <2>6. ASSUME NEW k \in Keys, Expire(k) PROVE BiasTypes'
    BY <2>6 DEF Expire, panelVars
  <2> QED BY <1>3, <2>1, <2>2, <2>3, <2>4, <2>5, <2>6 DEF Environment
<1>4. CASE UNCHANGED vars
  BY <1>4 DEF vars, taskVars, connectorVars, panelVars, bindingVars, historyVars
<1> QED BY <1>1, <1>2, <1>3, <1>4 DEF Next

LEMMA HistoryStep == TypeInv /\ [Next]_vars => HistoryTypes'
<1> SUFFICES ASSUME TypeInv, [Next]_vars PROVE HistoryTypes'
  OBVIOUS
<1>a. \A t \in Tasks : IsAbort(t) /\ cmd[t].target # None => TargetKey(t) \in Keys
  BY CommandFields DEF TypeInv, TypeOK, HandlerTypes, IsAbort, TargetKey, SlotOf, Keys
<1>b. HistoryTypes
  BY DEF TypeInv, TypeOK
<1> USE <1>a, <1>b DEF HistoryTypes
<1>1. ASSUME NEW t \in Tasks, NEW c \in Commands, Receive(t, c) PROVE HistoryTypes'
  BY <1>1 DEF Receive, historyVars
<1>2. ASSUME NEW t \in Tasks, Handle(t) PROVE HistoryTypes'
  <2>1. CASE CaptureStep(t)
    BY <2>1 DEF CaptureStep, EnterCapture, historyVars, AcquireCaptureLease, EnsureBias,
       EnsureBiasFile, BeginShot, TakeFrame, LoseFrame, BeginSync, EndSync,
       ReleaseCaptureLease
  <2>2. CASE BiasStep(t)
    BY <2>2 DEF BiasStep, EnterBias, historyVars, BeginAttempt, AttemptRefused, SearchBias,
       BiasApplied, BiasNotApplied, ConfirmApplication, PersistBias, BiasPersisted,
       VerifyBias, CommitBias
  <2>3. CASE AbortStep(t)
    <3>1. CASE RememberAbort(t)
      BY <3>1 DEF RememberAbort, Remember, Forget
    <3>2. CASE LookupActive(t)
      BY <3>2 DEF LookupActive, Remember, Forget
    <3>3. CASE AwaitFinished(t)
      BY <3>3 DEF AwaitFinished, historyVars
    <3> QED BY <2>3, <3>1, <3>2, <3>3 DEF AbortStep
  <2>4. CASE ControlStep(t)
    BY <2>4 DEF ControlStep, InvalidateRuntime, historyVars, EnterControl, EndControl,
       BeginSwap, EndSwap, EnterSerialConfig, ApplySerialConfig
  <2>5. CASE Register(t)
    BY <2>5 DEF Register, historyVars
  <2>6. CASE CheckStart(t)
    BY <2>6 DEF CheckStart, historyVars
  <2>7. CASE EnterGate(t)
    BY <2>7 DEF EnterGate, historyVars
  <2>8. CASE GateRefused(t)
    BY <2>8 DEF GateRefused, historyVars
  <2>9. CASE Finish(t)
    BY <2>9 DEF Finish, historyVars
  <2>10. CASE Reply(t)
    BY <2>10 DEF Reply
  <2> QED BY <1>2, <2>1, <2>2, <2>3, <2>4, <2>5, <2>6, <2>7, <2>8, <2>9, <2>10 DEF Handle
<1>3. CASE Environment
  <2>1. CASE OperatorBegin
    BY <2>1 DEF OperatorBegin, historyVars
  <2>2. CASE OperatorEnd
    BY <2>2 DEF OperatorEnd, historyVars
  <2>3. CASE BindingChanges
    BY <2>3 DEF BindingChanges, historyVars
  <2>4. CASE RebuildPanel
    BY <2>4 DEF RebuildPanel, historyVars
  <2>5. CASE SyncSubscriptions
    BY <2>5 DEF SyncSubscriptions, historyVars
  <2>6. ASSUME NEW k \in Keys, Expire(k) PROVE HistoryTypes'
    BY <2>6 DEF Expire, Forget
  <2> QED BY <1>3, <2>1, <2>2, <2>3, <2>4, <2>5, <2>6 DEF Environment
<1>4. CASE UNCHANGED vars
  BY <1>4 DEF vars, taskVars, connectorVars, panelVars, bindingVars, historyVars
<1> QED BY <1>1, <1>2, <1>3, <1>4 DEF Next

LEMMA TypeInit == Init => TypeInv
<1> SUFFICES ASSUME Init PROVE TypeInv
  OBVIOUS
<1>1. FreshWork \in WorkType
  BY NumbersAssumption DEF FreshWork, WorkType
<1>2. TypeOK
  BY <1>1, NumbersAssumption
     DEF Init, TypeOK, HandlerTypes, ConnectorTypes, PanelTypes, BiasTypes, HistoryTypes,
         Phases, Slots
<1>3. PhaseInv
  BY DEF Init, PhaseInv, NoCommand, IsOperation, IsCapture, IsBias, IsAbort
<1>4. ActiveInv
  BY DEF Init, ActiveInv, OperationPhases, WorkPhases
<1>5. WorkInv
  BY NumbersAssumption DEF Init, WorkInv, FreshWork
<1> QED BY <1>2, <1>3, <1>4, <1>5 DEF TypeInv

\* The invariant that the later ones rest on.
LEMMA TypesHold == Spec => [](TypeInv /\ GateInv)
<1>1. TypeInv /\ GateInv /\ [Next]_vars => TypeInv' /\ GateInv'
  <2> SUFFICES ASSUME TypeInv, GateInv, [Next]_vars PROVE TypeInv' /\ GateInv'
    OBVIOUS
  <2>1. GateInv'
    BY GateStep
  <2>2. TypeOK'
    BY <2>1, HandlerStep, ConnectorStep, PanelStep, BiasTypesStep, HistoryStep DEF TypeOK
  <2>3. PhaseInv' /\ ActiveInv' /\ WorkInv'
    BY PhaseStep, ActiveStep, WorkStep DEF TypeInv
  <2> QED BY <2>1, <2>2, <2>3 DEF TypeInv
<1> QED BY TypeInit, GateInit, <1>1, PTL DEF Spec

\* Every variable keeps to its type: the counters of a capture stay within its shots and
\* a BIAS that is committed has been applied.
THEOREM TypeCorrect == Spec => []TypeOK
<1>1. TypeInv => TypeOK
  BY DEF TypeInv
<1> QED BY TypesHold, <1>1, PTL

-----------------------------------------------------------------------------
(* Aborts.                                                                 *)

Aborts(u) == IsAbort(u) /\ cmd[u].target # None /\ u \notin lapsed
Stopped(t) == t \in cancelled /\ pc[t] \notin WorkPhases
AfterCheck == OperationPhases \ {"check"}

\* An abort that has looked the active slot up has cancelled its target or met none; one
\* that arrived before its target finds it at the target's check; in either case the
\* target can reach the camera no more once the abort has been answered.
StoppedInv(t) ==
    /\ Key(t) \in settled => Stopped(t)
    /\ \A u \in Tasks : Aborts(u) /\ TargetKey(u) = Key(t) =>
          /\ pc[u] = "await" => t \in cancelled /\ (waiting[u] = t \/ Stopped(t))
          /\ pc[u] = "reply" => Stopped(t)

AbortInv ==
    /\ settled \subseteq remembered
    /\ \A u \in Tasks :
          pc[u] \in {"lookup", "await", "reply"} /\ Aborts(u) => TargetKey(u) \in remembered
    /\ \A t \in Tasks : pc[t] \in AfterCheck /\ IsOperation(t) => StoppedInv(t)

LEMMA AbortInit == Init => AbortInv
  BY DEF Init, AbortInv, AfterCheck, OperationPhases, WorkPhases


\* Keys and kinds depend on the command alone.
LEMMA CommandFrame ==
    ASSUME NEW t, cmd'[t] = cmd[t]
    PROVE  /\ Key(t)' = Key(t) /\ TargetKey(t)' = TargetKey(t)
           /\ IsOperation(t)' <=> IsOperation(t)
           /\ IsAbort(t)' <=> IsAbort(t)
           /\ (t \in lapsed' <=> t \in lapsed) => (Aborts(t)' <=> Aborts(t))
  BY DEF Key, TargetKey, SlotOf, IsOperation, IsCapture, IsBias, IsAbort, Aborts

\* A step that moves no handler to the camera but one that is not cancelled, or is there
\* already, and that touches nothing the aborts keep.
LEMMA AbortFrame ==
    ASSUME AbortInv,
           UNCHANGED <<cmd, lapsed, settled, remembered, waiting>>,
           cancelled \subseteq cancelled',
           \A t \in Tasks :
              /\ pc'[t] \in {"lookup", "await", "reply"} /\ IsAbort(t) => pc'[t] = pc[t]
              /\ pc'[t] \in AfterCheck /\ IsOperation(t) =>
                    /\ pc[t] \in AfterCheck
                    /\ pc'[t] \in WorkPhases => pc[t] \in WorkPhases \/ t \notin cancelled
    PROVE  AbortInv'
<1>1. settled' \subseteq remembered'
  BY DEF AbortInv
<1>2. ASSUME NEW u \in Tasks, pc'[u] \in {"lookup", "await", "reply"}, Aborts(u)'
      PROVE  TargetKey(u)' \in remembered'
  BY <1>2, CommandFrame DEF AbortInv, Aborts
<1>3. ASSUME NEW t \in Tasks, pc'[t] \in AfterCheck, IsOperation(t)'
      PROVE  StoppedInv(t)'
  <2>1. Stopped(t) => Stopped(t)'
    BY <1>3, CommandFrame DEF Stopped
  <2>2. StoppedInv(t)
    BY <1>3, CommandFrame DEF AbortInv
  <2>3. Key(t)' \in settled' => Stopped(t)'
    BY <2>1, <2>2, CommandFrame DEF StoppedInv
  <2>4. ASSUME NEW u \in Tasks, Aborts(u)', TargetKey(u)' = Key(t)'
        PROVE  /\ pc'[u] = "await" => t \in cancelled' /\ (waiting'[u] = t \/ Stopped(t)')
               /\ pc'[u] = "reply" => Stopped(t)'
    <3>1. /\ pc[u] = "await" => t \in cancelled /\ (waiting[u] = t \/ Stopped(t))
          /\ pc[u] = "reply" => Stopped(t)
      BY <2>4, <2>2, CommandFrame DEF StoppedInv
    <3>2. pc'[u] \in {"await", "reply"} => pc[u] = pc'[u]
      BY <2>4, CommandFrame DEF Aborts
    <3> QED BY <2>1, <3>1, <3>2
  <2> QED BY <2>3, <2>4 DEF StoppedInv
<1> QED BY <1>1, <1>2, <1>3 DEF AbortInv

\* What an entry leaves behind in the bounded memory.
LEMMA RememberFrame ==
    ASSUME AbortInv, NEW k, Remember(k)
    PROVE  /\ settled' \subseteq settled /\ settled' \subseteq remembered'
           /\ lapsed \subseteq lapsed' /\ k \in remembered'
           /\ \A u \in Tasks : /\ pc[u] \in {"lookup", "await", "reply"}
                               /\ IsAbort(u) /\ cmd[u].target # None /\ u \notin lapsed'
                               => TargetKey(u) \in remembered'
  BY DEF AbortInv, Aborts, Remember, Forget

LEMMA ReceiveAborts ==
    ASSUME AbortInv, TypeInv, NEW t \in Tasks, NEW c \in Commands, Receive(t, c)
    PROVE  AbortInv'
<1> USE DEF Receive, Goto, connectorVars, historyVars
<1>1. pc \in [Tasks -> Phases] /\ cmd \in [Tasks -> Commands \cup {NoCommand}]
  BY DEF TypeInv, TypeOK, HandlerTypes
<1>2. \A v \in Tasks : v # t => pc'[v] = pc[v] /\ cmd'[v] = cmd[v]
  BY <1>1
<1>3. /\ IsAbort(t)' => pc'[t] = "remember"
      /\ IsOperation(t)' => pc'[t] \in {"register", "reply"}
  BY <1>1, CommandFields DEF IsAbort, IsOperation, IsCapture, IsBias
<1>4. \A u \in Tasks : pc'[u] \in {"lookup", "await", "reply"} /\ Aborts(u)' =>
                          u # t /\ Aborts(u)
  BY <1>2, <1>3, CommandFrame DEF Aborts
<1>5. \A v \in Tasks : pc'[v] \in AfterCheck /\ IsOperation(v)' => v # t /\ IsOperation(v)
  BY <1>2, <1>3, CommandFrame DEF AfterCheck, OperationPhases, WorkPhases
<1>6. \A v \in Tasks : pc'[v] \in AfterCheck /\ IsOperation(v)' => StoppedInv(v)'
  BY <1>2, <1>4, <1>5, CommandFrame DEF AbortInv, StoppedInv, Stopped
<1>7. \A u \in Tasks : pc'[u] \in {"lookup", "await", "reply"} /\ Aborts(u)' =>
                          TargetKey(u)' \in remembered'
  BY <1>2, <1>4, CommandFrame DEF AbortInv
<1> QED BY <1>6, <1>7 DEF AbortInv

LEMMA CheckStartAborts ==
    ASSUME AbortInv, TypeInv, NEW t \in Tasks, CheckStart(t)
    PROVE  AbortInv'
<1> USE DEF CheckStart, Goto, historyVars
<1>1. /\ pc \in [Tasks -> Phases] /\ IsOperation(t)
      /\ UNCHANGED <<cmd, waiting, remembered, settled, lapsed>>
  BY DEF TypeInv, TypeOK, HandlerTypes, PhaseInv
<1>2. \A v \in Tasks : v # t => pc'[v] = pc[v]
  BY <1>1
<1>3. pc'[t] = "gate" /\ ~IsAbort(t)
  BY <1>1 DEF IsOperation, IsAbort, IsCapture, IsBias
<1>4. Key(t) \in remembered => Stopped(t)'
  BY <1>3 DEF IsRequestCancelled, Stopped, WorkPhases
<1>5. \A u \in Tasks : pc'[u] \in {"lookup", "await", "reply"} /\ Aborts(u)' =>
                          pc'[u] = pc[u] /\ Aborts(u) /\ TargetKey(u) \in remembered
  BY <1>1, <1>2, <1>3, CommandFrame DEF AbortInv
<1>6. StoppedInv(t)'
  BY <1>1, <1>4, <1>5, CommandFrame DEF AbortInv, StoppedInv, Stopped
<1>7. \A v \in Tasks : v # t /\ pc'[v] \in AfterCheck /\ IsOperation(v)' => StoppedInv(v)'
  <2> SUFFICES ASSUME NEW v \in Tasks, v # t, pc'[v] \in AfterCheck, IsOperation(v)'
               PROVE  StoppedInv(v)'
    OBVIOUS
  <2>1. StoppedInv(v) /\ (Stopped(v) => Stopped(v)')
    BY <1>1, <1>2, CommandFrame DEF AbortInv, Stopped
  <2> QED BY <2>1, <1>1, <1>5, CommandFrame DEF StoppedInv
<1> QED BY <1>1, <1>5, <1>6, <1>7, CommandFrame DEF AbortInv

LEMMA RememberAbortAborts ==
    ASSUME AbortInv, TypeInv, NEW t \in Tasks, RememberAbort(t)
    PROVE  AbortInv'
<1> USE DEF RememberAbort, Goto
<1>1. pc \in [Tasks -> Phases] /\ IsAbort(t) /\ UNCHANGED <<cmd, waiting, cancelled>>
  BY DEF TypeInv, TypeOK, HandlerTypes, PhaseInv
<1>2. pc'[t] = "lookup" /\ \A v \in Tasks : v # t => pc'[v] = pc[v]
  BY <1>1
<1>3. /\ settled' \subseteq settled /\ settled' \subseteq remembered'
      /\ lapsed \subseteq lapsed'
      /\ cmd[t].target # None => TargetKey(t) \in remembered'
      /\ \A u \in Tasks : /\ pc[u] \in {"lookup", "await", "reply"}
                          /\ IsAbort(u) /\ cmd[u].target # None /\ u \notin lapsed'
                          => TargetKey(u) \in remembered'
  BY RememberFrame DEF AbortInv, Aborts
<1>4. \A u \in Tasks : Aborts(u)' => Aborts(u) /\ u \notin lapsed'
  BY <1>1, <1>3, CommandFrame DEF Aborts
<1>5. \A u \in Tasks : pc'[u] \in {"lookup", "await", "reply"} /\ Aborts(u)' =>
                          TargetKey(u)' \in remembered'
  BY <1>1, <1>2, <1>3, <1>4, CommandFrame DEF Aborts
<1>6. ASSUME NEW v \in Tasks, pc'[v] \in AfterCheck, IsOperation(v)'
      PROVE  StoppedInv(v)'
  <2>1. v # t
    BY <1>2, <1>6 DEF AfterCheck, OperationPhases, WorkPhases
  <2>2. StoppedInv(v) /\ (Stopped(v) => Stopped(v)')
    BY <2>1, <1>1, <1>2, <1>6, CommandFrame DEF AbortInv, Stopped
  <2> QED BY <2>2, <1>1, <1>2, <1>3, <1>4, CommandFrame DEF StoppedInv
<1> QED BY <1>3, <1>5, <1>6 DEF AbortInv

LEMMA LookupActiveAborts ==
    ASSUME AbortInv, TypeInv, NEW t \in Tasks, LookupActive(t)
    PROVE  AbortInv'
<1> DEFINE a == active[SlotOf(t)]
           match == a # None /\ (\/ cmd[a].request = cmd[t].target
                                 \/ cmd[t].op = "captureAbort" /\ cmd[t].target = None)
<1>1. /\ pc \in [Tasks -> Phases] /\ waiting \in [Tasks -> Tasks \cup {None}]
      /\ pc[t] = "lookup" /\ IsAbort(t) /\ UNCHANGED <<cmd, active>>
  BY DEF LookupActive, TypeInv, TypeOK, HandlerTypes, ConnectorTypes, PhaseInv
<1>2. \A v \in Tasks : v # t => pc'[v] = pc[v]
  BY <1>1 DEF LookupActive, Goto
<1>3. ASSUME NEW v \in Tasks, pc[v] \in AfterCheck, IsOperation(v), TargetKey(t) = Key(v)
      PROVE  v = a /\ a # None /\ cmd[a].request = cmd[t].target
  <2>1. active[SlotOf(v)] = v
    BY <1>3 DEF TypeInv, ActiveInv, AfterCheck
  <2>2. SlotOf(t) = SlotOf(v) /\ cmd[v].request = cmd[t].target
    BY <1>3 DEF Key, TargetKey
  <2> QED BY <2>1, <2>2, TasksAssumption
<1>4. \A v \in Tasks : pc'[v] \in AfterCheck => v # t
  BY <1>1 DEF LookupActive, Goto, AfterCheck, OperationPhases, WorkPhases
<1>5. CASE match
  <2>1. /\ Remember(Key(a)) /\ cancelled' = cancelled \cup {a}
        /\ waiting' = [waiting EXCEPT ![t] = a] /\ pc'[t] = "await"
    BY <1>1, <1>5 DEF LookupActive, Goto
  <2>2. /\ settled' \subseteq settled /\ settled' \subseteq remembered'
        /\ lapsed \subseteq lapsed'
        /\ \A u \in Tasks : /\ pc[u] \in {"lookup", "await", "reply"}
                            /\ IsAbort(u) /\ cmd[u].target # None /\ u \notin lapsed'
                            => TargetKey(u) \in remembered'
    BY <2>1, RememberFrame
  <2>3. \A u \in Tasks : Aborts(u)' => Aborts(u) /\ u \notin lapsed'
    BY <1>1, <2>2, CommandFrame DEF Aborts
  <2>4. \A u \in Tasks : pc'[u] \in {"lookup", "await", "reply"} /\ Aborts(u)' =>
                            TargetKey(u)' \in remembered'
    BY <1>1, <1>2, <2>2, <2>3, CommandFrame DEF Aborts
  <2>5. ASSUME NEW v \in Tasks, pc'[v] \in AfterCheck, IsOperation(v)'
        PROVE  StoppedInv(v)'
    <3>1. /\ v # t /\ pc'[v] = pc[v] /\ IsOperation(v) /\ StoppedInv(v)
          /\ Stopped(v) => Stopped(v)'
      BY <1>1, <1>2, <1>4, <2>1, <2>5, CommandFrame DEF AbortInv, Stopped
    <3>2. TargetKey(t) = Key(v) => v \in cancelled' /\ waiting'[t] = v
      BY <3>1, <1>1, <1>3, <2>1, <2>5
    <3>3. \A u \in Tasks : u # t => waiting'[u] = waiting[u] /\ pc'[u] = pc[u]
      BY <1>1, <1>2, <2>1
    <3> QED BY <3>1, <3>2, <3>3, <1>1, <2>1, <2>2, <2>3, CommandFrame DEF StoppedInv
  <2> QED BY <2>2, <2>4, <2>5 DEF AbortInv
<1>6. CASE ~match
  <2>1. /\ pc'[t] = "reply"
        /\ UNCHANGED <<remembered, settled, lapsed, cancelled, waiting>>
    BY <1>1, <1>6 DEF LookupActive, Goto
  <2>2. ASSUME NEW v \in Tasks, pc'[v] \in AfterCheck, IsOperation(v)'
        PROVE  StoppedInv(v)'
    <3>1. /\ pc'[v] = pc[v] /\ IsOperation(v) /\ StoppedInv(v)
          /\ Stopped(v) => Stopped(v)'
      BY <1>1, <1>2, <1>4, <2>1, <2>2, CommandFrame DEF AbortInv, Stopped
    <3>2. TargetKey(t) # Key(v)
      BY <3>1, <1>3, <1>6, <2>2
    <3> QED BY <3>1, <3>2, <1>1, <1>2, <2>1, CommandFrame DEF StoppedInv
  <2> QED BY <2>1, <2>2, <1>1, <1>2, CommandFrame DEF AbortInv
<1> QED BY <1>5, <1>6

LEMMA AwaitFinishedAborts ==
    ASSUME AbortInv, TypeInv, NEW t \in Tasks, AwaitFinished(t)
    PROVE  AbortInv'
<1> USE DEF AwaitFinished, Goto, connectorVars, historyVars
<1>1. /\ pc \in [Tasks -> Phases]
      /\ UNCHANGED <<cmd, waiting, cancelled, remembered, settled, lapsed>>
  BY DEF TypeInv, TypeOK, HandlerTypes
<1>2. pc'[t] = "reply" /\ \A v \in Tasks : v # t => pc'[v] = pc[v]
  BY <1>1
<1>3. ASSUME NEW v \in Tasks, pc'[v] \in AfterCheck, IsOperation(v)'
      PROVE  StoppedInv(v)'
  <2>1. v # t
    BY <1>2, <1>3 DEF AfterCheck, OperationPhases, WorkPhases
  <2>2. StoppedInv(v) /\ (Stopped(v) => Stopped(v)')
    BY <2>1, <1>1, <1>2, <1>3, CommandFrame DEF AbortInv, Stopped
  <2>3. Aborts(t) /\ TargetKey(t) = Key(v) => Stopped(v)
    BY <2>2, TasksAssumption DEF StoppedInv
  <2> QED BY <2>2, <2>3, <1>1, <1>2, CommandFrame DEF StoppedInv
<1> QED BY <1>1, <1>2, <1>3, CommandFrame DEF AbortInv

LEMMA FinishAborts ==
    ASSUME AbortInv, TypeInv, NEW t \in Tasks, Finish(t)
    PROVE  AbortInv'
<1> USE DEF Finish, Goto, SignalFinished, historyVars
<1>1. /\ pc \in [Tasks -> Phases] /\ waiting \in [Tasks -> Tasks \cup {None}]
      /\ ~IsAbort(t) /\ UNCHANGED <<cmd, remembered, settled, lapsed>>
  BY DEF TypeInv, TypeOK, HandlerTypes, ConnectorTypes, PhaseInv
<1>2. pc'[t] = "reply" /\ \A v \in Tasks : v # t => pc'[v] = pc[v]
  BY <1>1
<1>3. \A u \in Tasks : Aborts(u)' => Aborts(u) /\ u # t
  BY <1>1, CommandFrame DEF Aborts
<1>4. ASSUME NEW v \in Tasks, pc'[v] \in AfterCheck, IsOperation(v)'
      PROVE  StoppedInv(v)'
  <2>1. v # t
    BY <1>2, <1>4 DEF AfterCheck, OperationPhases, WorkPhases
  <2>2. /\ StoppedInv(v) /\ (Stopped(v) => Stopped(v)')
        /\ v \in cancelled => v \in cancelled'
    BY <2>1, <1>1, <1>2, <1>4, CommandFrame DEF AbortInv, Stopped
  <2>3. \A u \in Tasks : waiting[u] = v => waiting'[u] = v
    BY <2>1, <1>1
  <2> QED BY <2>2, <2>3, <1>1, <1>2, <1>3, CommandFrame DEF StoppedInv
<1> QED BY <1>1, <1>2, <1>3, <1>4, CommandFrame DEF AbortInv

LEMMA ReplyAborts ==
    ASSUME AbortInv, TypeInv, NEW t \in Tasks, Reply(t)
    PROVE  AbortInv'
<1> USE DEF Reply, Goto, connectorVars
<1>1. /\ pc \in [Tasks -> Phases] /\ cmd \in [Tasks -> Commands \cup {NoCommand}]
      /\ UNCHANGED <<remembered, cancelled, waiting>>
  BY DEF TypeInv, TypeOK, HandlerTypes
<1>2. /\ pc'[t] = "idle"
      /\ \A v \in Tasks : v # t => /\ pc'[v] = pc[v] /\ cmd'[v] = cmd[v]
                                   /\ v \in lapsed' <=> v \in lapsed
  BY <1>1
<1>3. \A k \in settled' : k \in settled \/ (Aborts(t) /\ k = TargetKey(t))
  BY DEF Aborts
<1>4. ASSUME NEW v \in Tasks, pc'[v] \in AfterCheck, IsOperation(v)'
      PROVE  StoppedInv(v)'
  <2>1. v # t
    BY <1>2, <1>4 DEF AfterCheck, OperationPhases, WorkPhases
  <2>2. StoppedInv(v) /\ (Stopped(v) => Stopped(v)') /\ Key(v)' = Key(v)
    BY <2>1, <1>1, <1>2, <1>4, CommandFrame DEF AbortInv, Stopped
  <2>3. Key(v)' \in settled' => Stopped(v)'
    BY <2>2, <1>3 DEF StoppedInv
  <2>4. ASSUME NEW u \in Tasks, Aborts(u)', TargetKey(u)' = Key(v)', pc'[u] # "idle"
        PROVE  Aborts(u) /\ TargetKey(u) = Key(v) /\ pc'[u] = pc[u] /\ waiting'[u] = waiting[u]
    BY <2>2, <2>4, <1>1, <1>2, CommandFrame
  <2> QED BY <2>2, <2>3, <2>4, <1>1 DEF StoppedInv
<1>5. settled' \subseteq remembered'
  BY <1>1, <1>3 DEF AbortInv
<1> QED BY <1>1, <1>2, <1>4, <1>5, CommandFrame DEF AbortInv

LEMMA ExpireAborts ==
    ASSUME AbortInv, NEW k \in Keys, Expire(k)
    PROVE  AbortInv'
<1> USE DEF Expire, Forget, taskVars
<1>1. /\ UNCHANGED <<pc, cmd, waiting, cancelled>>
      /\ settled' = settled \ {k} /\ remembered' = remembered \ {k} /\ lapsed \subseteq lapsed'
  OBVIOUS
<1>2. \A u \in Tasks : Aborts(u)' => Aborts(u) /\ u \notin lapsed'
  BY <1>1, CommandFrame DEF Aborts
<1>3. \A u \in Tasks : pc'[u] \in {"lookup", "await", "reply"} /\ Aborts(u)' =>
                          TargetKey(u)' \in remembered'
  BY <1>1, <1>2, CommandFrame DEF AbortInv, Aborts
<1>4. ASSUME NEW v \in Tasks, pc'[v] \in AfterCheck, IsOperation(v)'
      PROVE  StoppedInv(v)'
  <2>1. StoppedInv(v) /\ (Stopped(v) => Stopped(v)')
    BY <1>1, <1>4, CommandFrame DEF AbortInv, Stopped
  <2> QED BY <2>1, <1>1, <1>2, CommandFrame DEF StoppedInv
<1> QED BY <1>1, <1>3, <1>4 DEF AbortInv

LEMMA AbortInvStep == AbortInv /\ TypeInv /\ [Next]_vars => AbortInv'
<1> SUFFICES ASSUME AbortInv, TypeInv, [Next]_vars PROVE AbortInv'
  OBVIOUS
<1>a. HandlerTypes /\ ConnectorTypes /\ PhaseInv
  BY TasksAssumption DEF TypeInv, TypeOK
<1> USE <1>a DEF Goto, PhaseInv, HandlerTypes, IsAbort, IsOperation, IsCapture, IsBias,
   AfterCheck, OperationPhases, WorkPhases, Phases
<1>1. ASSUME NEW t \in Tasks, NEW c \in Commands, Receive(t, c) PROVE AbortInv'
  BY <1>1, ReceiveAborts
<1>2. ASSUME NEW t \in Tasks, Handle(t) PROVE AbortInv'
  <2>1. CASE CaptureStep(t)
    BY <2>1, AbortFrame DEF CaptureStep, EnterCapture, Fail, connectorVars, historyVars,
       AcquireCaptureLease, EnsureBias, EnsureBiasFile, AttemptFails, BeginShot, TakeFrame,
       AfterShot, LoseFrame, BeginSync, EndSync, ReleaseCaptureLease
  <2>2. CASE BiasStep(t)
    BY <2>2, AbortFrame DEF BiasStep, EnterBias, Fail, historyVars, BeginAttempt,
       connectorVars, AttemptRefused, AttemptFails, SearchBias, taskVars, BiasApplied,
       BiasNotApplied, ConfirmApplication, PersistBias, BiasPersisted, VerifyBias, CommitBias
  <2>3. CASE AbortStep(t)
    <3>1. CASE RememberAbort(t)
      BY <3>1, RememberAbortAborts
    <3>2. CASE LookupActive(t)
      BY <3>2, LookupActiveAborts
    <3>3. CASE AwaitFinished(t)
      BY <3>3, AwaitFinishedAborts
    <3> QED BY <2>3, <3>1, <3>2, <3>3 DEF AbortStep
  <2>4. CASE ControlStep(t)
    BY <2>4, AbortFrame DEF ControlStep, InvalidateRuntime, CancelForBindingChange,
       historyVars, EnterControl, Fail, EndControl, connectorVars, BeginSwap, EndSwap,
       EnterSerialConfig, ApplySerialConfig
  <2>5. CASE Register(t)
    BY <2>5, AbortFrame DEF Register, historyVars
  <2>6. CASE CheckStart(t)
      BY <2>6, CheckStartAborts
  <2>7. CASE EnterGate(t)
    BY <2>7, AbortFrame DEF EnterGate, historyVars
  <2>8. CASE GateRefused(t)
    BY <2>8, AbortFrame DEF GateRefused, Fail, connectorVars, historyVars
  <2>9. CASE Finish(t)
      BY <2>9, FinishAborts
  <2>10. CASE Reply(t)
      BY <2>10, ReplyAborts
  <2> QED BY <1>2, <2>1, <2>2, <2>3, <2>4, <2>5, <2>6, <2>7, <2>8, <2>9, <2>10 DEF Handle
<1>3. CASE Environment
  <2>1. CASE OperatorBegin
    BY <2>1, AbortFrame DEF OperatorBegin, connectorVars, historyVars, taskVars
  <2>2. CASE OperatorEnd
    BY <2>2, AbortFrame DEF OperatorEnd, connectorVars, historyVars, taskVars
  <2>3. CASE BindingChanges
    BY <2>3, AbortFrame DEF BindingChanges, connectorVars, historyVars, taskVars
  <2>4. CASE RebuildPanel
    BY <2>4, AbortFrame DEF RebuildPanel, historyVars, taskVars
  <2>5. CASE SyncSubscriptions
    BY <2>5, AbortFrame DEF SyncSubscriptions, CancelForBindingChange, historyVars, taskVars
  <2>6. ASSUME NEW k \in Keys, Expire(k) PROVE AbortInv'
    BY <2>6, ExpireAborts
  <2> QED BY <1>3, <2>1, <2>2, <2>3, <2>4, <2>5, <2>6 DEF Environment
<1>4. CASE UNCHANGED vars
  BY <1>4, AbortFrame DEF vars, taskVars, connectorVars, panelVars, bindingVars, historyVars
<1> QED BY <1>1, <1>2, <1>3, <1>4 DEF Next

\* No handler works for a request whose abort was answered, as long as the connector
\* remembers it: neither the delivery that was running, queueing or about to register,
\* nor any later delivery of the same request.
THEOREM AbortsAreFinal == Spec => []AbortIsFinal
<1>1. AbortInv /\ TypeInv => AbortIsFinal
  BY DEF AbortInv, StoppedInv, AbortIsFinal, TypeInv, PhaseInv, Stopped, AfterCheck,
     OperationPhases, WorkPhases, IsOperation
<1>2. AbortInv /\ TypeInv /\ [Next]_vars => AbortInv'
  BY AbortInvStep
<1> QED BY AbortInit, TypesHold, <1>1, <1>2, PTL DEF Spec
=============================================================================
