--------------------------- MODULE CameraBiasProofs ---------------------------
(* The invariants of CameraOperations about the BIAS: what is applied, what is *)
(* verified, what a production capture was exposed to, and what a calibration  *)
(* acknowledges.                                                               *)
EXTENDS CameraOperationsProofs

-----------------------------------------------------------------------------
(* The applied BIAS.                                                       *)

\* A panel user that searches and has not lost its panel holds the panel gate, and
\* nothing is applied while it writes the registers.
AppliedInv ==
    /\ \A t \in Tasks : pc[t] = "apply" /\ t \notin evicted =>
          /\ panelGate = t
          /\ cmd[t].op = "bias" => applied = None
    /\ AppliedMatchesRegisters

LEMMA AppliedInit == Init => AppliedInv
  BY DEF Init, AppliedInv, AppliedMatchesRegisters

LEMMA AppliedStep == AppliedInv /\ TypeInv /\ [Next]_vars => AppliedInv'
<1> SUFFICES ASSUME AppliedInv, TypeInv, [Next]_vars PROVE AppliedInv'
  OBVIOUS
<1>a. /\ pc \in [Tasks -> Phases] /\ cmd \in [Tasks -> Commands \cup {NoCommand}]
      /\ PhaseInv
  BY DEF TypeInv, TypeOK, HandlerTypes
<1> USE <1>a, TasksAssumption DEF AppliedInv, AppliedMatchesRegisters, Goto, CanEnterPanel,
   PanelPhases
<1>1. ASSUME NEW t \in Tasks, NEW c \in Commands, Receive(t, c) PROVE AppliedInv'
  BY <1>1 DEF Receive, panelVars, bindingVars
<1>2. ASSUME NEW t \in Tasks, Handle(t) PROVE AppliedInv'
  <2>1. CASE CaptureStep(t)
    <3>1. CASE EnterCapture(t)
      BY <3>1 DEF EnterCapture, Fail, panelVars, bindingVars
    <3>2. CASE AcquireCaptureLease(t)
      BY <3>2 DEF AcquireCaptureLease, Fail, bindingVars
    <3>3. CASE EnsureBias(t)
      BY <3>3 DEF EnsureBias, Fail, panelVars, bindingVars
    <3>4. CASE EnsureBiasFile(t)
      BY <3>4 DEF EnsureBiasFile, Fail, AttemptFails, panelVars, bindingVars
    <3>5. CASE BeginShot(t)
      BY <3>5 DEF BeginShot, Fail, panelVars, bindingVars
    <3>6. CASE TakeFrame(t)
      BY <3>6 DEF TakeFrame, AfterShot, panelVars, bindingVars
    <3>7. CASE LoseFrame(t)
      BY <3>7 DEF LoseFrame, Fail, AfterShot, panelVars, bindingVars
    <3>8. CASE BeginSync(t)
      BY <3>8 DEF BeginSync, Fail, panelVars, bindingVars
    <3>9. CASE EndSync(t)
      BY <3>9 DEF EndSync, Fail, panelVars, bindingVars
    <3>10. CASE ReleaseCaptureLease(t)
      BY <3>10 DEF ReleaseCaptureLease, LeavePanel, bindingVars
    <3> QED BY <2>1, <3>1, <3>2, <3>3, <3>4, <3>5, <3>6, <3>7, <3>8, <3>9, <3>10 DEF
       CaptureStep
  <2>2. CASE BiasStep(t)
    <3>1. CASE EnterBias(t)
      BY <3>1 DEF EnterBias, Fail, panelVars, bindingVars
    <3>2. CASE BeginAttempt(t)
      BY <3>2 DEF BeginAttempt, bindingVars
    <3>3. CASE AttemptRefused(t)
      BY <3>3 DEF AttemptRefused, Fail, AttemptFails, panelVars, bindingVars
    <3>4. CASE SearchBias(t)
      BY <3>4 DEF SearchBias, bindingVars, taskVars
    <3>5. CASE BiasApplied(t)
      BY <3>5 DEF BiasApplied, LeavePanel, bindingVars
    <3>6. CASE BiasNotApplied(t)
      BY <3>6 DEF BiasNotApplied, Fail, AttemptFails, LeavePanel, bindingVars
    <3>7. CASE ConfirmApplication(t)
      BY <3>7 DEF ConfirmApplication, Fail, AttemptFails, panelVars, bindingVars, AfterConfirm
    <3>8. CASE PersistBias(t)
      BY <3>8 DEF PersistBias, Fail, AttemptFails, panelVars, bindingVars
    <3>9. CASE BiasPersisted(t)
      BY <3>9 DEF BiasPersisted, Fail, AttemptFails, panelVars, bindingVars
    <3>10. CASE VerifyBias(t)
      BY <3>10 DEF VerifyBias, Fail, panelVars, bindingVars
    <3>11. CASE CommitBias(t)
      BY <3>11 DEF CommitBias, panelVars, bindingVars
    <3> QED BY <2>2, <3>1, <3>2, <3>3, <3>4, <3>5, <3>6, <3>7, <3>8, <3>9, <3>10, <3>11 DEF
       BiasStep
  <2>3. CASE AbortStep(t)
    BY <2>3 DEF AbortStep, RememberAbort, panelVars, bindingVars, LookupActive, AwaitFinished
  <2>4. CASE ControlStep(t)
    <3>1. CASE InvalidateRuntime(t)
      BY <3>1 DEF InvalidateRuntime, panelVars, bindingVars
    <3>2. CASE EnterControl(t)
      BY <3>2 DEF EnterControl, Fail, bindingVars
    <3>3. CASE EndControl(t)
      BY <3>3 DEF EndControl, LeavePanel, bindingVars
    <3>4. CASE BeginSwap(t)
      BY <3>4 DEF BeginSwap, Fail, bindingVars
    <3>5. CASE EndSwap(t)
      BY <3>5 DEF EndSwap, LeavePanel, bindingVars
    <3>6. CASE EnterSerialConfig(t)
      BY <3>6 DEF EnterSerialConfig, Fail, panelVars, bindingVars
    <3>7. CASE ApplySerialConfig(t)
      BY <3>7 DEF ApplySerialConfig, Fail
    <3> QED BY <2>4, <3>1, <3>2, <3>3, <3>4, <3>5, <3>6, <3>7 DEF ControlStep
  <2>5. CASE Register(t)
    BY <2>5 DEF Register, panelVars, bindingVars
  <2>6. CASE CheckStart(t)
    BY <2>6 DEF CheckStart, panelVars, bindingVars
  <2>7. CASE EnterGate(t)
    BY <2>7 DEF EnterGate, panelVars, bindingVars
  <2>8. CASE GateRefused(t)
    BY <2>8 DEF GateRefused, Fail, panelVars, bindingVars
  <2>9. CASE Finish(t)
    BY <2>9 DEF Finish, bindingVars
  <2>10. CASE Reply(t)
    BY <2>10 DEF Reply, panelVars, bindingVars
  <2> QED BY <1>2, <2>1, <2>2, <2>3, <2>4, <2>5, <2>6, <2>7, <2>8, <2>9, <2>10 DEF Handle
<1>3. CASE Environment
  <2>1. CASE OperatorBegin
    BY <2>1 DEF OperatorBegin, bindingVars, taskVars
  <2>2. CASE OperatorEnd
    BY <2>2 DEF OperatorEnd, bindingVars, taskVars
  <2>3. CASE BindingChanges
    BY <2>3 DEF BindingChanges, panelVars, taskVars
  <2>4. CASE RebuildPanel
    BY <2>4 DEF RebuildPanel, ForgetApplied, taskVars
  <2>5. CASE SyncSubscriptions
    BY <2>5 DEF SyncSubscriptions, panelVars, taskVars
  <2>6. ASSUME NEW k \in Keys, Expire(k) PROVE AppliedInv'
    BY <2>6 DEF Expire, panelVars, bindingVars, taskVars
  <2> QED BY <1>3, <2>1, <2>2, <2>3, <2>4, <2>5, <2>6 DEF Environment
<1>4. CASE UNCHANGED vars
  BY <1>4 DEF vars, taskVars, connectorVars, panelVars, bindingVars, historyVars
<1> QED BY <1>1, <1>2, <1>3, <1>4 DEF Next

\* What the panel shows as applied is in the camera's registers, at every moment and
\* whoever calibrates, restores, unloads or replaces the panel.
THEOREM AppliedIsInRegisters == Spec => []AppliedMatchesRegisters
<1>1. AppliedInv => AppliedMatchesRegisters
  BY DEF AppliedInv
<1> QED BY AppliedInit, AppliedStep, TypesHold, <1>1, PTL DEF Spec

-----------------------------------------------------------------------------
(* The verified BIAS and its file.                                         *)

\* A BIAS command works without any proof on record, and what it commits with a file is
\* what the file holds.
BiasPhases == {"attempt", "apply", "confirm", "persist", "persisted", "verify", "commit"}
WrittenPhases == {"persisted", "verify", "commit"}

BiasInv ==
    /\ \A t \in Tasks :
        /\ pc[t] \in BiasPhases => verified = None
        /\ pc[t] \in WrittenPhases /\ cmd[t].file => biasFile = work[t].chosen
    /\ VerifiedFileOnDisk

LEMMA BiasInit == Init => BiasInv
  BY DEF Init, BiasInv, BiasPhases, WrittenPhases, VerifiedFileOnDisk

\* Two handlers are never inside the gate together.
LEMMA Alone ==
    ASSUME GateInv, NEW t \in Tasks, NEW u \in Tasks,
           pc[t] \in GatedPhases, pc[u] \in GatedPhases
    PROVE  t = u
  BY DEF GateInv, GateExclusion

\* A step that neither writes the file nor enters a proof.
LEMMA BiasFrame ==
    ASSUME BiasInv, biasFile' = biasFile, verified' \in {verified, None},
           \A t \in Tasks :
              /\ pc'[t] \in BiasPhases => pc[t] \in BiasPhases
              /\ pc'[t] \in WrittenPhases /\ cmd'[t].file =>
                    /\ pc[t] \in WrittenPhases /\ cmd[t].file
                    /\ work'[t].chosen = work[t].chosen
    PROVE  BiasInv'
  BY DEF BiasInv, VerifiedFileOnDisk

LEMMA BiasInvStep == BiasInv /\ TypeInv /\ GateInv /\ [Next]_vars => BiasInv'
<1> SUFFICES ASSUME BiasInv, TypeInv, GateInv, [Next]_vars PROVE BiasInv'
  OBVIOUS
<1>a. /\ pc \in [Tasks -> Phases] /\ work \in [Tasks -> WorkType]
      /\ cmd \in [Tasks -> Commands \cup {NoCommand}]
      /\ verified \in [request : BiasRequests, application : Applications] \cup {None}
      /\ PhaseInv
  BY DEF TypeInv, TypeOK, HandlerTypes, BiasTypes
<1>b. \A t, u \in Tasks :
          pc[t] \in BiasPhases \cup {"biasFile", "entered"} /\ pc[u] \in BiasPhases => t = u
  BY Alone DEF BiasPhases, GatedPhases, WorkPhases
<1> USE <1>a DEF Goto, BiasPhases, WrittenPhases
<1>1. ASSUME NEW t \in Tasks, NEW c \in Commands, Receive(t, c) PROVE BiasInv'
  BY <1>1, BiasFrame DEF Receive, connectorVars, panelVars, bindingVars, historyVars
<1>2. ASSUME NEW t \in Tasks, Handle(t) PROVE BiasInv'
  <2>1. CASE CaptureStep(t)
    <3>1. CASE EnterCapture(t)
      BY <3>1, BiasFrame DEF EnterCapture, Fail, connectorVars, panelVars, bindingVars,
         historyVars
    <3>2. CASE AcquireCaptureLease(t)
      BY <3>2, BiasFrame DEF AcquireCaptureLease, Fail, connectorVars, bindingVars,
         historyVars
    <3>3. CASE EnsureBias(t)
      BY <3>3, BiasFrame DEF EnsureBias, Fail, ForgetStaleBias, BiasReplaced, panelVars, bindingVars,
         historyVars
    <3>4. CASE EnsureBiasFile(t)
      <4>1. CASE UNCHANGED biasFile
        BY <3>4, <4>1, BiasFrame DEF EnsureBiasFile, Fail, AttemptFails, ForgetStaleBias, BiasReplaced
      <4>2. CASE /\ biasFile' = verified.application /\ verified' = verified
                 /\ verified # None /\ pc' = [pc EXCEPT ![t] = "shot"]
        BY <3>4, <4>2, <1>b DEF EnsureBiasFile, BiasInv, VerifiedFileOnDisk
      <4> QED BY <3>4, <4>1, <4>2 DEF EnsureBiasFile, BiasIsCurrent, BiasReplaced, ForgetStaleBias
    <3>5. CASE BeginShot(t)
      BY <3>5, BiasFrame DEF BeginShot, Fail, ForgetStaleBias, BiasReplaced, panelVars, bindingVars,
         historyVars
    <3>6. CASE TakeFrame(t)
      BY <3>6, BiasFrame DEF TakeFrame, AfterShot, connectorVars, panelVars, bindingVars,
         historyVars
    <3>7. CASE LoseFrame(t)
      BY <3>7, BiasFrame DEF LoseFrame, Fail, AfterShot, connectorVars, panelVars,
         bindingVars, historyVars
    <3>8. CASE BeginSync(t)
      BY <3>8, BiasFrame DEF BeginSync, Fail, ForgetStaleBias, BiasReplaced, panelVars, bindingVars,
         historyVars
    <3>9. CASE EndSync(t)
      BY <3>9, BiasFrame DEF EndSync, Fail, ForgetStaleBias, BiasReplaced, panelVars, bindingVars,
         historyVars
    <3>10. CASE ReleaseCaptureLease(t)
      BY <3>10, BiasFrame DEF ReleaseCaptureLease, connectorVars, bindingVars, historyVars
    <3> QED BY <2>1, <3>1, <3>2, <3>3, <3>4, <3>5, <3>6, <3>7, <3>8, <3>9, <3>10 DEF
       CaptureStep
  <2>2. CASE BiasStep(t)
    <3>1. CASE EnterBias(t)
      <4>1. CASE pc'[t] \in BiasPhases
        <5>1. verified' = None
          BY <3>1, <4>1 DEF EnterBias, Fail
        <5> QED BY <3>1, <5>1, <1>b DEF EnterBias, Fail, BiasInv, VerifiedFileOnDisk
      <4>2. CASE pc'[t] \notin BiasPhases
        BY <3>1, <4>2, BiasFrame DEF EnterBias, Fail
      <4> QED BY <4>1, <4>2
    <3>2. CASE BeginAttempt(t)
      BY <3>2, BiasFrame DEF BeginAttempt, connectorVars, bindingVars, historyVars
    <3>3. CASE AttemptRefused(t)
      BY <3>3, BiasFrame DEF AttemptRefused, Fail, AttemptFails, connectorVars, panelVars,
         bindingVars, historyVars
    <3>4. CASE SearchBias(t)
      BY <3>4, BiasFrame DEF SearchBias, connectorVars, bindingVars, historyVars, taskVars
    <3>5. CASE BiasApplied(t)
      BY <3>5, BiasFrame DEF BiasApplied, connectorVars, bindingVars, historyVars
    <3>6. CASE BiasNotApplied(t)
      BY <3>6, BiasFrame DEF BiasNotApplied, Fail, AttemptFails, connectorVars, bindingVars,
         historyVars
    <3>7. CASE ConfirmApplication(t)
      BY <3>7, BiasFrame DEF ConfirmApplication, Fail, AttemptFails, connectorVars, panelVars,
         bindingVars, historyVars, AfterConfirm
    <3>8. CASE PersistBias(t)
      <4>1. CASE UNCHANGED biasFile /\ pc'[t] # "persisted"
        BY <3>8, <4>1, BiasFrame DEF PersistBias, Fail, AttemptFails, connectorVars
      <4>2. CASE /\ biasFile' = work[t].chosen /\ work' = work
                 /\ pc' = [pc EXCEPT ![t] = "persisted"]
        BY <3>8, <4>2, <1>b DEF PersistBias, BiasInv, VerifiedFileOnDisk, connectorVars
      <4> QED BY <3>8, <4>1, <4>2 DEF PersistBias, Fail, AttemptFails
    <3>9. CASE BiasPersisted(t)
      BY <3>9, BiasFrame DEF BiasPersisted, Fail, AttemptFails, connectorVars, panelVars,
         bindingVars, historyVars
    <3>10. CASE VerifyBias(t)
      BY <3>10, BiasFrame DEF VerifyBias, Fail, connectorVars, panelVars, bindingVars,
         historyVars
    <3>11. CASE CommitBias(t)
      <4>1. CASE cmd[t].file
        <5>1. /\ verified' = [request |-> cmd[t].request, application |-> work[t].chosen]
              /\ biasFile' = work[t].chosen
          BY <3>11, <4>1 DEF CommitBias, BiasInv
        <5>2. \A u \in Tasks : pc'[u] \notin BiasPhases
          BY <3>11, <1>b DEF CommitBias
        <5> QED BY <5>1, <5>2 DEF BiasInv, VerifiedFileOnDisk
      <4>2. CASE ~cmd[t].file
        BY <3>11, <4>2, BiasFrame DEF CommitBias
      <4> QED BY <4>1, <4>2
    <3> QED BY <2>2, <3>1, <3>2, <3>3, <3>4, <3>5, <3>6, <3>7, <3>8, <3>9, <3>10, <3>11 DEF
       BiasStep
  <2>3. CASE AbortStep(t)
    BY <2>3, BiasFrame DEF AbortStep, RememberAbort, panelVars, bindingVars, LookupActive,
       AwaitFinished, connectorVars, historyVars
  <2>4. CASE ControlStep(t)
    BY <2>4, BiasFrame DEF ControlStep, InvalidateRuntime, CancelForBindingChange, panelVars,
       bindingVars, historyVars, EnterControl, Fail, EndControl, connectorVars, BeginSwap,
       EndSwap, EnterSerialConfig, ApplySerialConfig
  <2>5. CASE Register(t)
    BY <2>5, BiasFrame DEF Register, panelVars, bindingVars, historyVars
  <2>6. CASE CheckStart(t)
    BY <2>6, BiasFrame DEF CheckStart, panelVars, bindingVars, historyVars
  <2>7. CASE EnterGate(t)
    BY <2>7, BiasFrame DEF EnterGate, panelVars, bindingVars, historyVars
  <2>8. CASE GateRefused(t)
    BY <2>8, BiasFrame DEF GateRefused, Fail, connectorVars, panelVars, bindingVars,
       historyVars
  <2>9. CASE Finish(t)
    BY <2>9, BiasFrame DEF Finish, bindingVars, historyVars
  <2>10. CASE Reply(t)
    BY <2>10, BiasFrame DEF Reply, connectorVars, panelVars, bindingVars
  <2> QED BY <1>2, <2>1, <2>2, <2>3, <2>4, <2>5, <2>6, <2>7, <2>8, <2>9, <2>10 DEF Handle
<1>3. CASE Environment
  <2>1. CASE OperatorBegin
    BY <2>1, BiasFrame DEF OperatorBegin, connectorVars, bindingVars, historyVars, taskVars
  <2>2. CASE OperatorEnd
    BY <2>2, BiasFrame DEF OperatorEnd, connectorVars, bindingVars, historyVars, taskVars
  <2>3. CASE BindingChanges
    BY <2>3, BiasFrame DEF BindingChanges, connectorVars, panelVars, historyVars, taskVars
  <2>4. CASE RebuildPanel
    BY <2>4, BiasFrame DEF RebuildPanel, historyVars, taskVars
  <2>5. CASE SyncSubscriptions
    BY <2>5, BiasFrame DEF SyncSubscriptions, CancelForBindingChange, panelVars, historyVars,
       taskVars
  <2>6. ASSUME NEW k \in Keys, Expire(k) PROVE BiasInv'
    BY <2>6, BiasFrame DEF Expire, panelVars, bindingVars, taskVars
  <2> QED BY <1>3, <2>1, <2>2, <2>3, <2>4, <2>5, <2>6 DEF Environment
<1>4. CASE UNCHANGED vars
  BY <1>4, BiasFrame DEF vars, taskVars, connectorVars, panelVars, bindingVars, historyVars
<1> QED BY <1>1, <1>2, <1>3, <1>4 DEF Next

\* A BIAS on record as verified is what bias.json holds: calibrations write the file before
\* they commit, and nobody else writes it while a proof is on record.
THEOREM VerifiedIsOnDisk == Spec => []VerifiedFileOnDisk
<1>1. BiasInv => VerifiedFileOnDisk
  BY DEF BiasInv
<1> QED BY BiasInit, BiasInvStep, TypesHold, <1>1, PTL DEF Spec

-----------------------------------------------------------------------------
(* The BIAS of a production capture.                                       *)

ShotPhases == {"shot", "frame", "sync", "synced"}
LatePhases == ShotPhases \cup {"release", "finish", "reply"}
ChosenPhases == {"persist", "persisted", "verify", "commit"}

\* Application numbers are never used again, so that a proof which is current now has been
\* current since the capture checked it first; what its frames were exposed to is then
\* known.
FreshInv ==
    /\ applied # None => applied.id <= applications
    /\ verified # None => verified.application.id <= applications
    /\ \A t \in Tasks : pc[t] \in ChosenPhases => work[t].chosen.id <= applications

CommittedInv == verified # None => verified \in committed

ExposedInv ==
    \A t \in Tasks :
        /\ work[t].taken > 0 => work[t].exposed # {}
        /\ pc[t] \notin LatePhases => work[t].exposed = {}
        /\ pc[t] \in ShotPhases /\ IsProduction(t) /\ BiasIsCurrent(t) =>
              work[t].exposed \subseteq {verified.application}

CaptureInv == FreshInv /\ CommittedInv /\ ExposedInv /\ CaptureUsesRequiredBias

LEMMA CaptureInit == Init => CaptureInv
  BY NumbersAssumption
  DEF Init, CaptureInv, FreshInv, CommittedInv, ExposedInv, CaptureUsesRequiredBias,
      FreshWork, ChosenPhases, ShotPhases

\* Giving up and trying again leave the frames alone.
KeepsFrames ==
    \A u \in Tasks : work'[u].taken = work[u].taken /\ work'[u].exposed = work[u].exposed

LEMMA FailKeeps ==
    ASSUME pc \in [Tasks -> Phases], work \in [Tasks -> WorkType],
           NEW t \in Tasks, NEW phase, Fail(t, phase)
    PROVE  /\ KeepsFrames /\ ~work'[t].ok
           /\ pc'[t] = phase /\ \A u \in Tasks : u # t => pc'[u] = pc[u] /\ work'[u] = work[u]
  BY DEF Fail, Goto, WorkType, KeepsFrames

LEMMA AttemptKeeps ==
    ASSUME pc \in [Tasks -> Phases], work \in [Tasks -> WorkType],
           NEW t \in Tasks, NEW again, NEW failed, AttemptFails(t, again, failed)
    PROVE  /\ KeepsFrames /\ ~work'[t].ok
           /\ pc'[t] \in {again, failed}
           /\ \A u \in Tasks : u # t => pc'[u] = pc[u] /\ work'[u] = work[u]
<1>1. CASE work[t].attempt < MaxAttempts
  BY <1>1 DEF AttemptFails, Goto, WorkType, KeepsFrames
<1>2. CASE ~(work[t].attempt < MaxAttempts)
  BY <1>2, FailKeeps DEF AttemptFails
<1> QED BY <1>1, <1>2

LEMMA UpdateKeeps ==
    ASSUME work \in [Tasks -> WorkType], NEW t \in Tasks, NEW v,
           \/ work' = [work EXCEPT ![t].ok = v]
           \/ work' = [work EXCEPT ![t].chosen = v]
           \/ work' = [work EXCEPT ![t].made = v]
    PROVE  KeepsFrames /\ \A u \in Tasks : u # t => work'[u] = work[u]
  BY DEF WorkType, KeepsFrames

LEMMA LostKeeps ==
    ASSUME work \in [Tasks -> WorkType], NEW t \in Tasks, NEW n, NEW results, NEW ok,
           work' = [work EXCEPT ![t].shots = n, ![t].results = results, ![t].ok = ok]
    PROVE  KeepsFrames
  BY DEF WorkType, KeepsFrames

LEMMA FreshStep == FreshInv /\ TypeInv /\ [Next]_vars => FreshInv'
<1> SUFFICES ASSUME FreshInv, TypeInv, [Next]_vars PROVE FreshInv'
  OBVIOUS
<1>b. /\ applications \in Nat
      /\ verified # None => verified.application.id \in Nat
      /\ \A u \in Tasks : pc[u] \in ChosenPhases => work[u].chosen.id \in Nat
  BY NumbersAssumption DEF TypeInv, TypeOK, BiasTypes, WorkInv, ChosenPhases, Applications
<1>a. /\ pc \in [Tasks -> Phases] /\ work \in [Tasks -> WorkType] /\ BiasTypes /\ WorkInv
  BY DEF TypeInv, TypeOK, HandlerTypes
<1> USE <1>a DEF FreshInv, ChosenPhases, Goto
<1>1. ASSUME NEW t \in Tasks, NEW c \in Commands, Receive(t, c) PROVE FreshInv'
  BY <1>1 DEF Receive, connectorVars, panelVars
<1>2. ASSUME NEW t \in Tasks, Handle(t) PROVE FreshInv'
  <2>1. CASE CaptureStep(t)
    <3>1. CASE EnterCapture(t)
      BY <3>1 DEF EnterCapture, Fail, connectorVars, panelVars
    <3>2. CASE AcquireCaptureLease(t)
      BY <3>2 DEF AcquireCaptureLease, Fail, connectorVars
    <3>3. CASE EnsureBias(t)
      BY <3>3 DEF EnsureBias, Fail, ForgetStaleBias, BiasReplaced, panelVars
    <3>4. CASE EnsureBiasFile(t)
      BY <3>4 DEF EnsureBiasFile, Fail, AttemptFails, ForgetStaleBias, BiasReplaced, panelVars
    <3>5. CASE BeginShot(t)
      BY <3>5 DEF BeginShot, Fail, ForgetStaleBias, BiasReplaced, panelVars
    <3>6. CASE TakeFrame(t)
      BY <3>6 DEF TakeFrame, AfterShot, connectorVars, panelVars
    <3>7. CASE LoseFrame(t)
      BY <3>7 DEF LoseFrame, Fail, AfterShot, connectorVars, panelVars
    <3>8. CASE BeginSync(t)
      BY <3>8 DEF BeginSync, Fail, ForgetStaleBias, BiasReplaced, panelVars
    <3>9. CASE EndSync(t)
      BY <3>9 DEF EndSync, Fail, ForgetStaleBias, BiasReplaced, panelVars
    <3>10. CASE ReleaseCaptureLease(t)
      BY <3>10 DEF ReleaseCaptureLease, connectorVars
    <3> QED BY <2>1, <3>1, <3>2, <3>3, <3>4, <3>5, <3>6, <3>7, <3>8, <3>9, <3>10 DEF
       CaptureStep
  <2>2. CASE BiasStep(t)
    <3>1. CASE EnterBias(t)
      BY <3>1 DEF EnterBias, Fail, panelVars
    <3>2. CASE BeginAttempt(t)
      BY <3>2 DEF BeginAttempt, connectorVars
    <3>3. CASE AttemptRefused(t)
      BY <3>3 DEF AttemptRefused, Fail, AttemptFails, connectorVars, panelVars
    <3>4. CASE SearchBias(t)
      BY <3>4 DEF SearchBias, connectorVars, taskVars
    <3>5. CASE BiasApplied(t)
      <4>1. CASE cmd[t].op = "bias"
        <5>1. /\ applications' = applications + 1 /\ applied'.id = applications'
              /\ verified' = verified
              /\ \A u \in Tasks : pc'[u] \in ChosenPhases =>
                    pc[u] \in ChosenPhases /\ work'[u].chosen = work[u].chosen
          BY <3>5, <4>1 DEF BiasApplied, connectorVars
        <5> QED BY <5>1, <1>b
      <4>2. CASE cmd[t].op # "bias"
        BY <3>5, <4>2 DEF BiasApplied, connectorVars
      <4> QED BY <4>1, <4>2
    <3>6. CASE BiasNotApplied(t)
      BY <3>6 DEF BiasNotApplied, Fail, AttemptFails, connectorVars
    <3>7. CASE ConfirmApplication(t)
      <4>1. /\ UNCHANGED <<applied, verified, applications>>
            /\ \A u \in Tasks : pc'[u] \in ChosenPhases =>
                  \/ pc[u] \in ChosenPhases /\ work'[u].chosen = work[u].chosen
                  \/ applied # None /\ work'[u].chosen = applied
        <5>1. UNCHANGED <<applied, verified, applications>>
          BY <3>7 DEF ConfirmApplication, connectorVars, panelVars
        <5>2. \A u \in Tasks : u # t => pc'[u] = pc[u] /\ work'[u] = work[u]
          BY <3>7 DEF ConfirmApplication, Fail, AttemptFails
        <5>3. pc'[t] \in ChosenPhases => applied # None /\ work'[t].chosen = applied
          <6>1. \/ pc'[t] \in {"attempt", "finish"}
                \/ applied # None /\ work' = [work EXCEPT ![t].chosen = applied]
            BY <3>7, FailKeeps, AttemptKeeps DEF ConfirmApplication, CanReadApplied
          <6> QED BY <6>1 DEF WorkType
        <5> QED BY <5>1, <5>2, <5>3
      <4> QED BY <4>1
    <3>8. CASE PersistBias(t)
      BY <3>8 DEF PersistBias, Fail, AttemptFails, connectorVars, panelVars
    <3>9. CASE BiasPersisted(t)
      BY <3>9 DEF BiasPersisted, Fail, AttemptFails, connectorVars, panelVars
    <3>10. CASE VerifyBias(t)
      BY <3>10 DEF VerifyBias, Fail, connectorVars, panelVars
    <3>11. CASE CommitBias(t)
      BY <3>11 DEF CommitBias, panelVars
    <3> QED BY <2>2, <3>1, <3>2, <3>3, <3>4, <3>5, <3>6, <3>7, <3>8, <3>9, <3>10, <3>11 DEF
       BiasStep
  <2>3. CASE AbortStep(t)
    BY <2>3 DEF AbortStep, RememberAbort, panelVars, LookupActive, AwaitFinished,
       connectorVars
  <2>4. CASE ControlStep(t)
    BY <2>4 DEF ControlStep, InvalidateRuntime, CancelForBindingChange, panelVars,
       EnterControl, Fail, EndControl, connectorVars, BeginSwap, EndSwap, EnterSerialConfig,
       ApplySerialConfig
  <2>5. CASE Register(t)
    BY <2>5 DEF Register, panelVars
  <2>6. CASE CheckStart(t)
    BY <2>6 DEF CheckStart, panelVars
  <2>7. CASE EnterGate(t)
    BY <2>7 DEF EnterGate, panelVars
  <2>8. CASE GateRefused(t)
    BY <2>8 DEF GateRefused, Fail, connectorVars, panelVars
  <2>9. CASE Finish(t)
    BY <2>9 DEF Finish
  <2>10. CASE Reply(t)
    BY <2>10 DEF Reply, connectorVars, panelVars
  <2> QED BY <1>2, <2>1, <2>2, <2>3, <2>4, <2>5, <2>6, <2>7, <2>8, <2>9, <2>10 DEF Handle
<1>3. CASE Environment
  <2>1. CASE OperatorBegin
    BY <2>1 DEF OperatorBegin, connectorVars, taskVars
  <2>2. CASE OperatorEnd
    <3>1. UNCHANGED <<pc, work, verified>>
      BY <2>2 DEF OperatorEnd, connectorVars, taskVars
    <3>2. \/ /\ applications' = applications + 1 /\ applied'.id = applications'
          \/ applications' = applications /\ applied' = None
      BY <2>2 DEF OperatorEnd
    <3> QED BY <3>1, <3>2, <1>b
  <2>3. CASE BindingChanges
    BY <2>3 DEF BindingChanges, connectorVars, panelVars, taskVars
  <2>4. CASE RebuildPanel
    BY <2>4 DEF RebuildPanel, ForgetApplied, taskVars
  <2>5. CASE SyncSubscriptions
    BY <2>5 DEF SyncSubscriptions, CancelForBindingChange, panelVars, taskVars
  <2>6. ASSUME NEW k \in Keys, Expire(k) PROVE FreshInv'
    BY <2>6 DEF Expire, panelVars, taskVars
  <2> QED BY <1>3, <2>1, <2>2, <2>3, <2>4, <2>5, <2>6 DEF Environment
<1>4. CASE UNCHANGED vars
  BY <1>4 DEF vars, taskVars, connectorVars, panelVars, bindingVars, historyVars
<1> QED BY <1>1, <1>2, <1>3, <1>4 DEF Next

LEMMA CommittedStep == CommittedInv /\ TypeInv /\ [Next]_vars => CommittedInv'
<1> SUFFICES ASSUME CommittedInv, TypeInv, [Next]_vars PROVE CommittedInv'
  OBVIOUS
<1> USE DEF CommittedInv, Goto
<1>1. ASSUME NEW t \in Tasks, NEW c \in Commands, Receive(t, c) PROVE CommittedInv'
  BY <1>1 DEF Receive, connectorVars, panelVars, historyVars
<1>2. ASSUME NEW t \in Tasks, Handle(t) PROVE CommittedInv'
  <2>1. CASE CaptureStep(t)
    BY <2>1 DEF CaptureStep, EnterCapture, connectorVars, panelVars, historyVars,
       AcquireCaptureLease, EnsureBias, ForgetStaleBias, BiasReplaced, EnsureBiasFile, BeginShot, TakeFrame,
       LoseFrame, BeginSync, EndSync, ReleaseCaptureLease
  <2>2. CASE BiasStep(t)
    BY <2>2 DEF BiasStep, EnterBias, panelVars, historyVars, BeginAttempt, connectorVars,
       AttemptRefused, SearchBias, taskVars, BiasApplied, BiasNotApplied, ConfirmApplication,
       PersistBias, BiasPersisted, VerifyBias, CommitBias
  <2>3. CASE AbortStep(t)
    BY <2>3 DEF AbortStep, RememberAbort, panelVars, LookupActive, AwaitFinished,
       connectorVars, historyVars
  <2>4. CASE ControlStep(t)
    BY <2>4 DEF ControlStep, InvalidateRuntime, CancelForBindingChange, panelVars,
       historyVars, EnterControl, EndControl, connectorVars, BeginSwap, EndSwap,
       EnterSerialConfig, ApplySerialConfig
  <2>5. CASE Register(t)
    BY <2>5 DEF Register, panelVars, historyVars
  <2>6. CASE CheckStart(t)
    BY <2>6 DEF CheckStart, panelVars, historyVars
  <2>7. CASE EnterGate(t)
    BY <2>7 DEF EnterGate, panelVars, historyVars
  <2>8. CASE GateRefused(t)
    BY <2>8 DEF GateRefused, connectorVars, panelVars, historyVars
  <2>9. CASE Finish(t)
    BY <2>9 DEF Finish, historyVars
  <2>10. CASE Reply(t)
    BY <2>10 DEF Reply, connectorVars, panelVars
  <2> QED BY <1>2, <2>1, <2>2, <2>3, <2>4, <2>5, <2>6, <2>7, <2>8, <2>9, <2>10 DEF Handle
<1>3. CASE Environment
  <2>1. CASE OperatorBegin
    BY <2>1 DEF OperatorBegin, connectorVars, historyVars, taskVars
  <2>2. CASE OperatorEnd
    BY <2>2 DEF OperatorEnd, connectorVars, historyVars, taskVars
  <2>3. CASE BindingChanges
    BY <2>3 DEF BindingChanges, connectorVars, panelVars, historyVars, taskVars
  <2>4. CASE RebuildPanel
    BY <2>4 DEF RebuildPanel, ForgetApplied, historyVars, taskVars
  <2>5. CASE SyncSubscriptions
    BY <2>5 DEF SyncSubscriptions, CancelForBindingChange, panelVars, historyVars, taskVars
  <2>6. ASSUME NEW k \in Keys, Expire(k) PROVE CommittedInv'
    BY <2>6 DEF Expire, panelVars, taskVars
  <2> QED BY <1>3, <2>1, <2>2, <2>3, <2>4, <2>5, <2>6 DEF Environment
<1>4. CASE UNCHANGED vars
  BY <1>4 DEF vars, taskVars, connectorVars, panelVars, bindingVars, historyVars
<1> QED BY <1>1, <1>2, <1>3, <1>4 DEF Next

\* A proof that is current after a step that enters none has been current before.
LEMMA CurrentFrame ==
    ASSUME FreshInv, BiasTypes, verified' \in {verified, None},
           applied' \in {applied, None} \/ applied'.id = applications + 1,
           NEW t, cmd'[t] = cmd[t], BiasIsCurrent(t)'
    PROVE  BiasIsCurrent(t) /\ verified' = verified
<1>1. verified' = verified /\ verified # None /\ applied' = verified.application
  BY DEF BiasIsCurrent, BiasReplaced
<1>2. verified.application \in Applications /\ verified.application # None
  BY <1>1, ApplicationsDistinct DEF BiasTypes
<1>3. verified.application.id <= applications
      /\ verified.application.id \in Nat /\ applications \in Nat
  BY <1>1, <1>2, NumbersAssumption DEF FreshInv, BiasTypes, Applications
<1>4. applied' = applied
  BY <1>1, <1>2, <1>3
<1> QED BY <1>1, <1>4 DEF BiasIsCurrent, BiasReplaced

\* A step that takes no frame and commits no BIAS.
LEMMA ExposedFrame ==
    ASSUME ExposedInv, FreshInv, BiasTypes, verified' \in {verified, None},
           applied' \in {applied, None} \/ applied'.id = applications + 1,
           \A t \in Tasks :
              \/ /\ work'[t].taken = work[t].taken /\ work'[t].exposed = work[t].exposed
                 /\ pc'[t] \notin LatePhases => pc[t] \notin LatePhases
                 /\ pc'[t] \in ShotPhases =>
                       cmd'[t] = cmd[t] /\ pc[t] \notin {"release", "finish", "reply"}
              \/ work'[t] = FreshWork /\ pc'[t] = "idle"
    PROVE  ExposedInv'
<1> SUFFICES ASSUME NEW t \in Tasks
             PROVE  /\ work'[t].taken > 0 => work'[t].exposed # {}
                    /\ pc'[t] \notin LatePhases => work'[t].exposed = {}
                    /\ pc'[t] \in ShotPhases /\ IsProduction(t)' /\ BiasIsCurrent(t)' =>
                          work'[t].exposed \subseteq {verified'.application}
  BY DEF ExposedInv
<1>1. CASE work'[t] = FreshWork /\ pc'[t] = "idle"
  BY <1>1 DEF FreshWork, ShotPhases
<1>2. CASE /\ work'[t].taken = work[t].taken /\ work'[t].exposed = work[t].exposed
           /\ pc'[t] \notin LatePhases => pc[t] \notin LatePhases
           /\ pc'[t] \in ShotPhases =>
                 cmd'[t] = cmd[t] /\ pc[t] \notin {"release", "finish", "reply"}
  <2>1. ASSUME pc'[t] \in ShotPhases, IsProduction(t)', BiasIsCurrent(t)'
        PROVE  work'[t].exposed \subseteq {verified'.application}
    <3>1. BiasIsCurrent(t) /\ verified' = verified /\ IsProduction(t)
      BY <1>2, <2>1, CurrentFrame DEF IsProduction, IsCapture
    <3> QED BY <1>2, <2>1, <3>1 DEF ExposedInv, LatePhases
  <2> QED BY <1>2, <2>1 DEF ExposedInv
<1> QED BY <1>1, <1>2

\* A step that ends no capture and writes no file under one that has ended.
LEMMA UsesFrame ==
    ASSUME CaptureUsesRequiredBias, committed \subseteq committed',
           \A t \in Tasks :
              pc'[t] = "release" /\ IsProduction(t)' /\ work'[t].ok =>
                 /\ pc[t] = "release" /\ cmd'[t] = cmd[t] /\ work[t].ok
                 /\ work'[t].exposed = work[t].exposed /\ biasFile' = biasFile
    PROVE  CaptureUsesRequiredBias'
  BY DEF CaptureUsesRequiredBias, IsProduction, IsCapture


LEMMA ExposedStep ==
    ExposedInv /\ FreshInv /\ AppliedInv /\ TypeInv /\ GateInv /\ [Next]_vars
    => ExposedInv'
<1> SUFFICES ASSUME ExposedInv, FreshInv, AppliedInv, TypeInv, GateInv, [Next]_vars PROVE
   ExposedInv'
  OBVIOUS
<1>a. /\ pc \in [Tasks -> Phases] /\ work \in [Tasks -> WorkType]
      /\ cmd \in [Tasks -> Commands \cup {NoCommand}] /\ PhaseInv
  BY DEF TypeInv, TypeOK, HandlerTypes
<1>b. ExposedInv /\ FreshInv /\ BiasTypes
  BY DEF TypeInv, TypeOK
<1> USE <1>a, <1>b, FailKeeps, AttemptKeeps DEF ShotPhases, LatePhases, KeepsFrames, Goto
<1>1. ASSUME NEW t \in Tasks, NEW c \in Commands, Receive(t, c) PROVE ExposedInv'
  BY <1>1, ExposedFrame DEF Receive, connectorVars, panelVars
<1>2. ASSUME NEW t \in Tasks, Handle(t) PROVE ExposedInv'
  <2>1. CASE CaptureStep(t)
    <3>1. CASE EnterCapture(t)
      BY <3>1, ExposedFrame DEF EnterCapture, connectorVars, panelVars
    <3>2. CASE AcquireCaptureLease(t)
      BY <3>2, ExposedFrame DEF AcquireCaptureLease, connectorVars
    <3>3. CASE EnsureBias(t)
      <4>1. \/ UNCHANGED work \/ KeepsFrames
            \/ work' = [work EXCEPT ![t].chosen = verified.application]
        BY <3>3 DEF EnsureBias
      <4>2. KeepsFrames
        BY <4>1, UpdateKeeps DEF KeepsFrames
      <4> QED BY <3>3, <4>2, ExposedFrame DEF EnsureBias, ForgetStaleBias, BiasReplaced, panelVars
    <3>4. CASE EnsureBiasFile(t)
      BY <3>4, ExposedFrame DEF EnsureBiasFile, ForgetStaleBias, BiasReplaced, panelVars
    <3>5. CASE BeginShot(t)
      BY <3>5, ExposedFrame DEF BeginShot, ForgetStaleBias, BiasReplaced, panelVars
    <3>6. CASE TakeFrame(t)
      <4>1. UNCHANGED <<cmd, verified, applied>>
        BY <3>6 DEF TakeFrame, connectorVars, panelVars
      <4>2. \A u \in Tasks : u # t => pc'[u] = pc[u] /\ work'[u] = work[u]
        BY <3>6 DEF TakeFrame
      <4>3. /\ work'[t].exposed = work[t].exposed \cup {registers}
            /\ pc[t] = "frame" /\ pc'[t] \in LatePhases
        BY <3>6 DEF TakeFrame, AfterShot
      <4>4. \A u \in Tasks : BiasIsCurrent(u)' <=> BiasIsCurrent(u)
        BY <4>1 DEF BiasIsCurrent, BiasReplaced
      <4>5. BiasIsCurrent(t) => registers = verified.application
        BY ApplicationsDistinct
           DEF BiasIsCurrent, BiasReplaced, AppliedInv, AppliedMatchesRegisters, BiasTypes
      <4>6. ASSUME NEW u \in Tasks
            PROVE  /\ work'[u].taken > 0 => work'[u].exposed # {}
                   /\ pc'[u] \notin LatePhases => work'[u].exposed = {}
                   /\ pc'[u] \in ShotPhases /\ IsProduction(u)' /\ BiasIsCurrent(u)' =>
                         work'[u].exposed \subseteq {verified'.application}
        <5>1. IsProduction(u)' <=> IsProduction(u)
          BY <4>1 DEF IsProduction, IsCapture
        <5>2. CASE u = t
          BY <4>1, <4>3, <4>4, <4>5, <5>1, <5>2 DEF ExposedInv
        <5>3. CASE u # t
          BY <4>1, <4>2, <4>4, <5>1, <5>3 DEF ExposedInv
        <5> QED BY <5>2, <5>3
      <4> QED BY <4>6 DEF ExposedInv
    <3>7. CASE LoseFrame(t)
      <4> DEFINE n == work[t].shots + 1
                 results == work[t].results + 1
                 ok == n = Shots
      <4>1. \/ \E phase : Fail(t, phase)
            \/ UNCHANGED work
            \/ work' = [work EXCEPT ![t].shots = n, ![t].results = results, ![t].ok = ok]
        BY <3>7 DEF LoseFrame
      <4> HIDE DEF n, results, ok
      <4>2. KeepsFrames
        BY <4>1, LostKeeps DEF KeepsFrames
      <4>3. pc[t] = "frame" /\ pc'[t] \in LatePhases
        BY <3>7 DEF LoseFrame, AfterShot
      <4> QED BY <3>7, <4>2, <4>3, ExposedFrame DEF LoseFrame, connectorVars, panelVars
    <3>8. CASE BeginSync(t)
      BY <3>8, ExposedFrame DEF BeginSync, ForgetStaleBias, BiasReplaced, panelVars
    <3>9. CASE EndSync(t)
      <4>1. \/ UNCHANGED work \/ KeepsFrames
            \/ work' = [work EXCEPT ![t].ok = (work[t].taken = Shots)]
        BY <3>9 DEF EndSync
      <4>2. KeepsFrames
        BY <4>1, UpdateKeeps DEF KeepsFrames
      <4> QED BY <3>9, <4>2, ExposedFrame DEF EndSync, ForgetStaleBias, BiasReplaced, panelVars
    <3>10. CASE ReleaseCaptureLease(t)
      <4>1. \/ UNCHANGED work \/ KeepsFrames
            \/ work' = [work EXCEPT ![t].ok = FALSE]
        BY <3>10 DEF ReleaseCaptureLease
      <4>2. KeepsFrames
        BY <4>1, UpdateKeeps DEF KeepsFrames
      <4> QED BY <3>10, <4>2, ExposedFrame DEF ReleaseCaptureLease, connectorVars
    <3> QED BY <2>1, <3>1, <3>2, <3>3, <3>4, <3>5, <3>6, <3>7, <3>8, <3>9, <3>10 DEF
       CaptureStep
  <2>2. CASE BiasStep(t)
    <3>1. CASE EnterBias(t)
      <4>1. \/ UNCHANGED work \/ KeepsFrames
            \/ work' = [work EXCEPT ![t].chosen = IF cmd[t].op = "useCurrent" THEN applied ELSE None]
        BY <3>1 DEF EnterBias
      <4>2. KeepsFrames
        BY <4>1, UpdateKeeps DEF KeepsFrames
      <4> QED BY <3>1, <4>2, ExposedFrame DEF EnterBias, panelVars
    <3>2. CASE BeginAttempt(t)
      BY <3>2, ExposedFrame DEF BeginAttempt, connectorVars
    <3>3. CASE AttemptRefused(t)
      BY <3>3, ExposedFrame DEF AttemptRefused, connectorVars, panelVars
    <3>4. CASE SearchBias(t)
      BY <3>4, ExposedFrame DEF SearchBias, connectorVars, taskVars
    <3>5. CASE BiasApplied(t)
      <4>1. applied' \in {applied, None} \/ applied'.id = applications + 1
        BY <3>5 DEF BiasApplied
      <4>2. UNCHANGED work \/ work' = [work EXCEPT ![t].made = applied']
        BY <3>5 DEF BiasApplied
      <4>3. KeepsFrames
        BY <4>2, UpdateKeeps DEF KeepsFrames
      <4> QED BY <3>5, <4>1, <4>3, ExposedFrame DEF BiasApplied, connectorVars
    <3>6. CASE BiasNotApplied(t)
      BY <3>6, ExposedFrame DEF BiasNotApplied, connectorVars
    <3>7. CASE ConfirmApplication(t)
      <4>1. \/ UNCHANGED work \/ KeepsFrames
            \/ work' = [work EXCEPT ![t].chosen = applied]
        BY <3>7 DEF ConfirmApplication
      <4>2. KeepsFrames
        BY <4>1, UpdateKeeps DEF KeepsFrames
      <4> QED BY <3>7, <4>2, ExposedFrame DEF ConfirmApplication, connectorVars, panelVars,
         AfterConfirm
    <3>8. CASE PersistBias(t)
      BY <3>8, ExposedFrame DEF PersistBias, connectorVars, panelVars
    <3>9. CASE BiasPersisted(t)
      BY <3>9, ExposedFrame DEF BiasPersisted, connectorVars, panelVars
    <3>10. CASE VerifyBias(t)
      BY <3>10, ExposedFrame DEF VerifyBias, connectorVars, panelVars
    <3>11. CASE CommitBias(t)
      <4>1. \A u \in Tasks : pc'[u] \notin ShotPhases
        BY <3>11, Alone DEF CommitBias, GatedPhases, WorkPhases
      <4>2. \A u \in Tasks : /\ work'[u].exposed = work[u].exposed
                             /\ work'[u].taken = work[u].taken
                             /\ pc'[u] \notin LatePhases => pc[u] \notin LatePhases
        BY <3>11 DEF CommitBias
      <4> QED BY <4>1, <4>2 DEF ExposedInv
    <3> QED BY <2>2, <3>1, <3>2, <3>3, <3>4, <3>5, <3>6, <3>7, <3>8, <3>9, <3>10, <3>11 DEF
       BiasStep
  <2>3. CASE AbortStep(t)
    BY <2>3, ExposedFrame DEF AbortStep, RememberAbort, panelVars, LookupActive,
       AwaitFinished, connectorVars
  <2>4. CASE ControlStep(t)
    <3>1. CASE InvalidateRuntime(t)
      BY <3>1, ExposedFrame DEF InvalidateRuntime, CancelForBindingChange, panelVars
    <3>2. CASE EnterControl(t)
      BY <3>2, ExposedFrame DEF EnterControl
    <3>3. CASE EndControl(t)
      BY <3>3, ExposedFrame DEF EndControl, connectorVars
    <3>4. CASE BeginSwap(t)
      BY <3>4, ExposedFrame DEF BeginSwap, connectorVars
    <3>5. CASE EndSwap(t)
      BY <3>5, ExposedFrame DEF EndSwap, connectorVars
    <3>6. CASE EnterSerialConfig(t)
      BY <3>6, ExposedFrame DEF EnterSerialConfig, CancelForBindingChange, panelVars
    <3>7. CASE ApplySerialConfig(t)
      <4>1. \/ UNCHANGED work \/ KeepsFrames
            \/ work' = [work EXCEPT ![t].ok = TRUE]
        BY <3>7 DEF ApplySerialConfig
      <4>2. KeepsFrames
        BY <4>1, UpdateKeeps DEF KeepsFrames
      <4> QED BY <3>7, <4>2, ExposedFrame DEF ApplySerialConfig, connectorVars
    <3> QED BY <2>4, <3>1, <3>2, <3>3, <3>4, <3>5, <3>6, <3>7 DEF ControlStep
  <2>5. CASE Register(t)
    BY <2>5, ExposedFrame DEF Register, panelVars
  <2>6. CASE CheckStart(t)
    BY <2>6, ExposedFrame DEF CheckStart, panelVars
  <2>7. CASE EnterGate(t)
    BY <2>7, ExposedFrame DEF EnterGate, panelVars
  <2>8. CASE GateRefused(t)
    BY <2>8, ExposedFrame DEF GateRefused, connectorVars, panelVars
  <2>9. CASE Finish(t)
    BY <2>9, ExposedFrame DEF Finish
  <2>10. CASE Reply(t)
    BY <2>10, ExposedFrame DEF Reply, connectorVars, panelVars
  <2> QED BY <1>2, <2>1, <2>2, <2>3, <2>4, <2>5, <2>6, <2>7, <2>8, <2>9, <2>10 DEF Handle
<1>3. CASE Environment
  <2>1. CASE OperatorBegin
    BY <2>1, ExposedFrame DEF OperatorBegin, connectorVars, taskVars
  <2>2. CASE OperatorEnd
    <3>1. applied' \in {applied, None} \/ applied'.id = applications + 1
      BY <2>2 DEF OperatorEnd
    <3> QED BY <2>2, <3>1, ExposedFrame DEF OperatorEnd, connectorVars, taskVars
  <2>3. CASE BindingChanges
    BY <2>3, ExposedFrame DEF BindingChanges, connectorVars, panelVars, taskVars
  <2>4. CASE RebuildPanel
    BY <2>4, ExposedFrame DEF RebuildPanel, ForgetApplied, taskVars
  <2>5. CASE SyncSubscriptions
    BY <2>5, ExposedFrame DEF SyncSubscriptions, CancelForBindingChange, panelVars, taskVars
  <2>6. ASSUME NEW k \in Keys, Expire(k) PROVE ExposedInv'
    BY <2>6, ExposedFrame DEF Expire, panelVars, taskVars
  <2> QED BY <1>3, <2>1, <2>2, <2>3, <2>4, <2>5, <2>6 DEF Environment
<1>4. CASE UNCHANGED vars
  BY <1>4, ExposedFrame DEF vars, taskVars, connectorVars, panelVars, bindingVars, historyVars
<1> QED BY <1>1, <1>2, <1>3, <1>4 DEF Next

LEMMA UsesStep ==
    CaptureUsesRequiredBias /\ ExposedInv /\ CommittedInv /\ BiasInv /\ TypeInv /\ GateInv /\ [Next]_vars
    => CaptureUsesRequiredBias'
<1> SUFFICES ASSUME CaptureUsesRequiredBias, ExposedInv, CommittedInv, BiasInv, TypeInv,
   GateInv, [Next]_vars PROVE CaptureUsesRequiredBias'
  OBVIOUS
<1>a. /\ pc \in [Tasks -> Phases] /\ work \in [Tasks -> WorkType]
      /\ cmd \in [Tasks -> Commands \cup {NoCommand}] /\ PhaseInv
  BY DEF TypeInv, TypeOK, HandlerTypes
<1>b. CaptureUsesRequiredBias
  OBVIOUS
<1> USE <1>a, <1>b, FailKeeps, AttemptKeeps DEF KeepsFrames, Goto, IsProduction, IsCapture
<1>1. ASSUME NEW t \in Tasks, NEW c \in Commands, Receive(t, c) PROVE CaptureUsesRequiredBias'
  BY <1>1, UsesFrame DEF Receive, historyVars
<1>2. ASSUME NEW t \in Tasks, Handle(t) PROVE CaptureUsesRequiredBias'
  <2>1. CASE CaptureStep(t)
    <3>1. CASE EnterCapture(t)
      BY <3>1, UsesFrame DEF EnterCapture, historyVars
    <3>2. CASE AcquireCaptureLease(t)
      BY <3>2, UsesFrame DEF AcquireCaptureLease, historyVars
    <3>3. CASE EnsureBias(t)
      BY <3>3, UsesFrame DEF EnsureBias, historyVars
    <3>4. CASE EnsureBiasFile(t)
      <4>1. \A u \in Tasks : pc[u] # "release"
        BY <3>4, Alone DEF EnsureBiasFile, GatedPhases, WorkPhases
      <4> QED BY <3>4, <4>1, UsesFrame DEF EnsureBiasFile, historyVars
    <3>5. CASE BeginShot(t)
      BY <3>5, UsesFrame DEF BeginShot, historyVars
    <3>6. CASE TakeFrame(t)
      BY <3>6, UsesFrame DEF TakeFrame, AfterShot, historyVars
    <3>7. CASE LoseFrame(t)
      BY <3>7, UsesFrame DEF LoseFrame, AfterShot, historyVars
    <3>8. CASE BeginSync(t)
      BY <3>8, UsesFrame DEF BeginSync, historyVars
    <3>9. CASE EndSync(t)
      <4>1. CASE Fail(t, "release") /\ UNCHANGED <<cmd, biasFile, committed>>
        BY <3>9, <4>1, UsesFrame DEF EndSync
      <4>2. CASE /\ BiasIsCurrent(t) /\ work' = [work EXCEPT ![t].ok = (work[t].taken = Shots)]
                 /\ pc' = [pc EXCEPT ![t] = "release"]
                 /\ UNCHANGED <<cmd, biasFile, committed>>
        <5>1. ASSUME work'[t].ok, IsProduction(t)
              PROVE  /\ verified \in committed /\ verified.request = cmd[t].bias
                     /\ work'[t].exposed = {verified.application}
                     /\ biasFile' = verified.application
          <6>1. work[t].taken = Shots /\ work[t].taken > 0
            <7>1. ASSUME work[t].taken # Shots PROVE FALSE
              <8>1. work' = [work EXCEPT ![t].ok = FALSE]
                BY <4>2, <7>1
              <8> QED BY <5>1, <8>1
            <7> QED BY <7>1, NumbersAssumption
          <6>2. work[t].exposed # {} /\ work[t].exposed \subseteq {verified.application}
            BY <3>9, <4>2, <5>1, <6>1 DEF EndSync, ExposedInv, ShotPhases
          <6>3. work'[t].exposed = {verified.application}
            BY <4>2, <6>2
          <6> QED BY <4>2, <6>3 DEF BiasIsCurrent, BiasReplaced, CommittedInv, BiasInv, VerifiedFileOnDisk
        <5>2. \A u \in Tasks : u # t => pc'[u] = pc[u] /\ work'[u] = work[u]
          BY <4>2
        <5> QED BY <4>2, <5>1, <5>2 DEF CaptureUsesRequiredBias
      <4> QED BY <3>9, <4>1, <4>2 DEF EndSync, historyVars
    <3>10. CASE ReleaseCaptureLease(t)
      BY <3>10, UsesFrame DEF ReleaseCaptureLease, historyVars
    <3> QED BY <2>1, <3>1, <3>2, <3>3, <3>4, <3>5, <3>6, <3>7, <3>8, <3>9, <3>10 DEF
       CaptureStep
  <2>2. CASE BiasStep(t)
    <3>1. CASE EnterBias(t)
      BY <3>1, UsesFrame DEF EnterBias, historyVars
    <3>2. CASE BeginAttempt(t)
      BY <3>2, UsesFrame DEF BeginAttempt, historyVars
    <3>3. CASE AttemptRefused(t)
      BY <3>3, UsesFrame DEF AttemptRefused, historyVars
    <3>4. CASE SearchBias(t)
      BY <3>4, UsesFrame DEF SearchBias, historyVars, taskVars
    <3>5. CASE BiasApplied(t)
      BY <3>5, UsesFrame DEF BiasApplied, historyVars
    <3>6. CASE BiasNotApplied(t)
      BY <3>6, UsesFrame DEF BiasNotApplied, historyVars
    <3>7. CASE ConfirmApplication(t)
      <4>1. pc'[t] # "release" /\ \A u \in Tasks : u # t => pc'[u] = pc[u] /\ work'[u] = work[u]
        BY <3>7, UpdateKeeps DEF ConfirmApplication, AfterConfirm
      <4> QED BY <3>7, <4>1, UsesFrame DEF ConfirmApplication, historyVars
    <3>8. CASE PersistBias(t)
      <4>1. \A u \in Tasks : pc[u] # "release"
        BY <3>8, Alone DEF PersistBias, GatedPhases, WorkPhases
      <4> QED BY <3>8, <4>1, UsesFrame DEF PersistBias, historyVars
    <3>9. CASE BiasPersisted(t)
      BY <3>9, UsesFrame DEF BiasPersisted, historyVars
    <3>10. CASE VerifyBias(t)
      BY <3>10, UsesFrame DEF VerifyBias, historyVars
    <3>11. CASE CommitBias(t)
      BY <3>11, UsesFrame DEF CommitBias
    <3> QED BY <2>2, <3>1, <3>2, <3>3, <3>4, <3>5, <3>6, <3>7, <3>8, <3>9, <3>10, <3>11 DEF
       BiasStep
  <2>3. CASE AbortStep(t)
    BY <2>3, UsesFrame DEF AbortStep, RememberAbort, LookupActive, AwaitFinished, historyVars
  <2>4. CASE ControlStep(t)
    BY <2>4, UsesFrame DEF ControlStep, InvalidateRuntime, historyVars, EnterControl,
       EndControl, BeginSwap, EndSwap, EnterSerialConfig, ApplySerialConfig
  <2>5. CASE Register(t)
    BY <2>5, UsesFrame DEF Register, historyVars
  <2>6. CASE CheckStart(t)
    BY <2>6, UsesFrame DEF CheckStart, historyVars
  <2>7. CASE EnterGate(t)
    BY <2>7, UsesFrame DEF EnterGate, historyVars
  <2>8. CASE GateRefused(t)
    BY <2>8, UsesFrame DEF GateRefused, historyVars
  <2>9. CASE Finish(t)
    BY <2>9, UsesFrame DEF Finish, historyVars
  <2>10. CASE Reply(t)
    BY <2>10, UsesFrame DEF Reply
  <2> QED BY <1>2, <2>1, <2>2, <2>3, <2>4, <2>5, <2>6, <2>7, <2>8, <2>9, <2>10 DEF Handle
<1>3. CASE Environment
  <2>1. CASE OperatorBegin
    BY <2>1, UsesFrame DEF OperatorBegin, historyVars, taskVars
  <2>2. CASE OperatorEnd
    BY <2>2, UsesFrame DEF OperatorEnd, historyVars, taskVars
  <2>3. CASE BindingChanges
    BY <2>3, UsesFrame DEF BindingChanges, historyVars, taskVars
  <2>4. CASE RebuildPanel
    BY <2>4, UsesFrame DEF RebuildPanel, historyVars, taskVars
  <2>5. CASE SyncSubscriptions
    BY <2>5, UsesFrame DEF SyncSubscriptions, historyVars, taskVars
  <2>6. ASSUME NEW k \in Keys, Expire(k) PROVE CaptureUsesRequiredBias'
    BY <2>6, UsesFrame DEF Expire, taskVars
  <2> QED BY <1>3, <2>1, <2>2, <2>3, <2>4, <2>5, <2>6 DEF Environment
<1>4. CASE UNCHANGED vars
  BY <1>4, UsesFrame DEF vars, taskVars, connectorVars, panelVars, bindingVars, historyVars
<1> QED BY <1>1, <1>2, <1>3, <1>4 DEF Next

\* A production capture that reports success has stored frames of one BIAS only, the one
\* that its BIAS request was acknowledged with, and bias.json names it.
THEOREM CapturesUseTheirBias == Spec => []CaptureUsesRequiredBias
<1> DEFINE Inv == TypeInv /\ GateInv /\ AppliedInv /\ BiasInv /\ CaptureInv
<1>1. Init => Inv
  BY TypeInit, GateInit, AppliedInit, BiasInit, CaptureInit
<1>2. Inv /\ (TypeInv /\ GateInv)' /\ [Next]_vars => Inv'
  BY AppliedStep, BiasInvStep, FreshStep, CommittedStep, ExposedStep, UsesStep DEF CaptureInv
<1>3. Inv => CaptureUsesRequiredBias
  BY DEF CaptureInv
<1> QED BY TypesHold, <1>1, <1>2, <1>3, PTL DEF Spec

-----------------------------------------------------------------------------
(* A calibration between its search and its acknowledgement.               *)

\* From the end of its search on, a calibration has made an application of its own that is
\* newer than those of all others; what is applied, and what it chose, is as new.
OwnPhases == {"confirm"} \cup ChosenPhases
OwnInv ==
    \A t \in Tasks :
        /\ work[t].made # None => work[t].made.id <= applications
        /\ pc[t] \in OwnPhases /\ cmd[t].op = "bias" =>
              /\ work[t].made # None
              /\ applied # None => applied.id >= work[t].made.id
              /\ \A u \in Tasks \ {t} :
                    work[u].made # None => work[u].made.id < work[t].made.id
        /\ pc[t] \in ChosenPhases /\ cmd[t].op = "bias" =>
              /\ work[t].chosen.band = cmd[t].band
              /\ work[t].chosen.id >= work[t].made.id

LEMMA OwnInit == Init => OwnInv
  BY DEF Init, OwnInv, FreshWork, OwnPhases, ChosenPhases

LEMMA OwnMeans == OwnInv /\ TypeInv => NoOlderThanOwnSearch
<1> SUFFICES ASSUME OwnInv, TypeInv,
                    NEW t \in Tasks, pc[t] \in ChosenPhases, cmd[t].op = "bias"
             PROVE  /\ work[t].made # None /\ work[t].chosen # None
                    /\ work[t].chosen.band = cmd[t].band
                    /\ work[t].chosen.id >= work[t].made.id
                    /\ \A u \in Tasks \ {t} : work[u].made # work[t].chosen
  BY DEF NoOlderThanOwnSearch, ChosenPhases
<1>1. work[t].chosen \in Applications /\ work[t].chosen # None
  BY ApplicationsDistinct DEF TypeInv, WorkInv, ChosenPhases
<1>2. work[t].made \in Applications
  BY DEF OwnInv, OwnPhases, TypeInv, TypeOK, HandlerTypes, WorkType
<1>3. \A u \in Tasks : work[u].made # None => work[u].made \in Applications
  BY DEF TypeInv, TypeOK, HandlerTypes, WorkType
<1>4. \A u \in Tasks \ {t} : work[u].made # None => work[u].made.id < work[t].chosen.id
  BY <1>1, <1>2, <1>3, NumbersAssumption DEF OwnInv, OwnPhases, Applications
<1>5. \A u \in Tasks \ {t} : work[u].made # work[t].chosen
  BY <1>1, <1>3, <1>4, NumbersAssumption DEF Applications
<1> QED BY <1>1, <1>5 DEF OwnInv, OwnPhases

\* Giving up, trying again and the outcome leave the applications alone.
KeepsOwn ==
    \A u \in Tasks : work'[u].made = work[u].made /\ work'[u].chosen = work[u].chosen

LEMMA FailOwn ==
    ASSUME pc \in [Tasks -> Phases], work \in [Tasks -> WorkType],
           NEW t \in Tasks, NEW phase, Fail(t, phase)
    PROVE  KeepsOwn /\ pc'[t] = phase /\ \A u \in Tasks : u # t => pc'[u] = pc[u]
  BY DEF Fail, Goto, WorkType, KeepsOwn

LEMMA AttemptOwn ==
    ASSUME pc \in [Tasks -> Phases], work \in [Tasks -> WorkType],
           NEW t \in Tasks, NEW again, NEW failed, AttemptFails(t, again, failed)
    PROVE  KeepsOwn /\ pc'[t] \in {again, failed} /\ \A u \in Tasks : u # t => pc'[u] = pc[u]
<1>1. CASE work[t].attempt < MaxAttempts
  BY <1>1 DEF AttemptFails, Goto, WorkType, KeepsOwn
<1>2. CASE ~(work[t].attempt < MaxAttempts)
  BY <1>2, FailOwn DEF AttemptFails
<1> QED BY <1>1, <1>2

LEMMA OutcomeOwn ==
    ASSUME work \in [Tasks -> WorkType], NEW t \in Tasks, NEW v,
           work' = [work EXCEPT ![t].ok = v]
    PROVE  KeepsOwn
  BY DEF WorkType, KeepsOwn

LEMMA UpdateOwn ==
    ASSUME work \in [Tasks -> WorkType], NEW t \in Tasks, NEW v,
           work' = [work EXCEPT ![t].chosen = v]
    PROVE  /\ \A u \in Tasks : work'[u].made = work[u].made
           /\ \A u \in Tasks : u # t => work'[u].chosen = work[u].chosen
           /\ work'[t].chosen = v
  BY DEF WorkType

LEMMA LostOwn ==
    ASSUME work \in [Tasks -> WorkType], NEW t \in Tasks, NEW n, NEW results, NEW ok,
           work' = [work EXCEPT ![t].shots = n, ![t].results = results, ![t].ok = ok]
    PROVE  KeepsOwn
  BY DEF WorkType, KeepsOwn

LEMMA TakenOwn ==
    ASSUME work \in [Tasks -> WorkType], NEW t \in Tasks,
           NEW n, NEW taken, NEW exposed, NEW results, NEW ok,
           work' = [work EXCEPT ![t].shots = n, ![t].taken = taken, ![t].exposed = exposed,
                                ![t].results = results, ![t].ok = ok]
    PROVE  KeepsOwn
<1> DEFINE w == [work[t] EXCEPT !.shots = n, !.taken = taken, !.exposed = exposed,
                                !.results = results, !.ok = ok]
<1>2. w.made = work[t].made /\ w.chosen = work[t].chosen
  BY DEF WorkType
<1>3. work' = [work EXCEPT ![t] = w]
  OBVIOUS
<1> HIDE DEF w
<1> QED BY <1>2, <1>3 DEF KeepsOwn

\* A step that ends no search and chooses nothing.
LEMMA OwnFrame ==
    ASSUME OwnInv, TypeInv, applications' \in {applications, applications + 1},
           applied' \in {applied, None} \/ applied'.id = applications + 1,
           \A u \in Tasks :
              \/ /\ work'[u].made = work[u].made
                 /\ pc'[u] \in OwnPhases => pc[u] \in OwnPhases /\ cmd'[u] = cmd[u]
                 /\ pc'[u] \in ChosenPhases =>
                       pc[u] \in ChosenPhases /\ work'[u].chosen = work[u].chosen
              \/ work'[u] = FreshWork /\ pc'[u] = "idle"
    PROVE  OwnInv'
<1>1. /\ applications \in Nat
      /\ \A u \in Tasks : work[u].made # None => work[u].made.id \in Nat
  BY NumbersAssumption
     DEF TypeInv, TypeOK, HandlerTypes, BiasTypes, WorkType, Applications
<1>2. \A u \in Tasks : work'[u].made = work[u].made \/ work'[u].made = None
  BY DEF FreshWork
<1> SUFFICES ASSUME NEW t \in Tasks
             PROVE  /\ work'[t].made # None => work'[t].made.id <= applications'
                    /\ pc'[t] \in OwnPhases /\ cmd'[t].op = "bias" =>
                          /\ work'[t].made # None
                          /\ applied' # None => applied'.id >= work'[t].made.id
                          /\ \A u \in Tasks \ {t} :
                                work'[u].made # None => work'[u].made.id < work'[t].made.id
                    /\ pc'[t] \in ChosenPhases /\ cmd'[t].op = "bias" =>
                          /\ work'[t].chosen.band = cmd'[t].band
                          /\ work'[t].chosen.id >= work'[t].made.id
  BY DEF OwnInv
<1>3. CASE work'[t] = FreshWork /\ pc'[t] = "idle"
  BY <1>3 DEF FreshWork, OwnPhases, ChosenPhases
<1>4. CASE /\ work'[t].made = work[t].made
           /\ pc'[t] \in OwnPhases => pc[t] \in OwnPhases /\ cmd'[t] = cmd[t]
           /\ pc'[t] \in ChosenPhases =>
                 pc[t] \in ChosenPhases /\ work'[t].chosen = work[t].chosen
  <2>1. work[t].made # None => work[t].made.id <= applications'
    BY <1>1 DEF OwnInv
  <2>2. ASSUME pc'[t] \in OwnPhases, cmd'[t].op = "bias"
        PROVE  /\ work'[t].made # None
               /\ applied' # None => applied'.id >= work'[t].made.id
               /\ \A u \in Tasks \ {t} :
                     work'[u].made # None => work'[u].made.id < work'[t].made.id
    BY <1>1, <1>2, <1>4, <2>2 DEF OwnInv
  <2> QED BY <1>4, <2>1, <2>2 DEF OwnInv, OwnPhases
<1> QED BY <1>3, <1>4

LEMMA MadeNumbers ==
    ASSUME OwnInv, TypeInv
    PROVE  /\ applications \in Nat
           /\ \A u \in Tasks : work[u].made # None =>
                 work[u].made.id \in Nat /\ work[u].made.id <= applications
  BY NumbersAssumption
     DEF OwnInv, TypeInv, TypeOK, HandlerTypes, BiasTypes, WorkType, Applications

LEMMA BiasMade ==
    ASSUME TypeInv, NEW t \in Tasks, BiasApplied(t), cmd[t].op = "bias"
    PROVE  applied' # None
<1>1. /\ applications < MaxApplications /\ applications \in Nat
      /\ applied' = [id |-> applications + 1, band |-> cmd[t].band]
  BY NumbersAssumption DEF BiasApplied, TypeInv, TypeOK, BiasTypes
<1>2. cmd[t].band \in Bands
  BY CommandFields DEF TypeInv, TypeOK, HandlerTypes
<1>3. applied' \in Applications
  BY <1>1, <1>2, NumbersAssumption DEF Applications
<1> QED BY <1>3, ApplicationsDistinct

LEMMA OwnStep ==
    OwnInv /\ TypeInv /\ GateInv /\ [Next]_vars => OwnInv'
<1> SUFFICES ASSUME OwnInv, TypeInv, GateInv, [Next]_vars PROVE OwnInv'
  OBVIOUS
<1>a. /\ pc \in [Tasks -> Phases] /\ work \in [Tasks -> WorkType]
      /\ cmd \in [Tasks -> Commands \cup {NoCommand}] /\ PhaseInv
  BY DEF TypeInv, TypeOK, HandlerTypes
<1> USE <1>a, FailOwn, AttemptOwn DEF OwnPhases, ChosenPhases, KeepsOwn, Goto
<1>1. ASSUME NEW t \in Tasks, NEW c \in Commands, Receive(t, c) PROVE OwnInv'
  BY <1>1, OwnFrame DEF Receive, connectorVars, panelVars
<1>2. ASSUME NEW t \in Tasks, Handle(t) PROVE OwnInv'
  <2>1. CASE CaptureStep(t)
    <3>1. CASE EnterCapture(t)
      BY <3>1, OwnFrame DEF EnterCapture, connectorVars, panelVars
    <3>2. CASE AcquireCaptureLease(t)
      BY <3>2, OwnFrame DEF AcquireCaptureLease, connectorVars
    <3>3. CASE EnsureBias(t)
      <4>1. \/ UNCHANGED work \/ KeepsOwn
            \/ work' = [work EXCEPT ![t].chosen = verified.application]
        BY <3>3 DEF EnsureBias
      <4>2. /\ \A u \in Tasks : work'[u].made = work[u].made
            /\ \A u \in Tasks : u # t => work'[u].chosen = work[u].chosen
        BY <4>1, UpdateOwn DEF KeepsOwn
      <4>3. pc[t] = "required" /\ pc'[t] \in {"biasFile", "required", "release"}
        BY <3>3 DEF EnsureBias
      <4> QED BY <3>3, <4>2, <4>3, OwnFrame DEF EnsureBias, panelVars
    <3>4. CASE EnsureBiasFile(t)
      BY <3>4, OwnFrame DEF EnsureBiasFile, ForgetStaleBias, BiasReplaced, panelVars
    <3>5. CASE BeginShot(t)
      BY <3>5, OwnFrame DEF BeginShot, ForgetStaleBias, BiasReplaced, panelVars
    <3>6. CASE TakeFrame(t)
      <4>1. PICK n, taken, exposed, results, ok :
              work' = [work EXCEPT ![t].shots = n, ![t].taken = taken, ![t].exposed = exposed,
                                   ![t].results = results, ![t].ok = ok]
        BY <3>6 DEF TakeFrame
      <4>2. KeepsOwn
        BY <4>1, TakenOwn DEF KeepsOwn
      <4> QED BY <3>6, <4>2, OwnFrame DEF TakeFrame, AfterShot, connectorVars, panelVars
    <3>7. CASE LoseFrame(t)
      <4> DEFINE n == work[t].shots + 1
                 results == work[t].results + 1
                 ok == n = Shots
      <4>1. \/ \E phase : Fail(t, phase)
            \/ UNCHANGED work
            \/ work' = [work EXCEPT ![t].shots = n, ![t].results = results, ![t].ok = ok]
        BY <3>7 DEF LoseFrame
      <4> HIDE DEF n, results, ok
      <4>2. KeepsOwn
        BY <4>1, LostOwn DEF KeepsOwn
      <4>3. pc[t] = "frame" /\ pc'[t] \in {"shot", "sync", "release"}
        BY <3>7 DEF LoseFrame, AfterShot
      <4> QED BY <3>7, <4>2, <4>3, OwnFrame DEF LoseFrame, connectorVars, panelVars
    <3>8. CASE BeginSync(t)
      BY <3>8, OwnFrame DEF BeginSync, ForgetStaleBias, BiasReplaced, panelVars
    <3>9. CASE EndSync(t)
      <4>1. \/ UNCHANGED work \/ KeepsOwn
            \/ work' = [work EXCEPT ![t].ok = (work[t].taken = Shots)]
        BY <3>9 DEF EndSync
      <4>2. KeepsOwn
        BY <4>1, OutcomeOwn DEF KeepsOwn
      <4> QED BY <3>9, <4>2, OwnFrame DEF EndSync, ForgetStaleBias, BiasReplaced, panelVars
    <3>10. CASE ReleaseCaptureLease(t)
      <4>1. \/ UNCHANGED work \/ KeepsOwn
            \/ work' = [work EXCEPT ![t].ok = FALSE]
        BY <3>10 DEF ReleaseCaptureLease
      <4>2. KeepsOwn
        BY <4>1, OutcomeOwn DEF KeepsOwn
      <4> QED BY <3>10, <4>2, OwnFrame DEF ReleaseCaptureLease, connectorVars
    <3> QED BY <2>1, <3>1, <3>2, <3>3, <3>4, <3>5, <3>6, <3>7, <3>8, <3>9, <3>10 DEF
       CaptureStep
  <2>2. CASE BiasStep(t)
    <3>1. CASE EnterBias(t)
      <4>1. \/ KeepsOwn
            \/ work' = [work EXCEPT ![t].chosen = IF cmd[t].op = "useCurrent" THEN applied ELSE None]
        BY <3>1 DEF EnterBias
      <4>2. /\ \A u \in Tasks : work'[u].made = work[u].made
            /\ \A u \in Tasks : u # t => work'[u].chosen = work[u].chosen
        BY <4>1, UpdateOwn DEF KeepsOwn
      <4>3. pc[t] = "entered" /\ pc'[t] \in {"attempt", "finish"}
        BY <3>1 DEF EnterBias
      <4> QED BY <3>1, <4>2, <4>3, OwnFrame DEF EnterBias, panelVars
    <3>2. CASE BeginAttempt(t)
      BY <3>2, OwnFrame DEF BeginAttempt, connectorVars
    <3>3. CASE AttemptRefused(t)
      BY <3>3, OwnFrame DEF AttemptRefused, connectorVars, panelVars
    <3>4. CASE SearchBias(t)
      BY <3>4, OwnFrame DEF SearchBias, connectorVars, taskVars
    <3>5. CASE BiasApplied(t)
      <4>1. pc[t] = "apply" /\ pc' = [pc EXCEPT ![t] = "confirm"] /\ cmd' = cmd
        BY <3>5 DEF BiasApplied
      <4>2. \A u \in Tasks : pc'[u] \in OwnPhases => u = t
        BY <4>1, Alone DEF GatedPhases, WorkPhases
      <4>3. CASE cmd[t].op = "bias"
        <5>1. /\ applications' = applications + 1
              /\ applied' = [id |-> applications + 1, band |-> cmd[t].band]
              /\ work' = [work EXCEPT ![t].made = applied']
          BY <3>5, <4>3 DEF BiasApplied
        <5>2. work'[t].made = applied' /\ \A u \in Tasks : u # t => work'[u].made = work[u].made
          BY <5>1 DEF WorkType
        <5>3. applied' # None
          BY <3>5, <4>3, <5>1, BiasMade
        <5>4. /\ applications \in Nat
              /\ \A u \in Tasks : work[u].made # None =>
                    work[u].made.id \in Nat /\ work[u].made.id <= applications
          BY MadeNumbers
        <5>5. applied'.id = applications + 1
          BY <5>1
        <5> QED BY <4>1, <4>2, <5>1, <5>2, <5>3, <5>4, <5>5 DEF OwnInv
      <4>4. CASE cmd[t].op # "bias"
        <5>1. UNCHANGED <<applications, applied, work>>
          BY <3>5, <4>4 DEF BiasApplied
        <5> QED BY <4>1, <4>2, <4>4, <5>1 DEF OwnInv
      <4> QED BY <4>3, <4>4
    <3>6. CASE BiasNotApplied(t)
      BY <3>6, OwnFrame DEF BiasNotApplied, connectorVars
    <3>7. CASE ConfirmApplication(t)
      <4>1. UNCHANGED <<cmd, applied, applications>> /\ pc[t] = "confirm"
        BY <3>7 DEF ConfirmApplication, panelVars
      <4>2. CASE \E phase : Fail(t, phase) /\ phase = "finish"
        BY <3>7, <4>1, <4>2, OwnFrame
      <4>3. CASE AttemptFails(t, "attempt", "finish")
        BY <3>7, <4>1, <4>3, OwnFrame
      <4>4. CASE /\ applied # None /\ applied.band = cmd[t].band
                 /\ work' = [work EXCEPT ![t].chosen = applied]
                 /\ Goto(t, AfterConfirm(t))
        <5>1. /\ \A u \in Tasks : work'[u].made = work[u].made
              /\ \A u \in Tasks : u # t => work'[u].chosen = work[u].chosen
              /\ work'[t].chosen = applied
          BY <4>4, UpdateOwn
        <5>2. pc'[t] \in ChosenPhases /\ \A u \in Tasks : u # t => pc'[u] = pc[u]
          BY <4>4 DEF AfterConfirm
        <5> QED BY <4>1, <4>4, <5>1, <5>2 DEF OwnInv
      <4> QED BY <3>7, <4>2, <4>3, <4>4 DEF ConfirmApplication, CanReadApplied
    <3>8. CASE PersistBias(t)
      BY <3>8, OwnFrame DEF PersistBias, connectorVars, panelVars
    <3>9. CASE BiasPersisted(t)
      BY <3>9, OwnFrame DEF BiasPersisted, connectorVars, panelVars
    <3>10. CASE VerifyBias(t)
      BY <3>10, OwnFrame DEF VerifyBias, connectorVars, panelVars
    <3>11. CASE CommitBias(t)
      <4>1. work' = [work EXCEPT ![t].ok = TRUE]
        BY <3>11 DEF CommitBias
      <4>2. KeepsOwn
        BY <4>1, OutcomeOwn DEF KeepsOwn
      <4> QED BY <3>11, <4>2, OwnFrame DEF CommitBias, panelVars
    <3> QED BY <2>2, <3>1, <3>2, <3>3, <3>4, <3>5, <3>6, <3>7, <3>8, <3>9, <3>10, <3>11 DEF
       BiasStep
  <2>3. CASE AbortStep(t)
    BY <2>3, OwnFrame DEF AbortStep, RememberAbort, panelVars, LookupActive,
       AwaitFinished, connectorVars
  <2>4. CASE ControlStep(t)
    <3>1. CASE InvalidateRuntime(t)
      BY <3>1, OwnFrame DEF InvalidateRuntime, CancelForBindingChange, panelVars
    <3>2. CASE EnterControl(t)
      BY <3>2, OwnFrame DEF EnterControl
    <3>3. CASE EndControl(t)
      BY <3>3, OwnFrame DEF EndControl, connectorVars
    <3>4. CASE BeginSwap(t)
      BY <3>4, OwnFrame DEF BeginSwap, connectorVars
    <3>5. CASE EndSwap(t)
      BY <3>5, OwnFrame DEF EndSwap, connectorVars
    <3>6. CASE EnterSerialConfig(t)
      BY <3>6, OwnFrame DEF EnterSerialConfig, CancelForBindingChange, panelVars
    <3>7. CASE ApplySerialConfig(t)
      <4>1. \/ UNCHANGED work \/ KeepsOwn
            \/ work' = [work EXCEPT ![t].ok = TRUE]
        BY <3>7 DEF ApplySerialConfig
      <4>2. KeepsOwn
        BY <4>1, OutcomeOwn DEF KeepsOwn
      <4> QED BY <3>7, <4>2, OwnFrame DEF ApplySerialConfig, connectorVars
    <3> QED BY <2>4, <3>1, <3>2, <3>3, <3>4, <3>5, <3>6, <3>7 DEF ControlStep
  <2>5. CASE Register(t)
    BY <2>5, OwnFrame DEF Register, panelVars
  <2>6. CASE CheckStart(t)
    BY <2>6, OwnFrame DEF CheckStart, panelVars
  <2>7. CASE EnterGate(t)
    BY <2>7, OwnFrame DEF EnterGate, panelVars
  <2>8. CASE GateRefused(t)
    BY <2>8, OwnFrame DEF GateRefused, connectorVars, panelVars
  <2>9. CASE Finish(t)
    BY <2>9, OwnFrame DEF Finish
  <2>10. CASE Reply(t)
    BY <2>10, OwnFrame DEF Reply, connectorVars, panelVars
  <2> QED BY <1>2, <2>1, <2>2, <2>3, <2>4, <2>5, <2>6, <2>7, <2>8, <2>9, <2>10 DEF Handle
<1>3. CASE Environment
  <2>1. CASE OperatorBegin
    BY <2>1, OwnFrame DEF OperatorBegin, connectorVars, taskVars
  <2>2. CASE OperatorEnd
    <3>1. applied' \in {applied, None} \/ applied'.id = applications + 1
      BY <2>2 DEF OperatorEnd
    <3> QED BY <2>2, <3>1, OwnFrame DEF OperatorEnd, connectorVars, taskVars
  <2>3. CASE BindingChanges
    BY <2>3, OwnFrame DEF BindingChanges, connectorVars, panelVars, taskVars
  <2>4. CASE RebuildPanel
    BY <2>4, OwnFrame DEF RebuildPanel, ForgetApplied, taskVars
  <2>5. CASE SyncSubscriptions
    BY <2>5, OwnFrame DEF SyncSubscriptions, CancelForBindingChange, panelVars, taskVars
  <2>6. ASSUME NEW k \in Keys, Expire(k) PROVE OwnInv'
    BY <2>6, OwnFrame DEF Expire, panelVars, taskVars
  <2> QED BY <1>3, <2>1, <2>2, <2>3, <2>4, <2>5, <2>6 DEF Environment
<1>4. CASE UNCHANGED vars
  BY <1>4, OwnFrame DEF vars, taskVars, connectorVars, panelVars, bindingVars, historyVars
<1> QED BY <1>1, <1>2, <1>3, <1>4 DEF Next

\* A BIAS command never acknowledges a calibration that is older than the one its own search
\* made, of another band or of another command, whatever the operator does between the
\* search and the reading.
THEOREM AcknowledgedIsOwn == Spec => []NoOlderThanOwnSearch
<1>1. OwnInv /\ (TypeInv /\ GateInv) /\ [Next]_vars => OwnInv'
  BY OwnStep
<1> QED BY TypesHold, OwnInit, OwnMeans, <1>1, PTL DEF Spec
=============================================================================
