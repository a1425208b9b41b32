--------------------------- MODULE CameraOperations ---------------------------
(***************************************************************************)
(* The remote operations of ONE camera as an AgentUI process runs them:    *)
(* CameraNatsConnector (message handlers, per-camera gate, active slots,   *)
(* cancelled-request memory, verified BIAS) together with the state of     *)
(* CameraPanelViewModel that they share with the operator at the screen    *)
(* (panel gate, applied BIAS, runtime).  All dictionaries of the connector *)
(* are keyed by AgentId, so cameras do not interact and one is enough.     *)
(*                                                                         *)
(* Every received message is handled by a task of its own (Task.Run), and  *)
(* tasks interleave at every await.  A task identifier is reused once its  *)
(* handler has replied.                                                    *)
(***************************************************************************)
EXTENDS Integers, FiniteSets

CONSTANTS
    Tasks,                    \* handlers that may be in flight at once
    CaptureRequests,          \* RecipeStepId values of capture commands
    BiasRequests,             \* RequestId values of BIAS commands
    Bands,                    \* biasLow, biasMid, biasHigh
    Bindings,                 \* physical bindings (index, COM port, S/N, USB container)
    Commands,                 \* the commands that may arrive
    Shots,                    \* frames of one capture command
    MaxAttempts,              \* BiasExecutionPolicy.MaxAttempts
    MaximumCancelledRequests, \* size of the cancelled-request memory
    MaxApplications,          \* bound on the BIAS applications of a behaviour
    None, Offline, Dirty, Operator

CaptureCommands == [op : {"capture"}, request : CaptureRequests,
                    bias : BiasRequests \cup {None}]
BiasCommands == [op : {"bias", "useCurrent"}, request : BiasRequests,
                 band : Bands, file : BOOLEAN]
AbortCommands == [op : {"captureAbort"}, target : CaptureRequests \cup {None}]
                   \cup [op : {"biasAbort"}, target : BiasRequests \cup {None}]
ControlCommands == [op : {"control", "runtimeLoad", "runtimeUnload", "serialConfig"}]
CommandType == CaptureCommands \cup BiasCommands \cup AbortCommands \cup ControlCommands

NoCommand == [op |-> "none"]

ASSUME CommandsAssumption == Commands \subseteq CommandType
ASSUME NumbersAssumption ==
    /\ Shots \in Nat \ {0} /\ MaxAttempts \in Nat \ {0}
    /\ MaximumCancelledRequests \in Nat \ {0} /\ MaxApplications \in Nat
ASSUME TasksAssumption == None \notin Tasks /\ Operator \notin Tasks
ASSUME DistinctValues ==
    /\ None \notin CaptureRequests \cup BiasRequests \cup Bindings
    /\ Offline \notin Bindings /\ None # Operator

Applications == [id : 1..MaxApplications, band : Bands]
ASSUME ApplicationsDistinct == {None, Dirty} \cap Applications = {} /\ None # Dirty

VARIABLES
    pc,               \* where each handler stands
    cmd,              \* the command it handles
    seen,             \* the binding its descriptor was resolved to
    work,             \* its local data, see WorkType
    cancelled,        \* tasks whose active.Cancellation is cancelled
    evicted,          \* panel users whose panel or runtime lifetime token is cancelled
    entered,          \* tasks that took the camera gate and have not released it
    waiting,          \* abort handlers -> the operation whose Finished they await
    active,           \* _activeCaptures and _activeBias
    gate,             \* free permits of the camera's SemaphoreSlim(1, 1)
    remembered,       \* _cancelledRequests
    verified,         \* _verifiedBias
    panelGate,        \* the holder of the panel's _biasGate
    applied,          \* LastAppliedBias
    loaded,           \* the panel has a runtime
    binding,          \* the camera's entry in the shared descriptor list
    panelBinding,     \* the binding the panel was built for
    subscribed,       \* the binding the connector last synchronised with
    registers,        \* what the camera's BIAS registers hold
    biasFile,         \* what bias.json of the storage condition holds
    applications,     \* BIAS applications made so far
    settled,          \* history: aborts acknowledged and remembered ever since
    lapsed,           \* history: aborts in flight whose target was forgotten meanwhile
    committed         \* history: BIAS requests that succeeded, with their application

connectorVars == <<cancelled, entered, waiting, active, gate, remembered, verified>>
panelVars == <<panelGate, applied, loaded, evicted, registers, applications>>
bindingVars == <<binding, panelBinding, subscribed>>
historyVars == <<settled, lapsed, committed>>
taskVars == <<pc, cmd, seen, work>>
vars == <<taskVars, connectorVars, panelVars, bindingVars, biasFile, historyVars>>

-----------------------------------------------------------------------------
Phases == {"idle", "register", "check", "gate", "entered",
           "lease", "required", "biasFile", "shot", "frame", "sync", "synced", "release",
           "attempt", "apply", "confirm", "persist", "persisted", "verify", "commit",
           "remember", "lookup", "await", "invalidate", "control", "swap", "swapping", "serial",
           "finish", "reply"}

\* Phases in which an operation acts on the camera or on the storage.
WorkPhases == {"lease", "required", "biasFile", "shot", "frame", "sync", "synced",
               "attempt", "apply", "confirm", "persist", "persisted", "verify", "commit"}

\* Phases inside the camera gate.
GatedPhases == WorkPhases \cup {"entered", "release", "control", "swap", "swapping", "serial"}

Slots == {"capture", "bias"}
Keys == [slot : {"capture"}, request : CaptureRequests]
          \cup [slot : {"bias"}, request : BiasRequests]

\* attempt: of BiasOperationRunner; chosen: the application the operation relies on;
\* made: the application a calibration made itself; shots, taken: frames tried and kept;
\* exposed: what the registers held at each kept frame; results: capture results
\* published before the reply; ok: the outcome to reply.
WorkType == [attempt : 1..MaxAttempts, chosen : Applications \cup {None},
             made : Applications \cup {None}, shots : 0..Shots, taken : 0..Shots,
             exposed : SUBSET (Applications \cup {Dirty}), results : 0..Shots,
             ok : BOOLEAN]
FreshWork == [attempt |-> 1, chosen |-> None, made |-> None, shots |-> 0, taken |-> 0,
              exposed |-> {}, results |-> 0, ok |-> FALSE]

HandlerTypes ==
    /\ pc \in [Tasks -> Phases]
    /\ cmd \in [Tasks -> Commands \cup {NoCommand}]
    /\ seen \in [Tasks -> Bindings \cup {Offline}]
    /\ work \in [Tasks -> WorkType]

ConnectorTypes ==
    /\ cancelled \subseteq Tasks /\ entered \subseteq Tasks
    /\ waiting \in [Tasks -> Tasks \cup {None}]
    /\ active \in [Slots -> Tasks \cup {None}]
    /\ gate \in {0, 1}
    /\ remembered \subseteq Keys
    /\ subscribed \in Bindings \cup {Offline}

PanelTypes ==
    /\ evicted \subseteq Tasks \cup {Operator}
    /\ panelGate \in Tasks \cup {Operator, None}
    /\ loaded \in BOOLEAN
    /\ {binding, panelBinding} \subseteq Bindings \cup {Offline}

BiasTypes ==
    /\ verified \in [request : BiasRequests, application : Applications] \cup {None}
    /\ applied \in Applications \cup {None}
    /\ registers \in Applications \cup {Dirty}
    /\ biasFile \in Applications \cup {None}
    /\ applications \in 0..MaxApplications
    /\ committed \subseteq [request : BiasRequests, application : Applications]

HistoryTypes == settled \subseteq Keys /\ lapsed \subseteq Tasks

TypeOK == HandlerTypes /\ ConnectorTypes /\ PanelTypes /\ BiasTypes /\ HistoryTypes

Init ==
    /\ pc = [t \in Tasks |-> "idle"]
    /\ cmd = [t \in Tasks |-> NoCommand]
    /\ seen = [t \in Tasks |-> Offline]
    /\ work = [t \in Tasks |-> FreshWork]
    /\ cancelled = {} /\ evicted = {} /\ entered = {}
    /\ waiting = [t \in Tasks |-> None]
    /\ active = [s \in Slots |-> None]
    /\ gate = 1
    /\ remembered = {} /\ verified = None
    /\ panelGate = None /\ applied = None
    /\ binding \in Bindings /\ panelBinding = binding /\ subscribed = binding
    /\ loaded = TRUE
    /\ registers = Dirty /\ biasFile = None /\ applications = 0
    /\ settled = {} /\ lapsed = {} /\ committed = {}

-----------------------------------------------------------------------------
IsCapture(t) == cmd[t].op = "capture"
IsBias(t) == cmd[t].op \in {"bias", "useCurrent"}
IsAbort(t) == cmd[t].op \in {"captureAbort", "biasAbort"}
IsProduction(t) == IsCapture(t) /\ cmd[t].bias # None
SlotOf(t) == IF cmd[t].op \in {"capture", "captureAbort"} THEN "capture" ELSE "bias"
Key(t) == [slot |-> SlotOf(t), request |-> cmd[t].request]
TargetKey(t) == [slot |-> SlotOf(t), request |-> cmd[t].target]

Goto(t, phase) == pc' = [pc EXCEPT ![t] = phase]

\* The handler gives up: the outcome is NG and the finally block is next.
Fail(t, phase) ==
    /\ work' = [work EXCEPT ![t].ok = FALSE]
    /\ Goto(t, phase)

\* BiasOperationRunner: a failed attempt is tried again until MaxAttempts.
AttemptFails(t, again, failed) ==
    IF work[t].attempt < MaxAttempts
    THEN /\ work' = [work EXCEPT ![t].attempt = @ + 1, ![t].ok = FALSE]
         /\ Goto(t, again)
    ELSE Fail(t, failed)

\* EnsureBindingCurrent: the descriptor still describes the device it was resolved to.
BindingCurrent(t) == binding = seen[t] /\ binding # Offline

\* EnsureSameBiasApplication: what is applied now is not what was verified.
NeverReplaced == FALSE
BiasReplaced == applied # verified.application

\* EnsureRequiredBiasIsCurrent: the BIAS request the capture names succeeded and
\* its application is still the one applied to the camera.
BiasIsCurrent(t) == verified # None /\ verified.request = cmd[t].bias /\ ~BiasReplaced

\* ReadCurrentVerifiedBiasJson forgets a verified BIAS that is no longer applied.
ForgetStaleBias(t) ==
    verified' = IF verified # None /\ verified.request = cmd[t].bias /\ BiasReplaced
                THEN None ELSE verified

\* EnterBiasAsync takes the panel gate only when it is free and a runtime is bound.
CanEnterPanel == loaded /\ panelGate = None
LeavePanel(t) == panelGate' = IF panelGate = t THEN None ELSE panelGate

\* An abort counts for as long as its target is remembered without a break.
Forget(keys) ==
    /\ settled' = settled \ keys
    /\ lapsed' = lapsed \cup {t \in Tasks : /\ pc[t] \in {"lookup", "await", "reply"}
                                           /\ IsAbort(t) /\ cmd[t].target # None
                                           /\ TargetKey(t) \in keys}

\* RememberCancelledRequest: at the limit the oldest entry makes room; which entry
\* is the oldest is left open.
Remember(key) ==
    \/ /\ key \in remembered \/ Cardinality(remembered) < MaximumCancelledRequests
       /\ remembered' = remembered \cup {key}
       /\ UNCHANGED <<settled, lapsed>>
    \/ /\ key \notin remembered /\ Cardinality(remembered) >= MaximumCancelledRequests
       /\ \E oldest \in remembered :
            /\ remembered' = (remembered \ {oldest}) \cup {key}
            /\ Forget({oldest})

-----------------------------------------------------------------------------
(* Common prefix of HandleCaptureAsync and HandleBiasAsync.                *)

\* A message arrives and its handler resolves the current descriptor; for an offline
\* camera it is answered NG, but for an abort, and for a serial configuration, whose
\* check comes inside the gate.
Receive(t, c) ==
    /\ pc[t] = "idle"
    /\ cmd' = [cmd EXCEPT ![t] = c]
    /\ seen' = [seen EXCEPT ![t] = binding]
    /\ Goto(t, IF c.op \in {"captureAbort", "biasAbort"} THEN "remember"
               ELSE IF c.op = "serialConfig" THEN "gate"
               ELSE IF binding = Offline THEN "reply"
               ELSE IF c.op \in {"capture", "bias", "useCurrent"} THEN "register"
               ELSE IF c.op = "control" THEN "gate" ELSE "invalidate")
    /\ UNCHANGED <<work, connectorVars, panelVars, bindingVars, biasFile, historyVars>>

\* TryAdd into the active slot; a second operation of the same kind is answered NG.
Register(t) ==
    /\ pc[t] = "register"
    /\ IF active[SlotOf(t)] = None
       THEN /\ active' = [active EXCEPT ![SlotOf(t)] = t]
            /\ Goto(t, "check")
       ELSE Goto(t, "reply") /\ UNCHANGED active
    /\ UNCHANGED <<cmd, seen, work, cancelled, entered, waiting, gate, remembered, verified,
                   panelVars, bindingVars, biasFile, historyVars>>

\* An abort that arrived first cancels the operation at its start.
NeverCancelled(t) == FALSE
IsRequestCancelled(t) == Key(t) \in remembered

CheckStart(t) ==
    /\ pc[t] = "check"
    /\ cancelled' = IF IsRequestCancelled(t) THEN cancelled \cup {t} ELSE cancelled
    /\ Goto(t, "gate")
    /\ UNCHANGED <<cmd, seen, work, entered, waiting, active, gate, remembered, verified,
                   panelVars, bindingVars, biasFile, historyVars>>

\* gate.WaitAsync succeeds.
EnterGate(t) ==
    /\ pc[t] = "gate" /\ gate = 1 /\ t \notin cancelled
    /\ gate' = 0
    /\ entered' = entered \cup {t}
    /\ Goto(t, "entered")
    /\ UNCHANGED <<cmd, seen, work, cancelled, waiting, active, remembered, verified,
                   panelVars, bindingVars, biasFile, historyVars>>

\* gate.WaitAsync is cancelled, or times out while another operation holds the gate.
GateRefused(t) ==
    /\ pc[t] = "gate" /\ (t \in cancelled \/ gate = 0)
    /\ Fail(t, "finish")
    /\ UNCHANGED <<cmd, seen, connectorVars, panelVars, bindingVars, biasFile, historyVars>>

ReleaseGateAlways(t) == gate' = gate + 1
ReleaseGate(t) == gate' = IF t \in entered THEN gate + 1 ELSE gate

FinishedNotSignalled(t) == UNCHANGED waiting
SignalFinished(t) == waiting' = [w \in Tasks |-> IF waiting[w] = t THEN None ELSE waiting[w]]

\* The finally block: leave the active slot, release the gate if it was taken, signal
\* Finished to the aborts that wait for it.
Finish(t) ==
    /\ pc[t] = "finish"
    /\ active' = [s \in Slots |-> IF active[s] = t THEN None ELSE active[s]]
    /\ ReleaseGate(t)
    /\ entered' = entered \ {t}
    /\ SignalFinished(t)
    /\ cancelled' = cancelled \ {t}
    /\ evicted' = evicted \ {t}
    /\ Goto(t, "reply")
    /\ UNCHANGED <<cmd, seen, work, remembered, verified, panelGate, applied, loaded,
                   registers, applications, bindingVars, biasFile, historyVars>>

\* The outcome is published, as a capture result or as the ACK of a control command.
Reply(t) ==
    /\ pc[t] = "reply"
    /\ settled' = IF IsAbort(t) /\ cmd[t].target # None /\ t \notin lapsed
                  THEN settled \cup {TargetKey(t)} ELSE settled
    /\ lapsed' = lapsed \ {t}
    /\ cmd' = [cmd EXCEPT ![t] = NoCommand]
    /\ seen' = [seen EXCEPT ![t] = Offline]
    /\ work' = [work EXCEPT ![t] = FreshWork]
    /\ Goto(t, "idle")
    /\ UNCHANGED <<connectorVars, panelVars, bindingVars, biasFile, committed>>

-----------------------------------------------------------------------------
(* HandleCaptureAsync and HandleCaptureCoreAsync.                          *)

\* Inside the gate: cancelled or bound to another device?
EnterCapture(t) ==
    /\ pc[t] = "entered" /\ IsCapture(t)
    /\ IF t \notin cancelled /\ BindingCurrent(t)
       THEN Goto(t, "lease") /\ UNCHANGED work
       ELSE Fail(t, "finish")
    /\ UNCHANGED <<cmd, seen, connectorVars, panelVars, bindingVars, biasFile, historyVars>>

\* The capture holds the panel gate from here to its end, so that nothing at the
\* screen can touch shutter or BIAS between two frames.
AcquireCaptureLease(t) ==
    /\ pc[t] = "lease"
    /\ IF CanEnterPanel /\ t \notin cancelled
       THEN /\ panelGate' = t
            /\ Goto(t, IF IsProduction(t) THEN "required" ELSE "shot")
            /\ UNCHANGED work
       ELSE Fail(t, "finish") /\ UNCHANGED panelGate
    /\ UNCHANGED <<cmd, seen, connectorVars, applied, loaded, evicted, registers,
                   applications, bindingVars, biasFile, historyVars>>

\* EnsureBiasForCaptureAsync, one attempt: the required BIAS is verified and applied.
EnsureBias(t) ==
    /\ pc[t] = "required"
    /\ IF BiasIsCurrent(t) /\ t \notin cancelled
       THEN /\ work' = [work EXCEPT ![t].chosen = verified.application]
            /\ Goto(t, "biasFile")
       ELSE Fail(t, "release")
    /\ ForgetStaleBias(t)
    /\ UNCHANGED <<cmd, seen, cancelled, entered, waiting, active, gate, remembered,
                   panelVars, bindingVars, biasFile, historyVars>>

\* bias.json is read back, or written again from the verified BIAS; an I/O failure is
\* retried, a BIAS that is no longer current is not.
EnsureBiasFile(t) ==
    /\ pc[t] = "biasFile"
    /\ \/ /\ t \notin cancelled /\ BiasIsCurrent(t)
          /\ biasFile' = verified.application
          /\ Goto(t, "shot") /\ UNCHANGED work
       \/ /\ t \notin cancelled /\ BiasIsCurrent(t)
          /\ AttemptFails(t, "required", "release") /\ UNCHANGED biasFile
       \/ /\ ~(t \notin cancelled /\ BiasIsCurrent(t))
          /\ Fail(t, "release") /\ UNCHANGED biasFile
    /\ ForgetStaleBias(t)
    /\ UNCHANGED <<cmd, seen, cancelled, entered, waiting, active, gate, remembered,
                   panelVars, bindingVars, historyVars>>

\* Before a frame is requested: cancelled, device and BIAS are checked again.
BeginShot(t) ==
    /\ pc[t] = "shot"
    /\ IF t \notin cancelled /\ BindingCurrent(t) /\ (IsProduction(t) => BiasIsCurrent(t))
       THEN Goto(t, "frame") /\ UNCHANGED work
       ELSE Fail(t, "release")
    /\ IF IsProduction(t) /\ t \notin cancelled /\ BindingCurrent(t)
       THEN ForgetStaleBias(t) ELSE UNCHANGED verified
    /\ UNCHANGED <<cmd, seen, cancelled, entered, waiting, active, gate, remembered,
                   panelVars, bindingVars, biasFile, historyVars>>

\* The phase after shot number n of the loop; a production capture ends with the
\* transfer of its folder, a plain one leaves the loop for the finally block.
AfterShot(t, n) ==
    IF n < Shots THEN "shot" ELSE IF IsProduction(t) THEN "sync" ELSE "release"

\* A new frame arrives and is stored; a plain capture publishes it at once.
TakeFrame(t) ==
    /\ pc[t] = "frame" /\ t \notin cancelled /\ BindingCurrent(t) /\ loaded
    /\ LET n == work[t].shots + 1
       IN /\ work' = [work EXCEPT
                        ![t].shots = n, ![t].taken = @ + 1,
                        ![t].exposed = @ \cup {registers},
                        ![t].results = IF IsProduction(t) THEN @ ELSE @ + 1,
                        ![t].ok = ~IsProduction(t) /\ n = Shots]
          /\ Goto(t, AfterShot(t, n))
    /\ UNCHANGED <<cmd, seen, connectorVars, panelVars, bindingVars, biasFile, historyVars>>

\* No frame, an old frame, a swapped runtime or a failed write.  A production capture
\* leaves the loop, a plain one publishes the failed shot and goes on; a cancelled
\* capture gives up at once.
LoseFrame(t) ==
    /\ pc[t] = "frame"
    /\ IF t \in cancelled THEN Fail(t, "release")
       ELSE IF IsProduction(t) THEN Goto(t, "sync") /\ UNCHANGED work
       ELSE LET n == work[t].shots + 1
            IN /\ work' = [work EXCEPT ![t].shots = n, ![t].results = @ + 1,
                                       ![t].ok = n = Shots]
               /\ Goto(t, AfterShot(t, n))
    /\ UNCHANGED <<cmd, seen, connectorVars, panelVars, bindingVars, biasFile, historyVars>>

\* After the loop, before and after SyncFolderAsync: device and BIAS still the same?
BeginSync(t) ==
    /\ pc[t] = "sync"
    /\ IF t \notin cancelled /\ BindingCurrent(t) /\ BiasIsCurrent(t)
       THEN Goto(t, "synced") /\ UNCHANGED work
       ELSE Fail(t, "release")
    /\ ForgetStaleBias(t)
    /\ UNCHANGED <<cmd, seen, cancelled, entered, waiting, active, gate, remembered,
                   panelVars, bindingVars, biasFile, historyVars>>

EndSync(t) ==
    /\ pc[t] = "synced"
    /\ \/ /\ t \notin cancelled /\ BiasIsCurrent(t) /\ BindingCurrent(t)
          /\ work' = [work EXCEPT ![t].ok = (work[t].taken = Shots)]
          /\ Goto(t, "release")
       \/ Fail(t, "release")
    /\ ForgetStaleBias(t)
    /\ UNCHANGED <<cmd, seen, cancelled, entered, waiting, active, gate, remembered,
                   panelVars, bindingVars, biasFile, historyVars>>

\* The lease goes back before the active slot and the gate are given up.  A capture
\* cancelled since its last check may still end NG.
ReleaseCaptureLease(t) ==
    /\ pc[t] = "release"
    /\ LeavePanel(t)
    /\ \/ UNCHANGED work
       \/ t \in cancelled /\ work' = [work EXCEPT ![t].ok = FALSE]
    /\ Goto(t, "finish")
    /\ UNCHANGED <<cmd, seen, connectorVars, applied, loaded, evicted, registers,
                   applications, bindingVars, biasFile, historyVars>>

-----------------------------------------------------------------------------
(* HandleBiasAsync with BiasOperationRunner and the panel's BIAS routines. *)

\* ReadCurrentAppliedBias: something is applied, and of the band asked for.
ReadsAnyBand(t) == applied # None
CanReadApplied(t) == applied # None /\ applied.band = cmd[t].band

\* Inside the gate: the previous proof is void; biasUseCurrent selects the application
\* it will adopt, and without one every attempt fails.
EnterBias(t) ==
    /\ pc[t] = "entered" /\ IsBias(t)
    /\ LET current == t \notin cancelled /\ BindingCurrent(t)
           adopt == cmd[t].op = "useCurrent"
           possible == cmd[t].file /\ CanReadApplied(t)
       IN /\ verified' = IF current THEN None ELSE verified
          /\ IF current /\ (adopt => possible)
             THEN /\ work' = [work EXCEPT ![t].chosen = IF adopt THEN applied ELSE None]
                  /\ Goto(t, "attempt")
             ELSE Fail(t, "finish")
    /\ UNCHANGED <<cmd, seen, cancelled, entered, waiting, active, gate, remembered,
                   panelVars, bindingVars, biasFile, historyVars>>

\* An attempt starts: the panel gate is taken, a calibration voids the applied BIAS
\* and begins to write the registers.
BeginAttempt(t) ==
    /\ pc[t] = "attempt" /\ t \notin cancelled
    /\ BindingCurrent(t) /\ CanEnterPanel
    /\ cmd[t].op = "useCurrent" => applied = work[t].chosen
    /\ panelGate' = t
    /\ IF cmd[t].op = "bias"
       THEN applied' = None /\ registers' = Dirty
       ELSE UNCHANGED <<applied, registers>>
    /\ Goto(t, "apply")
    /\ UNCHANGED <<cmd, seen, work, connectorVars, loaded, evicted, applications,
                   bindingVars, biasFile, historyVars>>

\* An attempt that cannot start counts; a cancelled operation does not try again.
AttemptRefused(t) ==
    /\ pc[t] = "attempt"
    /\ \/ t \in cancelled /\ Fail(t, "finish")
       \/ /\ t \notin cancelled
          /\ \/ ~BindingCurrent(t) \/ ~CanEnterPanel
             \/ cmd[t].op = "useCurrent" /\ applied # work[t].chosen
          /\ AttemptFails(t, "attempt", "finish")
    /\ UNCHANGED <<cmd, seen, connectorVars, panelVars, bindingVars, biasFile, historyVars>>

\* The search writes trial levels into the registers; a disposed panel's port is closed.
SearchBias(t) ==
    /\ pc[t] = "apply" /\ cmd[t].op = "bias" /\ t \notin evicted
    /\ registers' = Dirty
    /\ UNCHANGED <<taskVars, connectorVars, panelGate, applied, loaded, evicted, applications,
                   bindingVars, biasFile, historyVars>>

\* The panel has found the level and read the registers back: a calibration gets a new
\* application id, a verification keeps the id it confirmed.  The panel gate is free.
BiasApplied(t) ==
    /\ pc[t] = "apply" /\ panelGate = t /\ t \notin cancelled \cup evicted
    /\ IF cmd[t].op = "bias"
       THEN /\ applications < MaxApplications
            /\ applications' = applications + 1
            /\ applied' = [id |-> applications + 1, band |-> cmd[t].band]
            /\ registers' = applied'
            /\ work' = [work EXCEPT ![t].made = applied']
       ELSE UNCHANGED <<applications, applied, registers, work>>
    /\ LeavePanel(t)
    /\ Goto(t, "confirm")
    /\ UNCHANGED <<cmd, seen, connectorVars, loaded, evicted, bindingVars, biasFile,
                   historyVars>>

\* Not converged, a serial error, the attempt's time limit, a cancellation or a panel
\* that went away: a calibration leaves nothing applied, a verification voids the
\* applied BIAS only if the registers disagree or the reading was cancelled.
BiasNotApplied(t) ==
    /\ pc[t] = "apply"
    /\ IF panelGate = t
       THEN applied' \in (IF cmd[t].op = "bias" THEN {None} ELSE {None, applied})
       ELSE UNCHANGED applied
    /\ LeavePanel(t)
    /\ evicted' = evicted \ {t}
    /\ IF t \in cancelled THEN Fail(t, "finish") ELSE AttemptFails(t, "attempt", "finish")
    /\ UNCHANGED <<cmd, seen, connectorVars, loaded, registers, applications,
                   bindingVars, biasFile, historyVars>>

\* A required file is written before the BIAS counts as verified.
AfterConfirmUnwritten(t) == "verify"
AfterConfirm(t) == IF cmd[t].file THEN "persist" ELSE "verify"

\* The handler reads the applied BIAS after the panel gate was released.
ConfirmApplication(t) ==
    /\ pc[t] = "confirm"
    /\ IF t \in cancelled THEN Fail(t, "finish")
       ELSE IF /\ BindingCurrent(t)
               /\ CanReadApplied(t)
               /\ cmd[t].op = "useCurrent" => applied = work[t].chosen
            THEN /\ work' = [work EXCEPT ![t].chosen = applied]
                 /\ Goto(t, AfterConfirm(t))
            ELSE AttemptFails(t, "attempt", "finish")
    /\ UNCHANGED <<cmd, seen, connectorVars, panelVars, bindingVars, biasFile, historyVars>>

\* WriteAndVerifyBiasJsonAsync between two checks that the application is still current.
PersistBias(t) ==
    /\ pc[t] = "persist"
    /\ IF t \in cancelled THEN Fail(t, "finish") /\ UNCHANGED biasFile
       ELSE \/ /\ applied = work[t].chosen
               /\ biasFile' = work[t].chosen
               /\ Goto(t, "persisted") /\ UNCHANGED work
            \/ AttemptFails(t, "attempt", "finish") /\ UNCHANGED biasFile
    /\ UNCHANGED <<cmd, seen, connectorVars, panelVars, bindingVars, historyVars>>

BiasPersisted(t) ==
    /\ pc[t] = "persisted"
    /\ IF t \in cancelled THEN Fail(t, "finish")
       ELSE IF applied = work[t].chosen THEN Goto(t, "verify") /\ UNCHANGED work
       ELSE AttemptFails(t, "attempt", "finish")
    /\ UNCHANGED <<cmd, seen, connectorVars, panelVars, bindingVars, biasFile, historyVars>>

\* Last checks before the proof is entered; the entry itself is a separate step that
\* no lock joins to them.
VerifyBias(t) ==
    /\ pc[t] = "verify"
    /\ IF t \notin cancelled /\ BindingCurrent(t) /\ applied = work[t].chosen
       THEN Goto(t, "commit") /\ UNCHANGED work
       ELSE Fail(t, "finish")
    /\ UNCHANGED <<cmd, seen, connectorVars, panelVars, bindingVars, biasFile, historyVars>>

CommitBias(t) ==
    /\ pc[t] = "commit"
    /\ LET proof == [request |-> cmd[t].request, application |-> work[t].chosen]
       IN IF cmd[t].file
          THEN verified' = proof /\ committed' = committed \cup {proof}
          ELSE UNCHANGED <<verified, committed>>
    /\ work' = [work EXCEPT ![t].ok = TRUE]
    /\ Goto(t, "finish")
    /\ UNCHANGED <<cmd, seen, cancelled, entered, waiting, active, gate, remembered,
                   panelVars, bindingVars, biasFile, settled, lapsed>>

-----------------------------------------------------------------------------
(* AbortCameraOperationAsync.                                              *)

\* First the target is remembered ...
RememberAbort(t) ==
    /\ pc[t] = "remember"
    /\ IF cmd[t].target = None THEN UNCHANGED <<remembered, settled, lapsed>>
       ELSE Remember(TargetKey(t))
    /\ Goto(t, "lookup")
    /\ UNCHANGED <<cmd, seen, work, cancelled, entered, waiting, active, gate, verified,
                   panelVars, bindingVars, biasFile, committed>>

\* ... then the operation in the slot is read; if it is the target (a capture abort
\* without target means any) it is cancelled and its end awaited.
LookupActive(t) ==
    /\ pc[t] = "lookup"
    /\ LET a == active[SlotOf(t)]
       IN IF a # None /\ (\/ cmd[a].request = cmd[t].target
                          \/ cmd[t].op = "captureAbort" /\ cmd[t].target = None)
          THEN /\ Remember(Key(a))
               /\ cancelled' = cancelled \cup {a}
               /\ waiting' = [waiting EXCEPT ![t] = a]
               /\ Goto(t, "await")
          ELSE Goto(t, "reply") /\ UNCHANGED <<remembered, settled, lapsed, cancelled, waiting>>
    /\ UNCHANGED <<cmd, seen, work, entered, active, gate, verified, panelVars, bindingVars,
                   biasFile, committed>>

AwaitFinished(t) ==
    /\ pc[t] = "await" /\ waiting[t] = None
    /\ Goto(t, "reply")
    /\ UNCHANGED <<cmd, seen, work, connectorVars, panelVars, bindingVars, biasFile,
                   historyVars>>

\* The retention time of an entry ends.
Expire(k) ==
    /\ k \in remembered
    /\ remembered' = remembered \ {k}
    /\ Forget({k})
    /\ UNCHANGED <<taskVars, cancelled, entered, waiting, active, gate, verified, panelVars,
                   bindingVars, biasFile, committed>>

-----------------------------------------------------------------------------
(* The other control commands, and the load and unload of the runtime.     *)

ActiveOperations == {active[s] : s \in Slots} \ {None}

\* CancelForBindingChange.
CancelForBindingChange ==
    /\ verified' = None
    /\ cancelled' = cancelled \cup ActiveOperations

\* Load and unload cancel what runs before they queue for the gate.
InvalidateRuntime(t) ==
    /\ pc[t] = "invalidate"
    /\ CancelForBindingChange
    /\ Goto(t, "gate")
    /\ UNCHANGED <<cmd, seen, work, entered, waiting, active, gate, remembered, panelVars,
                   bindingVars, biasFile, historyVars>>

\* Inside the gate a plain control takes the panel gate for its serial command; a load
\* or unload first unbinds the runtime, which voids the applied BIAS and cancels
\* whoever holds the panel, and then waits for the panel.
EnterControl(t) ==
    /\ pc[t] = "entered" /\ cmd[t].op \in {"control", "runtimeLoad", "runtimeUnload"}
    /\ \/ /\ BindingCurrent(t) /\ cmd[t].op = "control" /\ CanEnterPanel
          /\ panelGate' = t
          /\ Goto(t, "control")
          /\ UNCHANGED <<cancelled, applied, loaded, evicted, work>>
       \/ /\ BindingCurrent(t) /\ cmd[t].op # "control"
          /\ panelBinding = binding \/ cmd[t].op = "runtimeUnload"
          /\ loaded' = FALSE /\ applied' = None
          /\ evicted' = IF panelGate = None THEN evicted ELSE evicted \cup {panelGate}
          /\ cancelled' = IF panelGate \in ActiveOperations /\ IsCapture(panelGate)
                          THEN cancelled \cup {panelGate} ELSE cancelled
          /\ Goto(t, "swap")
          /\ UNCHANGED <<panelGate, work>>
       \/ /\ \/ ~BindingCurrent(t)
             \/ cmd[t].op = "control" /\ ~CanEnterPanel
             \/ cmd[t].op = "runtimeLoad" /\ panelBinding # binding
          /\ Fail(t, "finish")
          /\ UNCHANGED <<cancelled, panelGate, applied, loaded, evicted>>
    /\ UNCHANGED <<cmd, seen, entered, waiting, active, gate, remembered, verified,
                   registers, applications, bindingVars, biasFile, historyVars>>

EndControl(t) ==
    /\ pc[t] = "control"
    /\ \E success \in BOOLEAN : work' = [work EXCEPT ![t].ok = success]
    /\ LeavePanel(t)
    /\ Goto(t, "finish")
    /\ UNCHANGED <<cmd, seen, connectorVars, applied, loaded, evicted, registers,
                   applications, bindingVars, biasFile, historyVars>>

\* The panel is free, or its replacement ended the wait.
BeginSwap(t) ==
    /\ pc[t] = "swap"
    /\ \/ t \in evicted /\ Fail(t, "finish") /\ UNCHANGED panelGate
       \/ /\ t \notin evicted /\ panelGate = None
          /\ panelGate' = t
          /\ Goto(t, "swapping") /\ UNCHANGED work
    /\ UNCHANGED <<cmd, seen, connectorVars, applied, loaded, evicted, registers,
                   applications, bindingVars, biasFile, historyVars>>

\* The old runtime is removed and, for a load, the new one is started and bound.
EndSwap(t) ==
    /\ pc[t] = "swapping"
    /\ \E success \in BOOLEAN :
          /\ success => t \notin evicted
          /\ work' = [work EXCEPT ![t].ok = success]
          /\ loaded' = (loaded \/ (success /\ cmd[t].op = "runtimeLoad"))
    /\ LeavePanel(t)
    /\ Goto(t, "finish")
    /\ UNCHANGED <<cmd, seen, connectorVars, applied, evicted, registers,
                   applications, bindingVars, biasFile, historyVars>>

\* HandleSerialConfigAsync: inside the gate it resolves the descriptor and cancels what
\* is registered for the camera ...
EnterSerialConfig(t) ==
    /\ pc[t] = "entered" /\ cmd[t].op = "serialConfig"
    /\ IF binding # Offline
       THEN CancelForBindingChange /\ Goto(t, "serial") /\ UNCHANGED work
       ELSE Fail(t, "finish") /\ UNCHANGED <<verified, cancelled>>
    /\ UNCHANGED <<cmd, seen, entered, waiting, active, gate, remembered, panelVars,
                   bindingVars, biasFile, historyVars>>

\* ... and the UI thread saves the port and replaces the panel, unless it is busy.
ApplySerialConfig(t) ==
    /\ pc[t] = "serial"
    /\ \/ /\ CanEnterPanel /\ binding # Offline
          /\ binding' \in Bindings /\ panelBinding' = binding'
          /\ applied' = None /\ loaded' = TRUE
          /\ work' = [work EXCEPT ![t].ok = TRUE]
          /\ Goto(t, "finish")
       \/ Fail(t, "finish") /\ UNCHANGED <<binding, panelBinding, applied, loaded>>
    /\ UNCHANGED <<cmd, seen, connectorVars, panelGate, evicted, registers, applications,
                   subscribed, biasFile, historyVars>>

-----------------------------------------------------------------------------
(* The operator at the AgentUI screen, and the camera's binding.           *)

\* A manual restore takes the panel gate but not the connector's gate.
OperatorBegin ==
    /\ CanEnterPanel
    /\ panelGate' = Operator
    /\ applied' = None /\ registers' = Dirty
    /\ evicted' = evicted \ {Operator}
    /\ UNCHANGED <<taskVars, connectorVars, loaded, applications, bindingVars, biasFile,
                   historyVars>>

OperatorEnd ==
    /\ panelGate = Operator
    /\ panelGate' = None
    /\ \/ /\ Operator \notin evicted /\ applications < MaxApplications
          /\ applications' = applications + 1
          /\ \E band \in Bands : applied' = [id |-> applications + 1, band |-> band]
          /\ registers' = applied'
       \/ applied' = None /\ UNCHANGED <<applications, registers>>
    /\ UNCHANGED <<taskVars, connectorVars, loaded, evicted, bindingVars, biasFile,
                   historyVars>>

\* The hot-plug reconciliation rewrites the shared descriptor list ...
BindingChanges ==
    /\ \E b \in (Bindings \cup {Offline}) \ {binding} : binding' = b
    /\ UNCHANGED <<taskVars, connectorVars, panelVars, panelBinding, subscribed, biasFile,
                   historyVars>>

PanelPhases == {"apply", "control", "swap", "swapping"}

KeepApplied == UNCHANGED applied
ForgetApplied == applied' = None

\* ... then replaces the panel whose binding changed: the old one is disposed without
\* waiting for its gate, its users lose their tokens, and the new one starts with
\* nothing applied, perhaps on another device ...
RebuildPanel ==
    /\ panelBinding # binding
    /\ panelBinding' = binding
    /\ ForgetApplied /\ panelGate' = None
    /\ registers' \in {registers, Dirty}
    /\ loaded' = (binding # Offline)
    /\ evicted' = evicted \cup {t \in Tasks : pc[t] \in PanelPhases}
    /\ cancelled' = IF panelGate \in ActiveOperations /\ IsCapture(panelGate)
                    THEN cancelled \cup {panelGate} ELSE cancelled
    /\ UNCHANGED <<taskVars, entered, waiting, active, gate, remembered, verified,
                   applications, binding, subscribed, biasFile, historyVars>>

\* ... and SyncSubscriptionsAsync, which the heartbeat loop calls as well, cancels what
\* runs on a camera whose binding changed.
SyncSubscriptions ==
    /\ subscribed # binding
    /\ subscribed' = binding
    /\ CancelForBindingChange
    /\ UNCHANGED <<taskVars, entered, waiting, active, gate, remembered, panelVars, binding,
                   panelBinding, biasFile, historyVars>>

-----------------------------------------------------------------------------
CaptureStep(t) ==
    \/ EnterCapture(t) \/ AcquireCaptureLease(t) \/ EnsureBias(t) \/ EnsureBiasFile(t)
    \/ BeginShot(t) \/ TakeFrame(t) \/ LoseFrame(t) \/ BeginSync(t) \/ EndSync(t)
    \/ ReleaseCaptureLease(t)

BiasStep(t) ==
    \/ EnterBias(t) \/ BeginAttempt(t) \/ AttemptRefused(t) \/ SearchBias(t) \/ BiasApplied(t)
    \/ BiasNotApplied(t) \/ ConfirmApplication(t) \/ PersistBias(t) \/ BiasPersisted(t)
    \/ VerifyBias(t) \/ CommitBias(t)

AbortStep(t) == RememberAbort(t) \/ LookupActive(t) \/ AwaitFinished(t)

ControlStep(t) ==
    \/ InvalidateRuntime(t) \/ EnterControl(t) \/ EndControl(t) \/ BeginSwap(t) \/ EndSwap(t)
    \/ EnterSerialConfig(t) \/ ApplySerialConfig(t)

\* Everything a handler does once its message has arrived.
Handle(t) ==
    \/ Register(t) \/ CheckStart(t) \/ EnterGate(t) \/ GateRefused(t)
    \/ CaptureStep(t) \/ BiasStep(t) \/ AbortStep(t) \/ ControlStep(t)
    \/ Finish(t) \/ Reply(t)

Environment ==
    \/ OperatorBegin \/ OperatorEnd
    \/ BindingChanges \/ RebuildPanel \/ SyncSubscriptions
    \/ \E k \in Keys : Expire(k)

Next ==
    \/ \E t \in Tasks : \E c \in Commands : Receive(t, c)
    \/ \E t \in Tasks : Handle(t)
    \/ Environment

Spec == Init /\ [][Next]_vars

\* Awaits of a handler return (its waits are timed, its serial calls end by an answer,
\* an error or the attempt's time limit), and so does the operator's own restore.
Fairness ==
    /\ \A t \in Tasks : WF_vars(Handle(t) /\ taskVars' # taskVars)
    /\ WF_vars(OperatorEnd)

FairSpec == Spec /\ Fairness

-----------------------------------------------------------------------------
(* Properties.                                                             *)

\* Captures, BIAS and controls of a camera exclude each other: at most one handler holds
\* the gate, none works on the camera without it, and the permit is out exactly then,
\* although handlers give up while queueing and share one finally block
\* (HandleCaptureAsync, HandleBiasAsync, HandleCameraControlAsync, HandleSerialConfigAsync).
GateExclusion ==
    /\ \A t, u \in entered : t = u
    /\ gate = IF entered = {} THEN 1 ELSE 0
    /\ \A t \in Tasks : pc[t] \in GatedPhases => t \in entered

\* An abort that was acknowledged is final: as long as the request is remembered no
\* handler works for it, whether the abort overtook the request, met it while it was
\* registering, queueing or working, or the request is delivered again afterwards.
AbortIsFinal ==
    \A t \in Tasks :
        pc[t] \in WorkPhases => Key(t) \notin settled

\* What the panel reports as applied is what the camera's registers hold, although
\* remote calibrations, the operator and panel replacements interleave.
AppliedMatchesRegisters ==
    applied # None => registers = applied

\* A verified BIAS is the content of the bias.json that the captures of its condition
\* will rely on, through calibration retries, adoptions and file repairs.
VerifiedFileOnDisk ==
    verified # None => biasFile = verified.application

\* A production capture that succeeds took every frame while the registers held the
\* application that its BIAS request was acknowledged with, and bias.json holds it.
CaptureUsesRequiredBias ==
    \A t \in Tasks :
        pc[t] = "release" /\ IsProduction(t) /\ work[t].ok =>
            \E proof \in committed :
                /\ proof.request = cmd[t].bias
                /\ work[t].exposed = {proof.application}
                /\ biasFile = proof.application

\* A calibration that is read, stored and acknowledged after the panel gate was free is
\* of the band its command asked for and no older than what the command's own search
\* made last, although the operator may have restored another one meanwhile; nobody
\* else's command made it.
NoOlderThanOwnSearch ==
    \A t \in Tasks :
        pc[t] \in {"persist", "persisted", "verify", "commit"} /\ cmd[t].op = "bias" =>
            /\ work[t].made # None /\ work[t].chosen # None
            /\ work[t].chosen.band = cmd[t].band
            /\ work[t].chosen.id >= work[t].made.id
            /\ \A u \in Tasks \ {t} : work[u].made # work[t].chosen

\* Every command that arrives is answered: no handler waits for another for ever.
EveryCommandAnswered ==
    \A t \in Tasks : pc[t] # "idle" ~> pc[t] = "idle"
=============================================================================
