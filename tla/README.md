# Verification of the heating camera system

TLA+ models of CanLab's heating camera system, checked with TLC and proved with TLAPS.
Paths below are relative to the repository, `HeatingCameraSystem.` prefixes of directories
are left out in prose (`Master/Services/RecipeEngine.cs` is
`src/HeatingCameraSystem.Master/Services/RecipeEngine.cs`).

## 1. The system

A **Master** (WPF application) runs recipes: it drives a climate chamber, servo axes, fans and
black bodies through a PLC and serial ports, and orders captures and calibrations from cameras.
Every camera computer runs an **AgentUI**, which owns the cameras and answers the Master's
messages over NATS. An **AgentManager** service on each of those computers keeps the inventory
of its cameras and has the runtimes loaded that are wanted. A **capture plan** on the Master is
compiled to recipes, cell by cell, and what became of each cell is kept in a document store.
The cameras' firmware is written with the **viewer of the vendor** (Qt, C++), which is in the
repository with its own flash page.

A *BIAS* is the calibration register of a camera. It is searched for a target band, written to
`bias.json` in the folder of its climate condition, and required by every production capture of
that condition: a capture names the BIAS request it relies on.

### Inventory

| Part | State it keeps | Operations | Interacts with | What makes it correct |
|---|---|---|---|---|
| `Master/Services/RecipeEngine.cs` | the run, step receipts, capture batches and waiters, forked captures, BIAS requests, file numbers, safety references, chamber flag | run a recipe, fork and join captures, BIAS and control commands, safety hold, unwinding | PLC, agents by NATS, dashboard (stop, hold, emergency) | receipts exactly once; success means stored; chamber stopped; limits kept; nothing left running; a cancelled run ends |
| `Protocols/Cameras/CameraNatsConnector.cs` | per camera: gate, active operation, verified BIAS, remembered cancellations, subscriptions | capture, BIAS, abort, control, runtime load and unload, serial settings | panel, Master, App | exclusion; aborts final; captures use the required BIAS; every command answered |
| `Protocols/Cameras/BiasOperationRunner.cs`, `Core/Models/BiasExecutionPolicy.cs` | attempt counter | up to four attempts with a time limit each | connector, panel | a success is an attempt whose every phase succeeded |
| `AgentUI/ViewModels/CameraPanelViewModel.cs` | panel gate, applied BIAS, runtime | capture lease, BIAS search, operator's restore, runtime change | camera registers, connector | applied is what the registers hold |
| `AgentUI/App.xaml.cs` | bindings of cameras to devices, panels | hot-plug, panel rebuild, serial reconfiguration | connector, panels | no panel or calibration outlives its device |
| `Protocols/Cameras/ProductionCaptureSink.cs` | local buffer, `bias.json`, frames on their way | write, verify, replace, move by robocopy | connector | no frame lost, no unverified file reported |
| `Protocols/Cameras/CameraRuntime.cs`, `CameraRuntimeManager.cs` | acquisition loop, latest frame | start, stop, swap | panels | no frame of an earlier start |
| `AgentManager/Services/AgentSupervisor.cs`, `ManagerCommandHandler.cs`, `State/ManagerStateStore.cs` | inventory (persisted), desired and pending loads | approve, reject, disable, restart, heartbeat reconciliation, plug-and-play | AgentUI and Master by NATS | commands survive; unwanted cameras are unloaded; no load that nobody asked for |
| `Master/Services/CapturePlanRunService.cs`, `LiteDbCapturePlanRunRepository.cs` | persisted runs and receipts | prepare, receive, close, recover, retry | RecipeEngine | every planned capture has one final outcome, across crashes |
| `참고/util/Mflashtab.cpp`, `Canlab_flash.c` | port, worker thread, receiver flags, enabled controls | open, erase, write, stop, exit | the board's boot loader | one worker at the port; success only when verified; the controls come back |
| `Master/Services/CameraCommandClient.cs`, `NatsSubscriptionLifetime.cs` | commands in flight | send, answer, time out, stop | NATS | every caller is answered once |
| `Master/Services/AgentDirectory.cs`, `ConnectionMonitorService.cs`, `PlcStatusService.cs` | last heartbeats, backoff, last error bits | expire, reconnect, detect edges | NATS, PLC, engine | no stale agent is chosen; every new error raises an alarm |
| `Core/Models/CapturePlanCompiler.cs`, `FindBiasInRangeAsync` | none | pure algorithms | | result equals the reference definition |

The hard behaviours, with their lines and the properties that watch them, are the `hazards` of
`PROJECT.json`: messages that overtake each other (an abort before its request), one gate with
four kinds of users, calibrations that change while a capture relies on them, panels that are
replaced under their users, batches whose results are late or doubled, a finally block that
runs while the operator and the emergency stop go on acting, a robocopy that outlives the
handler that started it, three threads that save one file, a program that dies between two
receipts, and a page of buttons that is all there is between two threads and one serial port.

## 2. Modules

| Module | What it is |
|---|---|
| `CameraOperations` | One camera of an AgentUI: handlers of the connector, the panel, the operator and the device |
| `RecipeEngine` | One Master running recipes against agents, the operator and the emergency stop |
| `CaptureLedger` | The way of the frames of one camera, and of `bias.json`, into the Master's storage |
| `CapturePlanRun` | The runs of a capture plan, their persisted receipts, crashes, recovery and retries |
| `CapturePlanBoard` | What the board of a plan promises; `CapturePlanRun` implements it |
| `StepReports` | What the engine promises to the keeper of receipts; `RecipeEngine` implements it, `CapturePlanRun` relies on it |
| `AgentSupervisor` | The AgentManager of one camera, with AgentUI as it answers to it |
| `FlashTool` | The firmware page: interface thread, worker, receiver and board |
| `CameraOperationsProofs`, `CameraBiasProofs` | TLAPS: exclusion, types, finality of aborts; the calibration invariants |
| `RecipeEngineProofs`, `RecipeResultsProofs` | TLAPS: types, receipts, results, numbers, safety and clean-up of runs; success means stored; the refinement of `StepReports` |
| `CaptureLedgerProofs` | TLAPS: frames kept, complete runs stored, verified BIAS files |
| `CapturePlanRunProofs` | TLAPS: the invariants of the receipts, the refinement of the board, and the engine it expects |
| `AgentSupervisorProofs` | TLAPS: answered commands are kept, no load unasked for |
| `FlashToolProofs` | TLAPS: one worker, success only when verified, no chunk unasked for |
| `MC…` | Workloads, recipes, plans and other values for TLC |

The modules meet in what they say of each other. `RecipeEngine` has agents that send any
result a handler of `CameraOperations` can send; `CameraOperations` has commands that come at
any time and in any order, which is more than the engine sends; `CapturePlanRun` has step events
in every order the engine raises them, and `StepReports` is the contract between the two: the one
is proved to keep it, the other to expect nothing beyond it; `CaptureLedger` takes the product number and the wait for
the transfer from the Master and the handler's frames and cancellations from the connector.

### CameraOperations

A *task* is a handler started by `Track` for one NATS message. `pc[t]` is the await it stands
at, `cmd[t]` its message, `seen[t]` the binding its descriptor was resolved with, `work[t]` its
locals. Steps between two awaits are one action; at an await everything else may happen.

| Variables | Code |
|---|---|
| `gate`, `entered` | the `SemaphoreSlim` in `_cameraOperationGates` and the locals `entered` |
| `active`, `waiting` | `_activeCaptures`, `_activeBias`, and who awaits an operation's `Finished` |
| `remembered`, `cancelled` | `_cancelledRequests`; the `Cancellation` tokens |
| `verified`, `biasFile` | `_verifiedBias`; the content of `bias.json` |
| `panelGate`, `applied`, `loaded`, `evicted` | the panel's command gate and `AppliedBiasResult`, its runtime, handlers of a panel that was replaced |
| `registers` | what the camera really has |
| `binding`, `panelBinding`, `subscribed` | the device now plugged in, the one of the panel, the subscriptions |
| `settled`, `lapsed`, `committed` | history: aborts answered, memory that expired, BIAS acknowledged |

`HandleCaptureAsync` is `Receive`, `Register`, `EnterGate` or `GateRefused`, `EnterCapture`,
`AcquireCaptureLease`, `EnsureBias`, `EnsureBiasFile`, then `BeginShot`, `TakeFrame` or
`LoseFrame`, `BeginSync`, `EndSync`, and `ReleaseCaptureLease`, `Finish`, `Reply`.
`HandleBiasAsync` is `Register`, `CheckStart`, `EnterGate`, `EnterBias`, and per attempt
`BeginAttempt`, `SearchBias`, `BiasApplied` or `BiasNotApplied`, `ConfirmApplication`,
`PersistBias`, `BiasPersisted`, `VerifyBias`, `CommitBias`.
`AbortCameraOperationAsync` is `RememberAbort`, `LookupActive`, `AwaitFinished`.

### RecipeEngine

`pc` is the await the engine stands at; `at` the step; `turn` the round and the camera,
by its place in the step, being served. Batches, waiters and the list of pending captures are as in the code, and
so are `exec` (`StepExecutionState`) and `receipts`. Agents are what the messages they may send
say: any result of a published capture, once for every shot, at any time, or never; a delivered
result may be delivered again. `sent` outlives a run, so late results meet the next one.
The operator resumes from a hold, cancels, and answers the dialog about an abort nobody
confirmed; the emergency stop may be requested, and be reset by the dashboard once the alarms
are gone.

### CaptureLedger

A frame is the number of the run it was taken in, a file its product number, folder and file
number. `buffer` and `storage` are the two file trees, `dirs` what the storage root shows.
`StartRun` is `NextRunProductNumber`. `SendCapture` is the engine's: a production capture names
a BIAS result that was stored in its run, so there is one. At the agent `CheckBias` is
`EnsureBiasForCaptureAsync`, which reads that `bias.json` back in its place before the first shot
and writes it again if it cannot be read or is another; `WriteShot`, `BeginSync` and `EndSync` are
the tail of `CaptureProductionAsync` with `WriteShot` and the sync of the sink; `Abort` is a
cancellation or the end of AgentUI. The robocopy a sync started is `move` while its handler
waits, and joins the `orphans` when the handler leaves: `WaitForExitAsync` takes the token, the
process does not. Both go on by `CopyFile`, `SkipFile` and `DeleteSource`, file by file. `SendBias`
withdraws the last result, and `WriteLocalBias` to `ReportBias` is `WriteAndVerifyBiasJsonAsync`
with its attempts, for a BIAS operation or for a capture (`ForCapture`). `EndSteps`, `Heartbeat` and
`ReportComplete` are the dashboard's wait for the transfer (`PendingFiles` of the heartbeats).

That a product number is not given out again follows from the two together: a run that is
cancelled may have all its frames in the local buffer, where the next run's numbering does not
look, but its `bias.json` has made the product's folder in the storage before the first of them
was taken. The exception is a run that cannot read the storage root, which takes the number
without a suffix, as the comment at `RecipeEngine.cs:1352` says (`guessed`); the runs that share a
number on account of it are `Misnumbered`, and the properties are stated of the others.

### CapturePlanRun and CapturePlanBoard

`store` is the collection of records in LiteDB, `run` the record in memory that every step event
changes and saves. `Prepare` reads the latest chain of attempts and takes the cells that the
mode leaves (`New`, `Remaining`, `FailedOnly`) from the plan as it is edited now; `StartStep`,
`ReportStep` and `UnwindStep` are `OnStep` for the engine's events; `Close` is the end of a run;
`Exit` ends the program anywhere, `Boot`, `RecoverRun` and `Recovered` are the recovery at the
next start, record by record. Every save may fail, and the exception goes the way it goes
through the engine.

`CapturePlanBoard` has two sets, the cells done and the cells of the attempt under way, and says
that only a cell under way is completed, that a retry never repeats a completed cell and that
only a new series forgets one. The refinement mapping takes the completed cells from the stored
receipts (`Shown`), not from memory.

### StepReports

The interface of `StepExecutionChanged` without the engine behind it: what is still to be started
(`todo`), what is started and not reported (`open`), what was last reported of every step, whether
the engine is in its loop, in its finally block or has returned (`mode`), and how it ends. `Start`
says that steps begin in their order and that only forked captures may be open meanwhile;
`Report` and `GiveUp` that only an open step is reported, and as failed once the loop is left;
`GoesOn` that an exception of the handler, a receipt that cannot be saved, ends the loop.
`RecipeEngine` implements it with a mapping from `pc`, `exec` and `outcome`. `CapturePlanRun` has
the same steps in terms of its own variables, with the saving of the receipt.

### AgentSupervisor

`cmd`, `beat` and `worker` are the three threads that share the camera's entry: the handler of
commands, the handler of heartbeats, and the start followed by the plug-and-play events. A step
is what one of them does between two points where the others can come in: the accesses to the
concurrent dictionaries `_loaded` and `_loadAfterHeartbeat`, the messages, and
`Save` with its lock (`BeginSave`, `EndSave`; the file is torn in between). AgentUI is on or off,
has the camera or not and has its runtime open or not; orders to it are handled in any order,
refused or lost. `ManagerEnds` and `Load` are the end of the service anywhere and its next start.

### FlashTool

`dialog` and `enabled` are the interface thread and its buttons, `worker` the one `std::thread`
at a time with its place in `openPort`, the erase or the write loop, `rxThread` the receiver that
turns bytes into `ackReceived`, `complete` and the banner's event, `posted` the queued
invocations of the interface. The board erases, asks for a chunk, verifies, or falls silent.
`session` and `written` are history.

## 3. Runs

Runs of `MCCameraOperations`; deadlock is checked in all of them.

| Run | Bounds | Shows |
|---|---|---|
| `bias` | 2 handlers, 2 shots, 2 attempts, 2 bands, 2 applications | the type invariant, gate exclusion, the verified file, the calibration a capture uses and the one a search acknowledges, with the operator at the panel, plain controls and the unloading of the runtime |
| `rebind` | 2 handlers, 2 devices | what is applied is what the registers hold while the device is replugged, the panel rebuilt and serial settings changed |
| `waiting` | 2 handlers, memory of 1 cancelled request, fair | aborts are final; every command is answered |

Two handlers are enough for every race between a command and another one, an abort or a
replacement, because the third party (operator, hot-plug) is not a handler. The memory of
cancelled requests holds 1024 entries in the code and one here, so that it overflows. Two shots
and two attempts are the first numbers with a "between".

Runs of `MCRecipeEngine`; the system stops after `MaxRuns` runs, so deadlock is not an error
there.

| Run | Bounds | Shows |
|---|---|---|
| `runs` | one run of each of five recipes | receipts, storage, BIAS, file numbers, limits, cleanup; `StepReports` is implemented |
| `ends` | two runs of recipes with a hold, waits, forks and a join, fair | a cancelled run ends; a run stores only its own results |
| `joincancel` (violation) | a fork and a join | a joined capture is not aborted on cancellation |
| `emergency` (violation) | a chamber kept running | a reset emergency stop leaves it on |

The recipes are the smallest in which the interesting orders occur: two cameras forked with a
step before their join and a fork after it; two rounds of two shots; a condition left and come
back to, with offsets that would make file numbers collide; a quantity limited, then set
without limits, while the other stays limited. The second run of `ends` meets the late results
of the first.

| Run | Bounds | Shows |
|---|---|---|
| `planrun` (`MCCapturePlanRun`) | two runs, two cells with three steps, one of them forked, two plans, one fault, a clock that goes back | receipts and outcomes are true, nothing done is repeated, the board is implemented; deadlock is checked |
| `ledger` (`MCCaptureLedger`) | two runs, one folder, 2 shots, 4 file numbers, 3 BIAS files, 2 faults | frames are kept, complete runs stored, stored BIAS files verified |
| `flash` (`MCFlashTool`) | two openings, erases, writes; two regions of two chunks; fair | one worker at a time (also of one kind), success when verified, no chunk unasked for, the controls come back |
| `manager` (`MCAgentSupervisor`) | one command, one fault, one heartbeat and one order of each kind under way, fair | commands are kept, loads are asked for, unwanted cameras are unloaded, the supervisor agrees with the entry |

Two runs are what a retry, a late robocopy and a product number that is met again need; three
BIAS files are one for each run and one that is searched anew or fails, and a second fault in
`ledger` lets a copy fail and the storage root be unreadable in one behaviour. Two regions and
two chunks are the first with a "next" of both kinds, and the second opening is the session that
meets what the first one left. In `manager` one command suffices for every race of a command with
a heartbeat and with an event, since those come without a bound of their own; the end of the
manager, that of AgentUI and an unplugging share the fault, so no behaviour has two of them.
`ledger`, `flash` and `manager` do not check deadlock: the runs of the first are bounded, `Exit`
ends the second, and a torn file ends the third (section 6).

Each violation is explained under `findings` in `PROJECT.json`, with the comment or document
it contradicts.

## 4. Fairness

Safety runs assume none.

- `CameraOperations!Fairness` lets every handler go on: its waits are timed (`WaitAsync` with a
  time limit), its serial calls end by an answer, an error or the limit of the attempt; and the
  operator's own restore ends. Nothing is assumed of the arrival of messages, of hot-plug, or of
  the order of handlers.
- `RecipeEngine!Fairness` lets the engine go on at its awaits (all of them are timed, or take
  the run's token) and has the dialog of an unconfirmed abort answered: `DialogService` shows it
  modally and the cancellation does not close it, so the chamber is kept on and the run does not
  end until somebody answers. Nothing is assumed of agents, nor that a hold is resumed.
- `FlashTool!Fairness`: the worker, the receiver and the event loop of the interface run on.
  Nothing is assumed of the board, which may fall silent in any wait, nor of the operator.
- `AgentSupervisor!Fairness`: the manager's three threads run on, AgentUI sends heartbeats while
  it is on (a timer of its own) and handles the orders it has got. A load may be refused for ever.
  An unload is refused while a camera operation holds the gate longer than the order waits;
  operations end, and the manager sends the order again with every heartbeat, so strong fairness
  of obeying one is what the code gives. AgentUI need not start, nor the camera be plugged in.

## 5. Proofs

Proved for every value of the constants, from the assumptions named in the modules (sets of
distinct values, bounds that are natural numbers). Each module of proofs has one lemma per part of
its invariant and group of actions, and ends with the temporal theorems.

### One camera (`CameraOperationsProofs`, `CameraBiasProofs`)

| Theorem | Property | Inductive invariant |
|---|---|---|
| `GateIsExclusive` | `GateExclusion` | `GateInv`: `GateExclusion` is inductive once the types of `pc` and `entered` are added |
| `TypeCorrect` | `TypeOK` | `TypeInv`: adds what each phase implies of the command (`PhaseInv`), that the active operations are those of registered handlers (`ActiveInv`), and the bounds of the shot and result counters, with the application a write works on (`WorkInv`) |
| `AbortsAreFinal` | `AbortIsFinal` | `AbortInv`: settled aborts are remembered, an abort that is waiting is remembered, and whoever works for a remembered request is cancelled or is being waited for (`StoppedInv`) |
| `AppliedIsInRegisters` | `AppliedMatchesRegisters` | `AppliedInv`: adds that a handler about to apply, unless evicted, holds the panel's gate, and that a BIAS search has cleared `applied` by then |
| `VerifiedIsOnDisk` | `VerifiedFileOnDisk` | `BiasInv`: adds that nothing is verified while a BIAS operation runs, and that from `PersistBias` to `CommitBias` the file holds the application it chose |
| `AcknowledgedIsOwn` | `NoOlderThanOwnSearch` | `OwnInv`: adds that every application a search made is numbered, and that from the end of a search on its number is above those of all other commands and not above that of what is applied |
| `CapturesUseTheirBias` | `CaptureUsesRequiredBias` | `CaptureInv`: adds that applications are fresh (`FreshInv`), that the verified one was committed (`CommittedInv`), and what a capture has exposed so far (`ExposedInv`) |

`TypeOK` is not inductive because the type of `work` and `active` depends on the phase. Gate
exclusion comes first, since everything about `verified` and `biasFile` rests on their being
written only within the gate. The calibration chain then has three links: what the panel says
is in the registers; what is verified is in the file; and a capture compares both before every
exposure and after it.

`NoOlderThanOwnSearch` is as much as the code gives where the operator comes between the search
and the reading of its result (section 6): what is acknowledged may be the operator's calibration,
but is never an older one, one of another band or one of another command. That no other handler
makes an application meanwhile is `GateInv`; that what went before is older is the numbering.

### The engine (`RecipeEngineProofs`, `RecipeResultsProofs`)

For all recipes, cameras, kinds of results and numbers of runs, from `RecipesAssumption`,
`BoundsAssumption` and `NoneAssumption`. All of the safety properties of `runs` and `ends` are
proved:

| Theorem | Property | What carries it |
|---|---|---|
| `TypeCorrect` | `TypeOK` | `PhaseInv` (a run, a step of the right kind, a camera of it and an item of the join exist in the phases that use them); that a step with an item to collect counts at least one needs `CountInv` |
| `ReportedExactlyOnce` | `ReceiptsExactlyOnce` | `StepsInv` (how far each step is: not begun, in execution, dispatched, finished and reported), `CountInv` (the pending count of a step is at least the number of its captures that are forked and not collected), `FinishedInv` (a finished step has none pending) |
| `ResultsAreOfTheRun` | `StoresOwnResults` | `BatchInv` (requests and results carry the run they are of), `SentInv` (an agent sends one result per capture id, of the run of its request) |
| `CapturesAreGivenUp` | `UnjoinedAborted` | `UnjoinedInv`, with `AwaitedInv` (the capture waited for has a batch) |
| `BiasIsTheLast` | `BiasIsLatest` | inductive by itself |
| `NumbersAreDisjoint` | `FileNumbersDisjoint` | `NumbersInv` (numbers given out are below the next one of their destination) |
| `StepsAreSafe` | `SafetyBeforeStep` | `WatchInv` (what is watched is the latest step of each quantity) |
| `ChamberIsStopped` | `StartedChamberStopped` | `StoppedInv` (it holds from the report on) |
| `SucceededIsStored` | `SucceededMeansStored` | `ServedInv`, `BegunInv` |
| `ReportsImplemented` | `ReportsSpec` | `SInv`: `ReceiptInv`, `ForkInv`, `PassedInv`, `LeftInv` |

`IInv` joins the first eight with the types; `TypeOK` is not inductive alone, because a collected
item lowers a count that must not fall below zero. `RecipeResultsProofs` takes `IInv` as proved
and adds the argument about success: while a capture step can still be reported as succeeded,
every camera it has served has its results stored or its capture open (`ServedInv`, where open
means pending or not yet collected by the join). The step is reported in one of three places. At
the end of its turn its count is 0, so by `CountInv` nothing is open; in the join its count is 1,
so only the item being collected is open, and that one is stored now; in the finally block it has
failed, as it was dispatched and so begun (`BegunInv`). `NoMoreThanExpected` is the reason that a
count of results means all of them: capture ids are unique and within what was ordered.

The refinement of `StepReports` takes four more facts. `Start` has to be of the first step not yet
started, with only forks open: every step before the one in execution is finished or waits for
forked results (`PassedInv`), and nothing but a forked capture has results outstanding after its
turn (`ForkInv`). `Stop("ok")` needs that a run that completes has been through all of its steps
(`LeftInv`). And the mapping leaves the loop at the instant a receipt fails, which is right only
because no later state goes on from there (`ReceiptInv`). Each action of the engine is then one
step of the contract, or leaves its variables as they are: a group of lemmas (`WithinSays`,
`CollectSays`, `ReportSays` and so on) says what an action reports, and another maps that.

### The runs of a plan (`CapturePlanRunProofs`)

Theorems `TypeCorrect`, `RunsStoredInOrder`, `DoneIsEveryStep`, `CompletedOnce`,
`ClosedRunsAreTrue`, `NothingIsLeftRunning` and `BoardImplemented`, from one invariant `IInv`:

- `OrderInv` (stored times rise strictly; the run in memory is later than all of them) makes the
  latest run of a chain the last one in it, on which everything about retries rests;
- `PreparedInv` and `CurrentInv` say how the record in memory and the last stored one can differ
  (nothing but what a failed save has not written) and that only the last one is under way;
- `StepsInv` ties `todo` and `open` to the steps of the record, so that a cell can only become
  done with its last step reported;
- `DoneOnce`, `DoneMeansEveryStep` and `ClosedIsTrue` are parts themselves, and `ClosedInv` is
  the part of `ClosedIsTrue` and `NothingLeftRunning` about the phase.

For the refinement every action is shown to be a step of the board or to leave both of its sets:
`Start` is `Renew` or `Resume` (of a series whose done cells it has excluded), a saved step event
is `Complete` of one cell or of none, `Close` and `Exit` are `Stop`, and the recovery changes
neither, since settling never makes or unmakes a done cell.

`EngineExpected` compares what `CapturePlanRun` assumes of the engine with the contract, as an
equivalence of actions in every state of the right types: `StartStep` is `Start` of the contract
with the receipt recorded by `OnStep`, and so for `ReportStep`, `StopEngine`, `UnwindStep` and the
engine's return. The assumption is therefore neither weaker than what `ReportsImplemented` shows of
`RecipeEngine` nor stronger. A run that is refused before it begins (`Refuse`) is there one that is
stopped before its first step.

### Frames and BIAS files (`CaptureLedgerProofs`)

`TypeCorrect`, `FramesAreKept` (`FramesKept`), `CompleteIsStored` (`CompleteMeansStored`)
and `BiasFilesAreVerified` (`BiasFileIsVerified`). `FramesKept` needs that two runs that take frames
have different product numbers, or one was taken unread (`SameRun`). This comes in three steps:
`BiasInv` has the product's folder wherever a BIAS result is stored or about to be reported, so a
capture can only be sent, and can only pass its check, when the folder is there; `FolderInv` keeps
it for every run that has taken a frame or is in a capture (`Took`); and `NumberInv` follows, since
a run that reads the folders takes a number above all of them (`DirsInv`, `NewNumber`). With it
`OwnFolders` says that what lies under a product number was taken in a run of that number, so a name
holds this run's frame or nothing, and `MovesInv` that whatever any robocopy has copied and not
yet deleted is in the storage under its name, so deleting it loses nothing, however many of them
work in one folder. `CompleteMeansStored` rests on `SettledInv`: with the steps over and the last
heartbeat showing no file left, the buffer holds no frame. `CompleteInv` keeps captures of a run
that was reported complete from coming later. `BiasFileIsVerified` also uses from `BiasInv` that
a BIAS operation has withdrawn the result before, and that a capture writes the last one again.

### The manager (`AgentSupervisorProofs`)

`TypeCorrect`, `AnsweredIsKept` (`CommandsAreKept`) and `NoLoadUnasked` (`LoadsAreAsked`).
`CommandsAreKept` speaks of memory and of the next start, so it needs the file: `SaverInv` (the
lock has one holder, and that thread is in its save) and `FlagsInv` (unless a command is under way,
the flags of the entry, of the file and of what a save in progress has serialized are those
answered last). `LoadsAreAsked` needs `AskInv`: a scheduled load, and a heartbeat that changed the
index, mean that a load was asked for since the last one; this only holds because the scheduled
load is taken by the thread that also acts on the change.

### The firmware page (`FlashToolProofs`)

`TypeCorrect`, `WorkersNeverOverlap` (`OneWorker`: whatever starts a worker, of the same kind as the
last or another, finds none running), `SuccessIsAlwaysVerified`
(`SuccessIsVerified`) and `ChunksAreAlwaysAsked` (`ChunksAreAsked`), from one invariant in three
layers:

- the page: which controls are enabled while a worker runs or its end is posted and not handled
  (`WorkingInv`, `PostedInv`, `DialogInv`). The banner is the difficult event, as it enables controls
  from outside of any worker; `BannerInv` says that it is read only while no worker runs and that
  until then nothing but the controls of the port is enabled, so no worker starts before it;
- the files: between two files the board is at none and has verified none that was not noticed
  (`QuietInv`), while one is sent it is at that one and says once that it is complete (`FileInv`), and
  every earlier one was verified unless the write is being ended (`VerifiedInv`). That a timeout
  sets the abort flag is what makes `QuietInv` hold: otherwise the board could still be at a file
  that the program has left;
- the chunks: by the place of the worker, how many acknowledgements can be unread or set and
  whether the board has asked (`AskInv`), as long as no erase of the session was given up.

The receiver's unread bytes enter only by whether a byte is among them, and at most once (`Has`,
`Once`), which is why no bound on their number is needed: erases that are given up can leave any
number of acknowledgements unread, while the posted events are at most two.

### Only model-checked

Liveness (`EveryCommandAnswered`, `CancelledRunEnds`,
`ControlsComeBack`, `UnwantedIsUnloaded`, `LoadedIsWanted`) and `ENABLED` are
outside the prover's reach.

## 6. Where the code departs from its comments

Two of these are runs that end in a counterexample (`joincancel`, `emergency`; see
`findings`). The others were met while modelling; the models have what the code does, and the
properties are stated up to it.

- A capture that is refused or cancelled half-way publishes one failed result for all the shots
  it did not take (`CameraNatsConnector.cs:354`), while the comment at line 334 promises one
  result per shot. The Master then waits for its time limit.
- A BIAS operation reads what the panel has applied after its search (`CameraNatsConnector.cs:943`).
  If the operator restores a calibration in between, that one is written and acknowledged, against
  `docs/BIAS-RETRY-NG.md:16`.
- A chamber start that fails after the run bit was written (`RecipeEngine.cs:522`) leaves the
  engine's flag down and the chamber on, against the comment at line 640.
- The robocopy of a cancelled sync goes on, and the next operation of the camera starts beside it,
  against the comment at `CameraNatsConnector.cs:568`. Nothing is lost by it (`FramesAreKept`).
- Stop sets the abort flag, `closePort` clears it (`Mflashtab.cpp:610`), and the worker reads it
  only when it next looks: a stopped write may be reported as completed, against the comment at
  line 426. `SuccessIsVerified` is stated of writes nobody stopped. A Stop confirmed after the port
  was closed leaves the button disabled until the worker ends.
- `manager-state.json` is written in place (`ManagerStateStore.cs:41`). A manager that dies in the
  write leaves a file the next start cannot read; the model's phase `failed` is where it then stays.
- A wanted camera may stay unloaded: a pending load is cleared by a heartbeat from before the
  unload that says the camera is connected, against the comment at `AgentManager/Program.cs:175`.
  `LoadedIsWanted` speaks of what the supervisor wants, `UnwantedIsUnloaded` of the camera.

## 7. Abstractions, and what is not modelled

- `CameraOperations` has one camera; gates, panels and verified calibrations are kept per
  camera, and two cameras share only the memory of cancelled requests, whose overflow is there.
  All requests are of one storage condition, so `bias.json` is one file.
- The registers of a camera that is replugged quickly are the new device's; that the same
  device may have kept its own is partly covered by the unknown content they start with.
- `OverwriteDuplicateShots` is off; with it on, file numbers are meant to repeat.
- In `RecipeEngine` a recipe is a sequence of step kinds that differ in control. Motor, fan,
  black body and soak steps are one kind. Whether a capture is a production capture is
  a field of its step. The safety hold has a callback, as the dashboard always passes one.
  Of the abort's confirmation only its coming or not coming is kept. A waited plain capture that
  times out is left to its agent by intention, and a cancellation noticed after the last step ends
  as completed; both are as in the code, and no property speaks of them.
- `CaptureLedger` has one camera, a product has one climate condition, and the copy of one file
  is atomic. A buffer that cannot be read (`PendingFiles` then counts none) is left out, and so is
  somebody else who replaces a `bias.json`; the check before a capture may still fail to read it. The
  ways in which the agent forgets a stored BIAS result (a camera that is unplugged or bound anew)
  only refuse captures that the model lets go on. A heartbeat every 5 s and the dashboard's settling
  time of 6 s are why the wait takes only heartbeats that came after the steps. Folders a failed move
  has left behind are not visited again by later runs, in the code as in the model.
- In `CapturePlanRun` LiteDB returns local time, which is compared with UTC; the clock may be set
  back in zones east of UTC, where the code's correction works. West of it a clock that is set back
  may put a retry before its parent; this is not covered.
- `AgentSupervisor` has one camera with a container of its own. The removal from the dictionary and
  the message of a `Kill`, and the two writes of `RequestLoad`, are one step each. Whether a
  heartbeat is still fresh is left open. A stored entry that is disabled was approved, as the
  commands leave it. Renaming, serial settings, log tails and the periodic inventory are left out.
- `FlashTool`: the banner comes once per session, empty files are left out, the stages of the boot
  loader's transfer are one action that may fail, and posted events are handled before clicks, as
  Qt does. The handle of a closed port that other pages of the viewer may still use is left out. A
  file that exists and cannot be opened (`OpenFileFails`) does not stop the write from being
  reported as completed, as in the code; `ChunksAreAsked` excludes a session in which an erase was
  given up and its answer came late.
- Not modelled, with the reason in the `components` of `PROJECT.json`: the camera runtime, the plan
  compiler and the pairing of cameras and ports (pure algorithms over names and numbers), the agent
  directory, connection monitor, PLC status and command client (small services around one
  dictionary and a timer; the modules that use them leave their effects open), the temperature ramp
  (real numbers), NATS, PLC and black body transport, history and clean-up, presentation, the
  console agent and the simulator. The vendor's viewer apart from its firmware page is display and
  image arithmetic, and the headers of OpenCV beside it are a third party's.

## 8. Plan

Done: the modules above with their proofs. Left, in the order of what they would add:

1. `CameraRuntime` (start, stop and swap against readers of the latest frame) and `CommandClient`
   with the subscription lifetime.
2. The attempts of `BiasOperationRunner` with their time limits as an implementation of the
   operation that `CameraOperations` has.
3. Pure algorithms against reference definitions: `FindBiasInRange`, the compiler's offsets, capture
   repeats, the pairing of cameras and ports.
4. The engine's batches and the connector's handlers over one network, in place of the agents that
   `RecipeEngine` leaves open.
