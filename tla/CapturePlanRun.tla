---------------------------- MODULE CapturePlanRun ----------------------------
(***************************************************************************)
(* Runs of a capture plan and their receipts (CapturePlanRunService and    *)
(* LiteDbCapturePlanRunRepository).  A run is prepared from the receipts   *)
(* of the runs before it, executed by the recipe engine, whose step events *)
(* are written into the run's record and saved one by one, and closed.     *)
(* The program may end at any point and any save may fail; the records     *)
(* that a start finds still running are then recovered.                    *)
(***************************************************************************)
EXTENDS Naturals, Sequences

CONSTANTS
  Cells,      \* cells of a plan: an entry's template for one camera
  Rank,       \* the order in which a plan runs its cells
  Steps,      \* step numbers of the templates
  Template,   \* the steps of each cell's template, in order
  Forked,     \* the captures among a cell's steps that the engine does not wait for
  Plans,      \* the sets of cells that the plan can be edited to
  MaxRuns,    \* bound: runs saved in the life of the store
  Times,      \* bound: readings of the wall clock, which may go back
  Zone,       \* by how much the local time, in which the store returns a time, is ahead of UTC
  MaxFaults   \* bound: failed saves and ends of the program

ASSUME PlanAssumption ==
  /\ Rank \in [Cells -> Nat]
  /\ \A c, d \in Cells : Rank[c] = Rank[d] => c = d
  /\ Steps \subseteq Nat /\ Template \in [Cells -> (SUBSET Steps) \ {{}}]
  /\ Plans \subseteq SUBSET Cells /\ Times \subseteq Nat /\ Zone \in Nat /\ MaxRuns \in Nat /\ MaxFaults \in Nat

VARIABLES
  store,      \* the saved records of its runs, by creation
  run,        \* the record of the run under way, in memory
  phase,      \* what the program is doing with it
  todo,       \* the steps of the run that are not started
  open,       \* the steps that are started and not reported
  ending,     \* how the engine leaves the run
  unsaved,    \* some run could not be closed in the store since the last start
  faults      \* failed saves and ends of the program so far

vars == <<store, run, phase, todo, open, ending, unsaved, faults>>

Left == {"Excluded", "Absent"}          \* no receipt of this run for the cell
CellStates == {"Pending", "Running", "Done", "Failed", "Skipped"} \cup Left
StepOutcomes == {"none", "Started", "Succeeded", "Failed", "Skipped"}
RunOutcomes == {"Running", "Completed", "CompletedWithFailures", "Cancelled", "Failed", "Interrupted"}
Modes == {"New", "Remaining", "FailedOnly"}
Receipts == [state : CellStates, steps : [Steps -> StepOutcomes]]
Records == [root : Nat, parent : Nat, at : Nat, outcome : RunOutcomes, cells : [Cells -> Receipts]]
Executing == {"running", "unwinding", "closing"}

TypeOK ==
  /\ store \in Seq(Records)
  /\ run \in Records
  /\ phase \in {"off", "recovering", "idle", "prepared"} \cup Executing
  /\ todo \subseteq Cells \X Steps /\ open \subseteq (Cells \X Steps) \ todo
  /\ todo # {} => phase \in {"prepared", "running"}
  /\ open # {} => phase \in {"running", "unwinding"}
  /\ ending \in {"ok", "cancelled", "error"}
  /\ unsaved \in BOOLEAN
  /\ faults \in 0..MaxFaults

NoReceipt == [state |-> "Absent", steps |-> [s \in Steps |-> "none"]]
NoRun == [root |-> 0, parent |-> 0, at |-> 0, outcome |-> "Running", cells |-> [c \in Cells |-> NoReceipt]]

Init ==
  /\ store = << >> /\ run = NoRun /\ phase = "idle"
  /\ todo = {} /\ open = {} /\ ending = "ok" /\ unsaved = FALSE /\ faults = 0

-------------------------------------------------------------------------------
(* The latest chain of attempts, and the cells' latest receipts in it.      *)

Roots == {r \in DOMAIN store : store[r].root = r}
EveryRun == DOMAIN store
IsLatestRoot(r) == r \in Roots /\ \A q \in Roots : store[q].at <= store[r].at
Chain == {i \in DOMAIN store : IsLatestRoot(store[i].root)}
IsPrevious(i) == i \in Chain /\ \A j \in Chain : store[j].at <= store[i].at

Attempts(c) == {i \in Chain : store[i].cells[c].state \notin Left}
IsLatestReceipt(c, i) == i \in Attempts(c) /\ \A j \in Attempts(c) : store[j].at <= store[i].at

\* The board shows the cell in this state.
Shown(c, state) == \E i \in DOMAIN store : IsLatestReceipt(c, i) /\ store[i].cells[c].state = state

SelectedUnlessSkipped(mode, c) ==
  CASE mode = "New" -> TRUE
    [] mode = "Remaining" -> ~Shown(c, "Skipped")
    [] mode = "FailedOnly" -> Shown(c, "Failed")
Selected(mode, c) ==
  CASE mode = "New" -> TRUE
    [] mode = "Remaining" -> ~Shown(c, "Done")
    [] mode = "FailedOnly" -> Shown(c, "Failed")

\* The time of a run is later than that of the run before it, whatever the clock says.
\* (The clock is read as UTC and compared with the stored time as a local one.)
StartTimeRead(now, previous) == now
StartTime(now, previous) == IF now <= previous + Zone + 1 THEN previous + 1 ELSE now

-------------------------------------------------------------------------------
(* Preparing and starting a run.                                            *)

Fresh(plan, mode, c) == [state |-> IF c \notin plan THEN "Absent" ELSE IF Selected(mode, c) THEN "Pending" ELSE "Excluded",
                         steps |-> [s \in Steps |-> "none"]]

PrepareAs(plan, mode, now, previous) ==
  LET new == Len(store) + 1
      first == mode = "New" \/ Chain = {}
      cells == [c \in Cells |-> Fresh(plan, mode, c)]
  IN /\ run' = [root |-> IF first THEN new ELSE store[previous].root,
                parent |-> IF first THEN 0 ELSE previous,
                at |-> IF Chain = {} THEN now ELSE StartTime(now, store[previous].at),
                outcome |-> "Running", cells |-> cells]
     /\ todo' = {p \in Cells \X Steps : p[2] \in Template[p[1]] /\ cells[p[1]].state = "Pending"}

\* The plan is read again for every run and may have been edited since the run before.
\* A run without a cell is not started.
Prepare(plan, mode) ==
  /\ phase = "idle" /\ Len(store) < MaxRuns
  /\ \E now \in Times, previous \in DOMAIN store \cup {0} :
       /\ IF Chain = {} THEN previous = 0 ELSE IsPrevious(previous)
       /\ PrepareAs(plan, mode, now, previous)
  /\ \E c \in plan : Selected(mode, c)
  /\ phase' = "prepared" /\ open' = {} /\ ending' = "ok"
  /\ UNCHANGED <<store, unsaved, faults>>

\* The operator does not confirm, or the first save fails: nothing is left of the run.
Drop ==
  /\ phase = "prepared"
  /\ phase' = "idle" /\ run' = NoRun /\ todo' = {}
  /\ UNCHANGED <<store, open, ending, unsaved, faults>>

Start ==
  /\ phase = "prepared"
  /\ store' = Append(store, run) /\ phase' = "running"
  /\ UNCHANGED <<run, todo, open, ending, unsaved, faults>>

-------------------------------------------------------------------------------
(* The engine's step events and their receipts.                             *)

ApplyStepUnreported(c, cell, s, outcome) ==
  LET steps == [cell.steps EXCEPT ![s] = outcome]
      state == CASE outcome = "Failed" -> "Failed"
                 [] outcome = "Skipped" /\ cell.state # "Failed" -> "Skipped"
                 [] outcome # "Failed" /\ cell.state \notin {"Failed", "Skipped"} ->
                      IF \A t \in Template[c] : steps[t] \notin {"none", "Failed", "Skipped"} THEN "Done" ELSE "Running"
                 [] OTHER -> cell.state
  IN [state |-> state, steps |-> steps]
ApplyStep(c, cell, s, outcome) ==
  LET steps == [cell.steps EXCEPT ![s] = outcome]
      state == CASE outcome = "Failed" -> "Failed"
                 [] outcome = "Skipped" /\ cell.state # "Failed" -> "Skipped"
                 [] outcome # "Failed" /\ cell.state \notin {"Failed", "Skipped"} ->
                      IF \A t \in Template[c] : steps[t] = "Succeeded" THEN "Done" ELSE "Running"
                 [] OTHER -> cell.state
  IN [state |-> state, steps |-> steps]

\* A save replaces the run's record as a whole; it may fail and then raises an exception.
Persist(record, saved) ==
  /\ ~saved => faults < MaxFaults
  /\ store' = IF saved THEN [store EXCEPT ![Len(store)] = record] ELSE store
  /\ faults' = IF saved THEN faults ELSE faults + 1

OnStep(p, outcome, saved) ==
  /\ run' = [run EXCEPT !.cells[p[1]] = ApplyStep(p[1], @, p[2], outcome)]
  /\ Persist(run', saved)

Before(p, q) == Rank[p[1]] < Rank[q[1]] \/ (p[1] = q[1] /\ p[2] < q[2])
IsFirst(p, S) == p \in S /\ \A q \in S : q = p \/ Before(p, q)

\* A failed save in a step event leaves the steps for the engine's cleanup.
GoesOnUnsaved(saved, remaining) ==
  /\ todo' = remaining
  /\ phase' = IF saved THEN "running" ELSE "unwinding"
  /\ ending' = IF saved THEN ending ELSE "error"
GoesOn(saved, remaining) ==
  /\ todo' = IF saved THEN remaining ELSE {}
  /\ phase' = IF saved THEN "running" ELSE "unwinding"
  /\ ending' = IF saved THEN ending ELSE "error"

StartStep(p, saved) ==
  /\ phase = "running" /\ IsFirst(p, todo) /\ \A q \in open : q[2] \in Forked
  /\ open' = open \cup {p}
  /\ OnStep(p, "Started", saved) /\ GoesOn(saved, todo \ {p})
  /\ UNCHANGED unsaved

ReportStep(p, outcome, saved) ==
  /\ phase = "running" /\ p \in open
  /\ open' = open \ {p}
  /\ OnStep(p, outcome, saved) /\ GoesOn(saved, todo)
  /\ UNCHANGED unsaved

\* The last step is done, or the run is cancelled or breaks off, before or in a step.
StopEngine(how) ==
  /\ phase = "running"
  /\ how = "ok" => todo = {} /\ (\A q \in open : q[2] \in Forked)
  /\ phase' = "unwinding" /\ ending' = how /\ todo' = {}
  /\ UNCHANGED <<store, run, open, unsaved, faults>>

\* What is still open is reported as failed, in order, up to a save that fails.
UnwindStep(p, saved) ==
  /\ phase = "unwinding" /\ IsFirst(p, open)
  /\ OnStep(p, "Failed", saved)
  /\ open' = IF saved THEN open \ {p} ELSE {}
  /\ phase' = IF saved THEN "unwinding" ELSE "closing"
  /\ ending' = IF saved THEN ending ELSE "error"
  /\ UNCHANGED <<todo, unsaved>>

EngineReturns ==
  /\ phase = "unwinding" /\ open = {}
  /\ phase' = "closing"
  /\ UNCHANGED <<store, run, todo, open, ending, unsaved, faults>>

-------------------------------------------------------------------------------
(* Closing a run, and the end and the start of the program.                 *)

OutcomeOf(cells) ==
  LET in == {cells[c].state : c \in Cells}
  IN CASE in \cap {"Pending", "Running"} # {} -> "Failed"
       [] in \cap {"Pending", "Running"} = {} /\ in \cap {"Failed", "Skipped"} # {} -> "CompletedWithFailures"
       [] OTHER -> "Completed"

\* No cell of a closed run is left running.
Unsettled(cells) == cells
Settled(cells) == [c \in Cells |-> IF cells[c].state = "Running" THEN [cells[c] EXCEPT !.state = "Failed"] ELSE cells[c]]

\* A cancellation is still noticed when the engine has returned; the outcome is
\* taken before the cells are settled.
Close(cancelled, saved) ==
  /\ phase = "closing"
  /\ LET outcome == CASE ending = "cancelled" \/ (ending = "ok" /\ cancelled) -> "Cancelled"
                      [] ending = "ok" /\ ~cancelled -> OutcomeOf(run.cells)
                      [] OTHER -> "Failed"
     IN Persist([run EXCEPT !.outcome = outcome, !.cells = Settled(@)], saved)
  /\ phase' = "idle" /\ run' = NoRun /\ todo' = {} /\ open' = {} /\ ending' = "ok"
  /\ unsaved' = (unsaved \/ ~saved)

\* The program is closed between two runs, or dies anywhere.
Exit ==
  /\ \/ phase = "idle" /\ UNCHANGED faults
     \/ phase # "off" /\ faults < MaxFaults /\ faults' = faults + 1
  /\ phase' = "off" /\ run' = NoRun /\ todo' = {} /\ open' = {} /\ ending' = "ok"
  /\ UNCHANGED <<store, unsaved>>

Boot ==
  /\ phase = "off"
  /\ phase' = "recovering"
  /\ UNCHANGED <<store, run, todo, open, ending, unsaved, faults>>

\* The interrupted records are closed one by one.
RecoverRun(i) ==
  /\ phase = "recovering" /\ store[i].outcome = "Running"
  /\ store' = [store EXCEPT ![i].outcome = "Interrupted", ![i].cells = Settled(@)]
  /\ UNCHANGED <<run, phase, todo, open, ending, unsaved, faults>>

RecoveredAtOnce ==
  /\ phase = "recovering"
  /\ phase' = "idle" /\ unsaved' = FALSE
  /\ UNCHANGED <<store, run, todo, open, ending, faults>>
Recovered ==
  /\ phase = "recovering" /\ \A i \in DOMAIN store : store[i].outcome # "Running"
  /\ phase' = "idle" /\ unsaved' = FALSE
  /\ UNCHANGED <<store, run, todo, open, ending, faults>>

EngineStep ==
  \/ \E p \in todo, saved \in BOOLEAN : StartStep(p, saved)
  \/ \E p \in open, outcome \in {"Succeeded", "Failed", "Skipped"}, saved \in BOOLEAN : ReportStep(p, outcome, saved)
  \/ \E p \in open, saved \in BOOLEAN : UnwindStep(p, saved)
  \/ EngineReturns

Next ==
  \/ \E plan \in Plans, mode \in Modes : Prepare(plan, mode)
  \/ Drop
  \/ Start
  \/ EngineStep
  \/ \E how \in {"ok", "cancelled", "error"} : StopEngine(how)
  \/ \E cancelled, saved \in BOOLEAN : Close(cancelled, saved)
  \/ Exit
  \/ Boot
  \/ \E i \in DOMAIN store : RecoverRun(i)
  \/ Recovered

Spec == Init /\ [][Next]_vars

-------------------------------------------------------------------------------
(* What is to hold.                                                         *)

\* Runs are ordered by the time they were prepared, also when the clock goes back
\* between them: the chain a retry reads ends with the attempt made last.
StoredInOrder == \A i, j \in DOMAIN store : i < j => store[i].at < store[j].at

\* A cell is stored as done only if every step of its template succeeded in that
\* one run, whatever order the answers of its captures came in.
DoneMeansEveryStep ==
  \A i \in DOMAIN store, c \in Cells :
    store[i].cells[c].state = "Done" => \A s \in Template[c] : store[i].cells[c].steps[s] = "Succeeded"

\* What one attempt of a series has completed no later attempt repeats, over
\* crashes, retries and edits of the plan.
DoneOnce ==
  \A i, j \in DOMAIN store, c \in Cells :
    i < j /\ store[i].root = store[j].root /\ store[i].cells[c].state = "Done"
      => store[j].cells[c].state \in Left

\* A run that ended has no running cell, and says it completed only if every cell it had is done.
ClosedIsTrue ==
  \A i \in DOMAIN store :
    /\ store[i].outcome # "Running" => \A c \in Cells : store[i].cells[c].state # "Running"
    /\ store[i].outcome = "Completed" => \A c \in Cells : store[i].cells[c].state \in Left \cup {"Done"}
    /\ store[i].outcome = "CompletedWithFailures" =>
         \A c \in Cells : store[i].cells[c].state \in Left \cup {"Done", "Failed", "Skipped"}

\* Whatever ended the program or the run, no earlier run still shows as running once
\* the program is up, except one it could not save itself since it started.
NothingLeftRunning ==
  phase \in {"idle", "prepared"} /\ ~unsaved => \A i \in DOMAIN store : store[i].outcome # "Running"

-------------------------------------------------------------------------------
(* The board that the store shows implements the abstract one.              *)

DoneCells == {c \in Cells : Shown(c, "Done")}
BusyCells == IF phase \in Executing
             THEN {c \in Cells : run.cells[c].state \notin Left} \ DoneCells
             ELSE {}

Board == INSTANCE CapturePlanBoard WITH done <- DoneCells, busy <- BusyCells
BoardSpec == Board!Spec

-------------------------------------------------------------------------------
(* What is expected of the recipe engine: RecipeEngine implements it.       *)

LastReports == [p \in Cells \X Steps |-> run.cells[p[1]].steps[p[2]]]
Reports == INSTANCE StepReports WITH
             Precedes <- Before, mode <- phase, forked <- {p \in Cells \X Steps : p[2] \in Forked},
             reports <- LastReports
===============================================================================
