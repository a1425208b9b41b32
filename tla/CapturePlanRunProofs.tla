------------------------- MODULE CapturePlanRunProofs -------------------------
(***************************************************************************)
(* Proofs about CapturePlanRun, for all plans, templates and numbers of    *)
(* runs and crashes: the type invariant, the order of the attempts, that   *)
(* no attempt repeats what an earlier one of its series completed, what    *)
(* the stored receipts mean, that the board the operator sees implements   *)
(* CapturePlanBoard, and that the engine is expected to do what            *)
(* StepReports says.                                                       *)
(***************************************************************************)
EXTENDS CapturePlanRun, TLAPS

(* The inductive invariant, in parts. *)

\* A run belongs to the series of the run before it or starts a series of its own.
SeriesContiguous ==
  \A i, j \in DOMAIN store : i < j => store[j].root = store[i].root \/ store[j].root > i

RootsStored ==
  \A i \in DOMAIN store : store[i].root \in 1..i /\ store[store[i].root].root = store[i].root

OrderInv == StoredInOrder /\ SeriesContiguous /\ RootsStored

\* A prepared run continues the last series or begins one, later than the last run,
\* without a cell the series has completed.
PreparedInv == phase = "prepared" =>
  /\ run.root = Len(store) + 1 \/ (Len(store) > 0 /\ run.root = store[Len(store)].root)
  /\ Len(store) > 0 => store[Len(store)].at < run.at
  /\ run.outcome = "Running"
  /\ \A c \in Cells : run.cells[c].state \in {"Pending"} \cup Left
  /\ \A i \in DOMAIN store, c \in Cells :
       store[i].root = run.root /\ store[i].cells[c].state = "Done" => run.cells[c].state \in Left

\* The run under way is the last one stored, and ahead of what is stored of it.
CurrentInv == phase \in Executing =>
  /\ Len(store) > 0
  /\ run.root = store[Len(store)].root /\ run.at = store[Len(store)].at
  /\ run.outcome = "Running" /\ store[Len(store)].outcome = "Running"
  /\ \A c \in Cells : store[Len(store)].cells[c].state \in Left <=> run.cells[c].state \in Left
  /\ \A c \in Cells : store[Len(store)].cells[c].state = "Done" => run.cells[c].state = "Done"

\* A step that can still be reported belongs to a cell of the run that is not done.
StepsInv ==
  /\ \A p \in todo \cup open :
       /\ p[2] \in Template[p[1]]
       /\ run.cells[p[1]].state \notin Left
       /\ run.cells[p[1]].steps[p[2]] # "Succeeded"
  /\ \A c \in Cells : run.cells[c].state = "Done" => \A s \in Template[c] : run.cells[c].steps[s] = "Succeeded"

\* Only the run under way, or one that could not be saved, is stored as running.
ClosedInv == phase \notin {"off", "recovering"} /\ ~unsaved =>
  \A i \in DOMAIN store : store[i].outcome = "Running" => phase \in Executing /\ i = Len(store)

IInv == TypeOK /\ OrderInv /\ PreparedInv /\ CurrentInv /\ StepsInv
        /\ DoneOnce /\ DoneMeansEveryStep /\ ClosedIsTrue /\ ClosedInv

-------------------------------------------------------------------------------
(* Receipts and records. *)

LEMMA ReceiptType ==
  ASSUME NEW x \in Receipts
  PROVE  x.state \in CellStates /\ x.steps \in [Steps -> StepOutcomes]
BY DEF Receipts

LEMMA RecordType ==
  ASSUME NEW r \in Records
  PROVE  /\ r.root \in Nat /\ r.parent \in Nat /\ r.at \in Nat /\ r.outcome \in RunOutcomes
         /\ r.cells \in [Cells -> Receipts]
         /\ \A c \in Cells : r.cells[c] \in Receipts
BY DEF Records

LEMMA ApplyStepType ==
  ASSUME NEW c \in Cells, NEW x \in Receipts, NEW s \in Steps, NEW o \in StepOutcomes
  PROVE  ApplyStep(c, x, s, o) \in Receipts
<1>1. [x.steps EXCEPT ![s] = o] \in [Steps -> StepOutcomes]
  BY ReceiptType
<1>2. ApplyStep(c, x, s, o).state \in CellStates
  BY ReceiptType DEF ApplyStep, CellStates, Left
<1>3. ApplyStep(c, x, s, o) = [state |-> ApplyStep(c, x, s, o).state, steps |-> [x.steps EXCEPT ![s] = o]]
  BY DEF ApplyStep
<1> QED BY <1>1, <1>2, <1>3 DEF Receipts

\* A receipt of a cell of the run stays one; a cell that is not done becomes done only
\* when every step has succeeded.
LEMMA ApplyStepFacts ==
  ASSUME PlanAssumption, NEW c \in Cells, NEW x \in Receipts, NEW s \in Template[c], NEW o \in StepOutcomes,
         x.state \notin Left, x.state = "Done" => x.steps[s] = "Succeeded", x.steps[s] # "Succeeded"
  PROVE  LET y == ApplyStep(c, x, s, o) IN
         /\ x.state # "Done" /\ y.state \notin Left
         /\ y.steps = [x.steps EXCEPT ![s] = o]
         /\ y.state = "Done" => \A t \in Template[c] : y.steps[t] = "Succeeded"
<1> USE ReceiptType
<1>1. s \in Steps BY DEF PlanAssumption
<1> QED BY <1>1 DEF ApplyStep, CellStates, Left

LEMMA SettledType ==
  ASSUME NEW cells \in [Cells -> Receipts]
  PROVE  /\ Settled(cells) \in [Cells -> Receipts]
         /\ \A c \in Cells : /\ Settled(cells)[c].state # "Running"
                             /\ Settled(cells)[c].steps = cells[c].steps
                             /\ cells[c].state # "Running" => Settled(cells)[c].state = cells[c].state
                             /\ Settled(cells)[c].state \in Left <=> cells[c].state \in Left
                             /\ Settled(cells)[c].state = "Done" <=> cells[c].state = "Done"
<1>1. ASSUME NEW c \in Cells, cells[c].state = "Running"
      PROVE  [cells[c] EXCEPT !.state = "Failed"] \in Receipts
  BY <1>1 DEF Receipts, CellStates
<1> QED BY <1>1 DEF Settled, Receipts, Left

LEMMA Replaced ==
  ASSUME NEW s \in Seq(Records), NEW i \in DOMAIN s, NEW r \in Records
  PROVE  LET t == [s EXCEPT ![i] = r] IN
         /\ t \in Seq(Records) /\ DOMAIN t = DOMAIN s /\ Len(t) = Len(s)
         /\ t[i] = r /\ \A j \in DOMAIN s : j # i => t[j] = s[j]
OBVIOUS

LEMMA Appended ==
  ASSUME NEW s \in Seq(Records), NEW r \in Records
  PROVE  LET t == Append(s, r) IN
         /\ t \in Seq(Records) /\ Len(t) = Len(s) + 1 /\ DOMAIN t = 1..(Len(s) + 1)
         /\ t[Len(s) + 1] = r /\ \A j \in DOMAIN s : t[j] = s[j]
OBVIOUS

-------------------------------------------------------------------------------
(* The latest series. *)

\* In the order of creation the last run belongs to the latest series, and it is the one
\* that a further attempt follows.
LEMMA LatestSeries ==
  ASSUME TypeOK, OrderInv, Len(store) > 0
  PROVE  /\ \A r : IsLatestRoot(r) <=> r = store[Len(store)].root
         /\ \A i : i \in Chain <=> i \in DOMAIN store /\ store[i].root = store[Len(store)].root
         /\ \A i : IsPrevious(i) <=> i = Len(store)
<1> DEFINE n == Len(store)
           R == store[n].root
<1>1. store \in Seq(Records) /\ n \in DOMAIN store /\ DOMAIN store = 1..n
  BY DEF TypeOK
<1>2. \A i \in DOMAIN store : store[i].root \in Nat /\ store[i].at \in Nat
  BY <1>1, RecordType
<1>3. R \in Roots
  BY <1>1 DEF OrderInv, RootsStored, Roots
<1>4. \A q \in Roots : q <= R
  <2> SUFFICES ASSUME NEW q \in Roots, q > R PROVE FALSE
    BY <1>1, <1>2, <1>3 DEF Roots
  <2>1. q \in 1..n /\ store[q].root = q
    BY <1>1 DEF Roots
  <2>2. q < n
    BY <1>1, <1>2, <2>1
  <2> QED BY <1>1, <1>2, <2>1, <2>2 DEF OrderInv, SeriesContiguous
<1>5. \A q \in Roots : q # R => store[q].at < store[R].at
  BY <1>1, <1>2, <1>3, <1>4 DEF Roots, OrderInv, StoredInOrder
<1>6. \A q \in Roots : store[q].at <= store[R].at
  BY <1>1, <1>2, <1>3, <1>5 DEF Roots
<1>7. \A r : IsLatestRoot(r) <=> r = R
  <2>1. ASSUME NEW r, IsLatestRoot(r) PROVE r = R
    BY <2>1, <1>1, <1>2, <1>3, <1>5 DEF IsLatestRoot, Roots
  <2> QED BY <2>1, <1>3, <1>6 DEF IsLatestRoot
<1>8. \A i : i \in Chain <=> i \in DOMAIN store /\ store[i].root = R
  BY <1>7 DEF Chain
<1>9. \A i : IsPrevious(i) <=> i = n
  <2>1. \A i \in Chain : i # n => store[i].at < store[n].at
    BY <1>1, <1>8 DEF OrderInv, StoredInOrder
  <2>2. n \in Chain
    BY <1>1, <1>8
  <2>3. ASSUME NEW i, IsPrevious(i) PROVE i = n
    BY <2>1, <2>2, <2>3, <1>1, <1>2, <1>8 DEF IsPrevious
  <2>4. \A j \in Chain : store[j].at <= store[n].at
    BY <2>1, <1>1, <1>2, <1>8
  <2> QED BY <2>2, <2>3, <2>4 DEF IsPrevious
<1> HIDE DEF n, R
<1> QED BY <1>7, <1>8, <1>9 DEF n, R

LEMMA NoSeries ==
  ASSUME TypeOK, OrderInv, Len(store) = 0
  PROVE  Chain = {} /\ DOMAIN store = {}
BY DEF TypeOK, Chain

\* What the series has completed is what the board shows as done.
LEMMA DoneIsShown ==
  ASSUME TypeOK, OrderInv, DoneOnce, NEW c \in Cells
  PROVE  (\E i \in Chain : store[i].cells[c].state = "Done") <=> Shown(c, "Done")
<1>0. DOMAIN store = 1..Len(store) /\ Len(store) \in Nat /\ \A i \in DOMAIN store : store[i] \in Records
  BY DEF TypeOK
<1>1. \A i \in DOMAIN store : store[i].at \in Nat
  BY <1>0, RecordType
<1>2. ASSUME NEW i \in Chain, store[i].cells[c].state = "Done" PROVE Shown(c, "Done")
  <2>1. i \in DOMAIN store /\ i \in Attempts(c)
    BY <1>2 DEF Chain, Attempts, Left
  <2>2. ASSUME NEW j \in Attempts(c) PROVE store[j].at <= store[i].at
    <3>1. j \in DOMAIN store /\ store[j].root = store[i].root
      <4>1. j \in Chain /\ j \in DOMAIN store
        BY DEF Attempts, Chain
      <4>2. Len(store) > 0
        BY <1>0, <4>1
      <4> QED BY <4>1, <4>2, LatestSeries, <1>2
    <3>2. ~(i < j)
      BY <3>1, <2>1, <1>2 DEF DoneOnce, Attempts
    <3> QED BY <3>1, <3>2, <2>1, <1>0, <1>1 DEF OrderInv, StoredInOrder
  <2> QED BY <2>1, <2>2, <1>2 DEF Shown, IsLatestReceipt
<1>3. ASSUME Shown(c, "Done") PROVE \E i \in Chain : store[i].cells[c].state = "Done"
  BY <1>3 DEF Shown, IsLatestReceipt, Attempts
<1> QED BY <1>2, <1>3

\* A cell that a further attempt selects has not been completed in the series.
LEMMA SelectedNotDone ==
  ASSUME TypeOK, OrderInv, DoneOnce, NEW c \in Cells, NEW mode \in Modes, mode # "New", Selected(mode, c),
         NEW i \in Chain
  PROVE  store[i].cells[c].state # "Done"
<1> SUFFICES ASSUME store[i].cells[c].state = "Done" PROVE FALSE
  OBVIOUS
<1>1. Shown(c, "Done")
  BY DoneIsShown
<1>2. mode = "FailedOnly" /\ Shown(c, "Failed")
  BY <1>1 DEF Modes, Selected
<1>3. PICK j \in DOMAIN store : IsLatestReceipt(c, j) /\ store[j].cells[c].state = "Failed"
  BY <1>2 DEF Shown
<1>4. PICK k \in DOMAIN store : IsLatestReceipt(c, k) /\ store[k].cells[c].state = "Done"
  BY <1>1 DEF Shown
<1>5. store[j].at \in Nat /\ store[k].at \in Nat /\ j \in Nat /\ k \in Nat
  BY RecordType DEF TypeOK
<1>6. store[j].at = store[k].at
  BY <1>3, <1>4, <1>5 DEF IsLatestReceipt
<1> QED BY <1>3, <1>4, <1>5, <1>6 DEF OrderInv, StoredInOrder

-------------------------------------------------------------------------------
(* What a step does to the stored records. *)

LEMMA StoreKept ==
  ASSUME OrderInv, DoneOnce, DoneMeansEveryStep, ClosedIsTrue, store' = store
  PROVE  OrderInv' /\ DoneOnce' /\ DoneMeansEveryStep' /\ ClosedIsTrue'
BY DEF OrderInv, StoredInOrder, SeriesContiguous, RootsStored, DoneOnce, DoneMeansEveryStep, ClosedIsTrue

\* A record may be replaced by one of the same run and the same cells; only the last run
\* may complete cells.
LEMMA RecordReplaced ==
  ASSUME TypeOK, OrderInv, DoneOnce, DoneMeansEveryStep,
         store' \in Seq(Records), DOMAIN store' = DOMAIN store, NEW i \in DOMAIN store,
         \A j \in DOMAIN store : j # i => store'[j] = store[j],
         store'[i].root = store[i].root, store'[i].at = store[i].at,
         \A c \in Cells : store[i].cells[c].state \in Left <=> store'[i].cells[c].state \in Left,
         i = Len(store) \/ \A c \in Cells : store'[i].cells[c].state = "Done" => store[i].cells[c].state = "Done",
         \A c \in Cells : store'[i].cells[c].state = "Done" =>
           \A s \in Template[c] : store'[i].cells[c].steps[s] = "Succeeded"
  PROVE  OrderInv' /\ DoneOnce' /\ DoneMeansEveryStep'
<1>1. store \in Seq(Records) /\ DOMAIN store = 1..Len(store) /\ Len(store) \in Nat
  BY DEF TypeOK
<1>2. /\ store' \in Seq(Records) /\ DOMAIN store' = DOMAIN store /\ Len(store') = Len(store)
      /\ \A j \in DOMAIN store : j # i => store'[j] = store[j]
  BY <1>1
<1>3. \A j \in DOMAIN store : store'[j].root = store[j].root /\ store'[j].at = store[j].at
  BY <1>2
<1>4. OrderInv'
  <2>1. \A j \in DOMAIN store : store[j].root \in DOMAIN store
    BY <1>1 DEF OrderInv, RootsStored
  <2> QED BY <1>2, <1>3, <2>1 DEF OrderInv, StoredInOrder, SeriesContiguous, RootsStored
<1>5. DoneOnce'
  <2> SUFFICES ASSUME NEW j \in DOMAIN store, NEW k \in DOMAIN store, NEW c \in Cells,
                      j < k, store[j].root = store[k].root, store'[j].cells[c].state = "Done"
               PROVE  store'[k].cells[c].state \in Left
    BY <1>2, <1>3 DEF DoneOnce
  <2>1. store[j].cells[c].state = "Done"
    BY <1>1, <1>2
  <2>2. store[k].cells[c].state \in Left
    BY <2>1 DEF DoneOnce
  <2> QED BY <2>2, <1>2
<1>6. DoneMeansEveryStep'
  BY <1>2 DEF DoneMeansEveryStep
<1> QED BY <1>4, <1>5, <1>6

\* A step event changes the run in memory and, if it can be saved, the stored one.
LEMMA OnStepEffect ==
  ASSUME PlanAssumption, IInv, phase \in {"running", "unwinding"}, phase' \in Executing,
         NEW p \in todo \cup open, NEW outcome \in StepOutcomes, NEW saved \in BOOLEAN,
         OnStep(p, outcome, saved), unsaved' = unsaved,
         todo' \cup open' \subseteq todo \cup open, outcome = "Succeeded" => p \notin todo' \cup open'
  PROVE  /\ store' \in Seq(Records) /\ run' \in Records /\ faults' \in 0..MaxFaults
         /\ OrderInv' /\ PreparedInv' /\ CurrentInv' /\ StepsInv'
         /\ DoneOnce' /\ DoneMeansEveryStep' /\ ClosedIsTrue' /\ ClosedInv'
<1> DEFINE c == p[1]
           s == p[2]
           n == Len(store)
<1>1. c \in Cells /\ s \in Template[c] /\ s \in Steps /\ p = <<c, s>>
  BY DEF IInv, TypeOK, StepsInv, PlanAssumption
<1>2. run \in Records /\ run.cells[c] \in Receipts /\ run.cells \in [Cells -> Receipts]
  BY <1>1, RecordType DEF IInv, TypeOK
<1> DEFINE y == ApplyStep(c, run.cells[c], s, outcome)
<1>3. y \in Receipts
  BY <1>1, <1>2, ApplyStepType
<1>4. /\ run.cells[c].state # "Done" /\ run.cells[c].state \notin Left /\ y.state \notin Left
      /\ y.steps = [run.cells[c].steps EXCEPT ![s] = outcome]
      /\ y.state = "Done" => \A t \in Template[c] : y.steps[t] = "Succeeded"
  <2>1. run.cells[c].state \notin Left /\ run.cells[c].steps[s] # "Succeeded"
    BY DEF IInv, StepsInv
  <2>2. run.cells[c].state = "Done" => run.cells[c].steps[s] = "Succeeded"
    BY <1>1 DEF IInv, StepsInv
  <2> QED BY <2>1, <2>2, <1>1, <1>2, ApplyStepFacts
<1>5. run' = [run EXCEPT !.cells = [run.cells EXCEPT ![c] = y]]
  BY DEF OnStep
<1> HIDE DEF y, c, s
<1>6. run' \in Records
  BY <1>1, <1>2, <1>3, <1>5 DEF Records
<1>7. /\ run'.root = run.root /\ run'.at = run.at /\ run'.outcome = run.outcome
      /\ run'.cells[c] = y /\ \A d \in Cells : d # c => run'.cells[d] = run.cells[d]
  BY <1>1, <1>2, <1>5 DEF Records
<1>8. /\ n > 0 /\ n \in DOMAIN store /\ run.root = store[n].root /\ run.at = store[n].at
      /\ run.outcome = "Running" /\ store[n].outcome = "Running"
      /\ \A d \in Cells : store[n].cells[d].state \in Left <=> run.cells[d].state \in Left
      /\ \A d \in Cells : store[n].cells[d].state = "Done" => run.cells[d].state = "Done"
  BY DEF IInv, CurrentInv, TypeOK, Executing
<1>9. /\ \A d \in Cells : store[n].cells[d].state \in Left <=> run'.cells[d].state \in Left
      /\ \A d \in Cells : store[n].cells[d].state = "Done" => run'.cells[d].state = "Done"
  BY <1>1, <1>4, <1>7, <1>8
<1>10. \A d \in Cells : run'.cells[d].state = "Done" => \A t \in Template[d] : run'.cells[d].steps[t] = "Succeeded"
  <2> SUFFICES ASSUME NEW d \in Cells, run'.cells[d].state = "Done", NEW t \in Template[d]
               PROVE  run'.cells[d].steps[t] = "Succeeded"
    OBVIOUS
  <2>1. CASE d = c
    <3>1. y.state = "Done" /\ t \in Template[c]
      BY <2>1, <1>7
    <3> QED BY <3>1, <2>1, <1>4, <1>7
  <2>2. CASE d # c
    <3>1. run'.cells[d] = run.cells[d]
      BY <2>2, <1>7
    <3> QED BY <3>1 DEF IInv, StepsInv
  <2> QED BY <2>1, <2>2
<1>11. StepsInv'
  <2> SUFFICES ASSUME NEW q \in todo' \cup open'
               PROVE  /\ q[2] \in Template[q[1]] /\ run'.cells[q[1]].state \notin Left
                      /\ run'.cells[q[1]].steps[q[2]] # "Succeeded"
    BY <1>10 DEF StepsInv
  <2>1. /\ q[1] \in Cells /\ q[2] \in Steps /\ q = <<q[1], q[2]>> /\ q[2] \in Template[q[1]]
        /\ run.cells[q[1]].state \notin Left /\ run.cells[q[1]].steps[q[2]] # "Succeeded"
    BY DEF IInv, StepsInv, TypeOK
  <2>2. CASE q[1] # c
    BY <2>1, <2>2, <1>7
  <2>3. CASE q[1] = c /\ q[2] # s
    BY <2>1, <2>3, <1>2, <1>4, <1>7, ReceiptType
  <2>4. CASE q[1] = c /\ q[2] = s
    BY <2>1, <2>4, <1>1, <1>2, <1>4, <1>7, ReceiptType
  <2> QED BY <2>2, <2>3, <2>4
<1>12. PreparedInv'
  BY DEF PreparedInv, Executing
<1>13. CASE ~saved
  <2>1. store' = store /\ faults < MaxFaults /\ faults' = faults + 1
    BY <1>13 DEF OnStep, Persist
  <2>2. CurrentInv'
    BY <2>1, <1>7, <1>8, <1>9 DEF CurrentInv
  <2>3. ClosedInv'
    BY <2>1 DEF IInv, ClosedInv, Executing
  <2>4. OrderInv' /\ DoneOnce' /\ DoneMeansEveryStep' /\ ClosedIsTrue'
    BY <2>1, StoreKept DEF IInv
  <2> QED BY <2>1, <2>2, <2>3, <2>4, <1>6, <1>11, <1>12 DEF IInv, TypeOK, PlanAssumption
<1>14. CASE saved
  <2>1. store' = [store EXCEPT ![n] = run'] /\ faults' = faults
    BY <1>14 DEF OnStep, Persist
  <2>2. /\ store' \in Seq(Records) /\ DOMAIN store' = DOMAIN store /\ Len(store') = Len(store)
        /\ store'[n] = run' /\ \A j \in DOMAIN store : j # n => store'[j] = store[j]
        /\ OrderInv' /\ DoneOnce' /\ DoneMeansEveryStep'
    <3>1. run'.root = store[n].root /\ run'.at = store[n].at /\ n \in DOMAIN store
      BY <1>7, <1>8
    <3>2. TypeOK /\ OrderInv /\ DoneOnce /\ DoneMeansEveryStep /\ n = Len(store) /\ store \in Seq(Records)
      BY DEF IInv, TypeOK
    <3>3. /\ store' \in Seq(Records) /\ DOMAIN store' = DOMAIN store /\ Len(store') = Len(store)
          /\ store'[n] = run' /\ \A j \in DOMAIN store : j # n => store'[j] = store[j]
      BY <2>1, <3>1, <3>2, <1>6, Replaced
    <3> HIDE DEF n
    <3>4. /\ store'[n].root = store[n].root /\ store'[n].at = store[n].at
          /\ \A d \in Cells : store[n].cells[d].state \in Left <=> store'[n].cells[d].state \in Left
          /\ \A d \in Cells : store'[n].cells[d].state = "Done" =>
               \A t \in Template[d] : store'[n].cells[d].steps[t] = "Succeeded"
      BY <3>1, <3>3, <1>9, <1>10
    <3>5. OrderInv' /\ DoneOnce' /\ DoneMeansEveryStep'
      BY <3>1, <3>2, <3>3, <3>4, RecordReplaced
    <3> QED BY <3>3, <3>5
  <2>3. CurrentInv'
    BY <2>2, <1>7, <1>8 DEF CurrentInv
  <2>4. ClosedInv'
    BY <2>2, <1>7, <1>8 DEF IInv, ClosedInv, Executing
  <2>5. ClosedIsTrue'
    BY <2>2, <1>7, <1>8 DEF IInv, ClosedIsTrue
  <2> QED BY <2>1, <2>2, <2>3, <2>4, <2>5, <1>6, <1>11, <1>12 DEF IInv, TypeOK
<1> QED BY <1>13, <1>14

-------------------------------------------------------------------------------
(* The actions. *)

LEMMA InitHolds == ASSUME PlanAssumption, Init PROVE IInv
<1>1. NoRun \in Records /\ NoRun.cells \in [Cells -> Receipts]
  BY DEF NoRun, NoReceipt, Records, Receipts, CellStates, StepOutcomes, RunOutcomes, Left
<1>2. \A c \in Cells : NoRun.cells[c].state = "Absent"
  BY DEF NoRun, NoReceipt
<1>3. store \in Seq(Records) /\ faults \in 0..MaxFaults
  BY DEF Init, PlanAssumption
<1>4. TypeOK
  BY <1>1, <1>3 DEF Init, TypeOK, Executing
<1> QED BY <1>2, <1>4 DEF Init, IInv, OrderInv, StoredInOrder, SeriesContiguous, RootsStored, PreparedInv,
      CurrentInv, StepsInv, DoneOnce, DoneMeansEveryStep, ClosedIsTrue, ClosedInv, Executing

\* Where no run is in memory any more.
LEMMA RunDropped ==
  ASSUME run' = NoRun, todo' = {}, open' = {}, phase' \in {"off", "recovering", "idle"}
  PROVE  run' \in Records /\ PreparedInv' /\ CurrentInv' /\ StepsInv'
<1>1. NoRun \in Records
  BY DEF NoRun, NoReceipt, Records, Receipts, CellStates, StepOutcomes, RunOutcomes, Left
<1>2. \A c \in Cells : NoRun.cells[c].state = "Absent"
  BY DEF NoRun, NoReceipt
<1> QED BY <1>1, <1>2 DEF PreparedInv, CurrentInv, StepsInv, Executing

LEMMA PrepareHolds ==
  ASSUME PlanAssumption, IInv, NEW plan \in Plans, NEW mode \in Modes, Prepare(plan, mode)
  PROVE  IInv'
<1> DEFINE cells == [c \in Cells |-> Fresh(plan, mode, c)]
           n == Len(store)
<1>0. TypeOK /\ OrderInv /\ DoneOnce /\ store \in Seq(Records) /\ DOMAIN store = 1..n /\ n \in Nat
  BY DEF IInv, TypeOK
<1>1. cells \in [Cells -> Receipts]
  BY DEF Fresh, Receipts, CellStates, StepOutcomes, Left
<1>2. \A c \in Cells : /\ cells[c].state \in {"Pending"} \cup Left
                       /\ cells[c].state = "Pending" => Selected(mode, c)
                       /\ \A s \in Steps : cells[c].steps[s] = "none"
  BY DEF Fresh, Left
<1>3. PICK now \in Times, previous \in DOMAIN store \cup {0} :
        /\ IF Chain = {} THEN previous = 0 ELSE IsPrevious(previous)
        /\ PrepareAs(plan, mode, now, previous)
  BY DEF Prepare
<1>4. /\ run' = [root |-> IF mode = "New" \/ Chain = {} THEN n + 1 ELSE store[previous].root,
                 parent |-> IF mode = "New" \/ Chain = {} THEN 0 ELSE previous,
                 at |-> IF Chain = {} THEN now ELSE StartTime(now, store[previous].at),
                 outcome |-> "Running", cells |-> cells]
      /\ todo' = {p \in Cells \X Steps : p[2] \in Template[p[1]] /\ cells[p[1]].state = "Pending"}
  BY <1>3 DEF PrepareAs
<1>5. /\ store' = store /\ phase = "idle" /\ phase' = "prepared" /\ open' = {} /\ ending' = "ok"
      /\ unsaved' = unsaved /\ faults' = faults
  BY DEF Prepare
<1>6. ASSUME run' \in Records, run'.cells = cells PROVE TypeOK' /\ CurrentInv' /\ StepsInv' /\ ClosedInv'
  <2>1. TypeOK'
    BY <1>6, <1>0, <1>4, <1>5 DEF TypeOK, Executing
  <2>2. CurrentInv' /\ ClosedInv'
    BY <1>5 DEF CurrentInv, ClosedInv, IInv, Executing
  <2>3. StepsInv'
    <3>1. \A p \in todo' : p[1] \in Cells /\ p[2] \in Steps /\ p[2] \in Template[p[1]] /\ cells[p[1]].state = "Pending"
      BY <1>4
    <3> HIDE DEF cells
    <3> QED BY <3>1, <1>6, <1>2, <1>5 DEF StepsInv, Left
  <2> QED BY <2>1, <2>2, <2>3
<1> HIDE DEF cells
<1>7. CASE Chain = {}
  <2>1. n = 0
    BY <1>0, <1>7, LatestSeries
  <2>2. run'.root = n + 1 /\ run'.outcome = "Running" /\ run'.cells = cells /\ run' \in Records
    BY <1>0, <1>1, <1>3, <1>4, <1>7 DEF Records, RunOutcomes, PlanAssumption
  <2>3. PreparedInv'
    BY <2>1, <2>2, <1>0, <1>2, <1>5 DEF PreparedInv
  <2> QED BY <2>2, <2>3, <1>6, <1>5, StoreKept DEF IInv
<1>8. CASE Chain # {}
  <2>1. n > 0 /\ previous = n /\ n \in DOMAIN store
    BY <1>0, <1>3, <1>8, LatestSeries, NoSeries
  <2>2. store[n] \in Records /\ store[n].at \in Nat /\ store[n].root \in Nat
    BY <1>0, <2>1, RecordType
  <2>3. StartTime(now, store[n].at) \in Nat /\ store[n].at < StartTime(now, store[n].at)
    BY <2>2, <1>3 DEF StartTime, PlanAssumption
  <2>4. /\ run'.root = (IF mode = "New" THEN n + 1 ELSE store[n].root)
        /\ run'.at = StartTime(now, store[n].at) /\ run'.outcome = "Running" /\ run'.cells = cells
    BY <2>1, <1>4, <1>8
  <2>5. run' \in Records
    BY <2>1, <2>2, <2>3, <1>0, <1>1, <1>4, <1>8 DEF Records, RunOutcomes
  <2>6. ASSUME NEW i \in DOMAIN store, NEW c \in Cells, store[i].root = run'.root, store[i].cells[c].state = "Done"
        PROVE  cells[c].state \in Left
    <3>1. store[i].root \in 1..i /\ i \in 1..n
      BY <1>0 DEF OrderInv, RootsStored
    <3>2. mode # "New" /\ store[i].root = store[n].root
      BY <3>1, <2>4, <2>6, <1>0
    <3>3. i \in Chain
      BY <3>2, <2>1, <1>0, LatestSeries
    <3>4. ~Selected(mode, c)
      BY <3>2, <3>3, <2>6, <1>0, SelectedNotDone
    <3> QED BY <3>4, <1>2
  <2>7. PreparedInv'
    BY <2>1, <2>3, <2>4, <2>6, <1>2, <1>5 DEF PreparedInv
  <2> QED BY <2>4, <2>5, <2>7, <1>6, <1>5, StoreKept DEF IInv
<1> QED BY <1>7, <1>8

LEMMA StartHolds ==
  ASSUME IInv, Start PROVE IInv'
<1> DEFINE n == Len(store)
<1>1. /\ store \in Seq(Records) /\ DOMAIN store = 1..n /\ n \in Nat /\ run \in Records
      /\ store' = Append(store, run) /\ phase = "prepared" /\ phase' = "running"
      /\ run' = run /\ todo' = todo /\ open' = open /\ ending' = ending /\ unsaved' = unsaved /\ faults' = faults
  BY DEF Start, IInv, TypeOK
<1>2. /\ store' \in Seq(Records) /\ Len(store') = n + 1 /\ DOMAIN store' = 1..(n + 1)
      /\ store'[n + 1] = run /\ \A j \in DOMAIN store : store'[j] = store[j]
  BY <1>1, Appended
<1>3. /\ run.root = n + 1 \/ (n > 0 /\ run.root = store[n].root)
      /\ n > 0 => store[n].at < run.at
      /\ run.outcome = "Running"
      /\ \A c \in Cells : run.cells[c].state \in {"Pending"} \cup Left
      /\ \A i \in DOMAIN store, c \in Cells :
           store[i].root = run.root /\ store[i].cells[c].state = "Done" => run.cells[c].state \in Left
  BY <1>1 DEF IInv, PreparedInv
<1>4. \A i \in 1..(n + 1) : i = n + 1 \/ i \in DOMAIN store
  BY <1>1
<1>5. \A i \in DOMAIN store : store[i].at \in Nat /\ store[i].root \in 1..i /\ run.at \in Nat
  BY <1>1, RecordType DEF IInv, OrderInv, RootsStored
<1> HIDE DEF n
<1>6. StoredInOrder'
  <2>1. \A i \in DOMAIN store : store[i].at < run.at
    <3> SUFFICES ASSUME NEW i \in DOMAIN store PROVE store[i].at < run.at
      OBVIOUS
    <3>1. n > 0 /\ n \in DOMAIN store /\ store[n].at < run.at
      BY <1>1, <1>3
    <3>2. CASE i = n BY <3>1, <3>2
    <3>3. CASE i < n
      BY <3>1, <3>3, <1>5 DEF IInv, OrderInv, StoredInOrder
    <3> QED BY <3>2, <3>3, <1>1
  <2> SUFFICES ASSUME NEW i \in 1..(n + 1), NEW j \in 1..(n + 1), i < j PROVE store'[i].at < store'[j].at
    BY <1>2 DEF StoredInOrder
  <2>2. CASE j = n + 1
    BY <2>1, <2>2, <1>2, <1>4
  <2>3. CASE j # n + 1
    BY <2>3, <1>1, <1>2, <1>4 DEF IInv, OrderInv, StoredInOrder
  <2> QED BY <2>2, <2>3
<1>7. SeriesContiguous'
  <2> SUFFICES ASSUME NEW i \in 1..(n + 1), NEW j \in 1..(n + 1), i < j
               PROVE  store'[j].root = store'[i].root \/ store'[j].root > i
    BY <1>2 DEF SeriesContiguous
  <2>1. CASE j = n + 1
    <3>1. i \in DOMAIN store /\ store'[i] = store[i] /\ store'[j] = run
      BY <2>1, <1>2, <1>4, <1>1
    <3>2. CASE run.root = n + 1
      BY <3>1, <3>2, <1>1
    <3>3. CASE n > 0 /\ run.root = store[n].root
      <4>1. i = n \/ i < n
        BY <3>1, <1>1
      <4> QED BY <4>1, <3>1, <3>3, <1>1 DEF IInv, OrderInv, SeriesContiguous
    <3> QED BY <3>2, <3>3, <1>3
  <2>2. CASE j # n + 1
    BY <2>2, <1>1, <1>2, <1>4 DEF IInv, OrderInv, SeriesContiguous
  <2> QED BY <2>1, <2>2
<1>8. RootsStored'
  <2> SUFFICES ASSUME NEW i \in 1..(n + 1)
               PROVE  store'[i].root \in 1..i /\ store'[store'[i].root].root = store'[i].root
    BY <1>2 DEF RootsStored
  <2>1. \A k \in DOMAIN store : store[k].root \in DOMAIN store /\ store[store[k].root].root = store[k].root
    BY <1>1 DEF IInv, OrderInv, RootsStored
  <2>2. CASE i \in DOMAIN store
    BY <2>1, <2>2, <1>2, <1>5
  <2>3. CASE i = n + 1 /\ run.root = n + 1
    BY <2>3, <1>1, <1>2
  <2>4. CASE i = n + 1 /\ n > 0 /\ run.root = store[n].root
    <3>1. n \in DOMAIN store
      BY <2>4, <1>1
    <3> QED BY <3>1, <2>1, <2>4, <1>1, <1>2
  <2> QED BY <2>2, <2>3, <2>4, <1>3, <1>4
<1>9. DoneOnce'
  <2> SUFFICES ASSUME NEW i \in 1..(n + 1), NEW j \in 1..(n + 1), NEW c \in Cells,
                      i < j, store'[i].root = store'[j].root, store'[i].cells[c].state = "Done"
               PROVE  store'[j].cells[c].state \in Left
    BY <1>2 DEF DoneOnce
  <2>1. i \in DOMAIN store /\ store'[i] = store[i]
    BY <1>1, <1>2, <1>4
  <2>2. CASE j = n + 1
    BY <2>1, <2>2, <1>2, <1>3
  <2>3. CASE j \in DOMAIN store
    BY <2>1, <2>3, <1>2 DEF IInv, DoneOnce
  <2> QED BY <2>2, <2>3, <1>4
<1>10. DoneMeansEveryStep'
  BY <1>2, <1>3, <1>4 DEF IInv, DoneMeansEveryStep, Left
<1>11. ClosedIsTrue'
  BY <1>2, <1>3, <1>4 DEF IInv, ClosedIsTrue
<1>12. PreparedInv' /\ CurrentInv' /\ StepsInv'
  BY <1>1, <1>2, <1>3 DEF IInv, PreparedInv, CurrentInv, StepsInv, Executing, Left
<1>13. ClosedInv'
  <2>1. ~unsaved => \A i \in DOMAIN store : store[i].outcome # "Running"
    BY <1>1 DEF IInv, ClosedInv, Executing
  <2> QED BY <2>1, <1>1, <1>2, <1>4 DEF ClosedInv, Executing
<1>14. TypeOK'
  BY <1>1, <1>2 DEF IInv, TypeOK, Executing
<1> QED BY <1>6, <1>7, <1>8, <1>9, <1>10, <1>11, <1>12, <1>13, <1>14 DEF IInv, OrderInv

LEMMA StepsHold ==
  ASSUME PlanAssumption, IInv,
         \/ \E p \in todo, saved \in BOOLEAN : StartStep(p, saved)
         \/ \E p \in open, outcome \in {"Succeeded", "Failed", "Skipped"}, saved \in BOOLEAN : ReportStep(p, outcome, saved)
         \/ \E p \in open, saved \in BOOLEAN : UnwindStep(p, saved)
  PROVE  IInv'
<1>1. /\ todo \subseteq Cells \X Steps /\ open \subseteq (Cells \X Steps) \ todo
      /\ phase \notin {"prepared", "running"} => todo = {}
      /\ ending \in {"ok", "cancelled", "error"} /\ unsaved \in BOOLEAN
  BY DEF IInv, TypeOK
<1>2. ASSUME NEW p \in todo, NEW saved \in BOOLEAN, StartStep(p, saved) PROVE IInv'
  <2>1. /\ phase \in {"running", "unwinding"} /\ phase' \in Executing /\ OnStep(p, "Started", saved)
        /\ unsaved' = unsaved /\ todo' \cup open' \subseteq todo \cup open
    BY <1>2 DEF StartStep, GoesOn, Executing
  <2>2. /\ store' \in Seq(Records) /\ run' \in Records /\ faults' \in 0..MaxFaults
        /\ OrderInv' /\ PreparedInv' /\ CurrentInv' /\ StepsInv'
        /\ DoneOnce' /\ DoneMeansEveryStep' /\ ClosedIsTrue' /\ ClosedInv'
    BY <2>1, OnStepEffect DEF StepOutcomes
  <2>3. TypeOK'
    BY <1>1, <1>2, <2>2 DEF StartStep, GoesOn, TypeOK, Executing
  <2> QED BY <2>2, <2>3 DEF IInv
<1>3. ASSUME NEW p \in open, NEW outcome \in {"Succeeded", "Failed", "Skipped"}, NEW saved \in BOOLEAN,
             ReportStep(p, outcome, saved)
      PROVE  IInv'
  <2>1. /\ phase \in {"running", "unwinding"} /\ phase' \in Executing /\ OnStep(p, outcome, saved)
        /\ unsaved' = unsaved /\ todo' \cup open' \subseteq todo \cup open /\ p \notin todo' \cup open'
    BY <1>1, <1>3 DEF ReportStep, GoesOn, Executing
  <2>2. /\ store' \in Seq(Records) /\ run' \in Records /\ faults' \in 0..MaxFaults
        /\ OrderInv' /\ PreparedInv' /\ CurrentInv' /\ StepsInv'
        /\ DoneOnce' /\ DoneMeansEveryStep' /\ ClosedIsTrue' /\ ClosedInv'
    BY <2>1, OnStepEffect DEF StepOutcomes
  <2>3. TypeOK'
    BY <1>1, <1>3, <2>2 DEF ReportStep, GoesOn, TypeOK, Executing
  <2> QED BY <2>2, <2>3 DEF IInv
<1>4. ASSUME NEW p \in open, NEW saved \in BOOLEAN, UnwindStep(p, saved) PROVE IInv'
  <2>1. /\ phase \in {"running", "unwinding"} /\ phase' \in Executing /\ OnStep(p, "Failed", saved)
        /\ unsaved' = unsaved /\ todo' \cup open' \subseteq todo \cup open /\ todo = {} /\ todo' = {}
    BY <1>1, <1>4 DEF UnwindStep, Executing
  <2>2. /\ store' \in Seq(Records) /\ run' \in Records /\ faults' \in 0..MaxFaults
        /\ OrderInv' /\ PreparedInv' /\ CurrentInv' /\ StepsInv'
        /\ DoneOnce' /\ DoneMeansEveryStep' /\ ClosedIsTrue' /\ ClosedInv'
    BY <2>1, OnStepEffect DEF StepOutcomes
  <2>3. open' \subseteq open /\ (open' # {} => phase' = "unwinding")
    BY <1>4 DEF UnwindStep
  <2>4. TypeOK'
    BY <1>1, <1>4, <2>1, <2>2, <2>3 DEF UnwindStep, TypeOK, Executing
  <2> QED BY <2>2, <2>4 DEF IInv
<1> QED BY <1>2, <1>3, <1>4

\* Where neither the stored records nor the run change.
LEMMA QuietHolds ==
  ASSUME PlanAssumption, IInv, (\E how \in {"ok", "cancelled", "error"} : StopEngine(how)) \/ EngineReturns
  PROVE  IInv'
<1>1. /\ store' = store /\ run' = run /\ phase \in Executing /\ phase' \in {"unwinding", "closing"}
      /\ todo' = {} /\ open' = open /\ (open # {} => phase' = "unwinding")
      /\ ending' \in {"ok", "cancelled", "error"} /\ unsaved' = unsaved /\ faults' = faults
  BY DEF StopEngine, EngineReturns, Executing, IInv, TypeOK
<1>2. TypeOK'
  BY <1>1 DEF IInv, TypeOK, Executing
<1>3. PreparedInv' /\ CurrentInv' /\ StepsInv' /\ ClosedInv'
  BY <1>1 DEF IInv, PreparedInv, CurrentInv, StepsInv, ClosedInv, Executing
<1> QED BY <1>1, <1>2, <1>3, StoreKept DEF IInv

LEMMA RestsHolds ==
  ASSUME PlanAssumption, IInv, Drop \/ Exit \/ Boot \/ Recovered PROVE IInv'
<1>1. store' = store /\ ending' \in {"ok", "cancelled", "error"} /\ unsaved' \in BOOLEAN /\ faults' \in 0..MaxFaults
  <2>1. ending \in {"ok", "cancelled", "error"} /\ unsaved \in BOOLEAN /\ faults \in 0..MaxFaults /\ MaxFaults \in Nat
    BY DEF IInv, TypeOK, PlanAssumption
  <2>2. store' = store /\ (ending' = ending \/ ending' = "ok") /\ (unsaved' = unsaved \/ unsaved' = FALSE)
    BY DEF Drop, Exit, Boot, Recovered
  <2>3. faults' = faults \/ (faults < MaxFaults /\ faults' = faults + 1)
    BY DEF Drop, Exit, Boot, Recovered
  <2>4. faults' \in 0..MaxFaults
    BY <2>1, <2>3
  <2>5. unsaved' \in BOOLEAN
    BY <2>1, <2>2
  <2> QED BY <2>1, <2>2, <2>4, <2>5
<1>2. OrderInv' /\ DoneOnce' /\ DoneMeansEveryStep' /\ ClosedIsTrue'
  BY <1>1, StoreKept DEF IInv
<1>3. CASE Drop
  <2>1. open = {} BY <1>3 DEF Drop, IInv, TypeOK
  <2>2. run' = NoRun /\ todo' = {} /\ open' = {} /\ phase' = "idle" /\ unsaved' = unsaved /\ phase = "prepared"
    BY <1>3, <2>1 DEF Drop
  <2>3. run' \in Records /\ PreparedInv' /\ CurrentInv' /\ StepsInv'
    BY <2>2, RunDropped
  <2>4. TypeOK' /\ ClosedInv'
    BY <1>1, <2>2, <2>3 DEF IInv, TypeOK, ClosedInv, Executing
  <2> QED BY <1>2, <2>3, <2>4 DEF IInv
<1>4. CASE Exit
  <2>1. run' = NoRun /\ todo' = {} /\ open' = {} /\ phase' = "off"
    BY <1>4 DEF Exit
  <2>2. run' \in Records /\ PreparedInv' /\ CurrentInv' /\ StepsInv'
    BY <2>1, RunDropped
  <2>3. TypeOK' /\ ClosedInv'
    BY <1>1, <2>1, <2>2 DEF IInv, TypeOK, ClosedInv, Executing
  <2> QED BY <1>2, <2>2, <2>3 DEF IInv
<1>5. CASE Boot
  <2>1. run' = run /\ todo' = {} /\ open' = {} /\ phase' = "recovering"
    BY <1>5 DEF Boot, IInv, TypeOK
  <2>2. StepsInv' /\ PreparedInv' /\ CurrentInv' /\ ClosedInv'
    BY <2>1 DEF IInv, StepsInv, PreparedInv, CurrentInv, ClosedInv, Executing
  <2>3. TypeOK'
    BY <1>1, <2>1 DEF IInv, TypeOK, Executing
  <2> QED BY <1>2, <2>2, <2>3 DEF IInv
<1>6. CASE Recovered
  <2>1. /\ run' = run /\ todo' = {} /\ open' = {} /\ phase' = "idle"
        /\ \A i \in DOMAIN store : store[i].outcome # "Running"
    BY <1>6 DEF Recovered, IInv, TypeOK
  <2>2. StepsInv' /\ PreparedInv' /\ CurrentInv' /\ ClosedInv'
    BY <1>1, <2>1 DEF IInv, StepsInv, PreparedInv, CurrentInv, ClosedInv, Executing
  <2>3. TypeOK'
    BY <1>1, <2>1 DEF IInv, TypeOK, Executing
  <2> QED BY <1>2, <2>2, <2>3 DEF IInv
<1> QED BY <1>3, <1>4, <1>5, <1>6

LEMMA CloseHolds ==
  ASSUME PlanAssumption, IInv, NEW cancelled \in BOOLEAN, NEW saved \in BOOLEAN, Close(cancelled, saved)
  PROVE  IInv'
<1> DEFINE n == Len(store)
           outcome == CASE ending = "cancelled" \/ (ending = "ok" /\ cancelled) -> "Cancelled"
                        [] ending = "ok" /\ ~cancelled -> OutcomeOf(run.cells)
                        [] OTHER -> "Failed"
           closed == [run EXCEPT !.outcome = outcome, !.cells = Settled(@)]
<1>1. /\ phase = "closing" /\ phase' = "idle" /\ run' = NoRun /\ todo' = {} /\ open' = {} /\ ending' = "ok"
      /\ unsaved' = (unsaved \/ ~saved) /\ Persist(closed, saved)
  BY DEF Close
<1>2. run \in Records /\ store \in Seq(Records) /\ DOMAIN store = 1..n /\ n \in Nat
  BY DEF IInv, TypeOK
<1>3. /\ n > 0 /\ n \in DOMAIN store /\ run.root = store[n].root /\ run.at = store[n].at
      /\ \A c \in Cells : store[n].cells[c].state \in Left <=> run.cells[c].state \in Left
  BY <1>1, <1>2 DEF IInv, CurrentInv, Executing
<1>4. \A c \in Cells : run.cells[c].state = "Done" => \A s \in Template[c] : run.cells[c].steps[s] = "Succeeded"
  BY DEF IInv, StepsInv
<1>5. \A c \in Cells : run.cells[c].state \in CellStates
  BY <1>2, RecordType, ReceiptType
<1>6. /\ OutcomeOf(run.cells) \in {"Failed", "CompletedWithFailures", "Completed"}
      /\ OutcomeOf(run.cells) = "Completed" => \A c \in Cells : run.cells[c].state \in Left \cup {"Done"}
      /\ OutcomeOf(run.cells) = "CompletedWithFailures" => \A c \in Cells : run.cells[c].state \notin {"Pending", "Running"}
  <2> DEFINE in == {run.cells[c].state : c \in Cells}
  <2>1. CASE in \cap {"Pending", "Running"} # {}
    <3>1. OutcomeOf(run.cells) = "Failed"
      BY <2>1 DEF OutcomeOf
    <3> QED BY <3>1
  <2>2. CASE in \cap {"Pending", "Running"} = {} /\ in \cap {"Failed", "Skipped"} # {}
    <3>1. OutcomeOf(run.cells) = "CompletedWithFailures"
      BY <2>2 DEF OutcomeOf
    <3> QED BY <3>1, <2>2
  <2>3. CASE in \cap {"Pending", "Running"} = {} /\ in \cap {"Failed", "Skipped"} = {}
    <3>1. OutcomeOf(run.cells) = "Completed"
      BY <2>3 DEF OutcomeOf
    <3>2. \A c \in Cells : run.cells[c].state \notin {"Pending", "Running", "Failed", "Skipped"}
      BY <2>3
    <3> QED BY <3>1, <3>2, <1>5 DEF CellStates
  <2> QED BY <2>1, <2>2, <2>3
<1>7. outcome \in {"Cancelled", "Failed", "CompletedWithFailures", "Completed"}
      /\ (outcome \in {"Completed", "CompletedWithFailures"} => outcome = OutcomeOf(run.cells))
  <2> HIDE DEF closed
  <2> QED BY <1>6
<1> HIDE DEF outcome
<1>8. outcome \in RunOutcomes /\ closed = [run EXCEPT !.outcome = outcome, !.cells = Settled(@)]
  BY <1>7 DEF RunOutcomes
<1> HIDE DEF closed, n
<1>9. /\ closed \in Records /\ closed.root = run.root /\ closed.at = run.at /\ closed.outcome = outcome
      /\ \A c \in Cells : /\ closed.cells[c].state # "Running"
                          /\ closed.cells[c].steps = run.cells[c].steps
                          /\ closed.cells[c].state \in Left <=> run.cells[c].state \in Left
                          /\ closed.cells[c].state = "Done" <=> run.cells[c].state = "Done"
                          /\ run.cells[c].state # "Running" => closed.cells[c].state = run.cells[c].state
  <2>1. run.cells \in [Cells -> Receipts] /\ Settled(run.cells) \in [Cells -> Receipts]
    BY <1>2, RecordType, SettledType
  <2>2. /\ closed \in Records /\ closed.root = run.root /\ closed.at = run.at /\ closed.outcome = outcome
        /\ closed.cells = Settled(run.cells)
    BY <2>1, <1>2, <1>8 DEF Records
  <2> QED BY <2>1, <2>2, SettledType
<1>10. closed.cells \in [Cells -> Receipts] /\ \A c \in Cells : closed.cells[c].state \in CellStates
  BY <1>9, RecordType, ReceiptType
<1>11. run' \in Records /\ PreparedInv' /\ CurrentInv' /\ StepsInv'
  BY <1>1, RunDropped
<1>12. CASE ~saved
  <2>1. store' = store /\ faults' \in 0..MaxFaults
    BY <1>1, <1>12 DEF Persist, IInv, TypeOK, PlanAssumption
  <2>2. TypeOK' /\ ClosedInv'
    BY <2>1, <1>1, <1>11, <1>12 DEF IInv, TypeOK, ClosedInv, Executing
  <2> QED BY <2>1, <2>2, <1>11, StoreKept DEF IInv
<1>13. CASE saved
  <2>1. store' = [store EXCEPT ![n] = closed] /\ faults' = faults
    BY <1>1, <1>13 DEF Persist, n
  <2>2. /\ store' \in Seq(Records) /\ DOMAIN store' = DOMAIN store /\ Len(store') = Len(store)
        /\ store'[n] = closed /\ \A j \in DOMAIN store : j # n => store'[j] = store[j]
    BY <2>1, <1>2, <1>3, <1>9, Replaced
  <2>3. OrderInv' /\ DoneOnce' /\ DoneMeansEveryStep'
    <3>1. TypeOK /\ OrderInv /\ DoneOnce /\ DoneMeansEveryStep /\ n = Len(store)
      BY DEF IInv, n
    <3>2. /\ store'[n].root = store[n].root /\ store'[n].at = store[n].at /\ n \in DOMAIN store
          /\ \A c \in Cells : store[n].cells[c].state \in Left <=> store'[n].cells[c].state \in Left
      BY <2>2, <1>3, <1>9
    <3>3. \A c \in Cells : store'[n].cells[c].state = "Done" =>
            \A s \in Template[c] : store'[n].cells[c].steps[s] = "Succeeded"
      BY <2>2, <1>4, <1>9
    <3> QED BY <2>2, <3>1, <3>2, <3>3, RecordReplaced
  <2>4. ClosedIsTrue'
    <3> SUFFICES ASSUME NEW i \in DOMAIN store
                 PROVE  /\ store'[i].outcome # "Running" => \A c \in Cells : store'[i].cells[c].state # "Running"
                        /\ store'[i].outcome = "Completed" => \A c \in Cells : store'[i].cells[c].state \in Left \cup {"Done"}
                        /\ store'[i].outcome = "CompletedWithFailures" =>
                             \A c \in Cells : store'[i].cells[c].state \in Left \cup {"Done", "Failed", "Skipped"}
      BY <2>2 DEF ClosedIsTrue
    <3>1. CASE i # n
      BY <3>1, <2>2 DEF IInv, ClosedIsTrue
    <3>2. CASE i = n
      <4>1. store'[i] = closed
        BY <3>2, <2>2
      <4>2. closed.outcome = "Completed" => \A c \in Cells : closed.cells[c].state \in Left \cup {"Done"}
        BY <1>6, <1>7, <1>9
      <4>3. closed.outcome = "CompletedWithFailures" => \A c \in Cells : closed.cells[c].state \notin {"Pending", "Running"}
        BY <1>6, <1>7, <1>9
      <4> QED BY <4>1, <4>2, <4>3, <1>9, <1>10 DEF CellStates
    <3> QED BY <3>1, <3>2
  <2>5. ClosedInv'
    <3>1. ~unsaved => \A i \in DOMAIN store : store[i].outcome = "Running" => i = n
      BY <1>1 DEF IInv, ClosedInv, Executing, n
    <3> QED BY <3>1, <2>2, <1>1, <1>7, <1>9 DEF ClosedInv, Executing
  <2>6. TypeOK'
    BY <2>1, <2>2, <1>1, <1>11 DEF IInv, TypeOK, Executing
  <2> QED BY <2>3, <2>4, <2>5, <2>6, <1>11 DEF IInv
<1> QED BY <1>12, <1>13

LEMMA RecoverRunHolds ==
  ASSUME PlanAssumption, IInv, NEW i \in DOMAIN store, RecoverRun(i)
  PROVE  IInv'
<1> DEFINE r == [store[i] EXCEPT !.outcome = "Interrupted", !.cells = Settled(@)]
<1>1. /\ phase = "recovering" /\ store[i].outcome = "Running" /\ phase' = phase /\ run' = run /\ todo' = todo
      /\ open' = open /\ ending' = ending /\ unsaved' = unsaved /\ faults' = faults
  BY DEF RecoverRun
<1>2. store \in Seq(Records) /\ store[i] \in Records
  BY DEF IInv, TypeOK
<1>3. store' = [store EXCEPT ![i] = r]
  BY <1>2 DEF RecoverRun
<1>4. "Interrupted" \in RunOutcomes
  BY DEF RunOutcomes
<1>5. /\ r \in Records /\ r.root = store[i].root /\ r.at = store[i].at /\ r.outcome = "Interrupted"
      /\ \A c \in Cells : /\ r.cells[c].state # "Running"
                          /\ r.cells[c].steps = store[i].cells[c].steps
                          /\ r.cells[c].state \in Left <=> store[i].cells[c].state \in Left
                          /\ r.cells[c].state = "Done" <=> store[i].cells[c].state = "Done"
  <2>1. store[i].cells \in [Cells -> Receipts] /\ Settled(store[i].cells) \in [Cells -> Receipts]
    BY <1>2, RecordType, SettledType
  <2>2. /\ r \in Records /\ r.root = store[i].root /\ r.at = store[i].at /\ r.outcome = "Interrupted"
        /\ r.cells = Settled(store[i].cells)
    BY <2>1, <1>2, <1>4 DEF Records
  <2> HIDE DEF r
  <2> QED BY <2>1, <2>2, SettledType
<1> HIDE DEF r
<1>6. /\ store' \in Seq(Records) /\ DOMAIN store' = DOMAIN store /\ Len(store') = Len(store)
      /\ store'[i] = r /\ \A j \in DOMAIN store : j # i => store'[j] = store[j]
  BY <1>2, <1>3, <1>5, Replaced
<1>7. OrderInv' /\ DoneOnce' /\ DoneMeansEveryStep'
  <2>1. TypeOK /\ OrderInv /\ DoneOnce /\ DoneMeansEveryStep
    BY DEF IInv
  <2>2. /\ store'[i].root = store[i].root /\ store'[i].at = store[i].at
        /\ \A c \in Cells : store[i].cells[c].state \in Left <=> store'[i].cells[c].state \in Left
        /\ \A c \in Cells : store'[i].cells[c].state = "Done" => store[i].cells[c].state = "Done"
    BY <1>5, <1>6
  <2>3. \A c \in Cells : store'[i].cells[c].state = "Done" =>
          \A s \in Template[c] : store'[i].cells[c].steps[s] = "Succeeded"
    BY <1>5, <1>6, <2>1 DEF DoneMeansEveryStep
  <2> QED BY <1>6, <2>1, <2>2, <2>3, RecordReplaced
<1>8. ClosedIsTrue'
  BY <1>5, <1>6 DEF IInv, ClosedIsTrue
<1>9. PreparedInv' /\ CurrentInv' /\ StepsInv' /\ ClosedInv'
  BY <1>1 DEF IInv, PreparedInv, CurrentInv, StepsInv, ClosedInv, Executing
<1>10. TypeOK'
  BY <1>1, <1>6 DEF IInv, TypeOK
<1> QED BY <1>7, <1>8, <1>9, <1>10 DEF IInv

LEMMA StutterHolds == ASSUME IInv, UNCHANGED vars PROVE IInv'
<1>1. TypeOK' /\ OrderInv' /\ PreparedInv' /\ CurrentInv' /\ StepsInv' /\ ClosedInv'
  BY DEF vars, IInv, TypeOK, OrderInv, StoredInOrder, SeriesContiguous, RootsStored, PreparedInv, CurrentInv,
     StepsInv, ClosedInv
<1>2. DoneOnce' /\ DoneMeansEveryStep' /\ ClosedIsTrue'
  BY StoreKept DEF vars, IInv
<1> QED BY <1>1, <1>2 DEF IInv

LEMMA NextHolds == ASSUME PlanAssumption, IInv, [Next]_vars PROVE IInv'
BY PrepareHolds, StartHolds, StepsHold, QuietHolds, RestsHolds, CloseHolds, RecoverRunHolds, StutterHolds
   DEF Next, EngineStep

LEMMA Invariance == Spec => []IInv
BY PlanAssumption, InitHolds, NextHolds, PTL DEF Spec

-------------------------------------------------------------------------------
(* The theorems. *)

\* The records of the store and of the run under way are well formed, and steps are
\* planned or started only while a run is under way.
THEOREM TypeCorrect == Spec => []TypeOK
BY Invariance, PTL DEF IInv

\* However often runs are prepared and whatever the clock says, the last attempt is the
\* latest: GetLatestChainAsync, which sorts by time, ends with it.
THEOREM RunsStoredInOrder == Spec => []StoredInOrder
BY Invariance, PTL DEF IInv, OrderInv

\* A cell stored as done has the success of every step of its template in that run.
THEOREM DoneIsEveryStep == Spec => []DoneMeansEveryStep
BY Invariance, PTL DEF IInv

\* No later attempt of a series runs a cell that one has completed, over any number of
\* attempts, crashes, failed saves and edits of the plan.
THEOREM CompletedOnce == Spec => []DoneOnce
BY Invariance, PTL DEF IInv

\* The outcome of a run that ended agrees with the receipts of its cells.
THEOREM ClosedRunsAreTrue == Spec => []ClosedIsTrue
BY Invariance, PTL DEF IInv

\* A start of the program leaves no run of before as running.
THEOREM NothingIsLeftRunning == Spec => []NothingLeftRunning
<1>1. IInv => NothingLeftRunning
  BY DEF IInv, ClosedInv, NothingLeftRunning, Executing
<1> QED BY <1>1, Invariance, PTL

-------------------------------------------------------------------------------
(* The board implements the abstract one. *)

\* The done cells in terms of the last run's series alone.
InLastSeries(i) == i \in DOMAIN store /\ store[i].root = store[Len(store)].root
DoneFacts ==
  /\ DoneCells \subseteq Cells /\ BusyCells \subseteq Cells \ DoneCells
  /\ Len(store) = 0 => DoneCells = {}
  /\ Len(store) > 0 => \A c \in Cells : c \in DoneCells <=> \E i \in DOMAIN store : InLastSeries(i) /\ store[i].cells[c].state = "Done"

LEMMA DoneNow == IInv => DoneFacts
<1> SUFFICES ASSUME IInv PROVE DoneFacts
  OBVIOUS
<1>1. TypeOK /\ OrderInv /\ DoneOnce
  BY DEF IInv
<1>2. \A c \in Cells : c \in DoneCells <=> \E i \in Chain : store[i].cells[c].state = "Done"
  BY <1>1, DoneIsShown DEF DoneCells
<1>3. Len(store) = 0 => DoneCells = {}
  BY <1>1, <1>2, NoSeries DEF DoneCells
<1>4. Len(store) > 0 => \A i : i \in Chain <=> InLastSeries(i)
  BY <1>1, LatestSeries DEF InLastSeries
<1>5. DoneCells \subseteq Cells /\ BusyCells \subseteq Cells \ DoneCells
  BY DEF DoneCells, BusyCells
<1> QED BY <1>2, <1>3, <1>4, <1>5 DEF DoneFacts, InLastSeries

LEMMA DoneNext == IInv' => DoneFacts'
BY DoneNow, PTL

\* Where the stored records keep their series and their done cells.
LEMMA DoneKept ==
  ASSUME IInv, IInv', DOMAIN store' = DOMAIN store, Len(store') = Len(store),
         \A i \in DOMAIN store : /\ store'[i].root = store[i].root
                                 /\ \A c \in Cells : store'[i].cells[c].state = "Done" <=> store[i].cells[c].state = "Done"
  PROVE  DoneCells' = DoneCells
<1>1. DoneFacts /\ DoneFacts'
  BY DoneNow, DoneNext
<1>2. Len(store) \in Nat /\ DOMAIN store = 1..Len(store)
  BY DEF IInv, TypeOK
<1>3. CASE Len(store) = 0
  BY <1>1, <1>3 DEF DoneFacts
<1>4. CASE Len(store) > 0
  <2>1. \A i : (InLastSeries(i))' <=> InLastSeries(i)
    BY <1>2, <1>4 DEF InLastSeries
  <2>2. \A c \in Cells : c \in DoneCells' <=> c \in DoneCells
    BY <1>1, <1>2, <1>4, <2>1 DEF DoneFacts, InLastSeries
  <2> QED BY <1>1, <2>2 DEF DoneFacts
<1> QED BY <1>2, <1>3, <1>4

\* A save of the run under way adds done cells of that run only.
LEMMA SaveCompletes ==
  ASSUME IInv, IInv', phase \in Executing, NEW n, n = Len(store),
         DOMAIN store' = DOMAIN store, Len(store') = Len(store),
         \A j \in DOMAIN store : j # n => store'[j] = store[j],
         store'[n].root = store[n].root,
         \A c \in Cells : store[n].cells[c].state = "Done" => store'[n].cells[c].state = "Done",
         \A c \in Cells : store'[n].cells[c].state \in Left <=> run.cells[c].state \in Left
  PROVE  DoneCells \subseteq DoneCells' /\ (DoneCells' \ DoneCells) \subseteq BusyCells
<1>1. DoneFacts /\ DoneFacts'
  BY DoneNow, DoneNext
<1>2. n \in Nat /\ DOMAIN store = 1..n /\ n > 0 /\ n \in DOMAIN store
  BY DEF IInv, TypeOK, CurrentInv
<1>3. \A i \in DOMAIN store : store'[i].root = store[i].root
  BY <1>2
<1>4. \A i : (InLastSeries(i))' <=> InLastSeries(i)
  BY <1>2, <1>3 DEF InLastSeries
<1>5. \A i \in DOMAIN store, c \in Cells : store[i].cells[c].state = "Done" => store'[i].cells[c].state = "Done"
  BY <1>2
<1>6. DoneCells \subseteq DoneCells'
  BY <1>1, <1>2, <1>4, <1>5 DEF DoneFacts
<1>7. ASSUME NEW c \in DoneCells', c \notin DoneCells PROVE c \in BusyCells
  <2>1. c \in Cells /\ \E i \in DOMAIN store : InLastSeries(i) /\ store'[i].cells[c].state = "Done"
    BY <1>1, <1>2, <1>4 DEF DoneFacts
  <2>2. store'[n].cells[c].state = "Done"
    BY <2>1, <1>1, <1>2, <1>7 DEF DoneFacts
  <2> QED BY <2>1, <2>2, <1>7 DEF BusyCells, Left
<1> QED BY <1>6, <1>7

LEMMA StartOnBoard == ASSUME IInv, IInv', Start PROVE Board!Next
<1> DEFINE n == Len(store)
           S == {c \in Cells : run.cells[c].state \notin Left}
<1>1. /\ store \in Seq(Records) /\ DOMAIN store = 1..n /\ n \in Nat /\ run \in Records
      /\ store' = Append(store, run) /\ phase = "prepared" /\ phase' = "running" /\ run' = run
  BY DEF Start, IInv, TypeOK
<1>2. /\ Len(store') = n + 1 /\ DOMAIN store' = 1..(n + 1)
      /\ store'[n + 1] = run /\ \A j \in DOMAIN store : store'[j] = store[j]
  BY <1>1, Appended
<1>3. /\ run.root = n + 1 \/ (n > 0 /\ run.root = store[n].root)
      /\ \A c \in Cells : run.cells[c].state \in {"Pending"} \cup Left
      /\ \A i \in DOMAIN store, c \in Cells :
           store[i].root = run.root /\ store[i].cells[c].state = "Done" => run.cells[c].state \in Left
  BY <1>1 DEF IInv, PreparedInv
<1>4. DoneFacts /\ DoneFacts'
  BY DoneNow, DoneNext
<1>5. BusyCells = {} /\ BusyCells' = S \ DoneCells'
  BY <1>1 DEF BusyCells, Executing
<1>6. \A i \in DOMAIN store : store[i].root \in 1..i
  BY DEF IInv, OrderInv, RootsStored
<1>7. \A c \in Cells : run.cells[c].state # "Done"
  BY <1>3 DEF Left
<1>8. \A c \in Cells : c \in DoneCells' <=> \E i \in DOMAIN store : store[i].root = run.root /\ store[i].cells[c].state = "Done"
  <2>1. \A c \in Cells : c \in DoneCells' <=>
          \E i \in 1..(n + 1) : store'[i].root = run.root /\ store'[i].cells[c].state = "Done"
    BY <1>1, <1>2, <1>4 DEF DoneFacts, InLastSeries
  <2>2. \A i \in 1..(n + 1) : i = n + 1 \/ i \in DOMAIN store
    BY <1>1
  <2> QED BY <2>1, <2>2, <1>1, <1>2, <1>7
<1> HIDE DEF n, S
<1>9. CASE run.root = n + 1
  <2>1. DoneCells' = {}
    BY <1>1, <1>4, <1>6, <1>8, <1>9 DEF DoneFacts
  <2>2. BusyCells' = S
    BY <2>1, <1>5
  <2>3. Board!Renew(S)
    BY <2>1, <2>2, <1>5 DEF Board!Renew
  <2> QED BY <2>3 DEF Board!Next, S
<1>10. CASE n > 0 /\ run.root = store[n].root
  <2>1. \A c \in Cells : c \in DoneCells <=> \E i \in DOMAIN store : store[i].root = run.root /\ store[i].cells[c].state = "Done"
    BY <1>4, <1>10 DEF DoneFacts, InLastSeries, n
  <2>2. DoneCells' = DoneCells
    BY <2>1, <1>4, <1>8 DEF DoneFacts
  <2>3. S \cap DoneCells = {}
    BY <2>1, <1>3 DEF S
  <2>4. BusyCells' = S
    BY <2>2, <2>3, <1>5
  <2>5. Board!Resume(S)
    BY <2>2, <2>3, <2>4, <1>5 DEF Board!Resume
  <2> QED BY <2>5 DEF Board!Next, S
<1> QED BY <1>3, <1>9, <1>10

\* A step event completes the cells that its save stores as done.
LEMMA SaveOnBoard ==
  ASSUME PlanAssumption, IInv, IInv', phase \in Executing, phase' \in Executing,
         NEW p \in todo \cup open, NEW outcome \in StepOutcomes, NEW saved \in BOOLEAN, OnStep(p, outcome, saved)
  PROVE  Board!Next
<1> DEFINE n == Len(store)
           S == DoneCells' \ DoneCells
<1>1. run \in Records /\ run' \in Records /\ n \in DOMAIN store /\ store \in Seq(Records) /\ p[1] \in Cells
  BY DEF IInv, TypeOK, CurrentInv
<1>2. \A c \in Cells : run'.cells[c].state \in Left <=> run.cells[c].state \in Left
  <2>1. run.cells \in [Cells -> Receipts] /\ p[2] \in Steps /\ p[2] \in Template[p[1]]
    BY <1>1, RecordType DEF IInv, StepsInv, TypeOK
  <2>2. run.cells[p[1]].state \notin Left /\ run.cells[p[1]].steps[p[2]] # "Succeeded"
    BY DEF IInv, StepsInv
  <2>3. run.cells[p[1]].state = "Done" => run.cells[p[1]].steps[p[2]] = "Succeeded"
    BY <1>1, <2>1 DEF IInv, StepsInv
  <2>4. ApplyStep(p[1], run.cells[p[1]], p[2], outcome).state \notin Left
    BY <1>1, <2>1, <2>2, <2>3, ApplyStepFacts
  <2>5. run' = [run EXCEPT !.cells = [run.cells EXCEPT ![p[1]] = ApplyStep(p[1], run.cells[p[1]], p[2], outcome)]]
    BY DEF OnStep
  <2>6. /\ run'.cells[p[1]] = ApplyStep(p[1], run.cells[p[1]], p[2], outcome)
        /\ \A c \in Cells : c # p[1] => run'.cells[c] = run.cells[c]
    BY <2>1, <2>5, <1>1 DEF Records
  <2> QED BY <2>2, <2>4, <2>6
<1>3. /\ DOMAIN store' = DOMAIN store /\ Len(store') = n
      /\ \A j \in DOMAIN store : j # n => store'[j] = store[j]
      /\ store'[n] = store[n] \/ store'[n] = run'
  BY <1>1, Replaced DEF OnStep, Persist
<1>4. /\ store[n].root = run.root /\ store'[n].root = run'.root /\ run'.root = run.root
      /\ \A c \in Cells : store[n].cells[c].state \in Left <=> run.cells[c].state \in Left
      /\ \A c \in Cells : store'[n].cells[c].state \in Left <=> run'.cells[c].state \in Left
      /\ \A c \in Cells : store[n].cells[c].state = "Done" => run.cells[c].state = "Done"
  BY <1>1, <1>3 DEF IInv, CurrentInv, OnStep, Records
<1>5. \A c \in Cells : store[n].cells[c].state = "Done" => store'[n].cells[c].state = "Done"
  <2> SUFFICES ASSUME NEW c \in Cells, store[n].cells[c].state = "Done", store'[n] = run'
               PROVE  run'.cells[c].state = "Done"
    BY <1>3
  <2>1. run.cells[c].state = "Done"
    BY <1>4
  <2>2. c # p[1]
    BY <2>1, <1>1 DEF IInv, StepsInv
  <2>3. run'.cells[c] = run.cells[c]
    BY <2>2, <1>1, RecordType DEF OnStep, Records
  <2> QED BY <2>1, <2>3
<1> HIDE DEF n
<1>6. DoneCells \subseteq DoneCells' /\ S \subseteq BusyCells
  <2>1. n = Len(store)
    BY DEF n
  <2> QED BY <2>1, <1>2, <1>3, <1>4, <1>5, SaveCompletes
<1>7. BusyCells' = BusyCells \ S
  BY <1>2, <1>6 DEF BusyCells
<1>8. Board!Complete(S)
  BY <1>6, <1>7 DEF Board!Complete
<1>9. S \in SUBSET Cells
  BY DEF DoneCells
<1> QED BY <1>8, <1>9 DEF Board!Next

\* The last save of a run stores what it has done, or fails and leaves the board.
LEMMA CloseOnBoard ==
  ASSUME IInv, IInv', NEW cancelled \in BOOLEAN, NEW saved \in BOOLEAN, Close(cancelled, saved)
  PROVE  Board!Next
<1> DEFINE n == Len(store)
           S == DoneCells' \ DoneCells
<1>1. /\ phase = "closing" /\ phase' = "idle" /\ run \in Records /\ store \in Seq(Records) /\ n \in DOMAIN store
      /\ run.root = store[n].root
      /\ \A c \in Cells : store[n].cells[c].state = "Done" => run.cells[c].state = "Done"
      /\ \A c \in Cells : store[n].cells[c].state \in Left <=> run.cells[c].state \in Left
  BY DEF Close, IInv, TypeOK, CurrentInv, Executing
<1>2. PICK outcome \in RunOutcomes : Persist([run EXCEPT !.outcome = outcome, !.cells = Settled(@)], saved)
  BY DEF Close, OutcomeOf, RunOutcomes
<1> DEFINE closed == [run EXCEPT !.outcome = outcome, !.cells = Settled(@)]
<1>3. run.cells \in [Cells -> Receipts] /\ Settled(run.cells) \in [Cells -> Receipts]
  BY <1>1, RecordType, SettledType
<1>4. closed \in Records /\ closed.root = run.root /\ closed.cells = Settled(run.cells)
  BY <1>1, <1>2, <1>3 DEF Records
<1>5. \A c \in Cells : /\ closed.cells[c].state = "Done" <=> run.cells[c].state = "Done"
                       /\ closed.cells[c].state \in Left <=> run.cells[c].state \in Left
  BY <1>3, <1>4, SettledType
<1>6. /\ DOMAIN store' = DOMAIN store /\ Len(store') = n
      /\ \A j \in DOMAIN store : j # n => store'[j] = store[j]
      /\ store'[n] = store[n] \/ store'[n] = closed
  <2>1. store' = store \/ store' = [store EXCEPT ![n] = closed]
    BY <1>2 DEF Persist
  <2> HIDE DEF closed
  <2>2. CASE store' = store
    BY <2>2
  <2>3. CASE store' = [store EXCEPT ![n] = closed]
    BY <2>3, <1>1, <1>4, Replaced
  <2> QED BY <2>1, <2>2, <2>3
<1> HIDE DEF closed, n
<1>7. DoneCells \subseteq DoneCells' /\ S \subseteq BusyCells
  <2>1. /\ n = Len(store) /\ phase \in Executing /\ store'[n].root = store[n].root
        /\ \A c \in Cells : store[n].cells[c].state = "Done" => store'[n].cells[c].state = "Done"
        /\ \A c \in Cells : store'[n].cells[c].state \in Left <=> run.cells[c].state \in Left
    BY <1>1, <1>4, <1>5, <1>6 DEF n, Executing
  <2> QED BY <2>1, <1>6, SaveCompletes
<1>8. BusyCells' = {}
  BY <1>1 DEF BusyCells, Executing
<1>9. Board!Stop(S) /\ S \in SUBSET Cells
  BY <1>7, <1>8 DEF Board!Stop, DoneCells
<1> QED BY <1>9 DEF Board!Next

\* Nothing else changes what the store shows as done.
LEMMA RestOnBoard ==
  ASSUME IInv, IInv',
         \/ \E plan \in Plans, mode \in Modes : Prepare(plan, mode)
         \/ Drop \/ EngineReturns \/ Exit \/ Boot \/ Recovered
         \/ \E how \in {"ok", "cancelled", "error"} : StopEngine(how)
         \/ UNCHANGED vars
  PROVE  Board!Next \/ UNCHANGED <<DoneCells, BusyCells>>
<1>1. store' = store
  BY DEF Prepare, Drop, EngineReturns, Exit, Boot, Recovered, StopEngine, vars
<1>2. DoneCells' = DoneCells
  BY <1>1, DoneKept
<1>3. CASE Exit
  <2>1. BusyCells' = {}
    BY <1>3 DEF Exit, BusyCells, Executing
  <2>2. Board!Stop({})
    BY <2>1, <1>2 DEF Board!Stop
  <2> QED BY <2>2 DEF Board!Next
<1>4. CASE ~Exit
  <2>1. (run' = run /\ phase' \in Executing /\ phase \in Executing) \/ (phase' \notin Executing /\ phase \notin Executing)
        \/ (run' = run /\ phase' = phase)
    BY <1>4 DEF Prepare, Drop, EngineReturns, Boot, Recovered, StopEngine, Executing, vars
  <2>2. BusyCells' = BusyCells
    BY <2>1, <1>2 DEF BusyCells
  <2> QED BY <2>2, <1>2
<1> QED BY <1>3, <1>4

LEMMA RecoveryOnBoard ==
  ASSUME IInv, IInv', NEW i \in DOMAIN store, RecoverRun(i) PROVE UNCHANGED <<DoneCells, BusyCells>>
<1>1. store \in Seq(Records) /\ store[i] \in Records
  BY DEF IInv, TypeOK
<1>2. store[i].cells \in [Cells -> Receipts]
  BY <1>1, RecordType
<1> DEFINE r == [store[i] EXCEPT !.outcome = "Interrupted", !.cells = Settled(@)]
<1>3. store' = [store EXCEPT ![i] = r] /\ r.root = store[i].root /\ r.cells = Settled(store[i].cells)
  BY <1>1 DEF RecoverRun, Records
<1> HIDE DEF r
<1>4. /\ DOMAIN store' = DOMAIN store /\ Len(store') = Len(store)
      /\ store'[i].root = store[i].root /\ store'[i].cells = Settled(store[i].cells)
      /\ \A j \in DOMAIN store : j # i => store'[j] = store[j]
  <2>1. DOMAIN store' = DOMAIN store /\ Len(store') = Len(store) /\ store'[i] = r
    BY <1>1, <1>3
  <2>2. \A j \in DOMAIN store : j # i => store'[j] = store[j]
    BY <1>1, <1>3
  <2> QED BY <2>1, <2>2, <1>3
<1>5. \A c \in Cells : store'[i].cells[c].state = "Done" <=> store[i].cells[c].state = "Done"
  BY <1>2, <1>4, SettledType
<1>6. DoneCells' = DoneCells
  BY <1>4, <1>5, DoneKept
<1>7. phase \notin Executing /\ phase' \notin Executing
  BY DEF RecoverRun, Executing
<1> QED BY <1>6, <1>7 DEF BusyCells

LEMMA StepOnBoard ==
  ASSUME PlanAssumption, IInv, IInv', [Next]_vars PROVE Board!Next \/ UNCHANGED <<DoneCells, BusyCells>>
<1>1. ASSUME NEW p \in todo, NEW saved \in BOOLEAN, StartStep(p, saved) PROVE Board!Next
  <2>1. OnStep(p, "Started", saved) /\ "Started" \in StepOutcomes /\ phase \in Executing /\ phase' \in Executing
    BY <1>1 DEF StartStep, GoesOn, StepOutcomes, Executing
  <2> QED BY <2>1, SaveOnBoard
<1>2. ASSUME NEW p \in open, NEW outcome \in {"Succeeded", "Failed", "Skipped"}, NEW saved \in BOOLEAN,
             ReportStep(p, outcome, saved)
      PROVE  Board!Next
  <2>1. OnStep(p, outcome, saved) /\ outcome \in StepOutcomes /\ phase \in Executing /\ phase' \in Executing
    BY <1>2 DEF ReportStep, GoesOn, StepOutcomes, Executing
  <2> QED BY <2>1, SaveOnBoard
<1>3. ASSUME NEW p \in open, NEW saved \in BOOLEAN, UnwindStep(p, saved) PROVE Board!Next
  <2>1. OnStep(p, "Failed", saved) /\ "Failed" \in StepOutcomes /\ phase \in Executing /\ phase' \in Executing
    BY <1>3 DEF UnwindStep, StepOutcomes, Executing
  <2> QED BY <2>1, SaveOnBoard
<1> QED BY <1>1, <1>2, <1>3, StartOnBoard, CloseOnBoard, RestOnBoard, RecoveryOnBoard DEF Next, EngineStep

\* The stored receipts implement the board's promise: a series completes a cell at most
\* once and keeps it, only the attempt under way completes cells, and only a new series
\* forgets.
THEOREM BoardImplemented == Spec => BoardSpec
<1>1. Init => Board!Init
  <2> SUFFICES ASSUME Init PROVE DoneCells = {} /\ BusyCells = {}
    BY DEF Board!Init
  <2> QED BY DEF Init, DoneCells, BusyCells, Shown, Executing
<1>2. IInv /\ IInv' /\ [Next]_vars => [Board!Next]_<<DoneCells, BusyCells>>
  BY PlanAssumption, StepOnBoard
<1> QED BY <1>1, <1>2, Invariance, PTL DEF Spec, BoardSpec, Board!Spec

-------------------------------------------------------------------------------
(* The engine is expected to do what StepReports says, and nothing else.    *)

\* The receipts kept are those of the steps reported.
LEMMA ReceiptsReported ==
  ASSUME TypeOK, NEW p \in Cells \X Steps, NEW o, NEW saved, OnStep(p, o, saved)
  PROVE  LastReports' = [LastReports EXCEPT ![p] = o]
<1>1. run \in Records /\ run.cells \in [Cells -> Receipts] /\ p[1] \in Cells /\ p[2] \in Steps
  BY RecordType DEF TypeOK
<1>2. \A c \in Cells : run.cells[c].steps \in [Steps -> StepOutcomes]
  BY <1>1, ReceiptType
<1>3. run'.cells = [run.cells EXCEPT ![p[1]] = ApplyStep(p[1], run.cells[p[1]], p[2], o)]
  BY <1>1 DEF OnStep, Records
<1>4. ApplyStep(p[1], run.cells[p[1]], p[2], o).steps = [run.cells[p[1]].steps EXCEPT ![p[2]] = o]
  BY DEF ApplyStep
<1>5. \A c \in Cells, s \in Steps :
        run'.cells[c].steps[s] = IF c = p[1] /\ s = p[2] THEN o ELSE run.cells[c].steps[s]
  BY <1>1, <1>2, <1>3, <1>4
<1>6. \A q \in Cells \X Steps : q = p <=> q[1] = p[1] /\ q[2] = p[2]
  OBVIOUS
<1>7. QED
  BY <1>5, <1>6 DEF LastReports

\* The engine of a run takes the steps of StepReports, each recorded by OnStep, and no
\* others; a run that is refused is one that is stopped before its first step.
THEOREM EngineExpected ==
  ASSUME TypeOK
  PROVE  /\ \A p \in todo, saved \in BOOLEAN :
              StartStep(p, saved) <=> Reports!Start(p, saved) /\ OnStep(p, "Started", saved) /\ UNCHANGED unsaved
         /\ \A p \in open, outcome \in Reports!Outcomes, saved \in BOOLEAN :
              ReportStep(p, outcome, saved) <=>
                Reports!Report(p, outcome, saved) /\ OnStep(p, outcome, saved) /\ UNCHANGED unsaved
         /\ \A how \in {"ok", "cancelled", "error"} :
              StopEngine(how) <=> Reports!Stop(how) /\ UNCHANGED <<store, run, unsaved, faults>>
         /\ \A p \in open, saved \in BOOLEAN :
              UnwindStep(p, saved) <=> Reports!GiveUp(p, saved) /\ OnStep(p, "Failed", saved) /\ UNCHANGED unsaved
         /\ EngineReturns <=> Reports!Return /\ UNCHANGED <<store, run, unsaved, faults>>
<1> DEFINE forked == {p \in Cells \X Steps : p[2] \in Forked}
<1>1. todo \subseteq Cells \X Steps /\ open \subseteq Cells \X Steps
  BY DEF TypeOK
<1>2. UNCHANGED forked
  OBVIOUS
<1>3. (\A q \in open : q[2] \in Forked) <=> open \subseteq forked
  BY <1>1
<1>4. \A p, S : IsFirst(p, S) <=> Reports!IsFirst(p, S)
  BY DEF IsFirst, Reports!IsFirst
<1>5. \A saved, rest : GoesOn(saved, rest) <=> Reports!GoesOn(saved, rest)
  BY DEF GoesOn, Reports!GoesOn
<1>6. UNCHANGED run => LastReports' = LastReports
  BY DEF LastReports
<1>7. ASSUME NEW p \in todo, NEW saved \in BOOLEAN
      PROVE  StartStep(p, saved) <=> Reports!Start(p, saved) /\ OnStep(p, "Started", saved) /\ UNCHANGED unsaved
  BY <1>1, <1>2, <1>3, <1>4, <1>5, <1>7, ReceiptsReported DEF StartStep, Reports!Start
<1>8. ASSUME NEW p \in open, NEW outcome \in Reports!Outcomes, NEW saved \in BOOLEAN
      PROVE  ReportStep(p, outcome, saved) <=>
               Reports!Report(p, outcome, saved) /\ OnStep(p, outcome, saved) /\ UNCHANGED unsaved
  BY <1>1, <1>2, <1>5, <1>8, ReceiptsReported DEF ReportStep, Reports!Report
<1>9. ASSUME NEW how
      PROVE  StopEngine(how) <=> Reports!Stop(how) /\ UNCHANGED <<store, run, unsaved, faults>>
  BY <1>2, <1>3, <1>6 DEF StopEngine, Reports!Stop
<1>10. ASSUME NEW p \in open, NEW saved \in BOOLEAN
      PROVE  UnwindStep(p, saved) <=> Reports!GiveUp(p, saved) /\ OnStep(p, "Failed", saved) /\ UNCHANGED unsaved
  BY <1>1, <1>2, <1>4, <1>10, ReceiptsReported DEF UnwindStep, Reports!GiveUp
<1>11. EngineReturns <=> Reports!Return /\ UNCHANGED <<store, run, unsaved, faults>>
  BY <1>2, <1>6 DEF EngineReturns, Reports!Return
<1>12. QED
  BY <1>7, <1>8, <1>9, <1>10, <1>11

===============================================================================
