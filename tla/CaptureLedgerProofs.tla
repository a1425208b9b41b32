------------------------- MODULE CaptureLedgerProofs -------------------------
(***************************************************************************)
(* Proofs about CaptureLedger for every number of runs, folders, frames    *)
(* and faults: the types, that no frame is lost but by a run that took its *)
(* number without reading the storage, that a run reported complete is     *)
(* stored, and that a stored bias.json is a verified one.                  *)
(***************************************************************************)
EXTENDS CaptureLedger, TLAPS

-------------------------------------------------------------------------------
(* The inductive invariant.                                                 *)

\* Every file was taken in a run that was given the product number of its folder.
Belongs(disk_) ==
  \A f \in Files : disk_[f] # None =>
    disk_[f] \in 1..run /\ product[disk_[f]] = f.product /\ \E s \in taken : s.run = disk_[f]
OwnFolders == Belongs(buffer) /\ Belongs(storage)

TakenInv == \A s \in taken : s.run <= run

\* What a robocopy is about to delete is in the storage.
Safe(m) == m.copied # None => storage[At(m, m.copied)] # None
MovesInv == (move # None => Safe(move)) /\ \A m \in orphans : Safe(m)

\* When a heartbeat has reported that nothing is left, nothing is.
SettledInv == phase = "settling" /\ pending = "none" => \A f \in Files : buffer[f] = None

\* Folders are those of product numbers given out, which are below the number of their
\* run; one of them is the highest.
DirsInv ==
  /\ \A r \in 1..run : product[r] < r
  /\ \A p \in dirs : \E r \in 1..run : product[r] = p
  /\ dirs # {} => \E p \in dirs : \A q \in dirs : q <= p

\* Runs that have taken a frame, or may be about to. The product of such a run has its folder,
\* made for its bias.json, and so a later run that reads the storage takes another number.
Took(q) == (\E s \in taken : s.run = q) \/ (ForCapture /\ cmd.run = q)
FolderInv == \A q \in 1..run : Took(q) => product[q] \in dirs
NumberInv == \A q, r \in 1..run : q < r /\ r \notin guessed /\ product[q] = product[r] => ~Took(q)

\* Nothing is taken any more for a run that was reported complete.
CompleteInv ==
  /\ phase # "idle" => run \notin complete
  /\ pc # "idle" => cmd.run \notin complete

\* A result that is stored is the last one and has its folder; a BIAS operation has withdrawn
\* it, and a capture has it for its own run.
BiasInv ==
  /\ BiasFileIsVerified
  /\ bias.ok # 0 => bias.at \in 1..run /\ product[bias.at] \in dirs /\ bias.ok = bias.last
  /\ pc \in BiasSteps /\ ~ForCapture => bias.ok = 0
  /\ pc \in BiasSteps \cup {"checking"} /\ ForCapture => bias.at = cmd.run
  /\ pc \in {"biasPlace", "biasCheck"} => product[cmd.run] \in dirs
  /\ pc = "biasCheck" => bias.stored[product[cmd.run]] = bias.last

IInv ==
  /\ TypeOK
  /\ OwnFolders
  /\ TakenInv
  /\ MovesInv
  /\ SettledInv
  /\ DirsInv
  /\ FolderInv
  /\ NumberInv
  /\ FramesKept
  /\ CompleteMeansStored
  /\ CompleteInv
  /\ BiasInv

-------------------------------------------------------------------------------
(* Types.                                                                   *)

MoveAny == (pc = "moving" /\ MoveStep(move, TRUE)) \/ \E m \in orphans : MoveStep(m, FALSE)

LEMMA Bounds ==
  /\ Runs = 1..MaxRuns /\ Numbers = 0..MaxNumber - 1 /\ Products = 0..MaxRuns /\ Biases = 0..MaxBias
  /\ MaxRuns \in Nat /\ MaxNumber \in Nat /\ MaxBias \in Nat /\ MaxFaults \in Nat /\ Shots \in Nat \ {0}
  /\ None \notin Runs \cup Numbers /\ None \notin Moves
BY LedgerAssumption DEF Runs, Numbers, Products, Biases

LEMMA RunRange ==
  ASSUME TypeOK
  PROVE  /\ run \in Nat /\ run <= MaxRuns /\ 1..run \subseteq Runs
         /\ \A r \in Runs : r <= run => r \in 1..run
         /\ run # 0 => run \in Runs
<1>1. run \in 0..MaxRuns BY DEF TypeOK
<1> QED BY <1>1, Bounds

LEMMA FileType ==
  ASSUME TypeOK, NEW r \in Runs, NEW f \in Folders, NEW n \in Numbers
  PROVE  File(r, f, n) \in Files
<1>1. product[r] \in Products BY DEF TypeOK
<1> QED BY <1>1 DEF File, Files

LEMMA AtType ==
  ASSUME NEW m \in Moves, NEW n \in Numbers
  PROVE  At(m, n) \in Files
BY DEF At, Files, Moves

LEMMA FaultType ==
  ASSUME TypeOK, faults' = faults \/ Fault
  PROVE  faults' \in 0..MaxFaults
<1>1. faults \in Nat /\ faults <= MaxFaults /\ MaxFaults \in Nat BY Bounds DEF TypeOK
<1> QED BY <1>1 DEF Fault

\* The next product number is one more than the highest that has a folder, and in range.
LEMMA NextNumber ==
  ASSUME TypeOK, DirsInv, NEW readable \in BOOLEAN
  PROVE  NextRunProductNumber(IF readable THEN dirs ELSE {}) \in 0..run
<1>1. CASE ~readable \/ dirs = {} BY <1>1, Bounds DEF NextRunProductNumber, TypeOK
<1>2. CASE readable /\ dirs # {}
  <2> DEFINE p == CHOOSE p \in dirs : \A q \in dirs : q <= p
  <2>1. p \in dirs BY <1>2 DEF DirsInv
  <2> HIDE DEF p
  <2>2. PICK r \in 1..run : product[r] = p BY <2>1 DEF DirsInv
  <2>3. p \in Nat /\ r < run + 1 /\ p < r BY <2>1, <2>2, Bounds DEF DirsInv, TypeOK
  <2>4. NextRunProductNumber(IF readable THEN dirs ELSE {}) = p + 1 BY <1>2 DEF NextRunProductNumber, p
  <2>5. run \in Nat BY Bounds DEF TypeOK
  <2>6. r \in 1..run BY <2>2
  <2>7. p + 1 \in 0..run BY <2>3, <2>5, <2>6
  <2> QED BY <2>4, <2>7
<1> QED BY <1>1, <1>2

\* A BIAS operation is no capture, and neither is no command.
LEMMA Commanded ==
  /\ \A r : [run |-> r] \notin Commands
  /\ \A c \in BiasCommands : c \notin Commands
  /\ NoCommand \notin Commands
  /\ CaptureCommands \subseteq Commands
<1>1. ASSUME NEW c \in Commands PROVE "shot" \in DOMAIN c
  BY DEF Commands
<1>2. \A r : "shot" \notin DOMAIN [run |-> r] OBVIOUS
<1>3. \A c \in BiasCommands : DOMAIN c = {"run"} BY DEF BiasCommands
<1> QED BY <1>1, <1>2, <1>3 DEF NoCommand, CaptureCommands

\* The run of a command, and the type of a capture's.
LEMMA CommandRun ==
  ASSUME TypeOK
  PROVE  /\ pc # "idle" => cmd.run \in 1..run /\ cmd.run \in Runs /\ product[cmd.run] \in Products
         /\ ForCapture => cmd \in CaptureCommands /\ pc # "idle"
<1>1. ASSUME pc # "idle" PROVE cmd.run \in 1..run
  <2>1. CASE cmd \in BiasCommands BY <2>1 DEF BiasCommands
  <2>2. CASE cmd \in CaptureCommands
    <3>1. cmd.run \in Runs /\ cmd.run <= run BY <2>2 DEF CaptureCommands, Commands
    <3> QED BY <3>1, RunRange
  <2> QED BY <1>1, <2>1, <2>2 DEF TypeOK
<1>2. ASSUME pc # "idle" PROVE cmd.run \in Runs /\ product[cmd.run] \in Products
  <2>1. cmd.run \in Runs BY <1>1, <1>2, RunRange
  <2> QED BY <2>1 DEF TypeOK
<1>3. ForCapture => cmd \in CaptureCommands /\ pc # "idle" BY Commanded DEF ForCapture, TypeOK, CaptureSteps, BiasSteps
<1> QED BY <1>1, <1>2, <1>3

LEMMA TypeInit == Init => TypeOK
<1> SUFFICES ASSUME Init PROVE TypeOK OBVIOUS
<1>1. /\ product \in [Runs -> Products] /\ next \in [Folders -> 0..MaxNumber]
      /\ buffer \in [Files -> Runs \cup {None}] /\ storage \in [Files -> Runs \cup {None}]
  BY Bounds DEF Init
<1>2. bias \in [last : Biases, ok : Biases, at : 0..run, local : [Products -> Biases],
               stored : [Products -> Biases], placed : [Products -> Biases]]
  BY Bounds DEF Init
<1>3. run \in 0..MaxRuns /\ faults \in 0..MaxFaults
  BY Bounds DEF Init
<1> QED BY <1>1, <1>2, <1>3 DEF Init, TypeOK

LEMMA MasterTypes == TypeOK /\ DirsInv /\ Master => TypeOK'
<1> SUFFICES ASSUME TypeOK, DirsInv, Master PROVE TypeOK' OBVIOUS
<1>1. ASSUME NEW readable \in BOOLEAN, StartRun(readable) PROVE TypeOK'
  <2>1. run \in 0..MaxRuns /\ run + 1 \in Runs /\ run' = run + 1 BY <1>1, Bounds DEF StartRun, TypeOK
  <2>2. NextRunProductNumber(IF readable THEN dirs ELSE {}) \in Products BY <2>1, NextNumber, Bounds
  <2>3. product' \in [Runs -> Products] BY <1>1, <2>1, <2>2 DEF StartRun, TypeOK
  <2>4. next' \in [Folders -> 0..MaxNumber] BY <1>1, Bounds DEF StartRun
  <2>5. faults' \in 0..MaxFaults /\ guessed' \subseteq 1..run'
    <3>0. guessed \subseteq 1..run' /\ run + 1 \in 1..run' BY <2>1, Bounds DEF TypeOK
    <3>1. CASE readable BY <1>1, <3>0, <3>1 DEF StartRun, TypeOK
    <3>2. CASE ~readable
      <4>1. Fault /\ guessed' = guessed \cup {run + 1} BY <1>1, <3>2 DEF StartRun
      <4> QED BY <3>0, <4>1, FaultType
    <3> QED BY <3>1, <3>2
  <2>6. complete' \subseteq 1..run' BY <1>1, <2>1, Bounds DEF StartRun, TypeOK
  <2>7. run' \in 0..MaxRuns /\ run' # 0 BY <2>1, Bounds DEF Runs
  <2>8. BiasCommands \subseteq BiasCommands' /\ CaptureCommands \subseteq CaptureCommands'
    <3>1. 1..run \subseteq 1..run' BY <2>1, Bounds
    <3>2. \A c \in Commands : c.run \in Nat BY Bounds DEF Commands
    <3>3. \A c \in CaptureCommands : c.run <= run' BY <2>1, <3>2, Bounds DEF CaptureCommands
    <3> QED BY <3>1, <3>3 DEF BiasCommands, CaptureCommands
  <2>9. UNCHANGED <<pc, cmd, bias>> /\ 0..run \subseteq 0..run' BY <1>1, <2>1, Bounds DEF StartRun
  <2>10. bias' \in [last : Biases, ok : Biases, at : 0..run', local : [Products -> Biases],
                    stored : [Products -> Biases], placed : [Products -> Biases]]
    BY <2>9 DEF TypeOK
  <2>11. \/ pc' = "idle" /\ cmd' = NoCommand
         \/ pc' \in CaptureSteps /\ cmd' \in CaptureCommands'
         \/ pc' \in BiasSteps /\ cmd' \in BiasCommands' \cup CaptureCommands'
    BY <2>8, <2>9 DEF TypeOK
  <2> QED BY <1>1, <2>3, <2>4, <2>5, <2>6, <2>7, <2>10, <2>11 DEF StartRun, TypeOK, disk
<1>2. CASE CancelRun BY <1>2 DEF CancelRun, TypeOK, disk, BiasCommands, CaptureCommands
<1>3. CASE EndSteps BY <1>3 DEF EndSteps, TypeOK, disk, BiasCommands, CaptureCommands
<1>4. CASE Heartbeat BY <1>4 DEF Heartbeat, TypeOK, disk, BiasCommands, CaptureCommands
<1>5. CASE ReportComplete
  <2>1. run \in 1..run
    <3>1. run # 0 BY <1>5 DEF ReportComplete, TypeOK
    <3> QED BY <3>1, RunRange
  <2> QED BY <1>5, <2>1 DEF ReportComplete, TypeOK, disk, BiasCommands, CaptureCommands
<1> QED BY <1>1, <1>2, <1>3, <1>4, <1>5 DEF Master

LEMMA RobocopyType ==
  ASSUME NEW p \in Products, NEW f \in Folders
  PROVE  Robocopy(p, f) \in Moves /\ [Robocopy(p, f) EXCEPT !.todo = {}] \in Moves
BY DEF Robocopy, Moves

LEMMA CaptureTypes == TypeOK /\ Capture => TypeOK'
<1> SUFFICES ASSUME TypeOK, Capture PROVE TypeOK' OBVIOUS
<1>1. ASSUME NEW f \in Folders, SendCapture(f) PROVE TypeOK'
  <2>1. next[f] \in 0..MaxNumber /\ next[f] + Shots <= MaxNumber BY <1>1 DEF SendCapture, TypeOK
  <2>2. next[f] \in Numbers /\ next[f] + Shots \in 0..MaxNumber BY <2>1, Bounds
  <2>3. run \in Runs /\ run <= run
    <3>1. run # 0 BY <1>1 DEF SendCapture, TypeOK
    <3> QED BY <3>1, RunRange
  <2>4. cmd' \in CaptureCommands
    <3>1. 0 \in 0..Shots BY Bounds
    <3> QED BY <1>1, <2>1, <2>2, <2>3, <3>1 DEF SendCapture, Commands, CaptureCommands
  <2>5. next' \in [Folders -> 0..MaxNumber] BY <1>1, <2>2 DEF SendCapture, TypeOK
  <2>6. pc' = "checking" /\ move = None /\ phase = "running" BY <1>1 DEF SendCapture, TypeOK
  <2> QED BY <1>1, <2>4, <2>5, <2>6
          DEF SendCapture, TypeOK, disk, CaptureSteps, BiasCommands, CaptureCommands
<1>2. CASE WriteShot
  <2>1. cmd \in CaptureCommands /\ cmd \in Commands /\ cmd.from + Shots <= MaxNumber /\ cmd.shot < Shots
    BY <1>2 DEF WriteShot, TypeOK, BiasSteps, CaptureCommands
  <2>2. cmd.run \in Runs /\ cmd.folder \in Folders /\ cmd.from \in 0..MaxNumber - 1 /\ cmd.shot \in 0..Shots
    BY <2>1, Bounds DEF Commands
  <2>3. cmd.from + cmd.shot \in Numbers /\ cmd.shot + 1 \in 0..Shots BY <2>1, <2>2, Bounds
  <2>4. buffer' \in [Files -> Runs \cup {None}]
    BY <1>2, <2>2 DEF WriteShot, TypeOK
  <2>5. taken' \subseteq Frames BY <1>2, <2>2, <2>3 DEF WriteShot, TypeOK, Frames
  <2>6. cmd' \in CaptureCommands
    BY <1>2, <2>1, <2>2, <2>3 DEF WriteShot, Commands, CaptureCommands
  <2> QED BY <1>2, <2>4, <2>5, <2>6
          DEF WriteShot, TypeOK, master, CaptureSteps, BiasCommands, CaptureCommands
<1>3. ASSUME NEW failed \in BOOLEAN, BeginSync(failed) PROVE TypeOK'
  <2>0. cmd \in CaptureCommands BY <1>3 DEF BeginSync, TypeOK, BiasSteps
  <2>1. product[cmd.run] \in Products /\ cmd.folder \in Folders
    BY <2>0 DEF TypeOK, Commands, CaptureCommands
  <2>2. move' \in Moves BY <1>3, <2>1, RobocopyType DEF BeginSync
  <2>3. faults' \in 0..MaxFaults
    <3>1. faults' = faults \/ Fault BY <1>3 DEF BeginSync
    <3> QED BY <3>1, FaultType
  <2>4. good' \in BOOLEAN BY <1>3, Zenon DEF BeginSync, Unanswered, TypeOK
  <2>5. pc' = "moving" /\ move' # None /\ pc = "shooting" BY <1>3, <2>2, Bounds DEF BeginSync
  <2>6. UNCHANGED <<run, phase, product, next, pending, complete, guessed, cmd, taken, buffer,
                    storage, dirs, orphans, bias>>
    BY <1>3 DEF BeginSync, disk
  <2> QED BY <2>0, <2>2, <2>3, <2>4, <2>5, <2>6 DEF TypeOK, CaptureSteps, BiasCommands, CaptureCommands
<1>4. CASE EndSync
  BY <1>4 DEF EndSync, TypeOK, Leaves, NothingRuns, master, disk, BiasCommands, CaptureCommands
<1>5. ASSUME NEW readable \in BOOLEAN, CheckBias(readable) PROVE TypeOK'
  <2>1. faults' \in 0..MaxFaults BY <1>5, FaultType DEF CheckBias
  <2>2. /\ cmd \in CaptureCommands /\ cmd' = cmd /\ move = None
        /\ pc' \in {"shooting", "biasLocal"} /\ phase # "settling"
    BY <1>5 DEF CheckBias, TypeOK, BiasSteps
  <2> QED BY <1>5, <2>1, <2>2
          DEF CheckBias, TypeOK, master, disk, CaptureSteps, BiasSteps, BiasCommands, CaptureCommands
<1> QED BY <1>1, <1>2, <1>3, <1>4, <1>5 DEF Capture

LEMMA AbortTypes == TypeOK /\ Abort => TypeOK'
<1> SUFFICES ASSUME TypeOK, Abort PROVE TypeOK' OBVIOUS
<1>1. good' \in BOOLEAN BY Zenon DEF Abort, Unanswered, TypeOK
<1>2. orphans' \subseteq Moves BY DEF Abort, TypeOK
<1> QED BY <1>1, <1>2 DEF Abort, TypeOK, Leaves, NothingRuns, disk, BiasCommands, CaptureCommands

LEMMA BiasTypes == TypeOK /\ Bias => TypeOK'
<1> SUFFICES ASSUME TypeOK, Bias PROVE TypeOK' OBVIOUS
<1> DEFINE BT(b) == b \in [last : Biases, ok : Biases, at : 0..run, local : [Products -> Biases],
                           stored : [Products -> Biases], placed : [Products -> Biases]]
<1> DEFINE CT(c) == c \in BiasCommands \cup CaptureCommands
<1>0. ASSUME pc \in BiasSteps
      PROVE  CT(cmd) /\ cmd.run \in 1..run /\ cmd.run \in Runs /\ product[cmd.run] \in Products
  <2>1. pc # "idle" /\ CT(cmd) BY <1>0 DEF TypeOK, BiasSteps, CaptureSteps
  <2> QED BY <2>1, CommandRun
<1>1. CASE SendBias
  <2>1. bias.last + 1 \in Biases /\ 0 \in Biases
    <3>1. bias.last \in Biases /\ bias.last < MaxBias BY <1>1 DEF SendBias, TypeOK
    <3> QED BY <3>1, Bounds
  <2>2. BT(bias') BY <1>1, <2>1 DEF SendBias, TypeOK
  <2>3. cmd' \in BiasCommands
    <3>1. run # 0 /\ cmd' = [run |-> run] BY <1>1 DEF SendBias, TypeOK
    <3>2. run \in 1..run BY <3>1, RunRange
    <3> QED BY <3>1, <3>2 DEF BiasCommands
  <2> QED BY <1>1, <2>2, <2>3 DEF SendBias, TypeOK, master, disk, BiasSteps, BiasCommands, CaptureCommands
<1>2. CASE WriteLocalBias
  <2>1. BT(bias') BY <1>0, <1>2 DEF WriteLocalBias, TypeOK, BiasSteps
  <2> QED BY <1>0, <1>2, <2>1
          DEF WriteLocalBias, TypeOK, master, disk, BiasSteps, BiasCommands, CaptureCommands
<1>3. CASE CopyBiasFile
  BY <1>0, <1>3 DEF CopyBiasFile, TypeOK, master, BiasSteps, BiasCommands, CaptureCommands
<1>4. CASE PlaceBias
  <2>1. BT(bias') BY <1>0, <1>4 DEF PlaceBias, TypeOK, BiasSteps
  <2> QED BY <1>0, <1>4, <2>1
          DEF PlaceBias, TypeOK, master, disk, BiasSteps, BiasCommands, CaptureCommands
<1>5. ASSUME NEW anew \in BOOLEAN, RetryBias(anew) PROVE TypeOK'
  <2>1. faults' \in 0..MaxFaults BY <1>5, FaultType DEF RetryBias
  <2>2. BT(bias')
    <3>1. CASE anew
      <4>1. bias.last \in Biases /\ bias.last < MaxBias BY <1>5, <3>1 DEF RetryBias, TypeOK
      <4>2. bias.last + 1 \in Biases BY <4>1, Bounds
      <4> QED BY <1>5, <3>1, <4>2 DEF RetryBias, TypeOK
    <3>2. CASE ~anew BY <1>5, <3>2 DEF RetryBias, TypeOK
    <3> QED BY <3>1, <3>2
  <2>3. \/ pc' = "checking" /\ cmd' \in CaptureCommands
        \/ pc' = "biasLocal" /\ CT(cmd')
    BY <1>0, <1>5, CommandRun DEF RetryBias
  <2>4. pc # "idle" /\ pc' # "moving" /\ pc # "moving" /\ move = None
    BY <1>5 DEF RetryBias, TypeOK, BiasSteps
  <2>5. \/ pc' \in CaptureSteps /\ cmd' \in CaptureCommands'
        \/ pc' \in BiasSteps /\ cmd' \in BiasCommands' \cup CaptureCommands'
    BY <1>5, <2>3 DEF RetryBias, master, CaptureSteps, BiasSteps, BiasCommands, CaptureCommands
  <2>6. UNCHANGED <<run, phase, good, product, next, pending, complete, guessed, taken, buffer, storage,
                    dirs, move, orphans>> /\ phase # "settling"
    BY <1>5, <2>4 DEF RetryBias, master, disk, TypeOK
  <2> QED BY <2>1, <2>2, <2>4, <2>5, <2>6 DEF TypeOK
<1>6. ASSUME NEW deleted \in BOOLEAN, ReportBias(deleted) PROVE TypeOK'
  <2>0. bias.last \in Biases /\ product[cmd.run] \in Products /\ 0 \in Biases /\ cmd.run \in 0..run
    BY <1>0, <1>6, Bounds DEF ReportBias, TypeOK, BiasSteps
  <2>1. BT(bias')
    <3>1. bias' = [bias EXCEPT !.ok = bias.last, !.at = cmd.run,
                               !.local[product[cmd.run]] = IF deleted THEN 0 ELSE bias.local[product[cmd.run]]]
      BY <1>6 DEF ReportBias
    <3> QED BY <2>0, <3>1 DEF TypeOK
  <2>2. faults' \in 0..MaxFaults
    BY <1>6, FaultType DEF ReportBias
  <2>3. \/ pc' = "shooting" /\ cmd' \in CaptureCommands
        \/ pc' = "idle" /\ cmd' = NoCommand
    BY <1>6, CommandRun DEF ReportBias, Leaves
  <2>4. pc = "biasCheck" /\ pc' # "moving" /\ move = None BY <1>6, <2>3 DEF ReportBias, TypeOK
  <2>5. UNCHANGED <<run, phase, good, product, next, pending, complete, guessed, taken, buffer, storage,
                    dirs, move, orphans>> /\ phase # "settling"
    BY <1>6 DEF ReportBias, master, disk, TypeOK
  <2>6. \/ pc' = "idle" /\ cmd' = NoCommand
        \/ pc' \in CaptureSteps /\ cmd' \in CaptureCommands'
    BY <2>3, <2>5 DEF CaptureSteps, CaptureCommands
  <2> QED BY <2>1, <2>2, <2>4, <2>5, <2>6 DEF TypeOK
<1> QED BY <1>1, <1>2, <1>3, <1>4, <1>5, <1>6 DEF Bias

\* What a step of robocopy does to the disk and to its own progress.
Shorter(m, n) == [m EXCEPT !.todo = @ \ {n}]
Moved(m, after) ==
  /\ after \in Moves /\ after.product = m.product /\ after.folder = m.folder
  /\ \/ UNCHANGED <<buffer, storage>> /\ after.copied = None
     \/ \E n \in Numbers : /\ buffer[At(m, n)] # None /\ after.copied = n /\ buffer' = buffer
                           /\ storage' = [storage EXCEPT ![At(m, n)] = buffer[At(m, n)]]
     \/ /\ m.copied \in Numbers /\ after.copied = None /\ storage' = storage
        /\ buffer' = [buffer EXCEPT ![At(m, m.copied)] = None]
  /\ faults' = faults \/ Fault
LEMMA MoveCases ==
  ASSUME NEW m \in Moves, NEW own \in BOOLEAN, MoveStep(m, own)
  PROVE  \E after : Moved(m, after) /\ Becomes(m, own, after)
<1>1. ASSUME NEW n \in m.todo
      PROVE  /\ n \in Numbers
             /\ Shorter(m, n) \in Moves /\ [m EXCEPT !.todo = @ \ {n}, !.copied = n] \in Moves
             /\ Shorter(m, n).product = m.product /\ Shorter(m, n).folder = m.folder
             /\ Shorter(m, n).copied = m.copied
  BY <1>1 DEF Shorter, Moves
<1>2. ASSUME NEW n \in m.todo, CopyFile(m, own, n) 
      PROVE  \E after : Moved(m, after) /\ Becomes(m, own, after)
  <2>1. CASE buffer[At(m, n)] = None
    <3>1. Becomes(m, own, Shorter(m, n)) /\ UNCHANGED <<buffer, storage, faults>> /\ m.copied = None
      BY <1>2, <2>1 DEF CopyFile, Shorter
    <3>2. Moved(m, Shorter(m, n)) BY <1>1, <3>1 DEF Moved
    <3> QED BY <3>1, <3>2
  <2>2. CASE buffer[At(m, n)] # None
    <3> DEFINE after == [m EXCEPT !.todo = @ \ {n}, !.copied = n]
    <3>1. /\ Becomes(m, own, after) /\ UNCHANGED <<buffer, faults>>
          /\ storage' = [storage EXCEPT ![At(m, n)] = buffer[At(m, n)]]
      BY <1>2, <2>2 DEF CopyFile
    <3>2. after.product = m.product /\ after.folder = m.folder /\ after.copied = n BY DEF Moves
    <3>3. Moved(m, after) BY <1>1, <2>2, <3>1, <3>2 DEF Moved
    <3> QED BY <3>1, <3>3
  <2> QED BY <2>1, <2>2
<1>3. ASSUME NEW n \in m.todo, SkipFile(m, own, n)
      PROVE  \E after : Moved(m, after) /\ Becomes(m, own, after)
  <2>1. Becomes(m, own, Shorter(m, n)) /\ UNCHANGED <<buffer, storage>> /\ m.copied = None /\ Fault
    BY <1>3 DEF SkipFile, Shorter
  <2>2. Moved(m, Shorter(m, n)) BY <1>1, <2>1 DEF Moved
  <2> QED BY <2>1, <2>2
<1>4. CASE DeleteSource(m, own)
  <2> DEFINE after == [m EXCEPT !.copied = None]
  <2>1. /\ Becomes(m, own, after) /\ UNCHANGED <<storage, faults>> /\ m.copied \in Numbers
        /\ buffer' = [buffer EXCEPT ![At(m, m.copied)] = None]
    BY <1>4 DEF DeleteSource, Moves
  <2>2. after \in Moves /\ after.product = m.product /\ after.folder = m.folder /\ after.copied = None
    BY DEF Moves
  <2>3. Moved(m, after) BY <2>1, <2>2 DEF Moved
  <2> QED BY <2>1, <2>3
<1> QED BY <1>2, <1>3, <1>4 DEF MoveStep

LEMMA MoveTypes == TypeOK /\ MoveAny => TypeOK'
<1> SUFFICES ASSUME TypeOK, MoveAny PROVE TypeOK' OBVIOUS
<1>1. ASSUME NEW m, NEW own \in BOOLEAN, MoveStep(m, own), IF own THEN pc = "moving" /\ m = move ELSE m \in orphans
      PROVE  TypeOK'
  <2>1. m \in Moves BY <1>1 DEF TypeOK
  <2>2. PICK after : Moved(m, after) /\ Becomes(m, own, after) BY <1>1, <2>1, MoveCases
  <2>3. UNCHANGED <<master, pc, cmd, taken, dirs, bias>> BY <1>1 DEF MoveStep
  <2>4. faults' \in 0..MaxFaults BY <2>2, FaultType DEF Moved
  <2>5. buffer' \in [Files -> Runs \cup {None}] /\ storage' \in [Files -> Runs \cup {None}]
    <3>1. CASE UNCHANGED <<buffer, storage>> BY <3>1 DEF TypeOK
    <3>2. CASE \E n \in Numbers : buffer' = buffer /\ storage' = [storage EXCEPT ![At(m, n)] = buffer[At(m, n)]]
      BY <2>1, <3>2, AtType DEF TypeOK
    <3>3. CASE storage' = storage /\ m.copied \in Numbers /\ buffer' = [buffer EXCEPT ![At(m, m.copied)] = None]
      BY <2>1, <3>3 DEF TypeOK
    <3> QED BY <2>2, <3>1, <3>2, <3>3 DEF Moved
  <2>6. /\ pc' = "moving" <=> move' # None
        /\ move' # None => move' \in Moves
        /\ orphans' \subseteq Moves
    BY <1>1, <2>2, <2>3, Bounds DEF Becomes, Moved, TypeOK
  <2> QED BY <2>3, <2>4, <2>5, <2>6 DEF TypeOK, master, BiasCommands, CaptureCommands
<1> QED BY <1>1 DEF MoveAny

LEMMA NextCases == Next => Master \/ Capture \/ Bias \/ Abort \/ MoveAny
BY DEF Next, MoveAny

LEMMA TypeStep == TypeOK /\ DirsInv /\ [Next]_vars => TypeOK'
<1>1. TypeOK /\ UNCHANGED vars => TypeOK' BY DEF TypeOK, vars, BiasCommands, CaptureCommands
<1> QED BY <1>1, NextCases, MasterTypes, CaptureTypes, BiasTypes, AbortTypes, MoveTypes

-------------------------------------------------------------------------------
(* Product numbers and folders.                                             *)

Starts == \E readable \in BOOLEAN : StartRun(readable)

LEMMA FrameCases ==
  ASSUME [Next]_vars
  PROVE  \/ Starts
         \/ WriteShot
         \/ MoveAny
         \/ UNCHANGED <<run, product, buffer, storage, taken>>
<1>1. CASE Master
  <2>1. CASE ~Starts
    BY <1>1, <2>1 DEF Master, Starts, CancelRun, EndSteps, Heartbeat, ReportComplete, disk
  <2> QED BY <2>1
<1>2. CASE Capture
  BY <1>2 DEF Capture, SendCapture, CheckBias, BeginSync, EndSync, disk, master
<1>3. CASE Bias
  BY <1>3 DEF Bias, SendBias, WriteLocalBias, CopyBiasFile, PlaceBias, RetryBias, ReportBias, disk, master
<1>4. CASE Abort BY <1>4 DEF Abort, disk
<1>5. CASE UNCHANGED vars BY <1>5 DEF vars, disk
<1>6. CASE MoveAny BY <1>6
<1>7. Next \/ UNCHANGED vars BY DEF vars
<1> QED BY <1>1, <1>2, <1>3, <1>4, <1>5, <1>6, <1>7, NextCases

LEMMA RunsGrow ==
  ASSUME TypeOK, Starts
  PROVE  /\ run' = run + 1 /\ run \in Nat /\ run + 1 \in Runs
         /\ \A r \in 1..run : product'[r] = product[r]
         /\ UNCHANGED <<buffer, storage, dirs, taken, complete, pc, cmd, move, orphans, bias>>
         /\ phase = "idle" /\ phase' = "running" /\ pending' = "unknown"
         /\ guessed \subseteq guessed'
         /\ run' \notin guessed' => product'[run'] = NextRunProductNumber(dirs)
<1>1. PICK readable \in BOOLEAN : StartRun(readable) BY DEF Starts
<1>2. run \in Nat /\ run + 1 \in Runs /\ run' = run + 1
  <2>1. run \in 0..MaxRuns /\ run < MaxRuns /\ run' = run + 1 BY <1>1 DEF StartRun, TypeOK
  <2> QED BY <2>1, Bounds
<1>3. product' = [product EXCEPT ![run + 1] = NextRunProductNumber(IF readable THEN dirs ELSE {})] BY <1>1 DEF StartRun
<1>4. \A r \in 1..run : r \in Runs /\ r # run + 1 BY <1>2, RunRange
<1>5. \A r \in 1..run : product'[r] = product[r] BY <1>3, <1>4 DEF TypeOK
<1>6. product'[run + 1] = NextRunProductNumber(IF readable THEN dirs ELSE {})
  BY <1>2, <1>3 DEF TypeOK
<1>7. guessed \subseteq guessed' /\ (~readable => run' \in guessed')
  BY <1>1, <1>2 DEF StartRun
<1>8. run' \notin guessed' => product'[run'] = NextRunProductNumber(dirs)
  BY <1>2, <1>6, <1>7
<1> QED BY <1>1, <1>2, <1>5, <1>7, <1>8 DEF StartRun, disk

LEMMA MoveFrame ==
  ASSUME MoveAny
  PROVE  UNCHANGED <<run, phase, good, product, next, pending, complete, guessed, pc, cmd, taken, dirs, bias>>
BY DEF MoveAny, MoveStep, master

LEMMA DirsFrame ==
  ASSUME TypeOK, [Next]_vars, ~Starts
  PROVE  /\ UNCHANGED <<run, product, guessed>>
         /\ dirs' = dirs \/ \E r \in 1..run : dirs' = dirs \cup {product[r]}
<1>1. CASE Master
  BY <1>1 DEF Master, Starts, CancelRun, EndSteps, Heartbeat, ReportComplete, disk
<1>2. CASE Capture
  BY <1>2 DEF Capture, SendCapture, CheckBias, WriteShot, BeginSync, EndSync, disk, master
<1>3. CASE Bias
  <2>1. CASE CopyBiasFile
    <3>1. pc # "idle" BY <2>1 DEF CopyBiasFile
    <3> QED BY <2>1, <3>1, CommandRun DEF CopyBiasFile, master
  <2>2. CASE ~CopyBiasFile
    BY <1>3, <2>2 DEF Bias, SendBias, WriteLocalBias, PlaceBias, RetryBias, ReportBias, disk, master
  <2> QED BY <2>1, <2>2
<1>4. CASE Abort BY <1>4 DEF Abort, disk
<1>5. CASE MoveAny BY <1>5, MoveFrame
<1>6. CASE UNCHANGED vars BY <1>6 DEF vars, disk
<1> QED BY <1>1, <1>2, <1>3, <1>4, <1>5, <1>6, NextCases

LEMMA DirsStep == TypeOK /\ DirsInv /\ [Next]_vars => DirsInv'
<1> SUFFICES ASSUME TypeOK, DirsInv, [Next]_vars PROVE DirsInv' OBVIOUS
<1>1. CASE Starts
  <2>1. PICK readable \in BOOLEAN : StartRun(readable) BY <1>1 DEF Starts
  <2>2. product'[run + 1] \in 0..run
    BY <1>1, <2>1, RunsGrow, NextNumber DEF StartRun, TypeOK
  <2>3. \A r \in 1..run' : r \in 1..run \/ r = run + 1 BY <1>1, RunsGrow
  <2>4. \A r \in 1..run' : product'[r] < r BY <1>1, <2>2, <2>3, RunsGrow DEF DirsInv
  <2>5. \A p \in dirs' : \E r \in 1..run' : product'[r] = p
    <3>1. 1..run \subseteq 1..run' BY <1>1, RunsGrow
    <3> QED BY <1>1, <3>1, RunsGrow DEF DirsInv
  <2> QED BY <1>1, <2>4, <2>5, RunsGrow DEF DirsInv
<1>2. CASE ~Starts
  <2>1. CASE dirs' = dirs BY <1>2, <2>1, DirsFrame DEF DirsInv
  <2>2. CASE dirs' # dirs
    <3>1. PICK r \in 1..run : dirs' = dirs \cup {product[r]} BY <1>2, <2>2, DirsFrame
    <3>2. product[r] \in Nat /\ dirs \subseteq Nat
      <4>1. run \in 0..MaxRuns /\ r \in 1..run /\ MaxRuns \in Nat BY Bounds DEF TypeOK
      <4>2. r \in 1..MaxRuns BY <4>1
      <4>3. product[r] \in Products /\ dirs \subseteq Products BY <4>2, Bounds DEF TypeOK
      <4> QED BY <4>3, Bounds
    <3>3. \E p \in dirs' : \A q \in dirs' : q <= p
      <4>1. CASE dirs = {} BY <3>1, <3>2, <4>1
      <4>2. CASE dirs # {}
        <5>1. PICK p \in dirs : \A q \in dirs : q <= p BY <4>2 DEF DirsInv
        <5>2. CASE product[r] <= p BY <3>1, <5>1, <5>2
        <5>3. CASE ~(product[r] <= p)
          <6>1. \A q \in dirs' : q <= product[r] BY <3>1, <3>2, <5>1, <5>3
          <6> QED BY <3>1, <6>1
        <5> QED BY <5>2, <5>3
      <4> QED BY <4>1, <4>2
    <3> QED BY <1>2, <3>1, <3>3, DirsFrame DEF DirsInv
  <2> QED BY <2>1, <2>2
<1> QED BY <1>1, <1>2

\* A capture that is sent is of a run whose bias.json is stored.
LEMMA SentCapture ==
  ASSUME TypeOK, BiasInv, NEW f \in Folders, SendCapture(f)
  PROVE  run \in 1..run /\ product[run] \in dirs /\ ForCapture' /\ cmd'.run = run
<1>1. bias.ok # 0 /\ bias.at = run BY DEF SendCapture
<1>2. run \in 1..run /\ product[run] \in dirs BY <1>1 DEF BiasInv
<1>3. cmd' \in CaptureCommands' /\ cmd'.run = run
  <2>1. TypeOK' BY CaptureTypes DEF Capture
  <2> QED BY <2>1 DEF SendCapture, TypeOK, BiasSteps
<1> QED BY <1>2, <1>3 DEF CaptureCommands, ForCapture

\* Only a capture that is sent adds to the runs that may take a frame.
LEMMA TookFrame ==
  ASSUME TypeOK, [Next]_vars, NEW q, Took(q)'
  PROVE  Took(q) \/ (q = run /\ \E f \in Folders : SendCapture(f))
<1>1. CASE UNCHANGED <<cmd, taken>> BY <1>1 DEF Took, ForCapture
<1>2. CASE cmd' = NoCommand /\ taken' = taken BY <1>2, Commanded DEF Took, ForCapture
<1>3. CASE Master
  BY <1>1, <1>3 DEF Master, StartRun, CancelRun, EndSteps, Heartbeat, ReportComplete
<1>4. CASE Capture
  <2>1. ASSUME NEW f \in Folders, SendCapture(f) PROVE Took(q) \/ q = run
    <3>1. taken' = taken /\ cmd'.run = run BY <2>1 DEF SendCapture
    <3> QED BY <3>1 DEF Took
  <2>2. CASE WriteShot
    <3>1. cmd \in CaptureCommands BY <2>2 DEF WriteShot, TypeOK, BiasSteps
    <3>2. cmd \in Commands /\ ForCapture BY <3>1 DEF CaptureCommands, ForCapture
    <3>3. cmd'.run = cmd.run BY <2>2, <3>2 DEF WriteShot, Commands
    <3>4. \A s \in taken' : s \in taken \/ s.run = cmd.run BY <2>2 DEF WriteShot
    <3> QED BY <3>2, <3>3, <3>4 DEF Took
  <2>3. CASE \E failed \in BOOLEAN : BeginSync(failed) BY <1>1, <2>3 DEF BeginSync
  <2>4. CASE EndSync BY <1>2, <2>4 DEF EndSync, Leaves
  <2>5. CASE \E readable \in BOOLEAN : CheckBias(readable) BY <1>1, <2>5 DEF CheckBias
  <2> QED BY <1>4, <2>1, <2>2, <2>3, <2>4, <2>5 DEF Capture
<1>5. CASE Bias
  <2>1. CASE SendBias
    <3>1. ~ForCapture' /\ taken' = taken BY <2>1, Commanded DEF SendBias, ForCapture
    <3> QED BY <3>1 DEF Took
  <2>2. CASE \E deleted \in BOOLEAN : ReportBias(deleted) BY <1>1, <1>2, <2>2 DEF ReportBias, Leaves
  <2>3. CASE WriteLocalBias \/ CopyBiasFile \/ PlaceBias \/ \E anew \in BOOLEAN : RetryBias(anew)
    BY <1>1, <2>3 DEF WriteLocalBias, CopyBiasFile, PlaceBias, RetryBias
  <2> QED BY <1>5, <2>1, <2>2, <2>3 DEF Bias
<1>6. CASE Abort BY <1>2, <1>6 DEF Abort, Leaves
<1>7. CASE MoveAny BY <1>1, <1>7, MoveFrame
<1>8. CASE UNCHANGED vars BY <1>1, <1>8 DEF vars
<1>9. Next \/ UNCHANGED vars BY DEF vars
<1> QED BY <1>3, <1>4, <1>5, <1>6, <1>7, <1>8, <1>9, NextCases

\* A run that has taken frames is one that was started.
LEMMA TookRun ==
  ASSUME TypeOK, TakenInv, NEW q, Took(q)
  PROVE  q \in 1..run
<1>1. ASSUME NEW s \in taken PROVE s.run \in 1..run
  <2>1. s.run \in Runs /\ s.run <= run BY <1>1 DEF TypeOK, TakenInv, Frames
  <2> QED BY <2>1, RunRange
<1>2. ForCapture => cmd.run \in 1..run BY CommandRun
<1> QED BY <1>1, <1>2 DEF Took

LEMMA FolderStep ==
  TypeOK /\ TakenInv /\ BiasInv /\ FolderInv /\ [Next]_vars => FolderInv'
<1> SUFFICES ASSUME TypeOK, TakenInv, BiasInv, FolderInv, [Next]_vars, NEW q \in 1..run', Took(q)'
             PROVE  product'[q] \in dirs'
  BY DEF FolderInv
<1>1. q \in 1..run /\ product[q] \in dirs
  <2>1. CASE Took(q) BY <2>1, TookRun DEF FolderInv
  <2>2. CASE q = run /\ \E f \in Folders : SendCapture(f) BY <2>2, SentCapture
  <2> QED BY <2>1, <2>2, TookFrame
<1>2. CASE Starts BY <1>1, <1>2, RunsGrow
<1>3. CASE ~Starts
  <2>1. product' = product /\ dirs \subseteq dirs' BY <1>3, DirsFrame
  <2> QED BY <1>1, <2>1
<1> QED BY <1>2, <1>3

\* The number of a run that reads the storage is not that of a folder there.
LEMMA NewNumber ==
  ASSUME TypeOK, DirsInv
  PROVE  NextRunProductNumber(dirs) \notin dirs
<1>1. CASE dirs = {} BY <1>1
<1>2. CASE dirs # {}
  <2> DEFINE p == CHOOSE p \in dirs : \A q \in dirs : q <= p
  <2>1. p \in dirs /\ \A q \in dirs : q <= p BY <1>2 DEF DirsInv
  <2>2. NextRunProductNumber(dirs) = p + 1 BY <1>2 DEF NextRunProductNumber
  <2> HIDE DEF p
  <2>3. p \in Nat BY <2>1, Bounds DEF TypeOK
  <2> QED BY <2>1, <2>2, <2>3
<1> QED BY <1>1, <1>2

LEMMA NumberStep ==
  TypeOK /\ TakenInv /\ DirsInv /\ FolderInv /\ NumberInv /\ [Next]_vars => NumberInv'
<1> SUFFICES ASSUME TypeOK, TakenInv, DirsInv, FolderInv, NumberInv, [Next]_vars,
                    NEW q \in 1..run', NEW r \in 1..run', q < r, r \notin guessed',
                    product'[q] = product'[r], Took(q)'
             PROVE  FALSE
  BY DEF NumberInv
<1>1. CASE Starts
  <2>1. Took(q)
    <3>1. phase = "idle" BY <1>1, RunsGrow
    <3> QED BY <3>1, TookFrame DEF SendCapture
  <2>2. q \in 1..run BY <2>1, TookRun
  <2>3. CASE r \in 1..run BY <1>1, <2>1, <2>2, <2>3, RunsGrow DEF NumberInv
  <2>4. CASE r = run'
    <3>1. product'[r] \notin dirs BY <1>1, <2>4, RunsGrow, NewNumber
    <3>2. product'[q] \in dirs BY <1>1, <2>1, <2>2, RunsGrow DEF FolderInv
    <3> QED BY <3>1, <3>2
  <2>5. r \in 1..run \/ r = run' BY <1>1, RunsGrow
  <2> QED BY <2>3, <2>4, <2>5
<1>2. CASE ~Starts
  <2>1. UNCHANGED <<run, product, guessed>> BY <1>2, DirsFrame
  <2>2. Took(q) BY <2>1, TookFrame, RunRange
  <2> QED BY <2>1, <2>2 DEF NumberInv
<1> QED BY <1>1, <1>2

\* Two runs that have taken frames of one product number are the same, unless the later one
\* took its number unread.
LEMMA SameRun ==
  ASSUME TypeOK, NumberInv, NEW q \in 1..run, NEW r \in 1..run, product[q] = product[r],
         Took(q), Took(r), ~Misnumbered(q)
  PROVE  q = r
<1>1. q \in Nat /\ r \in Nat /\ (q < r \/ r < q \/ q = r) BY RunRange
<1>2. ~Takes(r, q) /\ ~Takes(q, r) BY DEF Misnumbered
<1> QED BY <1>1, <1>2 DEF NumberInv, Takes

LEMMA MisnumberedStays ==
  ASSUME TypeOK, [Next]_vars, NEW q \in 1..run, Misnumbered(q)
  PROVE  Misnumbered(q)'
<1>1. PICK r \in 1..run : Takes(r, q) \/ Takes(q, r) BY DEF Misnumbered
<1>2. CASE Starts
  <2>1. r \in 1..run' BY <1>2, RunsGrow
  <2>2. product'[q] = product[q] /\ product'[r] = product[r] /\ guessed \subseteq guessed'
    BY <1>2, RunsGrow
  <2>3. (Takes(r, q) \/ Takes(q, r))' BY <1>1, <2>2 DEF Takes
  <2> QED BY <2>1, <2>3 DEF Misnumbered
<1>3. CASE ~Starts
  <2>1. UNCHANGED <<run, product, guessed>> BY <1>3, DirsFrame
  <2> QED BY <1>1, <2>1 DEF Misnumbered, Takes
<1> QED BY <1>2, <1>3

LEMMA CaptureCommand ==
  ASSUME TypeOK, WriteShot
  PROVE  /\ cmd.run \in 1..run /\ cmd.run \in Runs /\ cmd.folder \in Folders
         /\ cmd.from + cmd.shot \in Numbers /\ Took(cmd.run)
         /\ File(cmd.run, cmd.folder, FileNumber) \in Files
<1>0. cmd \in CaptureCommands BY DEF WriteShot, TypeOK, BiasSteps
<1>1. cmd \in Commands /\ cmd.run <= run /\ cmd.from + Shots <= MaxNumber /\ cmd.shot < Shots
  BY <1>0 DEF WriteShot, CaptureCommands
<1>2. cmd.run \in Runs /\ cmd.folder \in Folders /\ cmd.from \in 0..MaxNumber - 1 /\ cmd.shot \in 0..Shots
  BY <1>1, Bounds DEF Commands
<1>3. cmd.from + cmd.shot \in Numbers BY <1>1, <1>2, Bounds
<1>4. cmd.run \in 1..run BY <1>1, <1>2, RunRange
<1>5. Took(cmd.run) BY <1>1 DEF Took, ForCapture
<1> QED BY <1>2, <1>3, <1>4, <1>5, FileType DEF FileNumber

\* A step of robocopy, seen from the disk.
LEMMA DiskOfMove ==
  ASSUME TypeOK, MoveAny
  PROVE  \/ UNCHANGED <<buffer, storage>>
         \/ \E f \in Files : /\ buffer[f] # None /\ buffer' = buffer
                             /\ storage' = [storage EXCEPT ![f] = buffer[f]]
         \/ \E m \in orphans \cup {move} :
              /\ m # None /\ m \in Moves /\ m.copied \in Numbers
              /\ storage' = storage /\ buffer' = [buffer EXCEPT ![At(m, m.copied)] = None]
<1>1. ASSUME NEW m, NEW own \in BOOLEAN, MoveStep(m, own), m \in Moves, m # None, m \in orphans \cup {move}
      PROVE  \/ UNCHANGED <<buffer, storage>>
             \/ \E f \in Files : /\ buffer[f] # None /\ buffer' = buffer
                                 /\ storage' = [storage EXCEPT ![f] = buffer[f]]
             \/ \E m_ \in orphans \cup {move} :
                  /\ m_ # None /\ m_ \in Moves /\ m_.copied \in Numbers
                  /\ storage' = storage /\ buffer' = [buffer EXCEPT ![At(m_, m_.copied)] = None]
  <2>1. PICK after : Moved(m, after) BY <1>1, MoveCases
  <2> QED BY <1>1, <2>1, AtType DEF Moved
<1>2. \A m \in orphans : m \in Moves /\ m # None BY Bounds DEF TypeOK
<1>3. pc = "moving" => move \in Moves /\ move # None BY DEF TypeOK
<1> QED BY <1>1, <1>2, <1>3 DEF MoveAny

LEMMA OwnFoldersStep == TypeOK /\ OwnFolders /\ [Next]_vars => OwnFolders'
<1> SUFFICES ASSUME TypeOK, OwnFolders, [Next]_vars PROVE OwnFolders' OBVIOUS
<1>0. ASSUME NEW f \in Files
      PROVE  /\ buffer[f] # None => buffer[f] \in 1..run /\ product[buffer[f]] = f.product
                                      /\ \E s \in taken : s.run = buffer[f]
             /\ storage[f] # None => storage[f] \in 1..run /\ product[storage[f]] = f.product
                                       /\ \E s \in taken : s.run = storage[f]
  BY <1>0 DEF OwnFolders, Belongs
<1>1. CASE Starts
  <2>1. 1..run \subseteq 1..run' BY <1>1, RunsGrow
  <2>2. \A r \in 1..run : product'[r] = product[r] BY <1>1, RunsGrow
  <2>3. UNCHANGED <<buffer, storage, taken>> BY <1>1, RunsGrow
  <2> QED BY <1>0, <2>1, <2>2, <2>3 DEF OwnFolders, Belongs
<1>2. CASE WriteShot
  <2> DEFINE g == File(cmd.run, cmd.folder, FileNumber)
  <2>1. g \in Files /\ cmd.run \in 1..run /\ g.product = product[cmd.run]
    BY <1>2, CaptureCommand DEF File
  <2>2. buffer' = [buffer EXCEPT ![g] = cmd.run] /\ UNCHANGED <<run, product, storage>>
    BY <1>2 DEF WriteShot, master
  <2>3. \A f \in Files : buffer'[f] = IF f = g THEN cmd.run ELSE buffer[f] BY <2>2 DEF TypeOK
  <2>4. taken \subseteq taken' /\ \E s \in taken' : s.run = cmd.run
    <3> DEFINE shot == [run |-> cmd.run, folder |-> cmd.folder, number |-> cmd.from + cmd.shot]
    <3>1. taken' = taken \cup {shot} BY <1>2 DEF WriteShot
    <3>2. shot.run = cmd.run OBVIOUS
    <3> HIDE DEF shot
    <3> QED BY <3>1, <3>2
  <2> HIDE DEF g
  <2> QED BY <1>0, <2>1, <2>2, <2>3, <2>4 DEF OwnFolders, Belongs
<1>3. CASE MoveAny
  <2>0. UNCHANGED <<run, product, taken>> BY <1>3, MoveFrame
  <2>1. CASE UNCHANGED <<buffer, storage>> BY <1>0, <2>0, <2>1 DEF OwnFolders, Belongs
  <2>2. CASE \E f \in Files : /\ buffer[f] # None /\ buffer' = buffer
                              /\ storage' = [storage EXCEPT ![f] = buffer[f]]
    <3>1. PICK g \in Files : buffer[g] # None /\ buffer' = buffer /\ storage' = [storage EXCEPT ![g] = buffer[g]]
      BY <2>2
    <3>2. \A f \in Files : storage'[f] = IF f = g THEN buffer[g] ELSE storage[f] BY <3>1 DEF TypeOK
    <3> QED BY <1>0, <2>0, <3>1, <3>2 DEF OwnFolders, Belongs
  <2>3. CASE \E m \in orphans \cup {move} :
              storage' = storage /\ buffer' = [buffer EXCEPT ![At(m, m.copied)] = None]
    <3>1. \A f \in Files : buffer'[f] = buffer[f] \/ buffer'[f] = None BY <2>3 DEF TypeOK
    <3> QED BY <1>0, <2>0, <2>3, <3>1 DEF OwnFolders, Belongs
  <2> QED BY <1>3, <2>1, <2>2, <2>3, DiskOfMove
<1>4. CASE UNCHANGED <<run, product, buffer, storage, taken>> BY <1>0, <1>4 DEF OwnFolders, Belongs
<1> QED BY <1>1, <1>2, <1>3, <1>4, FrameCases

LEMMA TakenStep == TypeOK /\ TakenInv /\ [Next]_vars => TakenInv'
<1> SUFFICES ASSUME TypeOK, TakenInv, [Next]_vars PROVE TakenInv' OBVIOUS
<1>0. \A s \in taken : s.run \in Runs /\ s.run <= run BY DEF TypeOK, TakenInv, Frames
<1>1. CASE Starts
  <2>1. run' = run + 1 /\ taken' = taken /\ run \in Nat BY <1>1, RunsGrow
  <2> QED BY <1>0, <2>1, Bounds DEF TakenInv
<1>2. CASE WriteShot
  <2>1. cmd.run <= run BY <1>2, CaptureCommand
  <2>2. run' = run /\ \A s \in taken' : s \in taken \/ s.run = cmd.run BY <1>2 DEF WriteShot, master
  <2> QED BY <1>0, <2>1, <2>2 DEF TakenInv
<1>3. CASE MoveAny BY <1>0, <1>3, MoveFrame DEF TakenInv
<1>4. CASE UNCHANGED <<run, product, buffer, storage, taken>> BY <1>0, <1>4 DEF TakenInv
<1> QED BY <1>1, <1>2, <1>3, <1>4, FrameCases

-------------------------------------------------------------------------------
(* Frames.                                                                  *)

LEMMA MovesStep == TypeOK /\ OwnFolders /\ MovesInv /\ [Next]_vars => MovesInv'
<1> SUFFICES ASSUME TypeOK, MovesInv, [Next]_vars PROVE MovesInv' OBVIOUS
<1>1. CASE MoveAny
  <2>1. ASSUME NEW m, NEW own \in BOOLEAN, MoveStep(m, own),
               IF own THEN pc = "moving" /\ m = move ELSE m \in orphans
        PROVE  MovesInv'
    <3>1. m \in Moves /\ None \notin Moves BY <2>1, Bounds DEF TypeOK
    <3>2. PICK after : Moved(m, after) /\ Becomes(m, own, after) BY <2>1, <3>1, MoveCases
    <3>3. \A f \in Files : storage[f] # None => storage'[f] # None BY <3>1, <3>2 DEF Moved, TypeOK
    <3>4. \A x \in Moves : Safe(x) => Safe(x)'
      <4>1. \A x \in Moves : x.copied = None \/ (x.copied \in Numbers /\ At(x, x.copied) \in Files)
        BY AtType DEF Moves
      <4> QED BY <3>3, <4>1 DEF Safe, At
    <3>5. Safe(after)'
      <4>1. CASE after.copied = None BY <4>1 DEF Safe
      <4>2. CASE after.copied # None
        <5>1. PICK n \in Numbers : /\ buffer[At(m, n)] # None /\ after.copied = n
                                   /\ storage' = [storage EXCEPT ![At(m, n)] = buffer[At(m, n)]]
          BY <3>2, <4>2 DEF Moved
        <5>2. At(after, after.copied) = At(m, n) BY <3>2, <5>1 DEF Moved, At
        <5>3. At(m, n) \in Files BY <3>1, AtType
        <5>4. storage'[At(m, n)] # None BY <5>1, <5>3 DEF TypeOK
        <5> QED BY <5>2, <5>4 DEF Safe, At
      <4> QED BY <4>1, <4>2
    <3>6. \A x \in orphans : x \in Moves /\ Safe(x) BY DEF MovesInv, TypeOK
    <3>7. move # None => move \in Moves /\ Safe(move) BY DEF MovesInv, TypeOK
    <3> QED BY <3>2, <3>4, <3>5, <3>6, <3>7 DEF MovesInv, Becomes
  <2> QED BY <1>1, <2>1 DEF MoveAny
<1>2. ASSUME UNCHANGED storage, move' # None => move' = move \/ move'.copied = None,
             \A m \in orphans' : m \in orphans \/ (m = move /\ move # None)
      PROVE  MovesInv'
  BY <1>2 DEF MovesInv, Safe, At
<1>3. CASE Master
  BY <1>2, <1>3 DEF Master, StartRun, CancelRun, EndSteps, Heartbeat, ReportComplete, disk
<1>4. CASE Capture
  <2>1. CASE \E failed \in BOOLEAN : BeginSync(failed)
    <3> DEFINE r == Robocopy(product[cmd.run], cmd.folder)
    <3>1. r.copied = None /\ [r EXCEPT !.todo = {}].copied = None BY DEF Robocopy
    <3> HIDE DEF r
    <3>2. UNCHANGED <<storage, orphans>> /\ (move' = r \/ move' = [r EXCEPT !.todo = {}])
      BY <2>1 DEF BeginSync, r, disk
    <3> QED BY <1>2, <3>1, <3>2
  <2>2. CASE EndSync BY <1>2, <2>2 DEF EndSync, NothingRuns, disk
  <2>3. CASE WriteShot BY <1>2, <2>3 DEF WriteShot
  <2>4. CASE \E f \in Folders : SendCapture(f) BY <1>2, <2>4 DEF SendCapture, disk
  <2>5. CASE \E readable \in BOOLEAN : CheckBias(readable) BY <1>2, <2>5 DEF CheckBias, disk
  <2> QED BY <1>4, <2>1, <2>2, <2>3, <2>4, <2>5 DEF Capture
<1>5. CASE Bias
  BY <1>2, <1>5 DEF Bias, SendBias, WriteLocalBias, CopyBiasFile, PlaceBias, RetryBias, ReportBias, disk
<1>6. CASE Abort BY <1>2, <1>6 DEF Abort, NothingRuns, disk
<1>7. CASE UNCHANGED vars BY <1>2, <1>7 DEF vars, disk
<1>8. Next \/ UNCHANGED vars BY DEF vars
<1> QED BY <1>1, <1>3, <1>4, <1>5, <1>6, <1>7, <1>8, NextCases

LEMMA SettledStep == TypeOK /\ SettledInv /\ [Next]_vars => SettledInv'
<1> SUFFICES ASSUME TypeOK, SettledInv, [Next]_vars PROVE SettledInv' OBVIOUS
<1>1. CASE Master
  <2>1. CASE Heartbeat
    <3>1. buffer' = buffer /\ pending' = IF PendingFiles THEN "some" ELSE "none" BY <2>1 DEF Heartbeat, disk
    <3> QED BY <3>1 DEF PendingFiles, SettledInv
  <2>2. CASE ~Heartbeat
    BY <1>1, <2>2 DEF Master, StartRun, CancelRun, EndSteps, ReportComplete, disk, SettledInv
  <2> QED BY <2>1, <2>2
<1>2. CASE Capture
  <2>1. UNCHANGED phase /\ phase # "settling"
    BY <1>2 DEF Capture, SendCapture, CheckBias, WriteShot, BeginSync, EndSync, master, TypeOK
  <2> QED BY <2>1 DEF SettledInv
<1>3. CASE Bias
  BY <1>3 DEF Bias, SendBias, WriteLocalBias, CopyBiasFile, PlaceBias, RetryBias, ReportBias, disk, master, SettledInv
<1>4. CASE Abort BY <1>4 DEF Abort, disk, SettledInv
<1>5. CASE MoveAny
  <2>0. UNCHANGED <<phase, pending>> BY <1>5, MoveFrame
  <2>1. \A f \in Files : buffer'[f] = buffer[f] \/ buffer'[f] = None BY <1>5, DiskOfMove DEF TypeOK
  <2> QED BY <2>0, <2>1 DEF SettledInv
<1>6. CASE UNCHANGED vars BY <1>6 DEF vars, disk, SettledInv
<1>7. Next \/ UNCHANGED vars BY DEF vars
<1> QED BY <1>1, <1>2, <1>3, <1>4, <1>5, <1>6, <1>7, NextCases

LEMMA TakenFile ==
  ASSUME TypeOK, TakenInv, NEW s \in taken
  PROVE  /\ s.run \in 1..run /\ s.run \in Runs /\ s.folder \in Folders /\ s.number \in Numbers
         /\ File(s.run, s.folder, s.number) \in Files
         /\ File(s.run, s.folder, s.number).product = product[s.run]
<1>1. s \in Frames /\ s.run <= run BY DEF TypeOK, TakenInv
<1>2. s.run \in Runs /\ s.folder \in Folders /\ s.number \in Numbers BY <1>1 DEF Frames
<1>3. s.run \in 1..run BY <1>1, <1>2, RunRange
<1> QED BY <1>2, <1>3, FileType DEF File

\* What lies where a frame belongs is this frame.
LEMMA OwnFrame ==
  ASSUME TypeOK, OwnFolders, TakenInv, NumberInv, NEW s \in taken, ~Misnumbered(s.run), NEW g \in Files,
         g = File(s.run, s.folder, s.number)
  PROVE  /\ buffer[g] # None => buffer[g] = s.run
         /\ storage[g] # None => storage[g] = s.run
<1>1. s.run \in 1..run /\ g.product = product[s.run] BY TakenFile
<1>2. ASSUME NEW r \in 1..run, product[r] = g.product, \E t \in taken : t.run = r PROVE r = s.run
  <2>1. Took(r) /\ Took(s.run) BY <1>2 DEF Took
  <2> QED BY <1>1, <1>2, <2>1, SameRun
<1> QED BY <1>2 DEF OwnFolders, Belongs

LEMMA KeptStep ==
  TypeOK /\ OwnFolders /\ TakenInv /\ MovesInv /\ NumberInv /\ FramesKept /\ [Next]_vars => FramesKept'
<1> SUFFICES ASSUME TypeOK, OwnFolders, TakenInv, MovesInv, NumberInv, FramesKept, [Next]_vars,
                    NEW s \in taken', ~Misnumbered(s.run)'
             PROVE  Kept(s)'
  BY DEF FramesKept
<1>0. s \in taken => ~Misnumbered(s.run) /\ Kept(s) BY TakenFile, MisnumberedStays DEF FramesKept
<1>1. CASE Starts
  <2>1. s \in taken /\ UNCHANGED <<buffer, storage>> BY <1>1, RunsGrow
  <2>2. product'[s.run] = product[s.run] BY <1>1, <2>1, RunsGrow, TakenFile
  <2> QED BY <1>0, <2>1, <2>2 DEF Kept, File
<1>2. CASE WriteShot
  <2> DEFINE g == File(cmd.run, cmd.folder, FileNumber)
  <2>1. buffer' = [buffer EXCEPT ![g] = cmd.run] /\ UNCHANGED <<run, product, storage>>
        /\ taken' = taken \cup {[run |-> cmd.run, folder |-> cmd.folder, number |-> cmd.from + cmd.shot]}
    BY <1>2 DEF WriteShot, master
  <2>2. g \in Files /\ cmd.run \in 1..run BY <1>2, CaptureCommand
  <2>3. CASE s = [run |-> cmd.run, folder |-> cmd.folder, number |-> cmd.from + cmd.shot]
    <3>1. File(s.run, s.folder, s.number) = g BY <2>3 DEF FileNumber
    <3>2. buffer'[g] = s.run BY <2>1, <2>2, <2>3 DEF TypeOK
    <3> QED BY <2>1, <3>1, <3>2 DEF Kept, File
  <2>4. CASE s \in taken
    <3> DEFINE f == File(s.run, s.folder, s.number)
    <3>1. f \in Files /\ s.run \in 1..run /\ f.product = product[s.run] BY <2>4, TakenFile
    <3>2. g.product = product[cmd.run] BY DEF File
    <3>3. f = g => cmd.run = s.run
      <4>1. Took(s.run) /\ Took(cmd.run) BY <1>2, <2>4, CaptureCommand DEF Took
      <4> QED BY <1>0, <2>2, <2>4, <3>1, <3>2, <4>1, SameRun
    <3>4. buffer[f] = s.run \/ storage[f] = s.run BY <1>0, <2>4 DEF Kept
    <3>5. f = File(s.run, s.folder, s.number)' BY <2>1 DEF File
    <3> HIDE DEF f, g
    <3>6. buffer'[f] = s.run \/ storage'[f] = s.run BY <2>1, <2>2, <3>1, <3>3, <3>4 DEF TypeOK
    <3> QED BY <3>5, <3>6 DEF Kept
  <2> QED BY <2>1, <2>3, <2>4
<1>3. CASE MoveAny
  <2> DEFINE f == File(s.run, s.folder, s.number)
  <2>0. UNCHANGED <<run, product, taken>> BY <1>3, MoveFrame
  <2>1. f \in Files /\ f = File(s.run, s.folder, s.number)' BY <2>0, TakenFile DEF File
  <2>2. buffer[f] = s.run \/ storage[f] = s.run BY <1>0, <2>0 DEF Kept
  <2>3. /\ buffer[f] # None => buffer[f] = s.run
        /\ storage[f] # None => storage[f] = s.run
    BY <1>0, <2>0, <2>1, OwnFrame
  <2> HIDE DEF f
  <2>4. CASE UNCHANGED <<buffer, storage>> BY <2>1, <2>2, <2>4 DEF Kept
  <2>5. CASE \E h \in Files : /\ buffer[h] # None /\ buffer' = buffer
                              /\ storage' = [storage EXCEPT ![h] = buffer[h]]
    BY <2>1, <2>2, <2>3, <2>5 DEF Kept, TypeOK
  <2>6. CASE \E m \in orphans \cup {move} :
               /\ m # None /\ m \in Moves /\ m.copied \in Numbers
               /\ storage' = storage /\ buffer' = [buffer EXCEPT ![At(m, m.copied)] = None]
    <3>1. PICK m \in orphans \cup {move} :
               /\ m # None /\ m \in Moves /\ m.copied \in Numbers
               /\ storage' = storage /\ buffer' = [buffer EXCEPT ![At(m, m.copied)] = None]
      BY <2>6
    <3>2. m.copied # None BY <3>1, Bounds
    <3>3. storage[At(m, m.copied)] # None BY <3>1, <3>2 DEF MovesInv, Safe
    <3>4. CASE f = At(m, m.copied) BY <2>1, <2>3, <3>1, <3>3, <3>4 DEF Kept
    <3>5. CASE f # At(m, m.copied)
      <4>1. buffer'[f] = buffer[f] BY <2>1, <3>1, <3>5 DEF TypeOK
      <4> QED BY <2>1, <2>2, <3>1, <4>1 DEF Kept
    <3> QED BY <3>4, <3>5
  <2> QED BY <1>3, <2>4, <2>5, <2>6, DiskOfMove
<1>4. CASE UNCHANGED <<run, product, buffer, storage, taken>> BY <1>0, <1>4 DEF Kept, File
<1> QED BY <1>1, <1>2, <1>3, <1>4, FrameCases

LEMMA CompleteInvStep == TypeOK /\ CompleteInv /\ [Next]_vars => CompleteInv'
<1> SUFFICES ASSUME TypeOK, CompleteInv, [Next]_vars PROVE CompleteInv' OBVIOUS
<1>1. CASE Starts
  <2>1. run' \notin 1..run BY <1>1, RunsGrow
  <2>2. run' \notin complete' BY <1>1, <2>1, RunsGrow DEF TypeOK
  <2> QED BY <1>1, <2>2, RunsGrow DEF CompleteInv
<1>2. CASE Master
  <2>1. CASE ReportComplete BY <2>1 DEF ReportComplete, CompleteInv, TypeOK
  <2>2. CASE CancelRun \/ EndSteps \/ Heartbeat
    BY <2>2 DEF CancelRun, EndSteps, Heartbeat, CompleteInv
  <2> QED BY <1>1, <1>2, <2>1, <2>2 DEF Master, Starts
<1>3. CASE Capture
  <2>1. CASE \E f \in Folders : SendCapture(f) BY <2>1 DEF SendCapture, CompleteInv
  <2>2. CASE WriteShot
    <3>0. cmd \in CaptureCommands BY <2>2 DEF WriteShot, TypeOK, BiasSteps
    <3>1. cmd'.run = cmd.run BY <2>2, <3>0 DEF WriteShot, CaptureCommands, Commands
    <3> QED BY <2>2, <3>1 DEF WriteShot, CompleteInv, master
  <2>3. CASE \E failed \in BOOLEAN : BeginSync(failed) BY <2>3 DEF BeginSync, CompleteInv
  <2>4. CASE EndSync BY <2>4 DEF EndSync, Leaves, CompleteInv, master
  <2>5. CASE \E readable \in BOOLEAN : CheckBias(readable) BY <2>5 DEF CheckBias, CompleteInv, master
  <2> QED BY <1>3, <2>1, <2>2, <2>3, <2>4, <2>5 DEF Capture
<1>4. CASE Bias
  <2>1. UNCHANGED <<phase, run, complete>>
    BY <1>4 DEF Bias, SendBias, WriteLocalBias, CopyBiasFile, PlaceBias, RetryBias, ReportBias, master
  <2>2. \/ pc # "idle" /\ cmd' = cmd
        \/ pc' = "idle"
        \/ phase # "idle" /\ cmd'.run = run
    <3>1. CASE SendBias BY <3>1 DEF SendBias
    <3>2. CASE WriteLocalBias \/ CopyBiasFile \/ PlaceBias
      BY <3>2 DEF WriteLocalBias, CopyBiasFile, PlaceBias
    <3>3. CASE \E anew \in BOOLEAN : RetryBias(anew) BY <3>3 DEF RetryBias, BiasSteps
    <3>4. CASE \E deleted \in BOOLEAN : ReportBias(deleted) BY <3>4 DEF ReportBias, Leaves
    <3> QED BY <1>4, <3>1, <3>2, <3>3, <3>4 DEF Bias
  <2> QED BY <2>1, <2>2 DEF CompleteInv
<1>5. CASE Abort BY <1>5 DEF Abort, Leaves, CompleteInv
<1>6. CASE MoveAny BY <1>6, MoveFrame DEF CompleteInv
<1>7. CASE UNCHANGED vars BY <1>7 DEF vars, CompleteInv
<1>8. Next \/ UNCHANGED vars BY DEF vars
<1> QED BY <1>2, <1>3, <1>4, <1>5, <1>6, <1>7, <1>8, NextCases

LEMMA CompleteFrame ==
  ASSUME [Next]_vars, ~ReportComplete
  PROVE  UNCHANGED complete
<1>1. CASE Master
  BY <1>1 DEF Master, StartRun, CancelRun, EndSteps, Heartbeat
<1>2. CASE Capture BY <1>2 DEF Capture, SendCapture, CheckBias, WriteShot, BeginSync, EndSync, master
<1>3. CASE Bias
  BY <1>3 DEF Bias, SendBias, WriteLocalBias, CopyBiasFile, PlaceBias, RetryBias, ReportBias, master
<1>4. CASE Abort BY <1>4 DEF Abort
<1>5. CASE MoveAny BY <1>5, MoveFrame
<1>6. CASE UNCHANGED vars BY <1>6 DEF vars
<1>7. Next \/ UNCHANGED vars BY DEF vars
<1> QED BY <1>1, <1>2, <1>3, <1>4, <1>5, <1>6, <1>7, NextCases

LEMMA StoredStep ==
  /\ TypeOK /\ OwnFolders /\ TakenInv /\ NumberInv /\ SettledInv /\ CompleteInv
  /\ FramesKept /\ CompleteMeansStored /\ [Next]_vars
  => CompleteMeansStored'
<1> SUFFICES ASSUME TypeOK, OwnFolders, TakenInv, NumberInv, SettledInv, CompleteInv, FramesKept,
                    CompleteMeansStored, [Next]_vars, NEW s \in taken', s.run \in complete',
                    ~Misnumbered(s.run)'
             PROVE  storage'[File(s.run, s.folder, s.number)'] = s.run
  BY DEF CompleteMeansStored, File
<1>0. s \in taken => ~Misnumbered(s.run) BY TakenFile, MisnumberedStays
<1>1. CASE ReportComplete
  <2>1. UNCHANGED <<run, product, buffer, storage, taken>> BY <1>1 DEF ReportComplete, disk
  <2>2. \A f \in Files : buffer[f] = None BY <1>1 DEF ReportComplete, Settled, SettledInv
  <2>3. Kept(s) /\ File(s.run, s.folder, s.number) \in Files /\ s.run # None
    BY <1>0, <2>1, TakenFile, Bounds DEF FramesKept
  <2> QED BY <2>1, <2>2, <2>3 DEF Kept, File
<1>2. CASE ~ReportComplete
  <2>0. s.run \in complete BY <1>2, CompleteFrame
  <2>1. ASSUME s \in taken PROVE storage[File(s.run, s.folder, s.number)] = s.run
    BY <1>0, <2>0, <2>1 DEF CompleteMeansStored
  <2>2. CASE Starts
    <3>1. s \in taken /\ UNCHANGED storage BY <2>2, RunsGrow
    <3>2. product'[s.run] = product[s.run] BY <2>2, <3>1, RunsGrow, TakenFile
    <3> QED BY <2>1, <3>1, <3>2 DEF File
  <2>3. CASE WriteShot
    <3>1. s \in taken
      <4>1. s.run # cmd.run BY <2>0, <2>3 DEF CompleteInv, WriteShot
      <4> QED BY <2>3, <4>1 DEF WriteShot
    <3> QED BY <2>1, <2>3, <3>1 DEF WriteShot, master, File
  <2>4. CASE MoveAny
    <3> DEFINE f == File(s.run, s.folder, s.number)
    <3>1. UNCHANGED <<run, product, taken>> BY <2>4, MoveFrame
    <3>2. f \in Files /\ f = File(s.run, s.folder, s.number)' BY <3>1, TakenFile DEF File
    <3>3. storage[f] = s.run BY <2>1, <3>1
    <3>4. buffer[f] # None => buffer[f] = s.run BY <1>0, <3>1, <3>2, OwnFrame
    <3> HIDE DEF f
    <3>5. storage'[f] = s.run
      <4>1. CASE storage' = storage BY <3>3, <4>1
      <4>2. CASE \E h \in Files : buffer[h] # None /\ storage' = [storage EXCEPT ![h] = buffer[h]]
        BY <3>2, <3>3, <3>4, <4>2 DEF TypeOK
      <4> QED BY <2>4, <4>1, <4>2, DiskOfMove
    <3> QED BY <3>2, <3>5
  <2>5. CASE UNCHANGED <<run, product, buffer, storage, taken>> BY <2>1, <2>5 DEF File
  <2> QED BY <2>2, <2>3, <2>4, <2>5, FrameCases
<1> QED BY <1>1, <1>2

-------------------------------------------------------------------------------
(* BIAS files.                                                              *)

LEMMA BiasStep == TypeOK /\ BiasInv /\ [Next]_vars => BiasInv'
<1> SUFFICES ASSUME TypeOK, BiasInv, [Next]_vars PROVE BiasInv' OBVIOUS
<1> DEFINE Stored == BiasFileIsVerified /\ (bias.ok # 0 => /\ bias.at \in 1..run /\ product[bias.at] \in dirs
                                                           /\ bias.ok = bias.last)
<1>0. Stored BY DEF BiasInv
<1>1. ASSUME UNCHANGED <<bias, run, product, dirs>>, pc' \notin BiasSteps \cup {"checking"} PROVE BiasInv'
  <2>1. Stored' BY <1>0, <1>1 DEF BiasFileIsVerified
  <2> QED BY <1>1, <2>1 DEF BiasInv, BiasSteps
<1>2. ASSUME UNCHANGED <<bias, pc, cmd>>, \A r \in 1..run : r \in 1..run' /\ product'[r] = product[r],
             dirs \subseteq dirs'
      PROVE  BiasInv'
  <2>1. pc # "idle" => cmd.run \in 1..run BY CommandRun
  <2>2. Stored' BY <1>0, <1>2 DEF BiasFileIsVerified
  <2> QED BY <1>2, <2>1, <2>2 DEF BiasInv, BiasSteps, ForCapture
<1>3. CASE Starts
  <2>1. \A r \in 1..run : r \in 1..run' BY <1>3, RunsGrow
  <2> QED BY <1>2, <1>3, <2>1, RunsGrow
<1>4. CASE Master /\ ~Starts
  BY <1>2, <1>4 DEF Master, Starts, CancelRun, EndSteps, Heartbeat, ReportComplete, disk
<1>5. CASE Capture
  <2>1. ASSUME NEW f \in Folders, SendCapture(f) PROVE BiasInv'
    <3>1. UNCHANGED <<bias, run, product, dirs>> /\ pc' = "checking" BY <2>1 DEF SendCapture, disk
    <3>2. Stored' BY <1>0, <3>1 DEF BiasFileIsVerified
    <3>3. bias'.at = cmd'.run BY <2>1, SentCapture DEF SendCapture
    <3> QED BY <3>1, <3>2, <3>3 DEF BiasInv, BiasSteps
  <2>2. ASSUME NEW readable \in BOOLEAN, CheckBias(readable) PROVE BiasInv'
    <3>1. UNCHANGED <<bias, run, product, dirs, cmd>> /\ pc = "checking" /\ pc' \in {"shooting", "biasLocal"}
      BY <2>2 DEF CheckBias, disk, master
    <3>2. Stored' BY <1>0, <3>1 DEF BiasFileIsVerified
    <3>3. cmd \in CaptureCommands BY <3>1 DEF TypeOK, BiasSteps
    <3>4. ForCapture /\ ForCapture' BY <3>1, <3>3 DEF CaptureCommands, ForCapture
    <3>5. bias'.at = cmd'.run BY <3>1, <3>4 DEF BiasInv
    <3> QED BY <3>1, <3>2, <3>4, <3>5 DEF BiasInv
  <2>3. CASE WriteShot \/ EndSync \/ \E failed \in BOOLEAN : BeginSync(failed)
    BY <1>1, <2>3 DEF WriteShot, BeginSync, EndSync, Leaves, BiasSteps, disk, master
  <2> QED BY <1>5, <2>1, <2>2, <2>3 DEF Capture
<1>6. CASE Abort BY <1>1, <1>6 DEF Abort, Leaves, BiasSteps, disk
<1>7. CASE MoveAny BY <1>2, <1>7, MoveFrame
<1>8. CASE UNCHANGED vars BY <1>2, <1>8 DEF vars
<1>9. CASE Bias
  <2>0. UNCHANGED <<run, product>> /\ dirs \subseteq dirs'
    BY <1>9 DEF Bias, SendBias, WriteLocalBias, CopyBiasFile, PlaceBias, RetryBias, ReportBias, master, disk
  <2>1. CASE SendBias
    <3>1. bias'.ok = 0 /\ bias'.stored = bias.stored /\ bias'.placed = bias.placed /\ pc' = "biasLocal"
      BY <2>1 DEF SendBias, TypeOK
    <3>2. ~ForCapture' BY <2>1, Commanded DEF SendBias, ForCapture
    <3> QED BY <3>1, <3>2 DEF BiasInv, BiasFileIsVerified
  <2>2. CASE WriteLocalBias
    <3>1. /\ bias'.ok = bias.ok /\ bias'.at = bias.at /\ bias'.stored = bias.stored
          /\ bias'.placed = bias.placed /\ bias'.last = bias.last
          /\ pc' = "biasCopy" /\ pc = "biasLocal" /\ cmd' = cmd
      BY <2>2 DEF WriteLocalBias, TypeOK
    <3>2. ForCapture' = ForCapture BY <3>1 DEF ForCapture
    <3> QED BY <2>0, <3>1, <3>2 DEF BiasInv, BiasFileIsVerified, BiasSteps
  <2>3. CASE CopyBiasFile
    <3>1. /\ bias' = bias /\ cmd' = cmd /\ pc' = "biasPlace" /\ pc = "biasCopy"
          /\ product'[cmd'.run] \in dirs'
      BY <2>0, <2>3 DEF CopyBiasFile
    <3>2. ForCapture' = ForCapture BY <3>1 DEF ForCapture
    <3> QED BY <2>0, <3>1, <3>2 DEF BiasInv, BiasFileIsVerified, BiasSteps
  <2>4. CASE PlaceBias
    <3>1. product[cmd.run] \in Products BY <2>4, CommandRun DEF PlaceBias
    <3>2. /\ bias'.ok = bias.ok /\ bias'.at = bias.at /\ bias'.last = bias.last
          /\ pc' = "biasCheck" /\ cmd' = cmd /\ pc = "biasPlace"
      BY <2>4 DEF PlaceBias, TypeOK
    <3>3. /\ bias'.stored = [bias.stored EXCEPT ![product[cmd.run]] = bias.last]
          /\ bias'.placed = [bias.placed EXCEPT ![product[cmd.run]] = bias.last]
      BY <2>4 DEF PlaceBias, TypeOK
    <3>4. bias.stored \in [Products -> Biases] BY DEF TypeOK
    <3>5. bias'.stored[product[cmd.run]] = bias.last BY <3>1, <3>3, <3>4
    <3>6. ForCapture' = ForCapture BY <3>2 DEF ForCapture
    <3>7. bias.ok # 0 => bias.at = cmd.run /\ bias.ok = bias.last BY <3>2 DEF BiasInv, BiasSteps
    <3>8. BiasFileIsVerified'
      <4>1. bias'.stored = bias'.placed BY <3>3 DEF BiasInv, BiasFileIsVerified
      <4>2. bias'.ok # 0 => bias'.stored[product'[bias'.at]] = bias'.ok BY <2>0, <3>2, <3>5, <3>7
      <4> QED BY <4>1, <4>2 DEF BiasFileIsVerified
    <3> QED BY <2>0, <3>2, <3>5, <3>6, <3>8 DEF BiasInv, BiasSteps
  <2>5. ASSUME NEW anew \in BOOLEAN, RetryBias(anew) PROVE BiasInv'
    <3>1. /\ bias'.ok = bias.ok /\ bias'.at = bias.at /\ bias'.stored = bias.stored
          /\ bias'.placed = bias.placed /\ cmd' = cmd
          /\ pc' \in {"biasLocal", "checking"} /\ pc \in BiasSteps
      BY <2>5 DEF RetryBias, TypeOK
    <3>2. ForCapture' = ForCapture BY <3>1 DEF ForCapture
    <3>3. bias'.last = bias.last \/ bias'.ok = 0
      <4>1. CASE anew BY <2>5, <3>1, <4>1 DEF RetryBias, BiasInv
      <4>2. CASE ~anew BY <2>5, <4>2 DEF RetryBias
      <4> QED BY <4>1, <4>2
    <3> QED BY <2>0, <3>1, <3>2, <3>3 DEF BiasInv, BiasFileIsVerified, BiasSteps
  <2>6. ASSUME NEW deleted \in BOOLEAN, ReportBias(deleted) PROVE BiasInv'
    <3>1. /\ bias'.ok = bias.last /\ bias'.at = cmd.run /\ bias'.stored = bias.stored
          /\ bias'.placed = bias.placed /\ bias'.last = bias.last
          /\ pc' \in {"idle", "shooting"} /\ pc = "biasCheck" /\ dirs' = dirs
      BY <2>6 DEF ReportBias, Leaves, TypeOK, disk
    <3>2. cmd.run \in 1..run BY <3>1, CommandRun
    <3> QED BY <2>0, <3>1, <3>2 DEF BiasInv, BiasFileIsVerified, BiasSteps
  <2> QED BY <1>9, <2>1, <2>2, <2>3, <2>4, <2>5, <2>6 DEF Bias
<1>10. Next \/ UNCHANGED vars BY DEF vars
<1> QED BY <1>3, <1>4, <1>5, <1>6, <1>7, <1>8, <1>9, <1>10, NextCases

-------------------------------------------------------------------------------
(* The theorems.                                                            *)

LEMMA InitHolds == Init => IInv
<1> SUFFICES ASSUME Init PROVE IInv OBVIOUS
<1>1. TypeOK BY TypeInit
<1>2. 1..run = {} BY DEF Init
<1>3. OwnFolders /\ TakenInv /\ FramesKept /\ CompleteMeansStored
  BY DEF Init, OwnFolders, Belongs, TakenInv, FramesKept, CompleteMeansStored
<1>4. MovesInv /\ SettledInv /\ CompleteInv BY DEF Init, MovesInv, SettledInv, CompleteInv
<1>5. DirsInv /\ FolderInv /\ NumberInv BY <1>2 DEF Init, DirsInv, FolderInv, NumberInv
<1>6. BiasInv BY DEF Init, BiasInv, BiasFileIsVerified, BiasSteps
<1> QED BY <1>1, <1>3, <1>4, <1>5, <1>6 DEF IInv

LEMMA StepHolds == IInv /\ [Next]_vars => IInv'
BY TypeStep, OwnFoldersStep, TakenStep, MovesStep, SettledStep, DirsStep, FolderStep, NumberStep,
   KeptStep, CompleteInvStep, StoredStep, BiasStep DEF IInv

LEMMA Inductive == Spec => []IInv
BY InitHolds, StepHolds, PTL DEF Spec

\* The state of the runs, the buffer, the storage and the transfers always has its types.
THEOREM TypeCorrect == Spec => []TypeOK
<1>1. IInv => TypeOK BY DEF IInv
<1> QED BY <1>1, Inductive, PTL

\* No frame that was written is ever lost but by a run that took its product number without
\* reading the storage, for any number of runs, folders, cancellations, failures and
\* transfers going on at once.
THEOREM FramesAreKept == Spec => []FramesKept
<1>1. IInv => FramesKept BY DEF IInv
<1> QED BY <1>1, Inductive, PTL

\* The frames of a run that the dashboard reports complete are in the storage, up to the
\* same exception.
THEOREM CompleteIsStored == Spec => []CompleteMeansStored
<1>1. IInv => CompleteMeansStored BY DEF IInv
<1> QED BY <1>1, Inductive, PTL

\* The stored bias.json of a product is one moved there after it was verified, and the last
\* one reported as stored is there.
THEOREM BiasFilesAreVerified == Spec => []BiasFileIsVerified
<1>1. IInv => BiasFileIsVerified BY DEF IInv, BiasInv
<1> QED BY <1>1, Inductive, PTL
===============================================================================
