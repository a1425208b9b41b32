---------------------------- MODULE CaptureLedger ----------------------------
(***************************************************************************)
(* The way of a production frame of one camera from its exposure to the    *)
(* storage of the master (ProductionCaptureSink, the end of                *)
(* CaptureProductionAsync in CameraNatsConnector, RecipeEngine's product   *)
(* number and the dashboard's wait for the transfer).  Frames are written  *)
(* into a local buffer and moved by robocopy, a process of its own that    *)
(* outlives the handler that waits for it; bias.json goes a stricter way,  *)
(* and no frame is taken before that has arrived (EnsureBiasForCapture).   *)
(* Runs are numbered, a frame is the run it was taken in, and a file is    *)
(* found under its product number, folder and file number.                 *)
(***************************************************************************)
EXTENDS Naturals

CONSTANTS
  Folders,    \* the folders of the one condition of a product: its black bodies
  Shots,      \* frames of a capture
  MaxNumber,  \* bound: file numbers in a folder
  MaxRuns,    \* bound: runs
  MaxBias,    \* bound: BIAS files written
  MaxFaults,  \* bound: frames, copies, deletions and readings of the storage root that fail
  None

Runs == 1..MaxRuns
Numbers == 0..MaxNumber - 1
Products == 0..MaxRuns              \* the suffix of a product's folder; 0 is no suffix
Files == [product : Products, folder : Folders, number : Numbers]
Frames == [run : Runs, folder : Folders, number : Numbers]

VARIABLES
  run,       \* runs started so far
  phase,     \* the master: between runs, in a run, or waiting for the transfer after it
  good,      \* every capture of the run so far has succeeded
  product,   \* the product number of each run
  next,      \* the next file number in each folder of the run
  pending,   \* whether files are left to move, by the last heartbeat since the run's steps ended
  complete,  \* runs that were reported complete
  pc,        \* what the camera's handler is doing
  cmd,       \* its command
  taken,     \* history: the frames written
  buffer,    \* the files of the local buffer, and the run each was taken in
  storage,   \* the same of the master's storage
  dirs,      \* the products that have a folder there
  move,      \* the robocopy the handler waits for
  orphans,   \* those nobody waits for
  bias,      \* bias.json: the last result, the one reported as stored and its run, by product
             \* the local and the stored file, and (history) the one last moved into its place
  guessed,   \* history: runs that took their product number without reading the storage root
  faults

master == <<run, phase, good, product, next, pending, complete, guessed>>
disk == <<buffer, storage, dirs>>
vars == <<run, phase, good, product, next, pending, complete, guessed, pc, cmd, taken, buffer,
          storage, dirs, move, orphans, bias, faults>>

Commands == [run : Runs, folder : Folders, from : Numbers, shot : 0..Shots]
BiasCommands == [run : 1..run]
CaptureCommands == {c \in Commands : c.run <= run /\ c.from + Shots <= MaxNumber}
NoCommand == [run |-> 0]
CaptureSteps == {"checking", "shooting", "moving"}
BiasSteps == {"biasLocal", "biasCopy", "biasPlace", "biasCheck"}
Moves == [product : Products, folder : Folders, todo : SUBSET Numbers, copied : Numbers \cup {None}]
Biases == 0..MaxBias                \* 0 is none

ASSUME LedgerAssumption ==
  /\ Shots \in Nat \ {0} /\ MaxNumber \in Nat /\ MaxRuns \in Nat /\ MaxBias \in Nat /\ MaxFaults \in Nat
  /\ None \notin Runs \cup Numbers /\ None \notin Moves

TypeOK ==
  /\ run \in 0..MaxRuns /\ phase \in {"idle", "running", "settling"} /\ good \in BOOLEAN
  /\ phase # "idle" => run # 0
  /\ phase = "settling" => pc = "idle"
  /\ product \in [Runs -> Products] /\ next \in [Folders -> 0..MaxNumber]
  /\ pending \in {"unknown", "some", "none"}
  /\ complete \subseteq 1..run
  /\ \/ pc = "idle" /\ cmd = NoCommand
     \/ pc \in CaptureSteps /\ cmd \in CaptureCommands
     \/ pc \in BiasSteps /\ cmd \in BiasCommands \cup CaptureCommands
  /\ taken \subseteq Frames
  /\ buffer \in [Files -> Runs \cup {None}] /\ storage \in [Files -> Runs \cup {None}]
  /\ dirs \subseteq Products
  /\ pc = "moving" <=> move # None
  /\ move # None => move \in Moves
  /\ orphans \subseteq Moves
  /\ bias \in [last : Biases, ok : Biases, at : 0..run, local : [Products -> Biases],
              stored : [Products -> Biases], placed : [Products -> Biases]]
  /\ guessed \subseteq 1..run /\ faults \in 0..MaxFaults

Init ==
  /\ run = 0 /\ phase = "idle" /\ good = TRUE /\ product = [r \in Runs |-> 0]
  /\ next = [f \in Folders |-> 0] /\ pending = "unknown" /\ complete = {}
  /\ pc = "idle" /\ cmd = NoCommand /\ taken = {}
  /\ buffer = [f \in Files |-> None] /\ storage = [f \in Files |-> None] /\ dirs = {}
  /\ move = None /\ orphans = {}
  /\ LET none == [p \in Products |-> 0]
     IN bias = [last |-> 0, ok |-> 0, at |-> 0, local |-> none, stored |-> none, placed |-> none]
  /\ guessed = {} /\ faults = 0

Fault == faults < MaxFaults /\ faults' = faults + 1

-------------------------------------------------------------------------------
(* The master.                                                              *)

\* The number after the highest one of the folders that the storage root shows now.
NextRunProductNumber(seen) ==
  IF seen = {} THEN 0 ELSE (CHOOSE p \in seen : \A q \in seen : q <= p) + 1

\* A storage root that cannot be read is taken for an empty one.
StartRun(readable) ==
  /\ phase = "idle" /\ run < MaxRuns
  /\ run' = run + 1 /\ phase' = "running" /\ good' = TRUE
  /\ product' = [product EXCEPT ![run + 1] = NextRunProductNumber(IF readable THEN dirs ELSE {})]
  /\ next' = [f \in Folders |-> 0] /\ pending' = "unknown"
  /\ IF readable THEN UNCHANGED <<guessed, faults>> ELSE Fault /\ guessed' = guessed \cup {run + 1}
  /\ UNCHANGED <<complete, pc, cmd, taken, disk, move, orphans, bias>>

\* The run is cancelled or has failed; the handler may go on for a while.
CancelRun ==
  /\ phase # "idle" /\ phase' = "idle"
  /\ UNCHANGED <<run, good, product, next, pending, complete, guessed, pc, cmd, taken, disk,
                 move, orphans, bias, faults>>

\* The steps have all succeeded; heartbeats received from now on count.
EndSteps ==
  /\ phase = "running" /\ good /\ pc = "idle"
  /\ phase' = "settling" /\ pending' = "unknown"
  /\ UNCHANGED <<run, good, product, next, complete, guessed, pc, cmd, taken, disk, move,
                 orphans, bias, faults>>

PendingFiles == (\E f \in Files : buffer[f] # None) \/ (\E p \in Products : bias.local[p] # 0)

Heartbeat ==
  /\ phase = "settling" /\ pending' = IF PendingFiles THEN "some" ELSE "none"
  /\ UNCHANGED <<run, phase, good, product, next, complete, guessed, pc, cmd, taken, disk,
                 move, orphans, bias, faults>>

\* WaitForCaptureSyncAsync waits longer than a heartbeat takes, then for nothing to be pending.
SettledAtOnce == pending # "some"
Settled == pending = "none"
ReportComplete ==
  /\ phase = "settling" /\ Settled
  /\ phase' = "idle" /\ complete' = complete \cup {run}
  /\ UNCHANGED <<run, good, product, next, pending, guessed, pc, cmd, taken, disk, move,
                 orphans, bias, faults>>

-------------------------------------------------------------------------------
(* A capture at the agent.                                                  *)

Finished(m) == m.todo = {} /\ m.copied = None

File(r, f, n) == [product |-> product[r], folder |-> f, number |-> n]

\* A production capture names a BIAS result that was stored in this run. The engine gives it
\* the file numbers after those it gave out in this folder.
SendCapture(f) ==
  /\ phase = "running" /\ good /\ pc = "idle" /\ next[f] + Shots <= MaxNumber
  /\ bias.ok # 0 /\ bias.at = run
  /\ pc' = "checking" /\ cmd' = [run |-> run, folder |-> f, from |-> next[f], shot |-> 0]
  /\ next' = [next EXCEPT ![f] = @ + Shots]
  /\ UNCHANGED <<run, phase, good, product, pending, complete, guessed, taken, disk, move,
                 orphans, bias, faults>>

\* Before the first shot the required bias.json is read back in its place; one that cannot be
\* read, or is another, is written again (EnsureBiasForCaptureAsync).
CheckBias(readable) ==
  /\ pc = "checking"
  /\ pc' = IF readable /\ bias.stored[product[cmd.run]] = bias.ok THEN "shooting" ELSE "biasLocal"
  /\ IF readable THEN UNCHANGED faults ELSE Fault
  /\ UNCHANGED <<master, cmd, taken, disk, move, orphans, bias>>

NumberInCapture == cmd.shot
FileNumber == cmd.from + cmd.shot

WriteShot ==
  /\ pc = "shooting" /\ cmd.shot < Shots
  /\ buffer' = [buffer EXCEPT ![File(cmd.run, cmd.folder, FileNumber)] = cmd.run]
  /\ taken' = taken \cup {[run |-> cmd.run, folder |-> cmd.folder, number |-> cmd.from + cmd.shot]}
  /\ cmd' = [cmd EXCEPT !.shot = @ + 1]
  /\ UNCHANGED <<master, pc, storage, dirs, move, orphans, bias, faults>>

StillMoving == UNCHANGED move
NothingRuns == move' = None
Unanswered == good' = (good /\ cmd.run # run)
Leaves == pc' = "idle" /\ cmd' = NoCommand

\* robocopy lists the folder when it starts; a storage that is out of reach ends it at once.
\* The product's own folder is there since its bias.json was stored.
Robocopy(p, f) ==
  [product |-> p, folder |-> f, copied |-> None,
   todo |-> {n \in Numbers : buffer[[product |-> p, folder |-> f, number |-> n]] # None}]

\* What was taken is moved, also if a frame failed and ended the capture early.
BeginSync(failed) ==
  /\ pc = "shooting" /\ (cmd.shot = Shots \/ failed)
  /\ pc' = "moving"
  /\ LET r == Robocopy(product[cmd.run], cmd.folder)
     IN \/ move' = r /\ (IF failed THEN Fault ELSE UNCHANGED faults)
        \/ move' = [r EXCEPT !.todo = {}] /\ Fault
  /\ IF failed THEN Unanswered ELSE UNCHANGED good
  /\ UNCHANGED <<run, phase, product, next, pending, complete, guessed, cmd, taken, disk,
                 orphans, bias>>

\* The sync ends with its robocopy, whatever that says, and leaves bias.json alone.
EndSync ==
  /\ pc = "moving" /\ Finished(move)
  /\ Leaves /\ NothingRuns
  /\ UNCHANGED <<master, taken, disk, orphans, bias, faults>>

\* A cancellation, the last attempt at a BIAS file, or the end of AgentUI ends the handler; if
\* that is in the sync, its robocopy goes on. The buffer is a directory and stays.
Abort ==
  /\ pc # "idle"
  /\ Leaves /\ NothingRuns /\ Unanswered
  /\ orphans' = IF move = None THEN orphans ELSE orphans \cup {move}
  /\ UNCHANGED <<run, phase, product, next, pending, complete, guessed, taken, disk, bias, faults>>

-------------------------------------------------------------------------------
(* robocopy /MOVE, one file after another: copied, then deleted.            *)

At(m, n) == [product |-> m.product, folder |-> m.folder, number |-> n]

Becomes(m, own, after) ==
  IF own
  THEN move' = after /\ UNCHANGED orphans
  ELSE orphans' = (orphans \ {m}) \cup {a \in {after} : ~Finished(a)} /\ UNCHANGED move

\* A file that another robocopy has moved meanwhile is passed over.
CopyFile(m, own, n) ==
  /\ m.copied = None
  /\ IF buffer[At(m, n)] = None
     THEN Becomes(m, own, [m EXCEPT !.todo = @ \ {n}]) /\ UNCHANGED storage
     ELSE /\ Becomes(m, own, [m EXCEPT !.todo = @ \ {n}, !.copied = n])
          /\ storage' = [storage EXCEPT ![At(m, n)] = buffer[At(m, n)]]
  /\ UNCHANGED <<buffer, faults>>

\* A file that cannot be copied stays.
SkipFile(m, own, n) ==
  /\ m.copied = None /\ Fault
  /\ Becomes(m, own, [m EXCEPT !.todo = @ \ {n}])
  /\ UNCHANGED <<buffer, storage>>

DeleteSource(m, own) ==
  /\ m.copied # None
  /\ Becomes(m, own, [m EXCEPT !.copied = None])
  /\ buffer' = [buffer EXCEPT ![At(m, m.copied)] = None]
  /\ UNCHANGED <<storage, faults>>

MoveStep(m, own) ==
  /\ (\E n \in m.todo : CopyFile(m, own, n) \/ SkipFile(m, own, n)) \/ DeleteSource(m, own)
  /\ UNCHANGED <<master, pc, cmd, taken, dirs, bias>>

-------------------------------------------------------------------------------
(* A BIAS result on its way to the storage (WriteAndVerifyBiasJsonAsync).    *)

\* The file is written for a BIAS operation, or again for a capture that requires it.
ForCapture == cmd \in Commands

\* A BIAS operation withdraws the result that captures may require until its own is stored.
SendBias ==
  /\ phase = "running" /\ good /\ pc = "idle" /\ bias.last < MaxBias
  /\ pc' = "biasLocal" /\ cmd' = [run |-> run]
  /\ bias' = [bias EXCEPT !.last = @ + 1, !.ok = 0]
  /\ UNCHANGED <<master, taken, disk, move, orphans, faults>>

\* The result is written locally under a temporary name and renamed.
WriteLocalBias ==
  /\ pc = "biasLocal" /\ pc' = "biasCopy"
  /\ bias' = [bias EXCEPT !.local[product[cmd.run]] = bias.last]
  /\ UNCHANGED <<master, cmd, taken, disk, move, orphans, faults>>

\* A mutant of CopyBiasFile, which copies under the final name, before anything was read back.
CopyBiasInPlace ==
  /\ pc = "biasCopy" /\ pc' = "biasPlace"
  /\ dirs' = dirs \cup {product[cmd.run]}
  /\ bias' = [bias EXCEPT !.stored[product[cmd.run]] = bias.last]
  /\ UNCHANGED <<master, cmd, taken, buffer, storage, move, orphans, faults>>
\* It is copied under a temporary name, for which the folder is made, and read back.
CopyBiasFile ==
  /\ pc = "biasCopy" /\ pc' = "biasPlace"
  /\ dirs' = dirs \cup {product[cmd.run]}
  /\ UNCHANGED <<master, cmd, taken, buffer, storage, move, orphans, bias, faults>>

PlaceBias ==
  /\ pc = "biasPlace" /\ pc' = "biasCheck"
  /\ bias' = [bias EXCEPT !.stored[product[cmd.run]] = bias.last, !.placed[product[cmd.run]] = bias.last]
  /\ UNCHANGED <<master, cmd, taken, disk, move, orphans, faults>>

\* The file in its place is read back; the local one is deleted if that succeeds. A BIAS
\* operation is answered, and a capture goes on to its shots.
ReportBias(deleted) ==
  /\ pc = "biasCheck"
  /\ bias' = [bias EXCEPT !.ok = bias.last, !.at = cmd.run,
                          !.local[product[cmd.run]] = IF deleted THEN 0 ELSE @]
  /\ IF ForCapture THEN pc' = "shooting" /\ cmd' = cmd ELSE Leaves
  /\ IF deleted THEN UNCHANGED faults ELSE Fault
  /\ UNCHANGED <<master, taken, disk, move, orphans>>

\* An attempt fails and another is made: a calibration is searched anew, what the operator's
\* choice relies on is written again, and what a capture relies on is read again first.
RetryBias(anew) ==
  /\ pc \in BiasSteps /\ Fault
  /\ pc' = IF ForCapture THEN "checking" ELSE "biasLocal"
  /\ IF anew THEN ~ForCapture /\ bias.last < MaxBias /\ bias' = [bias EXCEPT !.last = @ + 1]
     ELSE UNCHANGED bias
  /\ UNCHANGED <<master, cmd, taken, disk, move, orphans>>

-------------------------------------------------------------------------------

Master ==
  \/ \E readable \in BOOLEAN : StartRun(readable)
  \/ CancelRun \/ EndSteps \/ Heartbeat \/ ReportComplete

Capture ==
  \/ \E f \in Folders : SendCapture(f)
  \/ \E readable \in BOOLEAN : CheckBias(readable)
  \/ WriteShot
  \/ \E failed \in BOOLEAN : BeginSync(failed)
  \/ EndSync

Bias ==
  \/ SendBias \/ WriteLocalBias \/ CopyBiasFile \/ PlaceBias
  \/ \E anew \in BOOLEAN : RetryBias(anew)
  \/ \E deleted \in BOOLEAN : ReportBias(deleted)

Next ==
  \/ Master
  \/ Capture
  \/ Bias
  \/ Abort
  \/ pc = "moving" /\ MoveStep(move, TRUE)
  \/ \E m \in orphans : MoveStep(m, FALSE)

Spec == Init /\ [][Next]_vars

-------------------------------------------------------------------------------
(* What is to hold.                                                         *)

\* The engine documents that a run that cannot read the storage root takes the first number; the
\* frames of such a run and of an earlier one of that number are in each other's way.
Takes(r, q) == q < r /\ product[q] = product[r] /\ r \in guessed
Misnumbered(q) == \E r \in 1..run : Takes(r, q) \/ Takes(q, r)

Kept(s) ==
  LET f == File(s.run, s.folder, s.number) IN buffer[f] = s.run \/ storage[f] = s.run

\* A frame that was written is under its name in the buffer or in the storage at every
\* moment, whatever is cancelled, fails, crashes or is moved twice, and also when a product
\* number is given out again because nothing of the earlier run is in the storage; the
\* exception are the runs that took their number unread.
FramesKept == \A s \in taken : Misnumbered(s.run) \/ Kept(s)

\* A run that was reported complete has all its frames in the storage, under its own folder.
CompleteMeansStored ==
  \A s \in taken : s.run \in complete /\ ~Misnumbered(s.run)
                 => storage[File(s.run, s.folder, s.number)] = s.run

\* The bias.json of a product is one that was moved into its place after its copy was
\* verified, never what a failed attempt left behind; and the last one reported is there.
BiasFileIsVerified ==
  /\ bias.stored = bias.placed
  /\ bias.ok # 0 => bias.stored[product[bias.at]] = bias.ok
===============================================================================
