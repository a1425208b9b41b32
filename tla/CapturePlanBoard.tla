--------------------------- MODULE CapturePlanBoard ---------------------------
(***************************************************************************)
(* What the board of a capture plan promises to the operator, whatever     *)
(* happens to the program: a series of attempts completes a cell at most   *)
(* once, a completed cell stays completed until the operator starts the    *)
(* whole plan anew, and only a cell of the attempt under way is completed. *)
(* CapturePlanRun implements this specification with its stored receipts.  *)
(***************************************************************************)
CONSTANT Cells

VARIABLES
  done,     \* the cells that the current series of attempts has completed
  busy      \* the cells of the attempt under way that are not completed yet

Init == done = {} /\ busy = {}

\* A new series forgets what was completed.
Renew(S) == busy = {} /\ done' = {} /\ busy' = S

\* Another attempt of the series; it never repeats a completed cell.
Resume(S) == busy = {} /\ S \cap done = {} /\ busy' = S /\ UNCHANGED done

Complete(S) == S \subseteq busy /\ done' = done \cup S /\ busy' = busy \ S

\* The attempt ends, is cancelled or dies with the program.
Stop(S) == S \subseteq busy /\ done' = done \cup S /\ busy' = {}

Next == \E S \in SUBSET Cells : Renew(S) \/ Resume(S) \/ Complete(S) \/ Stop(S)

Spec == Init /\ [][Next]_<<done, busy>>
===============================================================================
