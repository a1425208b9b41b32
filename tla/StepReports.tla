----------------------------- MODULE StepReports -----------------------------
(***************************************************************************)
(* What the recipe engine promises to whoever keeps receipts of the steps  *)
(* of its runs (the handler of StepExecutionChanged, which may fail): the  *)
(* order in which steps are started, that a step is reported only while it *)
(* is open, that nothing starts once the run is being unwound, that what   *)
(* is still open then is reported as failed, and how a run may end.        *)
(* RecipeEngine implements this specification, and CapturePlanRun expects  *)
(* its engine to do nothing else.                                          *)
(***************************************************************************)
CONSTANT Precedes(_, _)     \* the order of the steps of a run

VARIABLES
  mode,     \* "running", "unwinding" or "closing": in the loop, in its finally block, or returned
  todo,     \* the steps of the run that are not started
  open,     \* the steps that are started and not reported
  forked,   \* the captures among the steps that the engine does not wait for
  reports,  \* what was reported last of each step
  ending    \* how the engine leaves the run

reportVars == <<mode, todo, open, forked, reports, ending>>

Outcomes == {"Succeeded", "Skipped", "Failed"}

Init ==
  /\ mode = "closing" /\ todo = {} /\ open = {} /\ ending = "ok"
  /\ \A p \in DOMAIN reports : reports[p] = "none"

Begin ==
  /\ mode = "closing" /\ mode' = "running"
  /\ open' = {} /\ ending' = "ok" /\ UNCHANGED forked
  /\ reports' = [p \in todo' |-> "none"]

\* The run is not begun after all.
Refuse(how) ==
  /\ mode \in {"closing", "running"} /\ open = {}
  /\ mode = "running" => \A p \in DOMAIN reports : reports[p] = "none"
  /\ mode' = "closing" /\ todo' = {} /\ open' = {} /\ ending' = how /\ UNCHANGED forked
  /\ \A p \in DOMAIN reports' : reports'[p] = "none"

IsFirst(p, S) == p \in S /\ \A q \in S : q = p \/ Precedes(p, q)

\* A report whose receipt cannot be stored ends the loop.
GoesOn(stored, rest) ==
  /\ todo' = IF stored THEN rest ELSE {}
  /\ mode' = IF stored THEN "running" ELSE "unwinding"
  /\ ending' = IF stored THEN ending ELSE "error"

\* Steps start in their order, and only forked captures outlast the step they belong to.
Start(p, stored) ==
  /\ mode = "running" /\ IsFirst(p, todo) /\ open \subseteq forked
  /\ open' = open \cup {p}
  /\ reports' = [reports EXCEPT ![p] = "Started"]
  /\ GoesOn(stored, todo \ {p}) /\ UNCHANGED forked

Report(p, outcome, stored) ==
  /\ mode = "running" /\ p \in open
  /\ open' = open \ {p}
  /\ reports' = [reports EXCEPT ![p] = outcome]
  /\ GoesOn(stored, todo) /\ UNCHANGED forked

\* The loop is left: at its end, cancelled, or with an NG or an error.
Stop(how) ==
  /\ mode = "running" /\ mode' = "unwinding" /\ ending' = how
  /\ how = "ok" => todo = {} /\ open \subseteq forked
  /\ todo' = {} /\ UNCHANGED <<open, forked, reports>>

\* What is still open is given up, in order, until a receipt cannot be stored.
GiveUp(p, stored) ==
  /\ mode = "unwinding" /\ IsFirst(p, open)
  /\ reports' = [reports EXCEPT ![p] = "Failed"]
  /\ open' = IF stored THEN open \ {p} ELSE {}
  /\ mode' = IF stored THEN "unwinding" ELSE "closing"
  /\ ending' = IF stored THEN ending ELSE "error"
  /\ UNCHANGED <<todo, forked>>

Return ==
  /\ mode = "unwinding" /\ open = {} /\ mode' = "closing"
  /\ UNCHANGED <<todo, open, forked, reports, ending>>

Next ==
  \/ Begin
  \/ \E how \in {"cancelled", "error"} : Refuse(how)
  \/ \E p \in todo, stored \in BOOLEAN : Start(p, stored)
  \/ \E p \in open, outcome \in Outcomes, stored \in BOOLEAN : Report(p, outcome, stored)
  \/ \E how \in {"ok", "cancelled", "error"} : Stop(how)
  \/ \E p \in open, stored \in BOOLEAN : GiveUp(p, stored)
  \/ Return

Spec == Init /\ [][Next]_reportVars
==============================================================================
