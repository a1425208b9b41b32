--------------------------- MODULE MCCapturePlanRun ---------------------------
(* Two cells of a template of two steps, the first a capture the engine does not *)
(* wait for; two runs, with a clock that may go back between them.               *)
EXTENDS CapturePlanRun

CONSTANTS c1, c2
MCCells == {c1, c2}
MCRank == [c \in MCCells |-> IF c = c1 THEN 1 ELSE 2]
MCPlans == {{c2}, MCCells}
MCTemplate == [c \in MCCells |-> IF c = c1 THEN {1, 2} ELSE {2}]
===============================================================================
