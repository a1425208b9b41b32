---------------------------- MODULE MCRecipeEngine ----------------------------
(* Small recipes for RecipeEngine under TLC.                                *)
EXTENDS RecipeEngine

CONSTANTS a, b

Plain == [kind |-> "device", cameras |-> <<>>, rounds |-> 1, shots |-> 1, wait |-> TRUE,
          production |-> FALSE, offset |-> 0, target |-> 0, limits |-> FALSE]
Climate(kind, target, limits) ==
    [Plain EXCEPT !.kind = kind, !.target = target, !.limits = limits]
Command(kind, cameras) == [Plain EXCEPT !.kind = kind, !.cameras = cameras]
Capture(cameras, rounds, shots, wait) ==
    [Plain EXCEPT !.kind = "capture", !.cameras = cameras, !.rounds = rounds,
                  !.shots = shots, !.wait = wait]
Production(rounds, shots, offset) ==
    [Capture(<<a>>, rounds, shots, FALSE) EXCEPT !.production = TRUE, !.offset = offset]
Join == [Plain EXCEPT !.kind = "join"]

Run(steps) == [steps |-> steps, keepChamberRunning |-> FALSE]

\* Two cameras forked, a step while they work, the join, and a fork never joined.
ForkRecipe == Run(<<Capture(<<a, b>>, 1, 1, FALSE), Plain, Join, Capture(<<b>>, 1, 1, FALSE)>>)

\* One round of two cameras, and the join as the last step.
JoinRecipe == Run(<<Capture(<<a, b>>, 1, 1, FALSE), Join>>)

\* A command to all cameras and waited captures of several shots and rounds.
WaitedRecipe == Run(<<Command("control", <<a>>), Capture(<<a>>, 2, 2, TRUE)>>)

\* A waited capture of two shots; a second run meets the late results of the first.
LateRecipe == Run(<<Capture(<<a>>, 1, 2, TRUE)>>)

\* A search for the BIAS of one condition, its use in another and the way back.
ProductionRecipe ==
    Run(<<Climate("temperature", 1, FALSE), Command("bias", <<a>>), Production(2, 2, 1),
          Climate("temperature", 2, FALSE), Production(1, 2, 0),
          Climate("temperature", 1, FALSE), Production(1, 2, 3)>>)

\* Both quantities limited, and then set without limits one after the other.
ClimateRecipe ==
    Run(<<Climate("temperature", 1, TRUE), Climate("humidity", 1, TRUE), Plain,
          Climate("temperature", 2, FALSE), Plain, Climate("humidity", 2, FALSE), Plain>>)

\* A hold, a fork and a join for a cancellation to end.
EndsRecipe == Run(<<Climate("temperature", 1, TRUE), Capture(<<a>>, 1, 1, FALSE), Join>>)

\* A chamber step before a forked capture, and the chamber kept running after them.
ChamberRecipe == Run(<<Climate("temperature", 1, FALSE), Capture(<<a>>, 1, 1, FALSE)>>)
KeptRecipe == [ChamberRecipe EXCEPT !.keepChamberRunning = TRUE]

AllRecipes == {ForkRecipe, WaitedRecipe, ProductionRecipe, ClimateRecipe, KeptRecipe}
EndingRecipes == {EndsRecipe, LateRecipe, KeptRecipe}
JoinRecipes == {JoinRecipe}
KeptRecipes == {KeptRecipe}
=============================================================================
