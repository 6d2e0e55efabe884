--------------------------- MODULE MCNodeScaleDown ---------------------------
(* Instances of NodeScaleDown for TLC.                                       *)
EXTENDS NodeScaleDown, TLC

Scenario(limits) == [m \in Moves |-> IF m \in DOMAIN limits THEN limits[m] ELSE 0]

NodeScenarios ==
  {Scenario([mature |-> 1]), Scenario([pod |-> 1, lost |-> 1]),
   Scenario([pod |-> 1, fail |-> 1]), Scenario([pod |-> 1, fault |-> 1]),
   Scenario([pod |-> 1, restart |-> 1]), Scenario([pod |-> 1, maintenance |-> 1]),
   Scenario([grow |-> 1, pod |-> 1]), Scenario([pod |-> 1, hour |-> 1])}

TwiceScenarios == {Scenario([lost |-> 1])}

HoldScenarios == {Scenario([mature |-> 2])}
=============================================================================
