----------------------------- MODULE MCRetester -----------------------------
(* An instance of Retester for TLC.                                          *)
EXTENDS Retester, TLC

Level(enabled, sha, both) == [enabled |-> enabled, sha |-> sha, both |-> both]

Levels(global, org, repo) == [global |-> global, org |-> org, repo |-> repo]

\* Two retests, one against a base, each inherited from another level; the same for the
\* organization only; fewer; off at the repository, and off by default; invalid.
RetesterConfigs ==
  {Levels(Level("unset", 2, 1), Level("yes", 0, 0), Level("unset", 0, 0)),
   Levels(Level("yes", 3, 1), Level("no", 1, 1), Level("yes", 2, 0)),
   Levels(Level("yes", 3, 3), Level("yes", 1, 1), Level("unset", 2, 2)),
   Levels(Level("yes", 3, 3), Level("yes", 2, 2), Level("no", 2, 2)),
   Levels(Level("yes", 2, 2), Level("unset", 0, 0), Level("unset", 0, 0)),
   Levels(Level("unset", 1, 1), Level("yes", 1, 2), Level("unset", 0, 0))}

Scenario(limits) == [m \in Moves |-> IF m \in DOMAIN limits THEN limits[m] ELSE 0]

RetesterScenarios ==
  {Scenario([base |-> 1, unhold |-> 1]), Scenario([push |-> 1]),
   Scenario([comment |-> 1, base |-> 1]), Scenario([restart |-> 1, base |-> 1]),
   Scenario([save |-> 1, restart |-> 1]), Scenario([fault |-> 1]),
   Scenario([load |-> 1]), Scenario([age |-> 1])}
=============================================================================
