---------------------------- MODULE MCSilenceOps ----------------------------
(***************************************************************************)
(* Instances of SilenceOps for TLC.  A scenario bounds what the environment *)
(* may do; every combination that matters has one.                          *)
(***************************************************************************)
EXTENDS SilenceOps, TLC

Scenario(fault, crash, external, authchanges, drains) ==
  [m \in Moves |-> CASE m = "fault" -> fault [] m = "crash" -> crash
                     [] m = "external" -> external [] m = "auth" -> authchanges
                     [] m = "drain" -> drains]

SafetyScenarios ==
  {Scenario(1, 1, 0, 0, 0), Scenario(1, 0, 0, 0, 1), Scenario(0, 0, 1, 1, 0),
   Scenario(0, 0, 0, 1, 1), Scenario(0, 1, 0, 0, 1)}

LiveScenarios ==
  {Scenario(1, 0, 0, 0, 1), Scenario(0, 1, 0, 0, 0), Scenario(0, 0, 0, 1, 1), Scenario(0, 0, 1, 0, 0)}

Symmetry == Permutations(Owner) \cup Permutations(Caller) \cup Permutations(Request)
=============================================================================
