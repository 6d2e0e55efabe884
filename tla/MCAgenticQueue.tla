--------------------------- MODULE MCAgenticQueue ---------------------------
(* Instances of AgenticQueue for TLC. *)
EXTENDS AgenticQueue

Limit(event, transient, throttled, permanent, late) ==
  [m \in Moves |->
     CASE m = "event" -> event [] m = "transient" -> transient
       [] m = "throttled" -> throttled [] m = "permanent" -> permanent
       [] m = "late" -> late]

\* Events and comments of two pull requests; a failure of each kind; retries to
\* the limit and beyond.
QueueScenarios ==
  {Limit(3, 1, 0, 0, 0), Limit(2, 1, 1, 0, 0), Limit(2, 1, 0, 1, 0),
   Limit(1, 3, 0, 0, 0), Limit(1, 1, 0, 0, 1)}

\* An outage longer than the retries.
OutageScenarios == {Limit(2, 3, 0, 0, 0)}
=============================================================================
