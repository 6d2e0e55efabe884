--------------------------- MODULE MCAlertOutbox ---------------------------
(* Instances of AlertOutbox for TLC: one group of up to two alerts, of which *)
(* the card shows one, and scenarios that bound the environment.             *)
EXTENDS AlertOutbox

Limit(notify, ack, close, escalate, fault, permanent, delete, crash, commit) ==
  [m \in Moves |->
     CASE m = "notify" -> notify [] m = "ack" -> ack
       [] m = "close" -> close [] m = "escalate" -> escalate
       [] m = "fault" -> fault [] m = "permanent" -> permanent
       [] m = "delete" -> delete [] m = "crash" -> crash
       [] m = "commit" -> commit]

\* Three batches of notices, two episodes at least, and a deletion: a close-out finds its
\* card deleted when the group is open again.
DeletionScenarios == {Limit(3, 0, 1, 0, 0, 0, 1, 0, 0)}

\* An escalation whose reaction is made again after its answer was lost.
ReactionScenarios == {Limit(1, 0, 1, 1, 1, 0, 0, 0, 0)}

\* Two episodes under faults and restarts; one episode whose messages get deleted; and
\* deletions that are noticed after the group opened again.
BoundedScenarios ==
  {Limit(3, 0, 0, 0, 1, 0, 0, 0, 0), Limit(2, 1, 1, 0, 0, 0, 0, 1, 0),
   Limit(2, 0, 1, 1, 1, 0, 0, 0, 0), Limit(2, 0, 1, 0, 0, 1, 0, 0, 1),
   Limit(2, 1, 0, 1, 0, 0, 1, 0, 0), Limit(1, 1, 1, 0, 0, 0, 2, 0, 0),
   Limit(2, 0, 0, 0, 0, 1, 1, 0, 0)}
    \cup DeletionScenarios
=============================================================================
