--------------------------- MODULE AgenticIntake ---------------------------
(***************************************************************************)
(* What the queue of the agentic handoff (cmd/pipeline-controller,         *)
(* agentic_queue.go) promises to those who report events: every event of a *)
(* pull request is followed by a reconciliation that began after it, the   *)
(* comments of a pull request are reconciled in the order they came, each  *)
(* until its reconciliation concludes, and reconciliations never overlap.  *)
(* AgenticQueue implements this specification.                             *)
(***************************************************************************)
EXTENDS Sequences

CONSTANTS PullRequest, Comment, NoComment

VARIABLES
  pending,  \* the comments of a pull request that no reconciliation concluded
  owed,     \* the pull requests of which an event waits for a reconciliation
  busy      \* the reconciliations under way, as <<pull request, comment>>

vars == <<pending, owed, busy>>

Init ==
  /\ pending = [p \in PullRequest |-> <<>>]
  /\ owed = {}
  /\ busy = {}

Queued(p, c) == \E i \in DOMAIN pending[p] : pending[p][i] = c

\* An event: a comment that is not waiting already, or anything else that may
\* have changed what the pull request needs.
Arrive(p, c) ==
  /\ owed' = owed \cup {p}
  /\ pending' = IF c = NoComment \/ Queued(p, c) THEN pending
                ELSE [pending EXCEPT ![p] = Append(@, c)]
  /\ UNCHANGED busy

Oldest(p) == IF pending[p] = <<>> THEN NoComment ELSE Head(pending[p])

\* A reconciliation starts, with the oldest comment: it will see every event so far.
Begin(p) ==
  /\ busy = {}
  /\ p \in owed
  /\ busy' = {<<p, Oldest(p)>>}
  /\ owed' = owed \ {p}
  /\ UNCHANGED pending

\* The response timer starts one by itself; it discharges no event.
Wake(p) ==
  /\ busy = {}
  /\ busy' = {<<p, NoComment>>}
  /\ UNCHANGED <<pending, owed>>

\* It concludes, well or not: its comment is done, and the next one is owed.
Conclude(p) ==
  \E c \in Comment \cup {NoComment} :
    /\ busy = {<<p, c>>}
    /\ busy' = {}
    /\ pending' = IF c = NoComment THEN pending ELSE [pending EXCEPT ![p] = Tail(@)]
    /\ owed' = IF pending'[p] = <<>> THEN owed ELSE owed \cup {p}

\* It failed in a way that deserves another attempt.
Postpone(p) ==
  /\ \E c \in Comment \cup {NoComment} : busy = {<<p, c>>}
  /\ busy' = {}
  /\ owed' = owed \cup {p}
  /\ UNCHANGED pending

Next ==
  \E p \in PullRequest :
    \/ \E c \in Comment \cup {NoComment} : Arrive(p, c)
    \/ Begin(p)
    \/ Wake(p)
    \/ Conclude(p)
    \/ Postpone(p)

SafeSpec == Init /\ [][Next]_vars

\* Every pull request that is owed a reconciliation gets it, and each ends.
Spec ==
  /\ SafeSpec
  /\ \A p \in PullRequest : SF_vars(Begin(p)) /\ WF_vars(Conclude(p) \/ Postpone(p))
=============================================================================
