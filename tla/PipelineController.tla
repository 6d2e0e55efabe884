------------------------- MODULE PipelineController -------------------------
(***************************************************************************)
(* cmd/pipeline-controller as a whole: webhooks, the reconciler and the      *)
(* worker of the agentic handoff act on one pull request and its gate, while *)
(* people push, retarget, label and comment, Chai answers or does not, Prow  *)
(* runs jobs, requests fail, time passes and the process restarts.           *)
(***************************************************************************)
EXTENDS AgenticHandoff

GitHub ==
  /\ pr \in [head : Commit, base : Base, draft : BOOLEAN, labels : SUBSET Label]
  /\ gates \in [Commit -> Gate(Base)]
  /\ contexts \in [Commit -> SUBSET SecondStage]
  /\ requested \in [Revision -> SUBSET SecondStage]

Controller ==
  /\ handler.busy <=> handler.head \in Commit
  /\ handler.guard => Rev(handler.head, handler.base) \in cwIds
  /\ reconciler.busy <=> reconciler.head \in Commit
  /\ reconciler.busy => Rev(reconciler.head, reconciler.base) \in rIds \cap pjEvents
  /\ closed \in {"unknown", "open", "closed"}
  /\ cwIds \cup rIds \cup pjEvents \cup completed \cup traditionally \subseteq Revision

\* The worker holds the comment that waits longest, and after the first step a state of the
\* revision it read; Chai is waited for only where it owns the revision and was signalled.
Handoffs ==
  /\ worker.pc # "idle" =>
       /\ worker.head \in Commit /\ Enrolled(worker.base)
       /\ Heard.id # 0 => inbox # <<>> /\ Heard = Head(inbox)
  /\ worker.pc \notin {"idle", "prepare"} => s.known /\ Snapshot = Rev(s.head, s.base)
  /\ worker.pc \in {"timer"} => ~TraditionalMode(s)
  /\ s.waiting # 0 /\ ~TraditionalMode(s) => s.ready /\ ~s.dispatched /\ s.published # 0
  /\ s.ready /\ ~TraditionalMode(s) /\ s.title = "agentic" => gates[s.head].id # 0

\* The records are well-formed, every step of a thread is prepared by the one before, and
\* what the worker remembers fits together (agentic.go, main.go, reconciler.go).
TypeOK ==
  /\ GitHub
  /\ Controller
  /\ Handoffs
  /\ \A r \in Revision : listed[r] \subseteq requested[r]
-----------------------------------------------------------------------------
Init ==
  /\ scenario \in Scenarios
  /\ pr = [head |-> CHOOSE h \in Commit : \A k \in Commit : h <= k, base |-> Main,
           draft |-> FALSE, labels |-> {}]
  /\ gates = [h \in Commit |-> NoGate]
  /\ contexts = [h \in Commit |-> {}]
  /\ requested = [r \in Revision |-> {}] /\ listed = requested
  /\ first = [r \in Revision |-> FALSE]
  /\ events = {[kind |-> "push", rev |-> Current, labels |-> {}]}
  /\ pjEvents = {} /\ handler = Nothing /\ reconciler = Nothing
  /\ cwIds = {} /\ rIds = {} /\ closed = "unknown" /\ autoKnown = FALSE
  /\ now = 1 /\ dropped = FALSE
  /\ used = [m \in Moves |-> 0]
  /\ s = NoState /\ worker = Sleeping /\ inbox = <<>> /\ owed = Capable
  /\ completed = {} /\ traditionally = {}

\* Where people, Prow and GitHub act, the controller does not.
idle == <<scenario, gates, contexts, handler, reconciler, cwIds, rIds, closed, autoKnown, dropped>>
unaware == <<s, worker, inbox, completed, traditionally>>

\* GitHub reports what happened to the pull request.
Reports(kinds) ==
  /\ events' = events \cup {[kind |-> k, rev |-> Rev(pr'.head, pr'.base), labels |-> pr'.labels] : k \in kinds}
  /\ owed' = Capable

Push ==
  /\ Spend("push")
  /\ \E h \in Commit :
       /\ h > pr.head /\ \A k \in Commit : k > pr.head => h <= k
       /\ pr' = [pr EXCEPT !.head = h]
  /\ Reports({"push"})
  /\ UNCHANGED <<idle, unaware, requested, prow, now>>

Retarget ==
  /\ Spend("retarget")
  /\ \E b \in Base \ {pr.base} : pr' = [pr EXCEPT !.base = b]
  /\ Reports({})
  /\ UNCHANGED <<idle, unaware, requested, prow, now>>

AddLabel ==
  /\ Spend("label")
  /\ \E l \in scenario.labels \ pr.labels :
       pr' = [pr EXCEPT !.labels = @ \cup {l}] /\ Reports(IF l = "lgtm" THEN {"lgtm"} ELSE {})
  /\ UNCHANGED <<idle, unaware, requested, prow, now>>

RemoveLabel ==
  /\ Spend("unlabel")
  /\ \E l \in scenario.labels \cap pr.labels : pr' = [pr EXCEPT !.labels = @ \ {l}]
  /\ Reports({})
  /\ UNCHANGED <<idle, unaware, requested, prow, now>>

\* A draft, or closed; and back, which reopens it.
ToggleDraft ==
  /\ Spend("draft")
  /\ pr' = [pr EXCEPT !.draft = ~@]
  /\ Reports(IF pr.draft THEN {"push"} ELSE {})
  /\ UNCHANGED <<idle, unaware, requested, prow, now>>

\* A comment; it may name the commit that its author saw.
Comments ==
  /\ Spend("comment")
  /\ \E t \in scenario.talk :
       events' = events \cup
            {[kind |-> "comment", rev |-> Current, labels |-> {}, by |-> t[1], cmd |-> t[2],
              head |-> IF t[3] THEN pr.head ELSE 0, id |-> used["comment"] + 1, at |-> now]}
  /\ UNCHANGED <<idle, unaware, pr, requested, prow, owed, now>>

\* Somebody asks for a job by name.
Tests ==
  /\ Spend("test")
  /\ \E j \in SecondStage : requested' = [requested EXCEPT ![Current] = @ \cup {j}]
  /\ UNCHANGED <<idle, unaware, pr, prow, events, owed, now>>

\* handleIssueComment of the agentic controller: commands on a branch that is not agentic
\* are not for it, those on one that is, and what Chai says, wait for the worker.
IsComment(e) == Capable /\ e \in events /\ e.kind = "comment"

Routed(e) ==
  /\ events' = events \ {e}
  /\ inbox' = Append(inbox, [id |-> e.id, by |-> e.by, cmd |-> e.cmd, head |-> e.head, at |-> e.at])
  /\ owed' = TRUE

Route(e) ==
  /\ IsComment(e) /\ (IF e.cmd = "chat" THEN e.by = "chai" ELSE Enrolled(pr.base))
  /\ Routed(e)
  /\ UNCHANGED <<scenario, github, prow, handler, cwIds, autoKnown, loop, now, dropped, used,
                 s, worker, completed, traditionally>>

\* It cannot be told which: the worker gets it.
RouteUnsure(e) ==
  /\ IsComment(e) /\ e.cmd # "chat" /\ Spend("fault")
  /\ Routed(e) /\ dropped' = TRUE
  /\ UNCHANGED <<scenario, github, prow, handler, cwIds, autoKnown, loop, now,
                 s, worker, completed, traditionally>>

\* A ProwJob of the first stage, on an agentic branch (reconcile).
ReconcileAgentic(rev) ==
  /\ rev \in pjEvents /\ Enrolled(rev.base)
  /\ pjEvents' = pjEvents \ {rev} /\ owed' = TRUE
  /\ UNCHANGED <<scenario, github, listed, first, hooks, loop, now, dropped, used, unaware>>

\* The informer catches up with jobs that Prow created.
JobsListed(rev) ==
  /\ listed[rev] # requested[rev]
  /\ listed' = [listed EXCEPT ![rev] = requested[rev]]
  /\ pjEvents' = IF Enrolled(rev.base) THEN pjEvents ELSE pjEvents \cup {rev}
  /\ UNCHANGED <<scenario, github, first, hooks, loop, now, dropped, used, agenticVars>>

\* The first stage of the pull request passes, or one of its jobs runs again.
FirstPasses ==
  /\ ~first[Current]
  /\ first' = [first EXCEPT ![Current] = TRUE]
  /\ pjEvents' = pjEvents \cup {Current}
  /\ UNCHANGED <<scenario, github, listed, hooks, loop, now, dropped, used, agenticVars>>

FirstReruns ==
  /\ Spend("rerun") /\ first[Current]
  /\ first' = [first EXCEPT ![Current] = FALSE]
  /\ pjEvents' = pjEvents \cup {Current}
  /\ UNCHANGED <<scenario, github, listed, hooks, loop, now, dropped, agenticVars>>

\* Time passes as long as the worker waits, and for no reason as often as the bound says.
Tick ==
  /\ Spend("tick") \/ (now < s.waiting /\ UNCHANGED used)
  /\ now' = now + 1
  /\ UNCHANGED <<scenario, github, prow, hooks, loop, dropped, agenticVars>>

\* A day: old entries of what the controller remembers go (cleanOldIds, clearCache).
Day ==
  /\ Spend("day")
  /\ cwIds' = IF handler.guard THEN cwIds \cap {Rev(handler.head, handler.base)} ELSE {}
  /\ rIds' = IF reconciler.busy THEN rIds \cap {Rev(reconciler.head, reconciler.base)} ELSE {}
  /\ closed' = "unknown" /\ autoKnown' = FALSE
  /\ UNCHANGED <<scenario, github, prow, events, handler, reconciler, now, dropped, agenticVars>>

\* Memory is lost, and what GitHub reports meanwhile.  ProwJobs are listed again, those of
\* agentic branches to no effect (shouldReconcileProwJobCreate).
Restart ==
  /\ Spend("restart")
  /\ events' \in {events, {}}
  /\ pjEvents' = {r \in Revision : ~Enrolled(r.base) /\ (first[r] \/ requested[r] # {})}
  /\ listed' = requested
  /\ handler' = Nothing /\ reconciler' = Nothing /\ cwIds' = {} /\ rIds' = {}
  /\ closed' = "unknown" /\ autoKnown' = FALSE
  /\ s' = NoState /\ worker' = Sleeping /\ inbox' = <<>> /\ owed' = FALSE
  /\ UNCHANGED <<scenario, github, first, now, dropped, completed, traditionally>>
-----------------------------------------------------------------------------
\* What is not the worker's; a gate that it writes is not that of an agentic branch any more.
Elsewhere ==
  /\ UNCHANGED <<s, worker, inbox, owed>>
  /\ completed' = {r \in completed : gates'[r.head] = gates[r.head]}
  /\ traditionally' = {r \in traditionally : gates'[r.head] = gates[r.head]}

Webhooks ==
  /\ \/ HandlerSends
     \/ \E e \in events :
          HandlePush(e) \/ HandleLabel(e) \/ HandleRequired(e) \/ HandleRemaining(e)
            \/ HandleAuto(e) \/ HandleMark(e) \/ HandleOther(e)
  /\ Elsewhere

Routes == \E e \in events : Route(e) \/ RouteUnsure(e)

Reconciler ==
  \/ (ReconcilerSends \/ \E rev \in Revision : Reconcile(rev) \/ ReconcileFails(rev)) /\ Elsewhere
  \/ \E rev \in Revision : ReconcileAgentic(rev)

People == Push \/ Retarget \/ AddLabel \/ RemoveLabel \/ ToggleDraft \/ Comments \/ Tests

Around == FirstPasses \/ FirstReruns \/ Tick \/ Day \/ Restart \/ \E rev \in Revision : JobsListed(rev)

Next == Webhooks \/ Routes \/ Reconciler \/ Worker \/ People \/ Around

Spec == Init /\ [][Next]_vars

\* Each thread goes on, informers catch up, and time passes.
FairSpec ==
  /\ Spec
  /\ WF_vars(Webhooks) /\ WF_vars(Routes) /\ WF_vars(Reconciler) /\ WF_vars(Worker) /\ WF_vars(Tick)
  /\ \A rev \in Revision : WF_vars(JobsListed(rev))
-----------------------------------------------------------------------------
(* Properties.                                                               *)

\* A gate that the controller made succeed, for the head of the pull request and its base
\* branch, says that every second-stage job this pull request needs was asked for at that
\* commit, whatever was asked for at another one and whoever did it (dispatch_check.go
\* dispatch, helpers.go planDispatchComment).
GreenMeansDispatched ==
  LET g == gates[pr.head] IN
  Succeeded(g) /\ g.base = pr.base /\ g.summary = "dispatched"
    => Applicable(scenario.changed) \subseteq UNION {requested[Rev(pr.head, b)] : b \in Base}

\* One owner of the second stage: what Chai says of a revision counts no more once it was
\* dispatched without Chai, and a revision that was completed in agentic mode is not
\* dispatched again by itself, unless people opted out (agentic_events.go applyCommand,
\* agentic.go reconcilePull).
OwnersExclude ==
  [][worker' # worker =>
       /\ worker.pc = "command" /\ Heard.by = "chai" /\ gates' # gates => Snapshot \notin traditionally
       /\ worker.pc = "send" /\ requested' # requested /\ Snapshot \in completed => s.optOut]_vars

\* Nothing that is known to stop the second stage, or to hand it to people.
Undisturbed ==
  /\ ~dropped /\ ~pr.draft /\ first[Current]
  /\ used["retarget"] <= 1
  /\ IF Enrolled(pr.base) THEN used["restart"] = 0 /\ Automatic /\ Approved(pr.labels)
     ELSE /\ closed # "closed" /\ used["draft"] = 0
          /\ scenario.trigger = "auto" \/ (scenario.trigger = "lgtm" /\ autoKnown)

Green == Succeeded(gates[pr.head]) /\ gates[pr.head].base = pr.base

\* Chai owns the revision, and it was a comment of Chai, in time, that ended the wait.
Responded == s.answered /\ ~TraditionalMode(s) /\ Rev(s.head, s.base) = Current

\* The second stage was started after the pull request moved to another branch, and a thread
\* that had read it before then wrote the gate: it retired it, or made it that of the old
\* branch.  Nothing completes it again.
Overwritten ==
  /\ used["retarget"] > 0
  /\ IF Enrolled(pr.base)
     THEN s.dispatched /\ Rev(s.head, s.base) = Current /\ gates[pr.head].base # pr.base
     ELSE Current \in rIds

\* The worker forgot the pull request while it was a draft or closed, and then found the
\* gate that it had made, for which nobody waits any more (agentic.go:161, 200-205).
Unwatched == used["draft"] > 1 /\ s.ready /\ s.published = 0

\* Once its first stage passed and its trigger is given, the second stage of a pull request
\* that is left alone starts: the gate succeeds, or Chai, which was told, has responded.  A
\* Chai that is silent loses the revision, which is then dispatched without it
\* (agentic.go reconcilePull, reconciler.go reconcile).
SecondStageStarts == []<>(~Undisturbed \/ Green \/ Responded \/ Overwritten \/ Unwatched)

\* The same, and so for a pull request that was a draft or closed for a while: without a
\* message of Chai in time it is dispatched without Chai (architecture-memo.md:27).
SilenceHandsOver == []<>(~Undisturbed \/ Green \/ Responded \/ Overwritten)
=============================================================================
