-------------------------- MODULE PipelineDispatch --------------------------
(***************************************************************************)
(* cmd/pipeline-controller: the dispatch of the second stage without Chai.  *)
(* Webhooks (main.go), one at a time under cw.mu, and the reconciler of      *)
(* ProwJobs (reconciler.go), one at a time, each keep a map of the revisions *)
(* they dispatched; planning and posting happen under checks.mu.  What they  *)
(* remember is lost by a restart; the gate, the labels and the comments are  *)
(* GitHub's.                                                                 *)
(*                                                                         *)
(* There is one pull request.  A revision of it is a commit and a base       *)
(* branch.  No commit becomes its head a second time.  Deployments without a *)
(* GitHub App have no gate and are left out, and so are replies.             *)
(***************************************************************************)
EXTENDS Integers, Sequences, PipelineGate, PipelineJobs

CONSTANTS
  Commit,       \* commits, in the order they are pushed
  Base,       \* base branches
  Main,       \* that of the pull request at first
  Command,    \* the commands of comments; "chat" is none of them
  Scenarios   \* bounds and configurations

Moves == {"push", "retarget", "label", "unlabel", "draft", "test", "rerun", "comment", "fault",
          "restart", "tick", "day"}

Label == {"lgtm", "auto", "skip"}

Revision == [head : Commit, base : Base]

ASSUME DispatchAssumption ==
  /\ Commit \subseteq Nat \ {0} /\ Commit # {} \* a pull request has one
  /\ Main \in Base /\ "" \notin Base
  /\ \A x \in Scenarios :
       /\ x.trigger \in {"auto", "lgtm", "manual"} \* the mode of the repository
       /\ x.enrolled \subseteq Base                \* branches in agentic mode
       /\ x.changed \subseteq File                 \* files the pull request changes
       /\ x.labels \subseteq Label                 \* labels that people may set
       /\ x.talk \subseteq {"user", "chai", "stranger"} \X Command \X BOOLEAN
            \* who comments what, and whether they name the commit
       /\ x.limits \in [Moves -> Nat]

VARIABLES
  scenario,
  pr,         \* GitHub: head, base branch, draft (or closed), labels
  gates,      \* GitHub: the gate of each commit
  contexts,   \* GitHub: the jobs whose context was set to pending, of each commit
  requested,  \* Prow: the jobs that a /test comment asked for, of each revision
  listed,     \* the controller's cache: those of them that it knows
  first,      \* the controller's cache: the first stage of a revision has passed
  events,     \* webhooks on their way
  pjEvents,   \* the reconciler's queue: revisions of changed ProwJobs
  handler,    \* what the holder of cw.mu is about to dispatch
  reconciler, \* what the reconciler is about to dispatch
  cwIds,      \* cw.ids
  rIds,       \* r.ids
  closed,     \* closedPRsCache: "unknown", "open" or "closed"
  autoKnown,  \* pipelineAutoCache
  now,        \* a clock
  dropped,    \* history: an error was logged, and nothing will try again
  used        \* how often each thing happened so far

github == <<pr, gates, contexts, requested>>
prow == <<listed, first, pjEvents>>
hooks == <<events, handler, cwIds, autoKnown>>
loop == <<reconciler, rIds, closed>>
dispatchVars == <<scenario, github, prow, hooks, loop, now, dropped, used>>

Nothing == [busy |-> FALSE, head |-> 0, base |-> "", mode |-> "", explicit |-> FALSE,
            guard |-> FALSE]

Rev(head, base) == [head |-> head, base |-> base]

Current == Rev(pr.head, pr.base)

Spend(m) == used' = [used EXCEPT ![m] = @ + 1] /\ used[m] < scenario.limits[m]

\* Nothing fails, or it costs a fault.
Costs(ok) == IF ok THEN UNCHANGED used ELSE Spend("fault")

Capable == scenario.enrolled # {}

Enrolled(base) == base \in scenario.enrolled

\* pipelineGateTriggerSatisfied
Approved(labels) == scenario.trigger # "lgtm" \/ {"lgtm", "auto"} \cap labels # {}

\* allowSnapshot: a webhook or a ProwJob of a repository with agentic branches has to be
\* about the pull request as it is, on a branch that is not agentic.
AllowSnapshot(rev) ==
  Capable => ~Enrolled(rev.base) /\ ~Enrolled(pr.base) /\ ~pr.draft /\ rev = Current
-----------------------------------------------------------------------------
(* Dispatch: sendCommentWithMode.                                            *)

\* Slip: a job counts as there when it has a run at any commit.
Existing_AnyCommit(rev) == UNION {listed[r] : r \in Revision}

\* existsAtSHA: the jobs of the revision in the cache.
Existing(rev) == listed[rev]

\* The gate while the jobs are posted.
Posting(g, rev, jobs) ==
  IF jobs = {} THEN g
  ELSE Written(g, Check(rev.base, "in_progress", "", "dispatching"), g.conclusion = "success")

\* The comment makes Prow run the jobs at the head of the pull request as it is then.
Posted(jobs) == requested' = [requested EXCEPT ![Current] = @ \cup jobs]

SetGate(rev, versions) == \E g \in versions : gates' = [gates EXCEPT ![rev.head] = g]

Pending(rev, jobs) == contexts' = [contexts EXCEPT ![rev.head] = @ \cup jobs]

\* Everything works: contexts, comment, success.
Dispatches(rev, mode, explicit) ==
  LET g == gates[rev.head]
      jobs == Planned(scenario.changed, mode, Existing(rev))
  IN
  /\ SetGate(rev, {IF jobs = {} /\ IsFor(g, rev.base) /\ Succeeded(g) THEN g
                   ELSE Written(Posting(g, rev, jobs),
                                Check(rev.base, "completed", "success", "dispatched"), FALSE)})
  /\ Pending(rev, jobs) /\ Posted(jobs)

\* A request fails: the one that opens the gate; one that posts, after which the gate
\* fails if it can; or the one that closes it.
DispatchFails(rev, mode, explicit) ==
  LET g == gates[rev.head]
      jobs == Planned(scenario.changed, mode, Existing(rev))
      open == Posting(g, rev, jobs)
      done == IsFor(g, rev.base) /\ Succeeded(g)
      failed == Written(open, Check(rev.base, "completed", "failure", "failed"), FALSE)
      green == Check(rev.base, "completed", "success", "dispatched")
  IN
  \/ /\ jobs # {}
     /\ SetGate(rev, Interrupted(g, Check(rev.base, "in_progress", "", "dispatching"),
                                 g.conclusion = "success"))
     /\ UNCHANGED <<contexts, requested>>
  \/ /\ jobs # {} \/ (explicit /\ ~done)
     /\ SetGate(rev, {open, failed})
     /\ \/ (\E some \in {{}, jobs} : Pending(rev, some)) /\ UNCHANGED requested
        \/ Pending(rev, jobs) /\ Posted(jobs)
  \/ /\ jobs # {} \/ ~done
     /\ SetGate(rev, Interrupted(open, green, FALSE))
     /\ Pending(rev, jobs) /\ Posted(jobs)

\* pending: the gate is created, or made one of this base branch.
PendingGate(rev, ok) ==
  LET g == gates[rev.head] IN
  IF ~NeedsReset(g, rev.base, FALSE) THEN ok /\ UNCHANGED gates
  ELSE SetGate(rev, IF ok THEN {Written(g, Waiting(rev.base), g.conclusion = "success")}
                    ELSE Interrupted(g, Waiting(rev.base), g.conclusion = "success"))
-----------------------------------------------------------------------------
(* Webhooks.                                                                 *)

Idle == handler = Nothing

Claims(rev, mode, explicit) ==
  handler' = [Nothing EXCEPT !.busy = TRUE, !.head = rev.head, !.base = rev.base,
                             !.mode = mode, !.explicit = explicit, !.guard = mode = "delta"]

Log(ok) == dropped' = (dropped \/ ~ok)

\* handlePipelineContextCreation: opened, reopened or pushed to.
HandlePush(e) ==
  /\ Idle /\ e \in events /\ e.kind = "push"
  /\ events' = events \ {e}
  /\ IF ~AllowSnapshot(e.rev) THEN UNCHANGED <<gates, contexts, used, dropped>>
     ELSE \E ok \in BOOLEAN :
            /\ Costs(ok) /\ Log(ok)
            /\ IF Approved(e.labels) THEN PendingGate(e.rev, ok) \/ (~ok /\ PendingGate(e.rev, TRUE))
               ELSE UNCHANGED gates
            /\ \E jobs \in IF ok THEN {Expected(scenario.changed)}
                           ELSE {{}, Expected(scenario.changed)} : Pending(e.rev, jobs)
  /\ UNCHANGED <<scenario, pr, requested, prow, handler, cwIds, autoKnown, loop, now>>

\* handleLabelAddition: the pull request was approved.
HandleLabel(e) ==
  /\ Idle /\ e \in events /\ e.kind = "lgtm"
  /\ events' = events \ {e}
  /\ IF /\ AllowSnapshot(e.rev) /\ scenario.trigger = "lgtm" /\ "auto" \notin e.labels
        /\ e.rev \notin cwIds
     THEN cwIds' = cwIds \cup {e.rev} /\ Claims(e.rev, "delta", FALSE)
     ELSE UNCHANGED <<cwIds, handler>>
  /\ UNCHANGED <<scenario, github, prow, autoKnown, loop, now, dropped, used>>

\* A pipeline command on a branch that is not agentic (handleIssueComment).
IsCommand(e, name) ==
  /\ Idle /\ e \in events /\ e.kind = "comment" /\ e.cmd = name /\ ~Enrolled(pr.base)
  /\ events' = events \ {e}

HandleRequired(e) ==
  /\ IsCommand(e, "required")
  /\ Claims(Current, "force", TRUE)
  /\ UNCHANGED <<scenario, github, prow, cwIds, autoKnown, loop, now, dropped, used>>

\* Unless the revision was dispatched.
Guarded(rev) ==
  IF rev \in cwIds THEN UNCHANGED <<cwIds, handler>>
  ELSE cwIds' = cwIds \cup {rev} /\ Claims(rev, "delta", TRUE)

HandleRemaining(e) ==
  /\ IsCommand(e, "remaining")
  /\ Guarded(Current)
  /\ UNCHANGED <<scenario, github, prow, autoKnown, loop, now, dropped, used>>

\* The label is set; the first stage may have passed before.
HandleAuto(e) ==
  /\ IsCommand(e, "auto")
  /\ IF scenario.trigger # "lgtm" THEN UNCHANGED <<pr, autoKnown, cwIds, handler, dropped, used>>
     ELSE \E ok \in BOOLEAN :
            /\ Costs(ok) /\ Log(ok)
            /\ \/ pr' = [pr EXCEPT !.labels = @ \cup {"auto"}]
               \/ ~ok /\ UNCHANGED pr
            /\ autoKnown' = (autoKnown \/ ok)
            /\ IF ok /\ first[Current] THEN Guarded(Current) ELSE UNCHANGED <<cwIds, handler>>
  /\ UNCHANGED <<scenario, gates, contexts, requested, prow, loop, now>>

\* markGate: a trusted person says that the second stage is dispatched.  Of a draft they
\* may, of a closed pull request not.
HandleMark(e) ==
  /\ IsCommand(e, "mark")
  /\ LET g == gates[pr.head]
         may == e.by = "user" /\ e.head \in {0, pr.head} /\ MayMark(g, pr.base, TRUE)
     IN
     \/ (~may \/ pr.draft) /\ UNCHANGED <<gates, dropped, used>>
     \/ /\ may
        /\ \E ok \in BOOLEAN :
             /\ Costs(ok) /\ Log(ok)
             /\ SetGate(Current, IF ok THEN {Written(g, Marked(g, pr.base, ""), FALSE)}
                                 ELSE Interrupted(g, Marked(g, pr.base, ""), FALSE))
  /\ UNCHANGED <<scenario, pr, contexts, requested, prow, handler, cwIds, autoKnown, loop, now>>

\* A command for agentic mode, or anything else, does nothing here.
HandleOther(e) ==
  /\ \E name \in {"skip", "agentic", "chat"} : IsCommand(e, name)
  /\ UNCHANGED <<scenario, github, prow, handler, cwIds, autoKnown, loop, now, dropped, used>>

\* Slip: the guard of a revision is kept when its dispatch failed.
Released_Kept(ids, rev, ok) == ids

\* deleteIds
Released(ids, rev, ok) == IF ok THEN ids ELSE ids \ {rev}

HandlerSends ==
  LET rev == Rev(handler.head, handler.base) IN
  /\ ~Idle
  /\ \E ok \in BOOLEAN :
       /\ Costs(ok) /\ Log(ok)
       /\ IF ok THEN Dispatches(rev, handler.mode, handler.explicit)
          ELSE DispatchFails(rev, handler.mode, handler.explicit)
       /\ cwIds' = IF handler.guard THEN Released(cwIds, rev, ok) ELSE cwIds
  /\ handler' = Nothing
  /\ UNCHANGED <<scenario, pr, prow, events, autoKnown, loop, now>>
-----------------------------------------------------------------------------
(* The reconciler.                                                           *)

\* A ProwJob of the revision changed, on a branch that is not agentic.
Takes(rev) == reconciler = Nothing /\ rev \in pjEvents /\ ~Enrolled(rev.base)

\* reconcile: mode auto, or the label, which is remembered.
ProceedsAuto == scenario.trigger = "auto"
                \/ (scenario.trigger = "lgtm" /\ (autoKnown \/ "auto" \in pr.labels))

\* isPRClosed: an open pull request is looked at again after a while, a closed one (or a
\* draft) is not.
LooksClosed(c) ==
  \/ c = closed /\ closed # "unknown"
  \/ closed # "closed" /\ c = IF pr.draft THEN "closed" ELSE "open"

Reconcile(rev) ==
  /\ Takes(rev)
  /\ IF ~(AllowSnapshot(rev) /\ ProceedsAuto)
     THEN /\ pjEvents' = pjEvents \ {rev}
          /\ UNCHANGED <<autoKnown, closed, rIds, reconciler>>
     ELSE /\ autoKnown' = (autoKnown \/ scenario.trigger = "lgtm")
          /\ IF ~first[rev]
             THEN pjEvents' = pjEvents \ {rev} /\ UNCHANGED <<closed, rIds, reconciler>>
             ELSE \E c \in {"open", "closed"} :
                    /\ LooksClosed(c)
                    /\ closed' = c
                    /\ IF c = "closed" \/ rev \in rIds
                       THEN pjEvents' = pjEvents \ {rev} /\ UNCHANGED <<rIds, reconciler>>
                       ELSE /\ rIds' = rIds \cup {rev}
                            /\ reconciler' = [Nothing EXCEPT !.busy = TRUE, !.head = rev.head,
                                                             !.base = rev.base, !.mode = "delta"]
                            /\ UNCHANGED pjEvents
  /\ UNCHANGED <<scenario, github, listed, first, events, handler, cwIds, now, dropped, used>>

\* The labels cannot be read: the event is gone.  Another request fails: it is tried again.
ReconcileFails(rev) ==
  /\ Takes(rev) /\ AllowSnapshot(rev) /\ scenario.trigger = "lgtm" /\ ~autoKnown
  /\ Spend("fault") /\ dropped' = TRUE
  /\ pjEvents' = pjEvents \ {rev}
  /\ UNCHANGED <<scenario, github, listed, first, hooks, loop, now>>

ReconcilerSends ==
  LET rev == Rev(reconciler.head, reconciler.base) IN
  /\ reconciler.busy
  /\ \E ok \in BOOLEAN :
       /\ Costs(ok)
       /\ IF ok THEN Dispatches(rev, "delta", FALSE) ELSE DispatchFails(rev, "delta", FALSE)
       /\ rIds' = Released(rIds, rev, ok)
       /\ pjEvents' = IF ok THEN pjEvents \ {rev} ELSE pjEvents
  /\ reconciler' = Nothing
  /\ UNCHANGED <<scenario, pr, listed, first, hooks, closed, now, dropped>>
=============================================================================
