--------------------------- MODULE AgenticHandoff ---------------------------
(***************************************************************************)
(* cmd/pipeline-controller: the handoff of the second stage to Chai, on      *)
(* branches in agentic mode (agentic.go, agentic_events.go).  One worker     *)
(* reconciles the pull request, with the oldest comment that waits if there  *)
(* is one; AgenticQueue shows what the queue before it does, and here it is  *)
(* a sequence of comments and a flag.  The worker reads the pull request     *)
(* once, at the start, and the gate whenever it is about to write it.        *)
(*                                                                         *)
(* Replies are left out: a lost one changes nothing.  Chai is trusted with   *)
(* one command, people of the organisation with all, a stranger with none.   *)
(***************************************************************************)
EXTENDS PipelineDispatch

CONSTANT Timeout \* options.timeout

ASSUME HandoffAssumption == Timeout \in Nat \ {0}

VARIABLES
  s,         \* agenticState, and as history whether Chai answered what it was told last
  worker,    \* what the worker is about to do, for the pull request as it read it
  inbox,     \* the comments that wait for it
  owed,      \* something else happened that it has not looked at
  completed, \* history: revisions marked complete while Chai owned them
  traditionally \* history: revisions dispatched while Chai did not own them

agenticVars == <<s, worker, inbox, owed, completed, traditionally>>
vars == <<dispatchVars, agenticVars>>

NoComment == [id |-> 0, by |-> "", cmd |-> "", head |-> 0, at |-> 0]

Sleeping == [pc |-> "idle", head |-> 0, base |-> "", labels |-> {}, comment |-> NoComment]

NoState == [known |-> FALSE, head |-> 0, base |-> "", title |-> "", ready |-> FALSE,
            fresh |-> FALSE, timedOut |-> FALSE, optOut |-> FALSE, traditional |-> FALSE,
            dispatched |-> FALSE, last |-> 0, waiting |-> 0, published |-> 0, answered |-> FALSE]

TraditionalMode(t) == t.optOut \/ t.timedOut \/ t.traditional

\* The revision and the comment the worker works on, and the gate as it is now.
Snapshot == Rev(worker.head, worker.base)

Heard == worker.comment

Live == gates[worker.head]

\* What the worker leaves alone.
outside == <<scenario, prow, hooks, loop, now>>

\* A write of the gate, which may fail before or after it took effect.
Write(ok, next, reopen) ==
  SetGate(Snapshot, IF ok THEN {Written(Live, next, reopen)} ELSE Interrupted(Live, next, reopen))

Retire(ok) ==
  LET retired == Retired(Live, "agentic", "retired") IN
  SetGate(Snapshot, IF Live.id = 0 THEN {Live} ELSE IF ok THEN {retired} ELSE {Live, retired})

\* A completion counts as long as the gate of its branch is a success, a dispatch until the
\* gate is another branch's or Chai's.
Recall(done, sent) ==
  LET of(r) == gates'[r.head] IN
  /\ completed' = {r \in completed \cup done : IsFor(of(r), r.base) /\ Succeeded(of(r))}
  /\ traditionally' = {r \in traditionally \cup sent : IsFor(of(r), r.base) /\ of(r).title # "agentic"}

\* processNext, afterwards: the comment is done, well or not.
Concluded ==
  /\ worker' = Sleeping
  /\ inbox' = IF Heard.id = 0 THEN inbox ELSE Tail(inbox)
  /\ UNCHANGED owed

Succeeds == Concluded /\ UNCHANGED dropped

GivesUp == Concluded /\ dropped' = TRUE

\* A transient error leaves the comment for another attempt.
Errs ==
  \/ GivesUp
  \/ worker' = Sleeping /\ owed' = TRUE /\ UNCHANGED <<inbox, dropped>>

Goto(pc) == worker' = [worker EXCEPT !.pc = pc] /\ UNCHANGED <<inbox, owed, dropped>>

Continues(ok, pc) == IF ok THEN Goto(pc) ELSE Errs

\* cancelResponseTimeout: a comment of Chai while it is waited for is a response.
Cancelled(t) ==
  IF /\ Heard.by = "chai" /\ t.ready /\ ~TraditionalMode(t) /\ t.waiting # 0
     /\ Heard.at \in t.published .. t.waiting
  THEN [t EXCEPT !.waiting = 0, !.answered = TRUE] ELSE t
-----------------------------------------------------------------------------
(* reconcilePull, up to the comment.                                         *)

Wanted == owed \/ inbox # <<>> \/ (s.waiting # 0 /\ now >= s.waiting)

\* The pull request is read; one that is not enrolled, or a draft, is forgotten.
Fetch ==
  /\ worker.pc = "idle" /\ Wanted
  /\ owed' = FALSE
  /\ IF ~Enrolled(pr.base) \/ pr.draft
     THEN s' = NoState /\ inbox' = (IF inbox = <<>> THEN inbox ELSE Tail(inbox)) /\ UNCHANGED worker
     ELSE /\ worker' = [pc |-> "prepare", head |-> pr.head, base |-> pr.base, labels |-> pr.labels,
                        comment |-> IF inbox = <<>> THEN NoComment ELSE Head(inbox)]
          /\ UNCHANGED <<s, inbox>>
  /\ UNCHANGED <<outside, github, used, dropped, completed, traditionally>>

Stale == ~s.known \/ s.head # worker.head \/ s.base # worker.base

\* The state of a revision that is new to the worker.  A gate of this base that nothing
\* before it invalidated says whose revision it is.
NewState ==
  LET g == Live
      fresh == s.known \/ (g.id # 0 /\ g.base # worker.base)
      here == ~fresh /\ g.id # 0
  IN [NoState EXCEPT
        !.known = TRUE, !.head = worker.head, !.base = worker.base, !.title = g.title,
        !.fresh = fresh, !.last = s.last,
        !.traditional = here /\ TraditionalRevisionOwner(g),
        !.ready = here /\ NativeAgenticReadiness(g),
        !.dispatched = here /\ Succeeded(g)]

PrepareNew ==
  /\ worker.pc = "prepare" /\ Stale
  /\ \E ok \in BOOLEAN :
       /\ Costs(ok)
       /\ IF NewState.fresh THEN Retire(ok) ELSE UNCHANGED gates
       /\ s' = IF ok THEN Cancelled([NewState EXCEPT !.optOut = "skip" \in worker.labels]) ELSE s
       /\ Continues(ok, "command")
       /\ Recall({}, {})
  /\ UNCHANGED <<outside, pr, contexts, requested>>

\* restoreAgenticMode: a completed dispatch belongs to its revision whatever the mode.
Restored ==
  LET g == Live
      current == IsFor(g, worker.base)
      complete == current /\ Succeeded(g)
      deferred == complete \/ (current /\ TraditionalRevisionOwner(g))
  IN [s EXCEPT !.optOut = FALSE, !.timedOut = FALSE, !.dispatched = complete,
               !.traditional = current /\ TraditionalRevisionOwner(g),
               !.ready = complete, !.fresh = ~deferred, !.waiting = 0, !.answered = FALSE,
               !.title = IF deferred THEN g.title ELSE @,
               !.published = IF deferred THEN 0 ELSE @]

Restore(ok) == IF Restored.fresh THEN Retire(ok) ELSE UNCHANGED gates

\* The opt-out label was taken off by hand.
PrepareRestored ==
  /\ worker.pc = "prepare" /\ ~Stale /\ s.optOut /\ "skip" \notin worker.labels
  /\ \E ok \in BOOLEAN :
       /\ Costs(ok) /\ Restore(ok)
       /\ s' = IF ok THEN Cancelled(Restored) ELSE s
       /\ Continues(ok, "command")
  /\ Recall({}, {}) /\ UNCHANGED <<outside, pr, contexts, requested>>

Prepare ==
  /\ worker.pc = "prepare" /\ ~Stale /\ ~(s.optOut /\ "skip" \notin worker.labels)
  /\ s' = Cancelled([s EXCEPT !.optOut = "skip" \in worker.labels])
  /\ Goto("command")
  /\ UNCHANGED <<outside, github, used, completed, traditionally>>
-----------------------------------------------------------------------------
(* applyCommand.  A command is obeyed once, and only if its author may.      *)

Obeys(c) ==
  /\ c.cmd # "chat" /\ c.id > s.last
  /\ c.by = "user" \/ (c.by = "chai" /\ c.cmd = "mark")

Obeying(names) == worker.pc = "command" /\ Obeys(Heard) /\ Heard.cmd \in names

Done(t) == [t EXCEPT !.last = Heard.id]

\* publishReadiness: an existing readiness is adopted with its original deadline.
Adopts == ~s.fresh /\ IsFor(Live, worker.base) /\ NativeAgenticReadiness(Live)

Adopted ==
  [s EXCEPT !.title = Live.title, !.ready = TRUE, !.dispatched = Succeeded(Live),
            !.waiting = IF Succeeded(Live) THEN 0
                        ELSE IF s.published # 0 THEN s.published + Timeout ELSE @]

\* Otherwise the old gate is retired and one that Chai acts upon created.
Handoff == [Check(worker.base, "queued", "", "handoff") EXCEPT !.title = "agentic"]

Signalled == [s EXCEPT !.title = "agentic", !.ready = TRUE, !.fresh = FALSE,
                       !.published = now, !.waiting = now + Timeout, !.answered = FALSE]

Signals == SetGate(Snapshot, {Created(Live, Handoff)})

\* It fails at the old gate, or at the new one, of which the time is remembered.
SignalFails ==
  \/ /\ Retire(FALSE)
     /\ s' = [s EXCEPT !.fresh = @ \/ (Live.id # 0 /\ Live.base # worker.base)]
  \/ /\ SetGate(Snapshot, {IF Live.id = 0 THEN Live ELSE Retired(Live, "agentic", "retired"),
                           Created(Live, Handoff)})
     /\ s' = [s EXCEPT !.fresh = FALSE, !.published = now]

\* A trusted person asks for the second stage: Chai is told once for each revision.
CommandSignal ==
  /\ Obeying({"required", "remaining"}) /\ ~TraditionalMode(s)
  /\ \/ (s.ready \/ Adopts) /\ s' = Done(IF s.ready THEN s ELSE Adopted) /\ Goto("act")
        /\ UNCHANGED <<gates, used>>
     \/ /\ ~s.ready /\ ~Adopts
        /\ \E ok \in BOOLEAN :
             /\ Costs(ok) /\ Continues(ok, "act")
             /\ IF ok THEN Signals /\ s' = Done(Signalled) ELSE SignalFails
  /\ Recall({}, {}) /\ UNCHANGED <<outside, pr, contexts, requested>>

\* Chai does not own the revision: it is dispatched as anywhere else.
CommandDispatch ==
  LET mode == IF Heard.cmd = "required" THEN "force" ELSE "delta" IN
  /\ Obeying({"required", "remaining"}) /\ TraditionalMode(s)
  /\ IF Heard.cmd = "remaining" /\ s.dispatched
     THEN /\ s' = Done(s) /\ Goto("act")
          /\ UNCHANGED <<gates, contexts, requested, used, completed, traditionally>>
     ELSE \E ok \in BOOLEAN :
            /\ Costs(ok) /\ Continues(ok, "act")
            /\ IF ok THEN Dispatches(Snapshot, mode, TRUE) ELSE DispatchFails(Snapshot, mode, TRUE)
            /\ s' = IF ok THEN Done([s EXCEPT !.dispatched = TRUE]) ELSE s
            /\ Recall({}, IF ok THEN {Snapshot} ELSE {})
  /\ UNCHANGED <<outside, pr>>

SetLabel(ok, labels) ==
  \/ pr' = [pr EXCEPT !.labels = labels]
  \/ ~ok /\ UNCHANGED pr

CommandAuto ==
  /\ Obeying({"auto"})
  /\ IF scenario.trigger # "lgtm" \/ "auto" \in worker.labels
     THEN s' = Done(s) /\ Goto("act") /\ UNCHANGED <<pr, used>>
     ELSE \E ok \in BOOLEAN :
            /\ Costs(ok) /\ SetLabel(ok, pr.labels \cup {"auto"})
            /\ s' = IF ok THEN Done(s) ELSE s
            /\ IF ok THEN /\ worker' = [worker EXCEPT !.pc = "act", !.labels = @ \cup {"auto"}]
                          /\ UNCHANGED <<inbox, owed, dropped>>
               ELSE Errs
  /\ UNCHANGED <<outside, gates, contexts, requested, completed, traditionally>>

\* skip-agentic-mode: what Chai completed is void before the label changes the owner.
CommandSkip ==
  LET resets == ~TraditionalMode(s) /\ NeedsReset(Live, worker.base, TRUE)
      reset == [s EXCEPT !.dispatched = @ /\ TraditionalMode(s)]
      reopen == Live.conclusion = "success"
      apply(ok) == IF resets THEN Write(ok, Waiting(worker.base), reopen) ELSE UNCHANGED gates
  IN
  /\ Obeying({"skip"})
  /\ \/ /\ apply(TRUE) /\ (s.optOut \/ SetLabel(TRUE, pr.labels \cup {"skip"}))
        /\ s.optOut => UNCHANGED pr
        /\ s' = Done([reset EXCEPT !.optOut = TRUE, !.waiting = 0])
        /\ Goto("act") /\ UNCHANGED used
     \/ /\ Spend("fault") /\ Errs
        /\ \/ apply(FALSE) /\ UNCHANGED <<pr, s>>
           \/ ~s.optOut /\ apply(TRUE) /\ SetLabel(FALSE, pr.labels \cup {"skip"}) /\ s' = reset
  /\ Recall({}, {}) /\ UNCHANGED <<outside, contexts, requested>>

\* agentic-mode
CommandRestore ==
  /\ Obeying({"agentic"})
  /\ IF ~TraditionalMode(s)
     THEN s' = Done(s) /\ Goto("act") /\ UNCHANGED <<gates, pr, used>>
     ELSE \/ /\ Restore(TRUE)
             /\ pr' = IF s.optOut THEN [pr EXCEPT !.labels = @ \ {"skip"}] ELSE pr
             /\ s' = Done(Restored)
             /\ Goto("act") /\ UNCHANGED used
          \/ /\ Spend("fault") /\ Errs /\ UNCHANGED s
             /\ \/ Restore(FALSE) /\ UNCHANGED pr
                \/ s.optOut /\ Restore(TRUE) /\ SetLabel(FALSE, pr.labels \ {"skip"})
  /\ Recall({}, {}) /\ UNCHANGED <<outside, contexts, requested>>

\* mark-pipeline-gate.  A gate that the worker lost sight of is found again.
Found ==
  IF ~s.ready /\ ~s.fresh /\ IsFor(Live, worker.base) /\ NativeAgenticReadiness(Live)
  THEN [s EXCEPT !.title = Live.title, !.ready = TRUE] ELSE s

\* Not about this commit, or Chai has no say: it does not own the revision, was not asked
\* yet, or answers too late.
Declined(c) ==
  \/ c.head \notin {0, worker.head}
  \/ /\ c.by = "chai"
     /\ \/ TraditionalMode(s)
        \/ ~Found.ready
        \/ c.at < s.published
        \/ s.waiting # 0 /\ c.at > s.waiting

MarkDeclined ==
  /\ Obeying({"mark"}) /\ Declined(Heard)
  /\ s' = Done(IF TraditionalMode(s) \/ Heard.head \notin {0, worker.head} THEN s ELSE Found)
  /\ Goto("act")
  /\ UNCHANGED <<outside, github, used, completed, traditionally>>

\* A person completes the dispatch of a revision that Chai does not own.
MarkTraditional ==
  LET next == Marked(Live, worker.base, "traditional") IN
  /\ Obeying({"mark"}) /\ ~Declined(Heard) /\ TraditionalMode(s)
  /\ \/ /\ ~MayMark(Live, worker.base, TRUE) /\ GivesUp /\ UNCHANGED <<gates, used, s>>
     \/ /\ MayMark(Live, worker.base, TRUE)
        /\ \E ok \in BOOLEAN :
             /\ Costs(ok) /\ Continues(ok, "act") /\ Write(ok, next, FALSE)
             /\ s' = IF ok THEN Done([s EXCEPT !.dispatched = TRUE]) ELSE s
  /\ Recall({}, {}) /\ UNCHANGED <<outside, pr, contexts, requested>>

\* Slip: the response timer runs on.
CompletedBy_TimerKept(gate) ==
  [Found EXCEPT !.title = gate.title, !.ready = TRUE, !.dispatched = TRUE, !.fresh = FALSE]

CompletedBy(gate) ==
  [Found EXCEPT !.title = gate.title, !.ready = TRUE, !.dispatched = TRUE, !.fresh = FALSE,
                !.waiting = 0]

\* Chai completes its dispatch, or a person says that it has.
MarkAgentic ==
  LET next == Marked(Live, worker.base, IF Found.title = "" THEN "agentic" ELSE Found.title)
      may == MayMark(Live, worker.base, Heard.by # "chai")
  IN
  /\ Obeying({"mark"}) /\ ~Declined(Heard) /\ ~TraditionalMode(s)
  /\ \/ /\ ~may /\ GivesUp /\ s' = Found
        /\ UNCHANGED <<gates, used, completed, traditionally>>
     \/ /\ may
        /\ \E ok \in BOOLEAN :
             /\ Costs(ok) /\ Continues(ok, "act") /\ Write(ok, next, FALSE)
             /\ s' = IF ok THEN Done(CompletedBy(Titled(Live, next))) ELSE Found
             /\ Recall(IF ok \/ gates' # gates THEN {Snapshot} ELSE {}, {})
  /\ UNCHANGED <<outside, pr, contexts, requested>>
-----------------------------------------------------------------------------
(* reconcilePull, after the comment.                                         *)

\* There was no command, or it was obeyed.
Acting == worker.pc = "act" \/ (worker.pc = "command" /\ ~Obeys(Heard))

\* Whether Chai may be signalled: not on request only, unless a request was begun.
Automatic == scenario.trigger # "manual"

MaySignal ==
  IF Automatic THEN Approved(worker.labels) /\ first[Snapshot] ELSE s.published # 0

ActNothing ==
  /\ Acting /\ ~TraditionalMode(s) /\ ~s.ready /\ ~MaySignal
  /\ Succeeds
  /\ UNCHANGED <<outside, github, used, s, completed, traditionally>>

ActAdopt ==
  /\ Acting /\ ~TraditionalMode(s) /\ ~s.ready /\ MaySignal
  /\ Adopts \/ ~Automatic
  /\ s' = IF Adopts THEN Cancelled(Adopted)
          ELSE [s EXCEPT !.fresh = @ \/ (Live.id # 0 /\ Live.base # worker.base)]
  /\ Goto("timer")
  /\ UNCHANGED <<outside, github, used, completed, traditionally>>

ActSignal ==
  /\ Acting /\ ~TraditionalMode(s) /\ ~s.ready /\ MaySignal
  /\ ~Adopts /\ Automatic
  /\ \E ok \in BOOLEAN :
       /\ Costs(ok) /\ Continues(ok, "timer")
       /\ IF ok THEN Signals /\ s' = Signalled ELSE SignalFails
  /\ Recall({}, {}) /\ UNCHANGED <<outside, pr, contexts, requested>>

\* Chai was signalled, now or before.
Timing == worker.pc = "timer" \/ (Acting /\ ~TraditionalMode(s) /\ s.ready)

Due == s.waiting # 0 /\ now >= s.waiting

NotDue ==
  /\ Timing /\ ~Due
  /\ Succeeds
  /\ UNCHANGED <<outside, github, used, s, completed, traditionally>>

\* Slip: the timer trusts what the worker remembers.
Confirms_Memory(g) == s.dispatched

\* A completion may have reached the gate though its answer was lost.
Confirms(g) == IsFor(g, worker.base) /\ Succeeded(g) /\ ~TraditionalRevisionOwner(g)

TimerConfirms ==
  /\ Timing /\ Due /\ Confirms(Live)
  /\ s' = [s EXCEPT !.title = Live.title, !.ready = TRUE, !.dispatched = TRUE, !.fresh = FALSE,
                    !.waiting = 0]
  /\ Succeeds
  /\ UNCHANGED <<outside, github, used, completed, traditionally>>

\* Slip: the timer is over and the revision is handed to nobody.
TimesOut_Forgets ==
  /\ Timing /\ Due /\ ~Confirms(Live)
  /\ s' = [s EXCEPT !.waiting = 0]
  /\ Succeeds
  /\ UNCHANGED <<outside, github, used, completed, traditionally>>

\* Chai did not respond in time: it loses the revision.
TimesOut ==
  /\ Timing /\ Due /\ ~Confirms(Live)
  /\ s' = [s EXCEPT !.timedOut = TRUE, !.waiting = 0]
  /\ Goto("dispatch")
  /\ UNCHANGED <<outside, github, used, completed, traditionally>>

\* dispatchTraditional: Chai does not own the revision, or does no longer.
Dispatching == worker.pc = "dispatch" \/ (Acting /\ TraditionalMode(s))

NothingToDispatch ==
  /\ Dispatching /\ (s.dispatched \/ ~Approved(worker.labels))
  /\ s' = [s EXCEPT !.waiting = 0]
  /\ Succeeds
  /\ UNCHANGED <<outside, github, used, completed, traditionally>>

\* The gate first, which then waits for the trigger and the first stage.
DispatchPending ==
  /\ Dispatching /\ ~s.dispatched /\ Approved(worker.labels)
  /\ s' = [s EXCEPT !.waiting = 0]
  /\ \E ok \in BOOLEAN : Costs(ok) /\ Continues(ok, "send") /\ PendingGate(Snapshot, ok)
  /\ Recall({}, {}) /\ UNCHANGED <<outside, pr, contexts, requested>>

SendNothing ==
  /\ worker.pc = "send" /\ (scenario.trigger = "manual" \/ ~first[Snapshot])
  /\ Succeeds
  /\ UNCHANGED <<outside, github, used, s, completed, traditionally>>

Send ==
  /\ worker.pc = "send" /\ scenario.trigger # "manual" /\ first[Snapshot]
  /\ \E ok \in BOOLEAN :
       /\ Costs(ok)
       /\ IF ok THEN Dispatches(Snapshot, "delta", FALSE) ELSE DispatchFails(Snapshot, "delta", FALSE)
       /\ IF ok THEN Succeeds ELSE Errs
       /\ s' = IF ok THEN [s EXCEPT !.dispatched = TRUE] ELSE s
       /\ Recall({}, IF ok THEN {Snapshot} ELSE {})
  /\ UNCHANGED <<outside, pr>>

\* A request that only reads fails.
ReadFails ==
  /\ worker.pc # "idle" /\ Spend("fault") /\ Errs
  /\ UNCHANGED <<outside, github, s, completed, traditionally>>

Worker ==
  \/ Fetch \/ PrepareNew \/ PrepareRestored \/ Prepare
  \/  CommandSignal \/ CommandDispatch \/ CommandAuto \/ CommandSkip
  \/ CommandRestore \/ MarkDeclined \/ MarkTraditional \/ MarkAgentic
  \/ ActNothing \/ ActAdopt \/ ActSignal
  \/ NotDue \/ TimerConfirms \/ TimesOut
  \/ NothingToDispatch \/ DispatchPending \/ SendNothing \/ Send
  \/ ReadFails
=============================================================================
