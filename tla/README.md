# Formal models of ci-tools-standalone

This directory holds TLA+ specifications of the stateful parts of this
repository, the TLC configurations that check them on small instances, and
theorems about them that TLAPS has checked for every instance.

    tlc -workers 2 -config MCAlertOutbox.cfg MCAlertOutbox
    tlapm AlertOutbox_proofs.tla
    tlapm AgenticQueue_proofs.tla
    tlapm Retester_proofs.tla
    tlapm NodeScaleDown_proofs.tla
    tlapm SilenceOps_proofs.tla
    tlapm PipelineController_proofs.tla
    tlapm PipelineOwners_proofs.tla
    tlapm OpsAlerts_proofs.tla

The runs are listed in `PROJECT.json`. Four more configurations stand beside them; each
violates one property and shows what an exception that a property makes stands for:
`MCAlertOutboxStarved.cfg`, `MCNodeScaleDownHold.cfg`, `MCOpsAlertsRetry.cfg` and
`MCPipelineControllerDraft.cfg`.

## The system

The repository is a collection of independent programs. What matters for a
specification is the state each keeps, who shares it, and what can fail.

| Component | State | Operations | Interacts with | What is hard | What makes it correct |
|---|---|---|---|---|---|
| alert-proxy: webhook, outbox, sweeper (`webhook.go`, `outbox.go`, `drain.go`) | one document in a ConfigMap: groups, episodes, Slack objects, outbox | notification, acknowledgement, close, escalate, forget; worker picks, calls Slack, commits; recovery | Alertmanager webhooks, Slack, the silence operations (they close episodes) | calls in flight while the document changes, lost answers, deleted messages, restarts | each open episode has its card or a post that will make it; no entry waits for ever; cards show the newest rendering; replies in their own thread; duplicates only after a fault |
| alert-proxy: silence operations (`operations.go`, `drain.go`) | operations, references, requests (durable); marker in Alertmanager's silences | prepare, prepare-expire, process, reconcile, drain | Slack handlers, Alertmanager, authorizer, readiness loop | submission not idempotent, at-most-once by marker discovery, deadline, rollback | submitted once; failed means not suppressing; every live silence is tracked; drain leaves nothing |
| alert-proxy: interactions and requests (`interactions.go`, `silence.go`) | request records, limits | dialogs, buttons, mentions | Slack, operations | duplicate deliveries, modals opened on old state | one effect per request |
| alert-proxy: authorizer (`authz.go`) | member list, time of refresh | refresh, authorize | OpenShift groups, Slack lookup | concurrent refreshes, staleness ceiling | nobody is authorised past the ceiling |
| pipeline-controller: agentic queue (`agentic*.go`) | inputs, comment queues, gates per pull request | enqueue, processNext, reconcilePull | GitHub events and comments, ProwJobs | a copy is processed outside the lock; retries; deadlines | no comment lost; one dispatch per HEAD |
| pipeline-controller: agentic handoff (`agentic.go`, `agentic_events.go`) | one `agenticState` in memory; gate check run, labels, comments in GitHub | commands, label events, Chai's responses, timer, fallback | queue, GitHub, Chai | the pull request is read once and the gate later; answers are lost; the memory is lost | one owner of the second stage per revision; a silent Chai loses it |
| pipeline-controller: dispatch (`main.go`, `reconciler.go`, `helpers.go`, `dispatch_check.go`) | per-revision guards of two actors, closed-PR cache, gate, contexts | label and comment handlers, ProwJob reconciler | GitHub, ProwJob informer, Prow | two guards for one effect, lagging lists, partly failed dispatches | a green gate means the jobs were asked for; the second stage starts |
| pipeline-controller: configuration watchers | decoded files | reload | the file system | reload outside the lock | the newest file wins |
| ci-scheduling-webhook: scale-down (`prioritization.go`) | node taints, machine annotations, replicas; in-memory locks | poll, goroutine per node, patch | informers, machine API, scheduler, maintenance | lagging informers, read and patch without versions, long loops under a lock | no node with a pod is lost; a marked machine per replica taken; cordoned nodes go |
| ci-scheduling-webhook: admission (`mutation.go`) | none | mutate a pod | scheduler | none | pure function |
| retester (`internal/retester`) | counters per pull request in memory and S3 | run, check, comment, save, load | GitHub, Tide's queries, Prow | saved only at the end; equality tests against limits that may change | bounded retests, holds that are earned, nobody left alone |
| opsalerts (`internal/opsalerts`), ops-alert-dashboard | a cache replayed from Slack threads, pending attempts, reactions | sync, converse, acknowledge, snooze, investigate, decorate | Slack, Chai | uncertain posts, replay, degraded cache | no action recorded twice, none that was confirmed lost, none blocked for ever |
| dispatcher-dashboard | a cache of diagnostics | fetch, parse, serve | dispatcher | none but staleness | views agree with the source |
| cluster-manifest-verifier | none | verify a change | git, Argo CD manifests | path algebra | directories that must sync together do |
| publicize, backport-verifier | git branches; labels | merge and push; relabel | GitHub | concurrent commands | no lost push; exactly one of two labels |
| pr-reminder, commenter, helpdesk-faq, gpu-scheduling-webhook, determinize-peribolos, secret-manager, images, hack | none kept between requests | one-shot jobs, request and response | GitHub, Slack, Vault | nothing concurrent | tests suffice |

`PROJECT.json` lists the same components with their status, the hazards of the
code with their lines, and the line of the code each definition translates.

## AlertOutbox: the durable outbox of alert-proxy

The document is two functions, `groups` (the episode and its Slack objects) and
`outbox` (entries by identifier, as `State.Outbox`). Every handler that edits
the document with `store.Update` is one atomic action, because `Update` repeats
its edit when the ConfigMap changed meanwhile (`state.go:315-350`): `Notify`,
`Ack`, `CloseWithReply`, `Escalate`, `Forget`. The worker has a program counter:
`Pick` chooses among `Candidates` and marks the entry in flight, `Send` is the
call to Slack with its possible `Answers`, and one completion action per kind of
answer commits the result; handlers run between any two of these steps.
`Restart` is `RecoverInFlight`. The variable `slack` is what the channel shows, and `reacted` are
the messages that have the bot's reaction.

What the abstraction leaves out: duplicate webhook deliveries (they change
nothing), `AppliedRevision` (written, never read), silence audits, the wording
of messages (a message is the revision it renders), and mention replies (they
belong to no group). A backoff is a nondeterministic choice of entries that are
not due. Random identifiers never collide. A request Slack has not answered is
applied before the retry or not at all.

Properties (run `outbox_safety`, one group of up to two alerts, bounded faults,
restarts and notifications by scenario; 332 679 states):

- `CardQueued`: an open episode has a card in Slack or the post that makes it.
- `NoDanglingDependent`: no reply or reaction waits for a card that nobody posts.
- `CardsCurrent`: with nothing queued for it, the card of an open episode shows the newest
  rendering (`CardFresh`), and the recorded card of an episode that is over says so or has its
  close-out queued (`ClosedCardFinal`).
- `ThreadsInOrder`: replies are in their episode's thread, the closing one last.
- `OneCardPerFault`: a second card needs a fault that was counted.
- `RenderableWork`: entries that are rendered from a group find it.
- `EventuallySettled`: the outbox comes to rest, under weak fairness of the worker's
  steps. A pick counts when nothing is backing off (`Pick({})`); that is what
  `OutboxWorker.Run` provides: it loops, and every backoff ends (`outbox.go:160-182,
  204-206`). Nothing is assumed of the environment but that its bounded faults come
  to an end. One thing keeps an entry from ever being done, and is its exception, by name
  `Starved`: a reaction that Slack has and whose first call was not recorded, for want of the
  answer or because the commit failed, with everything queued behind it for its group.

`ClosedCardFinal`, `ThreadsInOrder` and `OneCardPerFault` except a card that was mistaken for another
one. When the card of an episode that is over was deleted before its close-out was
delivered, and the group is open again, the code takes what is queued for the old card for the
newest episode's and replaces the card that was not deleted (`outbox.go:514-566`). That
episode then has two cards, the first of which is never closed, and its thread is moved
under the wrong one. The message's history field `replaced` records which card was given up
for it, so the exception (`Mistaken`, `Moved`) is exactly these cards. It is part of the disagreement of the
run `outbox_deleted`. The scenario with three batches, a closing and a deletion is in the run because smaller
ones do not reach it: before, `CardsCurrent` was stated without the exception, held in every
scenario checked, and was refuted by the attempt to prove it.

`outbox_deleted` (`DetachedCloseOutDropped`) reproduces a disagreement between the code and its comment:
`outbox.go:516` says a detached close-out needs no replacement when its message was
deleted; the test looks for any open episode of the group and so fails the
close-out for good when a new episode has begun.

`MCAlertOutboxStarved.cfg` violates `CloseOutsNotStarved` and shows what `Starved` means. Slack answers the second
call of an applied reaction with `already_reacted` (the dashboard's client knows it,
`ops-alert-dashboard/slack.go:186`). `outbox.go:274-297` and `312-319` take the error for
a transient one and repeat the call for ever, and the entry blocks its group (193-209): later replies
and the close-out of the card are not delivered, against the comment at 207-208.

## SilenceOps: silences, exactly once

The document's part is `mode`, `ops`, `refs` and `requests`, and of the `outbox` what the drain can
tell apart: empty, owed, stuck (Slack will never take it) or failed for good. Three volatile actors
work on it: HTTP handlers (`AskCreate`, `AskExpire` read and check; `Register` is
the edit), the operation worker (`Select` to one of `Complete`,
`CompleteExpire`, `Fail`, `Cancel`, `Unauthorized`, or `Retry`; every call to
Alertmanager is a step of its own, so that other actors and the clock move between
them), and the readiness loop (`ReconcileList`, `RefreshOwned`). `drain` is the
drain command, which runs in place of the serving process: `Begin`, one attempt of the
operation worker or of the outbox's (`Deliver`, `DeliverFails`), or else `VerifyList` and
`VerifyState`, and so on; or it aborts. An operation that ends tells its thread (`Tell`), which
the drain then waits for (`drain.go:166-172, 212-219`). What the outbox holds when the drain begins is
`Backlog`; how it empties is AlertOutbox. The open groups that
`Begin` closes are `CloseWithReply` of AlertOutbox.

Alertmanager is `silences`; `late` holds submissions that are on their way,
whether or not somebody still waits for the answer. `Apply` and `Discard` decide
their fate. Since a submission carries a new start time, Alertmanager never
updates a silence in place but expires the target and creates another.
"active" and "pending" are one state, live. `worker.overdue` is read before
Alertmanager is asked, as `now` is in `process`.

Run `silence_safety` (two scopes, two handlers, three requests; 1 368 638
states; a scenario allows at most two kinds of trouble together):

- `SubmittedOnce`: at most one submission of an operation, whatever is tried again.
- `FailedLeavesNothing`: who is told "failed" has no silence that suppresses alerts.
- `LiveIsTracked`: a scope at rest has at most one live silence, and its reference
  shows it, so Unsilence and the drain reach it.
- `Registration`: one operation per request, one unfinished operation per scope, and
  generations that only grow, so that markers order the silences of a scope by age.
- `DrainedForGood`: "complete" is for ever; nothing suppresses alerts after it, and nothing is owed to Slack.
- `ReplacedOnlyWhenEstablished`: the source of a replacement ends after its successor exists.
  Exceptions: somebody expires silences in Alertmanager, or the user loses the permission
  and has it again. In the latter case a recovery expires the operation's own silence
  (`operations.go:444-445`) and crashes; the next attempt, with the permission back, adopts
  the expired silence, as the readback (469-485) does not look at its state, and expires
  the source too.

`silence_liveness` checks `OperationsEnd`, `RefsCatchUp` and `DrainEnds` with one scope and two
operations (14 495 states). Strong fairness of `Select` for each operation is what the
set `attempted` of `Run` gives (each pass tries every operation that is due);
`ReconcileList` shares a fair mutex with the worker and so needs strong fairness
too; `DeadlinePasses` is the clock (for creations: nobody reads an expiry's
deadline). Strong fairness of `Deliver` and `VerifyList`: the operations in between come to an
end or back off, and so does the outbox.

By `DrainEnds` the drain completes; that `Verify` found an error does not count as an end, but for
two things which no run of it gets over (`Undrainable`): an outbox with something that Slack will
never take (waited for without end, `drain.go:212-219`) or that failed for good (an error in every
run), and a user's expiry that failed, for want of the permission (an error in every run,
`drain.go:224`). The drain's own expiries have no such excuse. The outbox is empty when this drain
begins (`Backlog`, a bound; `silence_safety` begins with something owed): what it
waits for is what the operations add, be it taken, refused or not reached.

These hold with `SubmitsInTime`, the assumption that an operation's deadline does
not pass while it is being submitted. `silence_deadline` drops it and shows why it
is needed: the deadline counts from the request (`operations.go:146`), so the
comment at `operations.go:384-386`, that the deadline proves no silence was
created, fails for a submission made as it passes.

The bounds: three operations are a creation, a replacement and an expiry, the
longest chain in which one operation's outcome matters to another; two scopes
are what one operation can lock; one crash with one fault, or a drain with one
trouble, reaches every branch of `process`, as TLC's coverage shows.

## AgenticQueue: events of pull requests, and an answer in time

`pipeline-controller` asks Chai to start the second stage of a pull request and
waits twenty minutes. Events (`enqueue`) and one worker (`processNext`) share
`inputs`, the work queue and `states`. The worker copies an input, reconciles
outside `queueMu`, and then decides from the input of that moment. The module
has one action per stretch of code between two locks:

| Action | Code (`agentic_queue.go`) |
|---|---|
| `Enqueue`, `Run` | an event, also before the queue exists; the queue is created and gets what waited |
| `Get`, `TooEarly`, `Copy` | 55-77: an item; back to the delayed ones before `retryAt`; the copy |
| `NotDue` | 79-90: no input, and no timer or one that still runs |
| `Reconcile`, `RecoverLate` | 91-96: `reconcilePull` by its error and what it leaves of `waitingUntil`; a creation whose answer was lost is found after its timer's end |
| `Retry`, `Finish` | 97-117 and 118-136 |
| `Release`, `Tick` | the delaying queue of client-go (one entry per item, the earlier of two), the clock |

Abstracted: times are what is left of them; an error is transient, throttled
(GitHub named a delay) or permanent; `Done` comes with the last step of
`processNext`, so an item is out of `queued` while it is worked on and back at
once when it is added; growing delays are one delay. Left out: shutting down
(the memory ends with the process), dry runs, and the end of a pull request other
than by a reconciliation that forgets its state. `configurationChanged` is an
`Enqueue` for each tracked pull request.

`AgenticIntake` is what reporters of events rely on: each event is followed by a
reconciliation that began after it, the comments of a pull request get their turns in
order until each is concluded, and no two reconciliations overlap. `IntakeKept` says
AgenticQueue implements it (comments of the inputs; an event is owed unless the
reconciliation under way copied the current generation), including its
fairness: whatever is owed is begun.

`agentic_queue` (two pull requests, two comments, up to three events, one failure of
each kind or three transient ones against two retries, a timer of two ticks) also checks

- `TimerKept`: a running timer has the entry that will end it, in time if nothing else
  is to be done, unless the last reconciliation was given up with an error;
- `TimerServed`: an expired timer is dealt with or given up.

Three events are a comment, another one during its reconciliation, and one that
is no comment; delays of one, two and three ticks put retries before and after
the timer's end. Fairness: the worker loops and never waits for anybody (WF);
time passes; the work queue hands out items in the order they were added, which
is strong fairness of `Get` for each of them, as the worker is free again and again.

`agentic_outage` (`TimerNeverForgotten`) is a disagreement with `architecture-memo.md:27`: when an event during
the wait meets an outage longer than the retries, the entry of the retries has
replaced the timer's, the last error ends without scheduling the timer again
(`err == nil` at line 130), and twenty minutes without a message hand over nothing.

## PipelineController: who starts the second stage

Five modules, each extending the one before:

| Module | What it has | Code |
|---|---|---|
| `PipelineGate` | the check run `ci/pipeline-gate` of a commit and what writes make of it, operators only | `dispatch_check.go`, `agentic.go` |
| `PipelineJobs` | which presubmits are of which stage, and which a change needs | `config_data_provider.go`, `helpers.go`, `main.go` |
| `PipelineDispatch` | webhook handlers and the reconciler of ProwJobs, planning and posting | `main.go`, `reconciler.go`, `helpers.go` |
| `AgenticHandoff` | the worker: `reconcilePull`, commands, gate ownership, signal, response, timeout, fallback | `agentic.go`, `agentic_events.go`, `commands.go` |
| `PipelineController` | people, Chai, Prow, time and restarts around them; the properties | |

Three threads act on one pull request. The handlers run one at a time under `cw.mu`,
the reconciler is one goroutine, and so is the worker; `handler`, `reconciler` and
`worker` hold what each has read and is about to do. What they remember (`cwIds`,
`rIds`, `pjEvents`, `closed`, `s`) is lost by a `Restart`; `gates`, `contexts`,
`pr.labels` and `requested` are GitHub's and Prow's. The worker reads the pull request
once (`Fetch`) and the gate whenever it is about to write it, so a push, a change of
the base branch, a label or another thread's write falls between. `Heard` and the
`inbox` are what AgenticQueue delivers, in order and without loss, as `IntakeKept` says.

Run `pipeline` (28 scenarios, two commits, two branches, four presubmits; 204 123 states):

- `GreenMeansDispatched`: a gate that the controller made succeed says that every job the
  pull request needs was asked for at that commit. Requests made at another base count:
  a retarget there and back during a dispatch leaves the gate of the first base.
- `OwnersExclude`: what Chai says counts no more once people's workflow dispatched the
  revision, and a revision that Chai completed is not dispatched by itself. It is about
  the worker's own steps. The histories `completed` and `traditionally` hold as long as the
  gate tells of them: a completion while the gate is a success of its branch, a dispatch until the
  gate is another branch's or Chai's. A request that fails after a dispatch for another
  branch reopened the commit's gate leaves a failed gate of that branch: the dispatch for
  the first branch is forgotten, and a pull request that returns there is Chai's again.
- `SecondStageStarts`: a pull request that is left alone gets a green gate or a response. A
  response is a comment of Chai that came in time and ended the wait while Chai owned the
  revision (the history `answered` of `s`, forgotten with the next signal); a timer that is merely
  over is none, and then the fallback has to make the gate succeed.

The liveness property has exceptions, each a way in which the code stops and that its
authors can see in `Undisturbed`, `Overwritten` and `Unwatched`: a request that failed and is
not tried again (`dropped`); a restart in agentic mode, which forgets timers and comments;
more than one change of the base branch, since the once-per-revision guard of
`reconciler.go:287` stays; a pull request that looked closed (a draft, or a request
that failed) and is cached as closed for a day or two (`reconciler.go:44-72`); a worker or a
reconciler that read the pull request before a retarget and overwrites the gate that the
other had made succeed; and what the next configuration shows. Fairness is weak fairness of the three
threads, of the informer's list (`JobsListed`) and of time.

`MCPipelineControllerDraft.cfg` violates `SilenceHandsOver`, a disagreement with
`architecture-memo.md:27`, by which
no message within twenty minutes hands the dispatch to the traditional workflow, and
with line 77, which accepts that timers are lost on restart. When the pull request is a draft or
closed for a moment, the worker forgets it (`agentic.go:160-163`). It makes its state anew from the gate
(200-205), which does not tell when it was created: no timer runs, Chai is not told
again, and the gate stays queued.

What the module shows besides: the second stage may be asked for twice, as `main.go:320` and
`reconciler.go:287` guard with different maps and the list of jobs lags; Prow takes a
request for a job that runs already, so no property forbids it. A crash after the
dispatching comment and before the gate succeeds lets the restarted worker signal Chai
as well. A pull request that needs no job keeps its contexts pending.

Abstracted: a failed call that writes several contexts wrote none or all; Chai's
comment may fail to name its commit and then counts for the revision whose waiting it
follows; replies are left out, also when lost. Left out: deployments without a GitHub App
(no gate), configuration reloads, several pull requests (they share only the mutexes).

The bounds: each scenario allows one or two kinds of trouble, since a third only repeats
what two showed; two commits and two branches are the least with which a revision can
be stale in either part; one tick is the twenty minutes.

## NodeScaleDown: removing idle nodes

`ci-scheduling-webhook` polls every minute. `PollStart` takes the informers' lists
and `PollNode` handles one node of the plan: starts its goroutine, or cordons or
taints it. A goroutine's `pc` walks through `scaleDown`: `Query`, `MachineExists`,
`PodsOver`, `Owner`, `Evict`, `NoExecute`, `Annotate`, `Acquire` (the lock of the class),
`GetReplicas`, `Proceeds`/`NotYet`, `Commit`/`Decrement`/`DecrementFails`, `HoldEnds`.
`SeeNode` and `SeePods` are the informers. Outside the program: `Bind` (the scheduler
binds to a schedulable node), `PodEnds`, the machine API (`Create`, `Delete`, `Depart`:
when there are more machines than replicas, marked ones go first), `Grow` (the
autoscaler), `Maintain`, `MachineFails`. `Fails` is any of the goroutine's requests.

Run `node_scaledown` (four node names, three at first; 72 248 states):

- `ReplicasAccounted`: machines that run unmarked are at most the replicas, so that the machine
  API, which prefers marked machines, removes no other; but for the replicas `forgotten`.
- `NoBusyNodeLost`: no CI pod is thrown off its node, never by the `noexecute` taint, and by
  the removal of its machine only while a replica is `forgotten`.
- `CordonedNodesGo`: a cordoned node leaves the cluster.

The history `forgotten` counts replicas that went though no goroutine waits for a machine to
go for them (`StoodBy`), since there were last as many machines as replicas: the patch was applied and its
answer lost (`DecrementFails`); a hold expired (`HoldExpires`) or the program was restarted
(`Restart`) while its machine ran; a hold ended while another goroutine was about to patch
for a machine already going (`HoldEnds`); the patch, which has no resource version,
overwrote what the autoscaler had added since the reading (`Decrement`). The code forgets
them: whoever evaluates the node next finds a running machine and takes another replica. The machine API takes
as long as it likes; a retry comes after 10 s, a hold ends after an hour, whatever
the API has done by then.

The comment at `prioritization.go:1069-1072` promises more, that the look at the phase
prevents a second decrement. `MarkedMachinesSuffice` says so without `forgotten`, and
two configurations violate it. The run `node_twice`: the patch is applied and its answer lost; ten
seconds later the machine still runs, and the same goroutine takes a second replica.
`MCNodeScaleDownHold.cfg`, where every request is answered: a first
goroutine takes a replica (three to two); the second looks at its machine; the machine API
removes the second machine instead of the first, whose hold then ends, as the machineset
appears reconciled and the machine runs (621-656); the second patches (two to one); the first
node is evaluated again and takes another replica (one to none) before the API has acted on
the second's patch, and the unmarked third machine goes.

Maintenance lasts longer than the checks of one evaluation. Fairness: the
ticker, the goroutines, informers, the machine API (weak fairness of each); pods end.

Exception of `CordonedNodesGo`, by name `Wedged`: the holder of the lock waits for ever for
a machine that failed (`prioritization.go:1041-1097`), and with it the class.

Left out: `mutation.go`'s and `findNodesToPreclude`'s choice of nodes that new pods avoid (it
only takes behaviours away), kept and spot nodes, machines deleted by people,
`encourageSpotInstances` (nobody calls it). Three things were read and are not
modelled: a failing Get of the machineset repeats without sleeping (1046); both taint
setters (1184, 1463-1518) write the whole list as the informer shows it, so a DNS drain
taint set meanwhile is lost; and `append(nodeTaints[:i], ...)` (1234) changes the
informer's node in place.

The bounds: four nodes are two whose goroutines interfere, one that should stay and one
that joins; a scenario has one pod, and one trouble.

## OpsReplay, OpsAlerts: a queue kept in Slack

The dashboard has no database. `OpsReplay` has, as operators, the records, which record is
a valid successor of those before it (`ValidTransition`), the replay, the overlay of rules
for a family of alerts (`FamilyRule`, `ActiveSnooze`, `Effective`) and what an action may be
prepared from. `OpsAlerts` is `Service` with its token: `SyncStart`...`SyncEnd`,
`RefreshConversation`, `ActAnswers`/`ActPrepares`/`ActStops`, `ConverseAnswers`/`ConversePrepares`,
the outcomes of a post (`Posted`, `PostRefused`, `PostUncertain`, `PostGarbled`) and
of reactions (`Decorate`, `DecorateFails`, `DecorateLost`, `DecorateRefused`, `DecorateSkips`).
A question goes to the thread of an alert or of an action, opens one of its own
(`OpensThread`), or follows up another request's (`Conversations`). A post of unknown outcome is
in `flight` and may land; Slack drops the metadata of a message (`garble`); Chai
answers; the day ends; an alert leaves the window; a crash loses all but Slack.

Run `ops_replay` (two alerts, three requests; 166 254 states):

- `RecordedOnce`: no request is in Slack twice.
- `AnsweredIsKept`: an action that was confirmed is in every later complete queue.
- `StopsOnlyOnKnownCauses`: the dashboard's own records never make the recovery fail.
- `LandedIsSeen`: a message that landed is found, also after a lost answer or a crash.
- `IconsCatchUp`: the reactions end up being those of the queue.

The known causes are in `KnownCause`: a record Slack stripped; a family's snooze that
was cancelled twice, the second time while the first was unconfirmed (`actions.go:391-401`);
and a repeated investigation. `IconsCatchUp` exempts a reaction whose answer was lost and
that is not wanted any more: it stays until a restart. It exempts also a bot that Slack answered
`missing_scope` (`disabled`): reactions are left alone until a restart (`service.go:577, 624-631`). Fairness is weak: synchronisations
have a ticker and every call a timeout.

`MCOpsAlertsRetry.cfg` violates `NeverBlindlyRetried`, a disagreement with `service.go:34`: the record of any investigation of an
alert removes the guard of a later one whose post is of unknown outcome
(`service.go:341-347`), and the same request is posted again.

Assumed: `ClockReadsAgree`, that an action's several readings of the clock fall on one side
of 06:00 UTC; late posts land before a restarted process has recovered; request
identifiers are unique, and Slack's own deduplication is not relied on. Left out:
Chai's replies being deleted, previews, statistics, classification of texts.

The bounds: three requests are a rule, its end, and one more; two alerts are one of a
family and another that its rules cover. In two scenarios an alert
ages until it is `gone`, past the padded window.

## RetesterPolicy, Retester: bounded retests

`RetesterPolicy` merges the three levels of the configuration (`GetRetesterPolicy`), and
has a record's life: `Current` (a new head or base resets counters), `Verdict` (retest,
pause or hold), `Counted`. `Retester` is a run: `Query` reads the candidates and the
enabled repository, `Examine` asks for the statuses of each, `Considered` starts the
second loop, `Check` gives one its verdict and counts it, `Comment` or `CommentFails`,
`Save` or `SaveFails`. Around it: jobs end, heads and the base move, somebody removes a
hold, a record ages, the process restarts with another configuration and loads, or
cannot load, its counters. Prow acts on a comment at once, for the head of that moment.

Run `retester` (two pull requests, six configurations, eight scenarios; 290 382 states):

- `RetestsBounded`: a revision gets no more retests than its policy promises, plus those
  that no record counts.
- `HoldIsEarned`: a revision is held after as many tries as its policy says.
- `FailingIsAnswered`: a failing pull request is retested or held, or waits for the base.

`Promised` states a policy from the documented inheritance, apart from the code's way of
merging; `Limits` are those of a valid one. `lost` are retests that no record counts: after a crash before the save, a
save or a load that failed, a record that aged, a hold whose comment failed, and pushes and
merges between the check and the comment. `lowered` exempts a revision whose count is
already past a new, lower limit, as `fileBackOffCache.go:122` compares for equality. Tide's
queries are assumed to exclude held pull requests. Fairness is weak fairness of a run's
steps: it starts each hour and ends. Failures are bounded: `FailingIsAnswered` says nothing of
a request for statuses that fails for ever, which would end every run before the pull requests
after it are reached (`retester.go:321`).

Read and worth knowing: `main.go:136` always passes an S3 configuration, so the file cache
is never used, and without `--cache-file-on-s3` nothing is saved; a limit that is zero at
every level holds at once; an enabled repository below an organisation without a flag is
ignored, and so is a global flag alone.

## Proofs

`AlertOutbox_proofs` proves, for any sets of groups and alerts and any scenarios:

- `TypeCorrect`: `Spec => []TypeOK`. The invariant is inductive as it stands; the
  proof has a lemma per operator that edits the outbox (`Put`, `Drop`, `CloseEpisode`,
  `RetireList`...) and a step per action.
- `RenderableAlways`: `Spec => []RenderableWork`. The inductive invariant adds that the
  identifier counter is positive, that open groups have an episode, and that
  the entry the worker holds is not failed. It means that the branch "group no longer
  exists" of `outbox.go` is never taken.
- `CardsQueued`: `Spec => []CardQueued`, and `NoneDangling`: `Spec => []NoDanglingDependent`. Both
  follow from the inductive invariant `Cards`, which has four parts. `Fit`: who waits, waits for
  a card that is queued as a post, cards themselves wait for nothing, and updates know their
  message. `CardIn`: the entry of an open group's card belongs to that group and agrees with
  it. `Drawn`: identifiers of cards and lists were drawn, each for one of them, so nobody waits for
  a list and `Repoint` (`outbox.go`, a deleted list) has nothing to do. `HeldOf`: a card that the
  worker holds as an update is still an update if it is still queued. The last is what the
  writers could break between the worker's read and its commit: without it a commit might
  drop a post that replies wait for.
- `CardsStayCurrent`: `Spec => []CardsCurrent`. The inductive invariant `Face` speaks of four
  places. `EntriesFace`: an entry that revises a card revises the one it posted, a close-out one that
  no open group has, and other entries touch no card; only open episodes' cards and mistaken ones
  are still rendered. `HeldFace`: what the worker took, and what Slack has shown since, is
  what the entry said then; an entry rewritten meanwhile has a higher revision (`Since`), which is
  what `outbox.go` compares before it drops the entry. `GroupFace`: the card that an open group has recorded
  shows its episode, and the newest revision when nothing is queued for it. `SlackFace`: every recorded card
  is `Accounted` for. The five writers share one lemma about what they may rewrite
  (`Edits`), and the commits that touch no card share another (`CommitFace`).
- `CardsPaidFor`: `Spec => []OneCardPerFault`. The cards of an episode have to be counted together
  with the posts that may still make one. `Paid` says that both together are at most
  one more than the lost answers, crashes and failed writes so far (`Faults`). A card that was replaced or
  mistaken no longer counts (`GivenUp`), and neither does an entry whose answer the worker holds
  and will commit (`Answered`). So a post becomes a card without adding one, a replacement comes for a
  card that stops counting, and only a fault puts an answered entry back. The rest of the
  invariant, `Shares`, is what keeps cards, entries and groups of one episode: a revision never
  changes whose card it is, except of one that was mistaken (`EntriesSay`, `HeldSays`), an open
  group's card was not given up (`OpenSays`), a deleted card alone is replaced (`ReplacedGone`), and a new
  episode has no card yet (`EpisodesDrawn`).

`AgenticQueue_proofs` proves, for any pull requests, comments, delays and retry limit:

- `TypeCorrect`: `Spec => []TypeOK`.
- `TimersKept`: `Spec => []TimerKept`. The inductive invariant adds `NotStarted` (before `Run`
  there are neither queue entries nor timers nor work) and `CopyAgrees` (what the worker
  copied and what is in the input). Each action either leaves a pull request alone or
  gives it an entry; `Finish` without an error does so at line 131.
- `ImplementsIntake`: `Spec => Intake!SafeSpec`, the safety part of `IntakeKept`. `Copy` is
  `Begin` or, without an input, nothing; `Reconcile` without an input is `Wake`; `Finish` is
  `Conclude` and `Retry` is `Postpone`. It needs that the comment in the worker's
  hands is still the oldest of the input, which events only extend at the end.

`Retester_proofs` proves, for any pull requests, configurations and limits:

- `PolicyKept`: `GetRetesterPolicy` gives an enabled repository what is `Promised`.
- `TypeCorrect`: `Spec => []TypeOK`, with `Seen` for its part about the record of a hold: records and
  runs are of heads and bases that were, and the record of the pull request that the run
  is about has the head of the run.
- `HoldsEarned`: `Spec => []HoldIsEarned`. The inductive invariant adds that neither the record in
  memory nor the one in S3 has more retests than its revision was tried (`EarnedBy`).
- `RetestsAccounted`: `Spec => []RetestsBounded`. The inductive invariant splits what was asked
  for into what the record counts and what was lost (`AccountedOf`), and says that no
  count is past its limit (`WithinOf`), which is why a comparison for equality suffices
  (`fileBackOffCache.go:122`). Between a verdict of hold and its comment the record is already
  reset: `HeldOf` keeps the bound there.

`NodeScaleDown_proofs` proves, for any nodes and scenarios:

- `TypeCorrect`: `Spec => []TypeOK`. The inductive invariant adds what the lock protects: who is
  between reading and patching holds it, and `read` is still `replicas`.
- `Accounted`: `Spec => []ReplicasAccounted`, with no assumption on time. The inductive invariant
  `Counted` bounds those that need a replica (`Needy`: running machines that no
  goroutine waits for, and the machine whose replica is about to be taken, gone or not) by
  replicas and `forgotten`. Where that machine is gone already, it adds, a `Spare` one is
  still there in its place, or a replica is forgotten; without it the autoscaler's next machine would
  be one too many.
- `NoneLost`: `Spec => NoBusyNodeLost`. The inductive invariant
  `Guarded` follows a node from the cordon to its removal: the informers and the poll know the
  `noexecute` taint when they show an emptied node uncordoned (`TaintKnown`), so nothing
  uncordons it (`CordonKept`), so a marked machine has no pod and gets none (`NoneToLose`);
  `Counted` shows that a marked or failed one is there to be removed as long as none is forgotten.

`SilenceOps_proofs` proves, for any finite set of ownerships, any callers, requests and scenarios:

- `TypeCorrect`: `Spec => []TypeOK`, and `RegistrationHolds`: `Spec => []Registration`. The inductive
  invariant `Sound` adds which actors may be at work together, that the worker has a
  silence wherever `process` uses one, that of two operations of a scope the first was
  over when the second was registered (`InOrder`), that generations are bounded by what
  the next one is computed from (`Numbered`), and that silences bear the ownership and
  generation of their operation (`Named`).
- `SubmittedAtMostOnce`: `Spec => []SubmittedOnce`. What was submitted is marked, and what is
  marked in the worker's hands was not submitted before.

and, assuming `SubmitsInTime`, with the inductive invariant `All` (`Sound`, `Once`, `History`: the
silences of a scope come one after the other and only the last is live, what is under
way comes after them and replaces the live one; `Held`: what the worker listed, by the step it
is at, is still what it has to know about):

- `NothingLeft`: `Spec => []FailedLeavesNothing`, a part of `All`.
- `LiveKept`: `Spec => []LiveIsTracked`, with `Tracked`: a live silence whose operation is over is in
  the reference and in what the readiness loop has read.
- `DrainIsFinal`: `Spec => []DrainedForGood`, with `Drained`: what the drain's last check finds live
  is of an operation that is not over.
- `SourceKept`: `Spec => ReplacedOnlyWhenEstablished`, an action property, with `Moded` (mode and
  permission agree with the branch that the worker took) and `Standing` (without outside
  troubles nobody but a recovery ends the silence of an unfinished operation).

`PipelineController_proofs` proves, for any files, presubmits, commits, branches, commands,
scenarios and response time:

- `TypeCorrect`: `Spec => []TypeOK`. Besides types it holds what the actors' steps take for
  granted: who is about to dispatch knows the revision and keeps it guarded (`Tasked`);
  what the worker remembers fits what it holds and which comments wait (`Mind`): it is at
  the response timer only while Chai owns the revision, and dispatches only when Chai does not.
- `GreenIsDispatched`: `Spec => []GreenMeansDispatched`. The inductive invariant `Sound` says of
  every gate from the head of the pull request on, not only of the head's, that a success the
  controller wrote is of a commit at which everything needed was asked for (`Truthful`), and
  that nobody has seen, asked for anything at or written the gate of a commit that is still
  to be pushed (`Pushed`). Without the two a push could make an untrue gate the head's.
  That the list of ProwJobs lags does no harm since what is listed was asked for
  (`ListedAsked`): a plan leaves out nothing that was not.

The proof has one lemma per action. Those of the worker go through frames: whatever it does
changes one gate (`GateStep`) and adds requests at one revision (`RequestStep`), and it goes on,
sleeps or dies. An interrupted write of the check leaves it in one of several versions; the
lemmas about `Versions`, `Written` and `Interrupted` cover them once for all who write.

`PipelineOwners_proofs` proves, for the same constants:

- `OwnersExcluded`: `Spec => OwnersExclude`, an action property. The inductive invariant `Exclusive`
  has `Recorded` (the gates say which revisions were completed, and which were dispatched
  without Chai: `Taken`) and `Knows` (what the worker remembers of its revision agrees
  with the gate and the histories), and says that webhooks and the reconciler dispatch only for
  branches that are not enrolled, and that the worker is about to send only what nobody has
  dispatched. `Rewritten` is the heart: every version in which an interrupted write can
  leave the check keeps its owner. The attempt with histories that never forget failed, for
  the reason given above, and led to what they are now.

`OpsAlerts_proofs` proves, for any alerts, requests, scenarios and days:

- `TypeCorrect`: `Spec => []TypeOK`.
- `RecordedAtMostOnce`: `Spec => []RecordedOnce`.
- `AnswersKept`: `Spec => []AnsweredIsKept`.

All three follow from one inductive invariant, `Inv`. `Rooted`: a thread that is followed up has
its opening question in Slack. `Formed`: every message in Slack, on its
way or about to be posted is Chai's or that of one request, in the request's thread.
`Shows` and `ShowsChats`: a cache has the records and questions of the threads that it holds.
`Posts` is about each request. `Once`: it has one message at most in Slack, in flight and in
the hands of the holder, and one in flight is `Guarded` by an uncertain attempt in the cache,
so `Blocked` or `ChatBlocked` keeps the request from being posted. `Asking`: a question in Slack
is guarded until a queue that claims to be complete has to show it (`Seen`); for actions this is
not needed, as `Act` reads the thread again before it prepares a record. `Answered`: the
message of who was told is seen. The heart is `RefreshKeepsGuard`: a replay takes a guard away only
with the message it has found, or with the record of another investigation of the alert,
which is the exception of `RecordedOnce` and the disagreement with `service.go:34`.

What a replay finds needs induction over the messages. The library's theorems about
induction cannot be instantiated by the provers used here, but that a set of numbers has a
least member follows from `WFMin`, which takes no operator (`LeastMember`), and induction
for sets of numbers from that (`FromZero`). With it `RunSteps` justifies the recursive function
of `Run`, and `RunFacts` says that a replay without a fault has the record of every action and
has kept every attempt that no record settled.

Each theorem rests on the assumptions of its module (`ParameterAssumption`, `RetesterAssumption`,
`NodeAssumption`, `PresubmitAssumption`, `DispatchAssumption`, `HandoffAssumption`,
`RequestAssumption`, `ServiceAssumption`), which give the
constants their types, and say that nodes and ownerships are finitely many and that a pull
request has a commit; those of SilenceOps named above also on `SubmitsInTime`, which their run
sets as well. TLC checked each inductive invariant on the run of its module before it was proved.

Model-checked only: liveness (fairness is beyond the prover); of AlertOutbox
`ThreadsInOrder`, which needs the order of everything queued for a group next to what each thread
holds; and of OpsAlerts `StopsOnlyOnKnownCauses`, which is about
the validity of every prefix of what is in Slack, as a replay at any later time finds it.

## Not modelled

- The authorizer (a list of members with no state to relate it to; two refreshes at the
  same time may publish the older one), start-up order, readiness and metrics of alert-proxy.
- Configuration watchers: the configuration is constant in a behaviour.
- Admission (`mutation.go`, `gpu-scheduling-webhook`): an object in, a patch out. Noted while
  reading: preclusion replaces the pod's own required node affinity
  (`mutation.go:460`), and `patchHighPerfPod` (622-626) replaces the node selector with one
  that lacks the workload's entry when the pod came without a selector.
- Dialogs, buttons and mentions of alert-proxy beyond what they ask of silences and cards.
- publicize and backport-verifier: each command works in a clone or on two labels of its
  own; git and GitHub serialise them.
- cluster-manifest-verifier, determinize-peribolos, pr-reminder, commenter, helpdesk-faq:
  one-shot jobs or requests without state.
- Rendering, HTTP and TLS plumbing, web views of the dashboards, build scripts.

## Plan

1. Done: AlertOutbox, SilenceOps, AgenticQueue with AgenticIntake, the pipeline modules,
   NodeScaleDown, OpsReplay and OpsAlerts, RetesterPolicy and Retester.
2. Done: theorems about AlertOutbox (types, `RenderableWork`, `CardQueued`, `NoDanglingDependent`,
   `CardsCurrent`, `OneCardPerFault`), AgenticQueue, Retester, NodeScaleDown and SilenceOps (every safety property of the last
   three), PipelineController (types, `GreenMeansDispatched`, `OwnersExclude`), and OpsAlerts (types,
   `RecordedOnce`, `AnsweredIsKept`).
3. `ThreadsInOrder` of AlertOutbox, then `StopsOnlyOnKnownCauses`.
