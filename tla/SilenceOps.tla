----------------------------- MODULE SilenceOps -----------------------------
(***************************************************************************)
(* The silence operations of cmd/alert-proxy: what turns a click in Slack    *)
(* into an Alertmanager silence, exactly once, and takes it back.            *)
(*                                                                         *)
(* An operation is prepared in the durable document by an HTTP handler, and  *)
(* carried out by the operation worker in calls to Alertmanager that may be  *)
(* lost, answered late, or cut off by a crash.  Every silence carries a      *)
(* marker in its comment (ownership, operation, generation): after a crash   *)
(* or a lost answer the worker looks for the marker, and never submits the   *)
(* operation again.  The readiness loop reconciles the document with         *)
(* Alertmanager, and a rollback drain (a run of the same program in place of *)
(* the serving one) withdraws every silence.                                 *)
(*                                                                         *)
(* "active" and "pending" silences are one state here, live.  What completing*)
(* an operation does to the alert's Slack card is in AlertOutbox             *)
(* (CloseWithReply).  Silence audits, a Slack presentation, are left out, but *)
(* that the drain waits for what is owed to Slack is not.                    *)
(***************************************************************************)
EXTENDS Integers, FiniteSets, Sequences

CONSTANTS
  Owner,         \* ownership identifiers: a source and a canonical set of matchers
  None,          \* no ownership
  Caller,        \* HTTP handlers running at the same time
  Request,       \* Slack trigger and event identifiers
  MaxOps,        \* bound: operations requested by users
  Scenarios,     \* bounds: how often the environment may do each thing, per scenario
  MaxTotal,      \* bound: operations of users and of the drain together
  Backlog,       \* bound: what the outbox may hold when a drain begins
  SubmitsInTime  \* no operation's deadline passes while it is being submitted

\* What the outbox may hold: "served", anything, while a serving process fills and empties
\* it (AlertOutbox), and in a drain nothing, work that Slack will take, work that it will
\* never take and that is tried for ever, or work that failed permanently.
Contents == {"served", "empty", "owed", "stuck", "failed"}

Moves == {"fault", "crash", "external", "auth", "drain"}

ASSUME ParameterAssumption ==
  /\ None \notin Owner /\ IsFiniteSet(Owner)
  /\ MaxOps \in Nat /\ MaxTotal \in Nat
  /\ Scenarios \subseteq [Moves -> Nat]
  /\ Backlog \subseteq Contents \ {"served"}
  /\ SubmitsInTime \in BOOLEAN

VARIABLES
  mode,      \* durable: State.Mode
  ops,       \* durable: State.SilenceOperations, in the order of their creation
  refs,      \* durable: State.SilenceRefs
  requests,  \* durable: State.Requests, the operation each request was given
  outbox,    \* durable: State.Outbox, as far as the drain can tell its contents apart
  caller,    \* volatile: what each HTTP handler read
  worker,    \* volatile: what the operation worker holds across its calls
  reader,    \* volatile: what the readiness loop listed
  drain,     \* volatile: "off" when serving, else where the drain command is
  enabled,   \* the option of this run of the program
  auth,      \* external: users are in the privileged group
  silences,  \* external: Alertmanager's silences; an identifier is an index
  late,      \* external: abandoned submissions that Alertmanager may still apply
  overdue,   \* operations whose DeadlineAt has passed
  used       \* how often the environment did each thing so far

durable == <<mode, ops, refs, requests, outbox>>
world == <<auth, silences, late, overdue>>
vars == <<durable, caller, worker, reader, drain, enabled, world, used>>

Idle == [pc |-> "idle", op |-> 0, overdue |-> FALSE, live |-> {}, canon |-> 0,
         sources |-> {}, todo |-> {}, then |-> "idle", seen |-> "none"]

Unasked == [pc |-> "idle", action |-> "none", owner |-> None, replaces |-> None,
            gen |-> 0, req |-> None]

NoRef == [state |-> "none", sid |-> 0, gen |-> 0]

Unread == [pc |-> "idle", seen |-> [o \in Owner |-> NoRef]]

Spend(m) ==
  /\ used' = [used EXCEPT ![m] = @ + 1]
  /\ \E limit \in Scenarios : \A n \in Moves : used'[n] <= limit[n]

Terminal(op) == op.phase \in {"completed", "failed"}

\* The field "posts" is history: how often the operation was submitted.
NewOperation(action, owner, replaces, gen, byDrain, req) ==
  [action |-> action, owner |-> owner, replaces |-> replaces, gen |-> gen,
   byDrain |-> byDrain, req |-> req, phase |-> "prepared", posts |-> 0]

OpSet == {ops[i] : i \in DOMAIN ops}

\* Slip: only operations that own the scope are looked at.
NonTerminalFor_OwnedOnly(owners) ==
  \E op \in OpSet : ~Terminal(op) /\ op.owner \in owners

\* nonTerminalOperationFor
NonTerminalFor(owners) ==
  \E op \in OpSet : ~Terminal(op) /\ {op.owner, op.replaces} \cap owners # {}

\* ownedSilences, and the live ones among them, as Alertmanager has them now.
Owned(owner) == {s \in DOMAIN silences :
                   silences[s].owner = owner /\ silences[s].state # "gone"}

LiveOf(owner) == {s \in Owned(owner) : silences[s].state = "live"}
-----------------------------------------------------------------------------
(* Prepare and PrepareExpire: checks against a first read, then one edit.    *)

Serving == drain = "off"

\* The modal that extends a silence: the silence may have ended since the modal was
\* opened, and is replaced when its matchers are not those that were chosen.
Replaceable(o, p) == p # None => p # o /\ refs[p].state = "live"

AskCreate(c, r, o, p) ==
  /\ Serving /\ caller[c].pc = "idle" /\ requests[r] = 0
  /\ enabled /\ auth
  /\ Replaceable(o, p)
  /\ Len(ops) + Cardinality({d \in Caller : caller[d].pc # "idle"}) < MaxOps
  /\ caller' = [caller EXCEPT ![c] =
       [pc |-> "checked", action |-> "create", owner |-> o, replaces |-> p,
        gen |-> 0, req |-> r]]
  /\ UNCHANGED <<durable, worker, reader, drain, enabled, world, used>>

\* The generation is taken from the reference as this read shows it.
AskExpire(c, r, o) ==
  /\ Serving /\ caller[c].pc = "idle" /\ requests[r] = 0
  /\ auth /\ refs[o].state = "live"
  /\ Len(ops) + Cardinality({d \in Caller : caller[d].pc # "idle"}) < MaxOps
  /\ caller' = [caller EXCEPT ![c] =
       [pc |-> "checked", action |-> "expire", owner |-> o, replaces |-> None,
        gen |-> refs[o].gen + 1, req |-> r]]
  /\ UNCHANGED <<durable, worker, reader, drain, enabled, world, used>>

\* Slip: the first generation is the one a missing reference has.
NextGeneration_FromRef(o) == refs[o].gen

NextGeneration(o) ==
  LET known == {refs[o].gen} \cup {op.gen : op \in {x \in OpSet : x.owner = o}}
  IN 1 + CHOOSE g \in known : \A h \in known : h <= g

\* Why the edit may add nothing: draining, a duplicate request, a busy scope.
Refused(call) ==
  \/ mode = "draining"
  \/ requests[call.req] # 0
  \/ NonTerminalFor({call.owner, call.replaces} \ {None})

Register(c) ==
  LET call == caller[c] IN
  /\ call.pc = "checked"
  /\ caller' = [caller EXCEPT ![c] = Unasked]
  /\ IF Refused(call) THEN UNCHANGED <<ops, requests>>
     ELSE /\ ops' = Append(ops, NewOperation(call.action, call.owner, call.replaces,
                       IF call.action = "create" THEN NextGeneration(call.owner)
                       ELSE call.gen, FALSE, call.req))
          /\ requests' = [requests EXCEPT ![call.req] = Len(ops) + 1]
  /\ UNCHANGED <<mode, refs, outbox, worker, reader, drain, enabled, world, used>>
-----------------------------------------------------------------------------
(* OperationWorker.processNext: choose an operation and list the silences.    *)

\* Slip: a reconciliation under way is not waited for.
ReconcileLock_Ignored == worker.pc = "idle"

\* reconcileMu
ReconcileLock == worker.pc = "idle" /\ reader.pc = "idle"

\* "overdue" is what the clock said before Alertmanager was asked.
Select(o) ==
  /\ ReconcileLock /\ drain \in {"off", "work"}
  /\ ~Terminal(ops[o])
  /\ worker' = [Idle EXCEPT !.pc = "selected", !.op = o, !.overdue = o \in overdue]
  /\ UNCHANGED <<durable, caller, reader, drain, enabled, world, used>>

Op == ops[worker.op]

Sources == IF Op.replaces \in {None, Op.owner} THEN {} ELSE LiveOf(Op.replaces)

Marked == {s \in Owned(Op.owner) : silences[s].op = worker.op}

\* What a step of the worker leaves to others.
Others == <<caller, reader, enabled, auth, late, overdue>>

\* The worker goes on, or expires the silences "todo" before it goes on.
Goes(next) == worker' = next /\ UNCHANGED <<durable, drain>>

Expiring(todo, then) ==
  Goes([worker EXCEPT !.pc = "expiring", !.todo = todo, !.then = then])

\* The drain command starts over after every attempt.
AttemptEnds ==
  /\ worker' = Idle
  /\ drain' = IF drain = "off" THEN "off" ELSE "begin"

\* finalizeSilenceAudit, enqueueAudit, fail: the end of an operation may have to be told in
\* Slack, in a new entry or in one that failed before.
Tell == outbox' \in IF outbox \in {"empty", "failed"} THEN {outbox, "owed"} ELSE {outbox}

EndsAs(phase) ==
  /\ AttemptEnds
  /\ ops' = [ops EXCEPT ![worker.op].phase = phase]
  /\ IF phase \in {"completed", "failed"} THEN Tell ELSE UNCHANGED outbox
  /\ UNCHANGED <<mode, requests>>

\* Slip: the operation forgets that it was submitted.
Retry_Forgets == EndsAs("prepared") /\ UNCHANGED refs

\* retryOperation
Retry ==
  /\ EndsAs(IF Op.phase = "prepared" THEN "prepared" ELSE "ambiguous")
  /\ UNCHANGED refs

\* fail
Fail == EndsAs("failed") /\ UNCHANGED refs

List ==
  /\ worker.pc = "selected"
  /\ \E canon \in IF Marked = {} THEN {0} ELSE Marked :
       Goes([worker EXCEPT !.pc = "listed", !.live = LiveOf(Op.owner),
                           !.canon = canon, !.sources = Sources])
  /\ UNCHANGED <<Others, silences, used>>

\* A call to Alertmanager that only reads fails.
ReadFails ==
  /\ worker.pc \in {"selected", "posted", "readback"}
  /\ Spend("fault") /\ Retry
  /\ UNCHANGED <<Others, silences>>

\* A write of the document fails: processNext returns with nothing saved.
StoreFails ==
  /\ worker.pc # "idle"
  /\ Spend("fault") /\ AttemptEnds
  /\ UNCHANGED <<durable, Others, silences>>
-----------------------------------------------------------------------------
(* OperationWorker.process: decide what the listed silences mean.             *)

Listed(action) == worker.pc = "listed" /\ Op.action = action

MarkSubmitted ==
  /\ ops' = [ops EXCEPT ![worker.op].phase = "submitted"]
  /\ worker' = [worker EXCEPT !.pc = "marked"]
  /\ UNCHANGED <<mode, refs, requests, outbox, drain>>

\* Slip: the drain does not wait for a marker that may still appear.
Draining_Impatient ==
  /\ Listed("create") /\ mode = "draining"
  /\ IF worker.canon = 0 /\ Op.phase = "prepared" THEN Fail
     ELSE Expiring(worker.live, "cancel")
  /\ UNCHANGED <<Others, silences, used>>

\* A suppressing operation in a drain: never submitted; when it was submitted
\* before, its marker is waited for until the deadline.
Draining ==
  /\ Listed("create") /\ mode = "draining"
  /\ IF worker.canon = 0 /\ Op.phase = "prepared" THEN Fail
     ELSE IF worker.canon = 0 /\ ~worker.overdue THEN Expiring(worker.live, "retry")
     ELSE Expiring(worker.live, "cancel")
  /\ UNCHANGED <<Others, silences, used>>

Missing == Listed("create") /\ mode = "active" /\ worker.canon = 0

\* Slip: a submitted operation without a marker is given up at once.
NotFound_Impatient ==
  /\ Missing /\ (worker.overdue \/ Op.phase # "prepared")
  /\ Fail
  /\ UNCHANGED <<Others, silences, used>>

\* Slip: the deadline is not looked at.
NotFound_NoDeadline ==
  /\ Missing /\ Op.phase # "prepared"
  /\ Retry
  /\ UNCHANGED <<Others, silences, used>>

\* No marker: fail after the deadline, never submit twice before it.
NotFound ==
  /\ Missing /\ (worker.overdue \/ Op.phase # "prepared")
  /\ IF worker.overdue THEN Fail ELSE Retry
  /\ UNCHANGED <<Others, silences, used>>

MaySubmit == Missing /\ ~worker.overdue /\ Op.phase = "prepared"

\* The first submission, after the last checks of the policy.
Submission ==
  /\ MaySubmit
  /\ IF enabled /\ auth THEN MarkSubmitted ELSE Fail
  /\ UNCHANGED <<Others, silences, used>>

\* The alerts cannot be read, or match the policy's range no more.
NoLongerAllowed ==
  /\ MaySubmit /\ enabled /\ auth
  /\ \/ Spend("fault") /\ Retry
     \/ Spend("external") /\ Fail
  /\ UNCHANGED <<Others, silences>>

\* The marker was found: adopt its silence, if the actor is still allowed to.
Adopt ==
  /\ Listed("create") /\ mode = "active" /\ worker.canon # 0
  /\ IF auth THEN Expiring(worker.live \ {worker.canon}, "readback")
     ELSE Expiring(worker.live, "unauthorized")
  /\ UNCHANGED <<Others, silences, used>>
-----------------------------------------------------------------------------
(* The submission.                                                            *)

\* updateID: a live silence of the scope is given to Alertmanager to replace.
Submit ==
  /\ worker.pc = "marked" /\ Op.action = "create"
  /\ IF auth
     THEN /\ \E target \in IF worker.live = {} THEN {0} ELSE worker.live :
               late' = late \cup {[op |-> worker.op, target |-> target]}
          /\ ops' = [ops EXCEPT ![worker.op].posts = @ + 1]
          /\ worker' = [worker EXCEPT !.pc = "posting"]
          /\ UNCHANGED <<mode, refs, requests, outbox, drain>>
     ELSE Fail /\ UNCHANGED late
  /\ UNCHANGED <<caller, reader, enabled, auth, silences, overdue, used>>

\* Alertmanager replaces a target by a new silence, as its start differs.
Applied(x) ==
  LET gone(s) == silences[s].state = "gone"
      kept == [s \in DOMAIN silences |->
                 IF s = x.target /\ ~gone(s) THEN [silences[s] EXCEPT !.state = "expired"]
                 ELSE silences[s]]
  IN IF x.target # 0 /\ gone(x.target) THEN silences
     ELSE Append(kept, [owner |-> ops[x.op].owner, op |-> x.op,
                        gen |-> ops[x.op].gen, state |-> "live"])

Apply(x) ==
  /\ x \in late
  /\ late' = late \ {x}
  /\ silences' = Applied(x)
  /\ UNCHANGED <<durable, caller, worker, reader, drain, enabled, auth, overdue, used>>

\* The request is lost, or Alertmanager refuses it.
Discard(x) ==
  /\ x \in late /\ Spend("fault")
  /\ late' = late \ {x}
  /\ UNCHANGED <<durable, caller, worker, reader, drain, enabled, auth, silences, overdue>>

Created == \E s \in DOMAIN silences : silences[s].op = worker.op

Underway == \E x \in late : x.op = worker.op

\* Upsert answers, GetSilence and a second listing follow.
Accepted ==
  /\ worker.pc = "posting" /\ Created
  /\ IF Marked = {} THEN Retry
     ELSE \E canon \in Marked : Goes([worker EXCEPT !.pc = "posted", !.canon = canon])
  /\ UNCHANGED <<Others, silences, used>>

Rejected ==
  /\ worker.pc = "posting" /\ ~Created /\ ~Underway
  /\ Fail
  /\ UNCHANGED <<Others, silences, used>>

\* Slip: a submission that was not answered counts as established.
Unanswered_Proceeds ==
  /\ worker.pc = "posting"
  /\ IF Created \/ Underway THEN Spend("fault") ELSE UNCHANGED used
  /\ Expiring(Sources, "complete")
  /\ UNCHANGED <<Others, silences>>

\* No answer: applied or not, still under way or lost.
Unanswered ==
  /\ worker.pc = "posting"
  /\ IF Created \/ Underway THEN Spend("fault") ELSE UNCHANGED used
  /\ Retry
  /\ UNCHANGED <<Others, silences>>

Posted ==
  /\ worker.pc = "posted"
  /\ Goes([worker EXCEPT !.pc = "expiring", !.then = "readback", !.sources = Sources,
                         !.todo = LiveOf(Op.owner) \ {worker.canon}])
  /\ UNCHANGED <<Others, silences, used>>

\* The canonical silence is read once more before its sources are expired.
Readback ==
  /\ worker.pc = "readback"
  /\ IF silences[worker.canon].state = "gone" THEN Retry
     ELSE Goes([worker EXCEPT !.pc = "expiring", !.then = "complete",
                  !.todo = worker.sources, !.seen = silences[worker.canon].state])
  /\ UNCHANGED <<Others, silences, used>>
-----------------------------------------------------------------------------
(* Expiring, and how an attempt ends after it.                                *)

\* processExpire; only a user's expiry is authorised, once.
Expire ==
  /\ Listed("expire")
  /\ IF worker.live # {} /\ ~Op.byDrain /\ Op.phase = "prepared"
     THEN MarkSubmitted
     ELSE Expiring(worker.live, "expired")
  /\ UNCHANGED <<Others, silences, used>>

ExpireMarked ==
  /\ worker.pc = "marked" /\ Op.action = "expire"
  /\ IF auth THEN Expiring(worker.live, "expired") ELSE Fail
  /\ UNCHANGED <<Others, silences, used>>

\* ExpireSilence, confirmed by GetSilence.
ExpireOne(s) ==
  /\ worker.pc = "expiring" /\ s \in worker.todo
  /\ IF silences[s].state = "live"
     THEN /\ silences' = [silences EXCEPT ![s].state = "expired"]
          /\ Goes([worker EXCEPT !.todo = @ \ {s}])
     ELSE Retry /\ UNCHANGED silences
  /\ UNCHANGED <<Others, used>>

\* The call fails, or its answer or confirmation is lost.
ExpireFails(s) ==
  /\ worker.pc = "expiring" /\ s \in worker.todo
  /\ Spend("fault") /\ Retry
  /\ \/ UNCHANGED silences
     \/ /\ silences[s].state = "live"
        /\ silences' = [silences EXCEPT ![s].state = "expired"]
  /\ UNCHANGED Others

Expired(then) == worker.pc = "expiring" /\ worker.todo = {} /\ worker.then = then

Rest == UNCHANGED <<Others, silences, used>>

CanonRef(state) == [state |-> state, sid |-> worker.canon, gen |-> Op.gen]

WaitForMarker == Expired("retry") /\ Retry /\ Rest

DuplicatesExpired == Expired("readback") /\ Goes([worker EXCEPT !.pc = "readback"]) /\ Rest

\* Marks the reference of an owner expired, if there is one.
MarkExpired(rs, o) == IF rs[o] = NoRef THEN rs ELSE [rs EXCEPT ![o].state = "expired"]

\* complete
Complete ==
  /\ Expired("complete")
  /\ LET new == [refs EXCEPT ![Op.owner] = CanonRef(worker.seen)]
     IN refs' = IF Op.replaces \in {None, Op.owner} THEN new
                ELSE MarkExpired(new, Op.replaces)
  /\ EndsAs("completed") /\ Rest

\* completeExpire
CompleteExpire ==
  /\ Expired("expired")
  /\ refs' = IF refs[Op.owner] = NoRef THEN refs
             ELSE [refs EXCEPT ![Op.owner].state = "expired", ![Op.owner].gen = Op.gen]
  /\ EndsAs("completed") /\ Rest

\* expireDrainRecovery
Cancel ==
  /\ Expired("cancel")
  /\ refs' = IF worker.canon # 0 THEN [refs EXCEPT ![Op.owner] = CanonRef("expired")]
             ELSE MarkExpired(refs, Op.owner)
  /\ EndsAs("failed") /\ Rest

\* expireUnauthorizedRecovery
Unauthorized ==
  /\ Expired("unauthorized")
  /\ refs' = [refs EXCEPT ![Op.owner] = CanonRef("expired")]
  /\ EndsAs("failed") /\ Rest
-----------------------------------------------------------------------------
(* Reconcile: the readiness loop lists, then corrects the references.         *)

HasLiveWork == \/ \E op \in OpSet : ~Terminal(op)
               \/ \E o \in Owner : refs[o].state = "live"

\* The silence of the highest generation speaks for its ownership.
Observed(o) ==
  IF Owned(o) = {} THEN NoRef
  ELSE LET s == CHOOSE s \in Owned(o) :
                  \A t \in Owned(o) : silences[t].gen <= silences[s].gen
       IN [state |-> silences[s].state, sid |-> s, gen |-> silences[s].gen]

ReconcileList ==
  /\ Serving /\ mode = "active" /\ (enabled \/ HasLiveWork)
  /\ ReconcileLock
  /\ reader' = [pc |-> "listed", seen |-> [o \in Owner |-> Observed(o)]]
  /\ UNCHANGED <<durable, caller, worker, drain, enabled, world, used>>

\* Slip: only the identifiers are compared.
Refreshed_SameId(ref, seen) ==
  IF ref = NoRef \/ seen.sid = ref.sid THEN ref
  ELSE [ref EXCEPT !.state = IF seen = NoRef THEN "deleted" ELSE seen.state, !.sid = seen.sid]

Refreshed(ref, seen) ==
  IF ref = NoRef THEN ref
  ELSE IF seen = NoRef
       THEN IF ref.state = "live" THEN [ref EXCEPT !.state = "deleted"] ELSE ref
       ELSE [ref EXCEPT !.state = seen.state, !.sid = seen.sid]

RefreshOwned ==
  /\ reader.pc = "listed"
  /\ refs' = [o \in Owner |-> Refreshed(refs[o], reader.seen[o])]
  /\ reader' = Unread
  /\ UNCHANGED <<mode, ops, requests, outbox, caller, worker, drain, enabled, world, used>>
-----------------------------------------------------------------------------
(* DrainController: the rollback drain, in place of the serving process.      *)

Adopted(o) ==
  IF LiveOf(o) = {} THEN {refs[o]}
  ELSE {[state |-> "live", sid |-> s,
         gen |-> IF refs[o] = NoRef THEN silences[s].gen ELSE refs[o].gen] : s \in LiveOf(o)}

DrainExpiry(o, ref) == NewOperation("expire", o, None, ref.gen + 1, TRUE, None)

\* A map is gone through in no particular order.
Orders(S) ==
  {f \in [1..Cardinality(S) -> S] : \A i, j \in DOMAIN f : i # j => f[i] # f[j]}

\* closeEpisode for every open group: after the first time there is none.
Begin ==
  /\ drain = "begin"
  /\ mode' = "draining"
  /\ outbox' \in IF outbox = "served" THEN Backlog ELSE {outbox}
  /\ \E rs \in {f \in [Owner -> UNION {Adopted(o) : o \in Owner}] :
                  \A o \in Owner : f[o] \in Adopted(o)} :
       /\ refs' = rs
       /\ \E new \in Orders({DrainExpiry(o, rs[o]) :
                    o \in {x \in Owner : rs[x].state = "live" /\ ~NonTerminalFor({x})}}) :
            ops' = ops \o new
  /\ drain' = "work"
  /\ UNCHANGED <<requests, caller, worker, reader, enabled, world, used>>

InRun == drain = "work" /\ worker.pc = "idle"

\* Slip: once no operation is left, the outbox has no turn: what the last one added stays.
Deliver_OnlyBusy ==
  /\ InRun /\ outbox # "empty" /\ \E o \in DOMAIN ops : ~Terminal(ops[o])
  /\ drain' = "begin"
  /\ outbox' = IF outbox = "owed" THEN "empty" ELSE outbox
  /\ UNCHANGED <<mode, ops, refs, requests, caller, worker, reader, enabled, world, used>>

\* OutboxWorker.ProcessNext delivers what is due, until all is delivered, or tries once
\* more what Slack will not take.
Deliver ==
  /\ InRun /\ outbox # "empty"
  /\ drain' = "begin"
  /\ outbox' = IF outbox = "owed" THEN "empty" ELSE outbox
  /\ UNCHANGED <<mode, ops, refs, requests, caller, worker, reader, enabled, world, used>>

\* Slack is not reached, its answer to a reaction is lost, or it refuses for good.
DeliverFails ==
  /\ InRun /\ outbox = "owed"
  /\ Spend("fault") /\ drain' = "begin"
  /\ outbox' \in {"owed", "stuck", "failed"}
  /\ UNCHANGED <<mode, ops, refs, requests, caller, worker, reader, enabled, world>>

\* Nothing is due: the drain asks Alertmanager whether it is over.
VerifyList ==
  /\ InRun
  /\ drain' = IF \E o \in Owner : LiveOf(o) # {} THEN "begin" ELSE "verify"
  /\ UNCHANGED <<durable, caller, worker, reader, enabled, world, used>>

Unfinished == \E op \in OpSet : ~Terminal(op)

FailedExpiry(op) == op.action = "expire" /\ op.phase = "failed"

\* What is owed to Slack comes first; the operations are looked at in no particular order.
VerifyState ==
  /\ drain = "verify"
  /\ \/ /\ outbox = "failed" \/ (outbox = "empty" /\ \E op \in OpSet : FailedExpiry(op))
        /\ drain' = "failed" /\ UNCHANGED refs
     \/ /\ outbox \in {"owed", "stuck"} \/ (outbox = "empty" /\ Unfinished)
        /\ drain' = "begin" /\ UNCHANGED refs
     \/ /\ outbox = "empty" /\ \A op \in OpSet : Terminal(op) /\ ~FailedExpiry(op)
        /\ drain' = "done"
        /\ refs' = [o \in Owner |-> IF refs[o].state = "expired" THEN NoRef ELSE refs[o]]
  /\ UNCHANGED <<mode, ops, requests, outbox, caller, worker, reader, enabled, world, used>>

\* Alertmanager or the document cannot be asked or written: Run returns, maybe after a
\* reaction that Slack has and the outbox does not know of.
DrainAborts ==
  /\ drain \in {"work", "verify"} /\ worker.pc = "idle"
  /\ Spend("fault") /\ drain' = "aborted"
  /\ outbox' \in IF outbox = "owed" /\ drain = "work" THEN {"owed", "stuck"} ELSE {outbox}
  /\ UNCHANGED <<mode, ops, refs, requests, caller, worker, reader, enabled, world>>
-----------------------------------------------------------------------------
(* The surroundings.                                                          *)

\* The process stops anywhere; serving or the drain command starts afterwards.
Restart ==
  /\ \/ drain' = "off" /\ Spend("crash")
     \/ drain' = "begin" /\ Spend("drain")
  /\ caller' = [c \in Caller |-> Unasked]
  /\ worker' = Idle
  /\ reader' = Unread
  /\ enabled' \in BOOLEAN
  /\ outbox' = IF drain' = "off" THEN "served" ELSE outbox
  /\ UNCHANGED <<mode, ops, refs, requests, world>>

\* A silence is expired by somebody else, ends, or is garbage collected.
SilenceEnds(s) ==
  /\ silences[s].state # "gone" /\ Spend("external")
  /\ silences' = [silences EXCEPT ![s].state = IF @ = "live" THEN "expired" ELSE "gone"]
  /\ UNCHANGED <<durable, caller, worker, reader, drain, enabled, auth, late, overdue>>

AuthChanges ==
  /\ Spend("auth")
  /\ auth' = ~auth
  /\ UNCHANGED <<durable, caller, worker, reader, drain, enabled, silences, late, overdue>>

\* Submissions do not outlive the deadline, but one made as it passes may.  The
\* deadline of an expiry is never read.
DeadlinePasses(o) ==
  /\ o \notin overdue /\ ~Terminal(ops[o]) /\ ops[o].action = "create"
  /\ worker.op # o => \A x \in late : x.op # o
  /\ SubmitsInTime => worker.op # o
  /\ overdue' = overdue \cup {o}
  /\ UNCHANGED <<durable, caller, worker, reader, drain, enabled, auth, silences, late, used>>
-----------------------------------------------------------------------------
Init ==
  /\ mode = "active" /\ ops = <<>>
  /\ refs = [o \in Owner |-> NoRef]
  /\ requests = [r \in Request |-> 0]
  /\ outbox = "served"
  /\ caller = [c \in Caller |-> Unasked]
  /\ worker = Idle /\ reader = Unread
  /\ drain = "off" /\ enabled = TRUE /\ auth = TRUE
  /\ silences = <<>> /\ late = {} /\ overdue = {}
  /\ used = [m \in Moves |-> 0]

Handler(c) ==
  \/ \E r \in Request, o \in Owner : AskExpire(c, r, o)
  \/ \E r \in Request, o \in Owner, p \in Owner \cup {None} : AskCreate(c, r, o, p)
  \/ Register(c)

Decide == Draining \/ NotFound \/ Submission \/ Adopt \/ Expire

Attempt ==
  \/ List \/ Decide \/ Submit \/ ExpireMarked
  \/ Accepted \/ Rejected \/ Posted \/ Readback
  \/ \E s \in DOMAIN silences : ExpireOne(s)
  \/ WaitForMarker \/ DuplicatesExpired
  \/ Complete \/ CompleteExpire \/ Cancel \/ Unauthorized

Trouble ==
  \/ ReadFails \/ StoreFails \/ NoLongerAllowed \/ Unanswered \/ DeliverFails \/ DrainAborts
  \/ \E s \in DOMAIN silences : ExpireFails(s)

DrainStep == Begin \/ Deliver \/ VerifyList \/ VerifyState

World ==
  \/ \E x \in late : Apply(x) \/ Discard(x)
  \/ \E s \in DOMAIN silences : SilenceEnds(s)
  \/ AuthChanges
  \/ \E o \in DOMAIN ops : DeadlinePasses(o)

Next ==
  \/ \E c \in Caller : Handler(c)
  \/ \E o \in DOMAIN ops : Select(o)
  \/ Attempt \/ Trouble
  \/ ReconcileList \/ RefreshOwned
  \/ DrainStep
  \/ Restart
  \/ World

Spec == Init /\ [][Next]_vars

\* Select needs strong fairness: every pass of OperationWorker.Run tries each
\* operation that is due once ("attempted"), but others keep the mutex meanwhile.  So do
\* Deliver and VerifyList: a pass of the drain reaches them when nothing earlier is due, which
\* the growing delays between attempts let happen again and again.
FairSpec ==
  /\ Spec
  /\ WF_vars(Attempt) /\ WF_vars(Rejected \/ Unanswered)
  /\ WF_vars(\E x \in late : Apply(x))
  /\ WF_vars(\E c \in Caller : Register(c))
  /\ WF_vars(RefreshOwned) /\ SF_vars(ReconcileList)
  /\ WF_vars(Begin) /\ SF_vars(Deliver) /\ SF_vars(VerifyList) /\ WF_vars(VerifyState)
  /\ \A o \in 1..MaxTotal : /\ SF_vars(o \in DOMAIN ops /\ Select(o))
                            /\ SF_vars(o \in DOMAIN ops /\ DeadlinePasses(o))
-----------------------------------------------------------------------------
Phases == {"prepared", "submitted", "ambiguous", "completed", "failed"}

States == {"none", "live", "expired", "deleted"}

TypeOK ==
  /\ mode \in {"active", "draining"} /\ outbox \in Contents
  /\ drain \in {"off", "begin", "work", "verify", "done", "failed", "aborted"}
  /\ enabled \in BOOLEAN /\ auth \in BOOLEAN
  /\ \A o \in DOMAIN ops :
       /\ ops[o].phase \in Phases /\ ops[o].owner \in Owner
       /\ ops[o].replaces \in Owner \cup {None} /\ ops[o].gen \in Nat \ {0}
  /\ refs \in [Owner -> [state : States, sid : 0..Len(silences), gen : Nat]]
  /\ requests \in [Request -> 0..Len(ops)]
  /\ worker.op \in 0..Len(ops) /\ worker.canon \in 0..Len(silences)
  /\ worker.live \cup worker.sources \cup worker.todo \subseteq DOMAIN silences
  /\ \A s \in DOMAIN silences : silences[s].op \in DOMAIN ops
  /\ \A x \in late : x.op \in DOMAIN ops /\ x.target \in 0..Len(silences)
  /\ overdue \subseteq DOMAIN ops

\* An operation is submitted to Alertmanager at most once, whatever answers are
\* lost and wherever the process stops (TestOperationDeadlineEndsMarkerDiscovery-
\* WithoutResubmission).
SubmittedOnce == \A op \in OpSet : op.posts <= 1

\* A silence suppresses alerts only for an operation that succeeded or is still
\* being worked on: nobody is told "failed" while alerts are being suppressed.
FailedLeavesNothing ==
  \A s \in DOMAIN silences :
    silences[s].state = "live" => ops[silences[s].op].phase # "failed"

Settled(o) == ~NonTerminalFor({o})

\* A live silence of a scope nobody works on is the one its reference shows as
\* live: there is one at most, whatever was replaced, lost or restarted, the Unsilence
\* control reaches it, and the drain finds it
\* (TestReconcileSnapshotCannotRaceCompletedOperation).
LiveIsTracked ==
  \A o \in Owner : Settled(o) =>
    \A s \in LiveOf(o) : refs[o].sid = s /\ refs[o].state = "live"

OneOperationPerRequest ==
  \A i, j \in DOMAIN ops : ops[i].req = ops[j].req /\ ops[i].req # None => i = j

OneOperationPerScope ==
  \A i, j \in DOMAIN ops :
    /\ i # j /\ ~Terminal(ops[i]) /\ ~Terminal(ops[j])
    => ({ops[i].owner, ops[i].replaces} \cap {ops[j].owner, ops[j].replaces}) \subseteq {None}

GenerationsGrow ==
  \A i, j \in DOMAIN ops :
    /\ i < j /\ ops[i].owner = ops[j].owner
    /\ ops[i].action = "create" /\ ops[j].action = "create"
    => ops[i].gen < ops[j].gen

\* Whoever registers, and however their reads and edits interleave: a Slack request that
\* is delivered twice makes one operation, one operation at a time works on a scope, as
\* its own or as the one it replaces, and every new creation in a scope has a higher
\* generation, so that its marker tells which silence is the newest
\* (TestOneNonTerminalOperationPerOwnershipAcrossOrigins).
Registration ==
  /\ OneOperationPerRequest
  /\ OneOperationPerScope
  /\ GenerationsGrow

\* When the drain command says it is complete, nothing of the proxy suppresses
\* alerts, and nothing will: no submission is on its way any more.  Nor is Slack owed anything
\* (main.go:338: "no live proxy-owned silences or pending Slack work remain").
DrainedForGood ==
  drain = "done" => /\ \A s \in DOMAIN silences : silences[s].state # "live"
                    /\ late = {} /\ outbox = "empty"

\* A replacement expires the silences of its source only when its own silence was
\* created: unless somebody else takes that one away, alerts stay suppressed
\* (TestMatcherReplacementEstablishesDestinationBeforeExpiringSource).  A user who loses the
\* permission and has it again is an exception: a recovery in between expired the silence.
ReplacedOnlyWhenEstablished ==
  [][\A s \in DOMAIN silences :
       /\ silences[s].state = "live" /\ silences'[s].state = "expired"
       /\ worker.pc = "expiring" /\ worker.then = "complete"
       /\ used["external"] = 0 /\ used["auth"] <= 1
       => LiveOf(Op.owner) # {}]_vars

Exists(o) == o \in DOMAIN ops

\* Every operation ends, with its outcome recorded, unless the drain gave up before.
OperationsEnd ==
  \A o \in 1..MaxTotal :
    (Exists(o) /\ ~Terminal(ops[o])) ~>
      ((Exists(o) /\ Terminal(ops[o])) \/ drain \in {"failed", "aborted"})

\* What no run of the drain gets over: the outbox holds what Slack will not take, or a user's
\* expiry failed (for want of the permission) and is still in the document.
Undrainable == \/ outbox \in {"stuck", "failed"}
               \/ \E op \in OpSet : FailedExpiry(op) /\ ~op.byDrain

\* The drain command completes, whatever it finds prepared, submitted or half done and
\* whatever its own operations still owe to Slack, unless one of its calls failed as it
\* verified (and it must be run again) or nothing can get over what it found.  In particular
\* no expiry of its own fails.
DrainEnds == (drain # "off") ~> (drain \in {"off", "done", "aborted"} \/ Undrainable)

\* A silence that ended behind the proxy's back is noticed, and its controls go.
RefsCatchUp ==
  \A o \in Owner :
    (refs[o].state = "live" /\ LiveOf(o) = {}) ~>
      (refs[o].state # "live" \/ LiveOf(o) # {} \/ mode = "draining")
=============================================================================
