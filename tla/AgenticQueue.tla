---------------------------- MODULE AgenticQueue ----------------------------
(***************************************************************************)
(* The work queue of the agentic handoff in cmd/pipeline-controller.       *)
(* Webhooks, ProwJob updates and configuration changes enqueue a pull      *)
(* request, with a comment if that is what happened; one worker reconciles *)
(* a pull request with GitHub from a COPY of its input, holding no queue   *)
(* lock meanwhile, and then decides from the CURRENT input whether to      *)
(* retry, go on with the next comment, or forget the input.  A response    *)
(* timer of a pull request is nothing but a delayed entry of the queue.    *)
(*                                                                         *)
(* What a reconciliation does at GitHub is left out: it is the outcomes    *)
(* that reconcilePull can hand back, and what becomes of waitingUntil.     *)
(* Times are what is left of them, so 0 is "now or earlier" and Tick makes *)
(* all of them shorter.  The three Go maps are functions whose domain is   *)
(* the set of keys present.  The process ends with all of this; nothing is *)
(* persisted, so neither its end nor ShuttingDown is modelled.             *)
(***************************************************************************)
EXTENDS Integers, Sequences, FiniteSets

CONSTANTS
  PullRequest,  \* agenticWork: pull requests of enrolled repositories
  Comment,      \* identifiers of issue comments
  None,         \* the nil comment, and the work of an idle worker
  RetryLimit,   \* 5 in processNext
  Timeout,      \* options.timeout: how long Chai may take to respond
  Backoff,      \* a delay of the rate limiter
  RetryAfter,   \* a delay that GitHub asked for
  Scenarios     \* bounds: how often the environment may do each thing

Moves == {"event", "transient", "throttled", "permanent", "late"}

ASSUME ParameterAssumption ==
  /\ None \notin Comment \cup PullRequest
  /\ RetryLimit \in Nat
  /\ Timeout \in Nat \ {0}
  /\ Backoff \in Nat \ {0}
  /\ RetryAfter \in Nat \ {0}
  /\ Scenarios \subseteq [Moves -> Nat]

VARIABLES
  inputs,   \* a.inputs: what has to be reconciled, under queueMu
  queued,   \* the queue's dirty set: ready, or to be ready when the worker is done with it
  delayed,  \* the queue's delayed entries, at most one for each item
  waiting,  \* a.states: waitingUntil of each tracked pull request, under a.mu
  worker,   \* what processNext holds
  started,  \* Run has created the queue
  gaveUp,   \* history: the pull requests whose last reconciliation ended with an error
  left      \* what the scenario still allows

vars == <<inputs, queued, delayed, waiting, worker, started, gaveUp, left>>

Input == [generation : Nat, comments : Seq(Comment), retries : Nat, retryAt : Nat]

\* agenticState.waitingUntil.IsZero()
NoDeadline == -1

Error == {"none", "transient", "throttled", "permanent"}

Work == [pc : {"idle", "got", "reconcile", "finish"}, pr : PullRequest \cup {None},
         found : BOOLEAN, generation : Nat, comment : Comment \cup {None}, error : Error]

TypeOK ==
  /\ DOMAIN inputs \subseteq PullRequest
  /\ inputs \in [DOMAIN inputs -> Input]
  /\ queued \in SUBSET PullRequest
  /\ DOMAIN delayed \subseteq PullRequest
  /\ delayed \in [DOMAIN delayed -> Nat]
  /\ DOMAIN waiting \subseteq PullRequest
  /\ waiting \in [DOMAIN waiting -> Nat \cup {NoDeadline}]
  /\ worker \in Work
  /\ worker.pc = "idle" <=> worker.pr = None
  /\ started \in BOOLEAN
  /\ gaveUp \in SUBSET PullRequest
  /\ left \in [Moves -> Nat]

Idle == [pc |-> "idle", pr |-> None, found |-> FALSE, generation |-> 0,
         comment |-> None, error |-> "none"]

Init ==
  /\ inputs = <<>>
  /\ queued = {}
  /\ delayed = <<>>
  /\ waiting = <<>>
  /\ worker = Idle
  /\ started = FALSE
  /\ gaveUp = {}
  /\ left \in Scenarios

Spend(move) ==
  /\ left[move] > 0
  /\ left' = [left EXCEPT ![move] = @ - 1]

Known(p) == p \in DOMAIN inputs

Put(f, p, v) == [q \in DOMAIN f \cup {p} |-> IF q = p THEN v ELSE f[q]]
Without(f, p) == [q \in DOMAIN f \ {p} |-> f[q]]

-----------------------------------------------------------------------------
(* The delaying queue: it keeps the EARLIER of two delays for one item, and *)
(* what it adds while the worker holds the item is there when it is done.   *)

Sooner(p, delay) ==
  IF p \in DOMAIN delayed /\ delayed[p] <= delay THEN delayed ELSE Put(delayed, p, delay)

AddAfter(p, delay) ==
  IF delay > 0 THEN delayed' = Sooner(p, delay) /\ UNCHANGED queued
  ELSE queued' = queued \cup {p} /\ UNCHANGED delayed

Release(p) ==
  /\ p \in DOMAIN delayed
  /\ delayed[p] = 0
  /\ delayed' = Without(delayed, p)
  /\ queued' = queued \cup {p}
  /\ UNCHANGED <<inputs, waiting, worker, started, gaveUp, left>>

\* Time passes, for everything that waits for a later time.
Less(t) == IF t > 0 THEN t - 1 ELSE t

Tick ==
  /\ \/ \E p \in DOMAIN delayed : delayed[p] > 0
     \/ \E p \in DOMAIN waiting : waiting[p] > 0
     \/ \E p \in DOMAIN inputs : inputs[p].retryAt > 0
  /\ delayed' = [p \in DOMAIN delayed |-> Less(delayed[p])]
  /\ waiting' = [p \in DOMAIN waiting |-> Less(waiting[p])]
  /\ inputs' = [p \in DOMAIN inputs |-> [inputs[p] EXCEPT !.retryAt = Less(@)]]
  /\ UNCHANGED <<queued, worker, started, gaveUp, left>>

-----------------------------------------------------------------------------
(* Events: comments, pull request events, ProwJobs whose state changed, and *)
(* a configuration change for each tracked pull request in turn.            *)

NewInput == [generation |-> 0, comments |-> <<>>, retries |-> 0, retryAt |-> 0]

InputOf(p) == IF Known(p) THEN inputs[p] ELSE NewInput

Queued(p, c) == \E i \in DOMAIN InputOf(p).comments : InputOf(p).comments[i] = c

Extended(p, c) ==
  IF c = None \/ Queued(p, c) THEN InputOf(p).comments ELSE Append(InputOf(p).comments, c)

Enqueue(p, c) ==
  /\ Spend("event")
  /\ inputs' = Put(inputs, p, [InputOf(p) EXCEPT !.generation = @ + 1, !.comments = Extended(p, c)])
  /\ queued' = IF started THEN queued \cup {p} ELSE queued
  /\ UNCHANGED <<delayed, waiting, worker, started, gaveUp>>

\* What came before the queue existed is added when it does.
Run ==
  /\ ~started
  /\ started' = TRUE
  /\ queued' = DOMAIN inputs
  /\ UNCHANGED <<inputs, delayed, waiting, worker, gaveUp, left>>

-----------------------------------------------------------------------------
(* processNext.                                                             *)

Get(p) ==
  /\ worker.pc = "idle"
  /\ p \in queued
  /\ worker' = [Idle EXCEPT !.pc = "got", !.pr = p]
  /\ queued' = queued \ {p}
  /\ UNCHANGED <<inputs, delayed, waiting, started, gaveUp, left>>

\* Under queueMu: nothing before retryAt, however the item was added.
TooEarly ==
  LET p == worker.pr IN
  /\ worker.pc = "got"
  /\ Known(p) /\ inputs[p].retryAt > 0
  /\ AddAfter(p, inputs[p].retryAt)
  /\ worker' = Idle
  /\ UNCHANGED <<inputs, waiting, started, gaveUp, left>>

Oldest(comments) == IF comments = <<>> THEN None ELSE Head(comments)

Copy ==
  LET p == worker.pr IN
  /\ worker.pc = "got"
  /\ Known(p) => inputs[p].retryAt = 0
  /\ worker' = [worker EXCEPT !.pc = "reconcile", !.found = Known(p),
                              !.generation = InputOf(p).generation,
                              !.comment = Oldest(InputOf(p).comments)]
  /\ UNCHANGED <<inputs, queued, delayed, waiting, started, gaveUp, left>>

\* waitingUntil of a pull request, NoDeadline when it is not tracked.
Deadline(p) == IF p \in DOMAIN waiting THEN waiting[p] ELSE NoDeadline

NotDue_Forgets ==
  /\ worker.pc = "reconcile"
  /\ ~worker.found
  /\ Deadline(worker.pr) # 0
  /\ worker' = Idle
  /\ UNCHANGED <<inputs, queued, delayed, waiting, started, gaveUp, left>>

\* Without an input only a response timer that has expired goes on.
NotDue ==
  LET p == worker.pr IN
  /\ worker.pc = "reconcile"
  /\ ~worker.found
  /\ \/ Deadline(p) = NoDeadline /\ UNCHANGED <<queued, delayed>>
     \/ Deadline(p) > 0 /\ AddAfter(p, Deadline(p))
  /\ worker' = Idle
  /\ UNCHANGED <<inputs, waiting, started, gaveUp, left>>

\* What reconcilePull leaves of the timer when it returns nil: none, a new one, the
\* running one, or the rest of one whose creation had lost its answer.  A timer that
\* has expired was dealt with.
Timers(p) ==
  {NoDeadline, Timeout}
    \cup {t \in {Deadline(p)} : t > 0}
    \cup {t \in 1..Timeout : p \in DOMAIN waiting /\ waiting[p] = NoDeadline}

Outcomes(p, error) ==
  IF error = "none" THEN {Without(waiting, p)} \cup {Put(waiting, p, t) : t \in Timers(p)}
  ELSE {waiting, Put(waiting, p, NoDeadline)}

MayGoOn == worker.pc = "reconcile" /\ (worker.found \/ Deadline(worker.pr) = 0)

Reconciled(error) ==
  /\ worker' = [worker EXCEPT !.pc = "finish", !.error = error]
  /\ UNCHANGED <<inputs, queued, delayed, started, gaveUp>>

Reconcile ==
  \E error \in Error :
    /\ MayGoOn
    /\ IF error = "none" THEN UNCHANGED left ELSE Spend(error)
    /\ waiting' \in Outcomes(worker.pr, error)
    /\ Reconciled(error)

\* A creation whose answer was lost is found again after its timer expired, and
\* the call that confirms the completion fails.
RecoverLate ==
  \E error \in {"transient", "permanent"} :
    /\ MayGoOn
    /\ worker.pr \in DOMAIN waiting
    /\ waiting[worker.pr] = NoDeadline
    /\ Spend("late")
    /\ waiting' = Put(waiting, worker.pr, 0)
    /\ Reconciled(error)

\* retry.transient && (input == nil || input.retries < 5)
MayRetry(p) ==
  /\ worker.error \in {"transient", "throttled"}
  /\ InputOf(p).retries < RetryLimit \/ ~Known(p)

Retry ==
  LET p == worker.pr
      after == IF worker.error = "throttled" THEN RetryAfter ELSE Backoff
  IN
  /\ worker.pc = "finish"
  /\ MayRetry(p)
  /\ inputs' = Put(inputs, p, [InputOf(p) EXCEPT !.retries = @ + 1,
                               !.retryAt = IF worker.error = "throttled" THEN after ELSE @])
  /\ AddAfter(p, after)
  /\ worker' = Idle
  /\ UNCHANGED <<waiting, started, gaveUp, left>>

Remaining(p) ==
  LET comments == inputs[p].comments IN
  IF worker.comment # None /\ Oldest(comments) = worker.comment THEN Tail(comments) ELSE comments

Settled_AnyGeneration(p) == Remaining(p) = <<>>

\* Nothing came in since the copy was made.
Settled(p) == Remaining(p) = <<>> /\ inputs[p].generation = worker.generation

TimerSet_EvenIfZero(p) == worker.error = "none" /\ p \in DOMAIN waiting

TimerSet_OnlyAhead(p) == worker.error = "none" /\ Deadline(p) > 0

\* The response timer is scheduled anew after every success.
TimerSet(p) == worker.error = "none" /\ Deadline(p) # NoDeadline

Finish ==
  LET p == worker.pr
      again == Known(p) /\ ~Settled(p)
      due == TimerSet(p) /\ Deadline(p) = 0
  IN
  /\ worker.pc = "finish"
  /\ ~MayRetry(p)
  /\ inputs' = IF again
               THEN Put(inputs, p, [inputs[p] EXCEPT !.comments = Remaining(p),
                                                     !.retries = 0, !.retryAt = 0])
               ELSE Without(inputs, p)
  /\ queued' = IF again \/ due THEN queued \cup {p} ELSE queued
  /\ delayed' = IF TimerSet(p) /\ ~due THEN Sooner(p, Deadline(p)) ELSE delayed
  /\ gaveUp' = IF worker.error = "none" THEN gaveUp \ {p} ELSE gaveUp \cup {p}
  /\ worker' = Idle
  /\ UNCHANGED <<waiting, started, left>>

-----------------------------------------------------------------------------
Next ==
  \/ \E p \in PullRequest :
       \/ \E c \in Comment \cup {None} : Enqueue(p, c)
       \/ Release(p)
       \/ Get(p)
  \/ Run
  \/ Tick
  \/ TooEarly
  \/ Copy
  \/ NotDue
  \/ Reconcile
  \/ RecoverLate
  \/ Retry
  \/ Finish

Spec == Init /\ [][Next]_vars

\* The worker loops, time passes, and the queue hands out its items in the order
\* they were added, so none of them waits for ever.
FairSpec ==
  /\ Spec
  /\ WF_vars(Run)
  /\ WF_vars(Tick)
  /\ \A p \in PullRequest : WF_vars(Release(p)) /\ SF_vars(Get(p))
  /\ WF_vars(TooEarly \/ Copy \/ NotDue \/ Reconcile \/ RecoverLate \/ Retry \/ Finish)

-----------------------------------------------------------------------------
(* Properties.                                                              *)

\* The abstract view: the comments are those of the inputs; an event is owed a
\* reconciliation unless the one under way copied the input after it.
Pending == [p \in PullRequest |-> InputOf(p).comments]

Answered(p) ==
  /\ worker.pr = p
  /\ worker.pc \in {"reconcile", "finish"}
  /\ worker.found
  /\ worker.generation = inputs[p].generation

Owed == {p \in DOMAIN inputs : ~Answered(p)}

Reconciling ==
  IF worker.pc = "finish" \/ (worker.pc = "reconcile" /\ worker.found)
  THEN {<<worker.pr, worker.comment>>} ELSE {}

Intake == INSTANCE AgenticIntake
            WITH NoComment <- None, pending <- Pending, owed <- Owed, busy <- Reconciling

\* No event is lost although the worker reconciles a copy and deletes the input
\* afterwards: the queue implements AgenticIntake, which gives every event a
\* reconciliation that begins after it and every comment its turn, in order.
IntakeKept == Intake!Spec

AtRest(p) == worker.pr # p

HasEntry(p) ==
  \/ p \in queued
  \/ p \in DOMAIN delayed /\ (Known(p) \/ delayed[p] <= waiting[p])

\* A response timer that is running has the entry that will end it, and in time
\* when nothing else is to be done for the pull request; an error that is not
\* retried is the only excuse.
TimerKept ==
  \A p \in DOMAIN waiting :
    waiting[p] # NoDeadline /\ AtRest(p) /\ p \notin gaveUp => HasEntry(p)

\* An expired timer is dealt with (or its reconciliation fails for good): the
\* pull request does not wait for Chai for ever.
TimerServed ==
  \A p \in PullRequest : Deadline(p) = 0 ~> (Deadline(p) # 0 \/ p \in gaveUp)

\* architecture-memo.md:27: no message in time hands dispatch over; so a timer
\* that has still to expire always has a queue entry to end it.
TimerNeverForgotten ==
  \A p \in DOMAIN waiting :
    waiting[p] > 0 /\ AtRest(p) => p \in queued \/ p \in DOMAIN delayed
=============================================================================
