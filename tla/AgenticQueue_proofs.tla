------------------------ MODULE AgenticQueue_proofs ------------------------
(* Theorems about AgenticQueue, for any pull requests, comments, delays and  *)
(* scenarios.                                                                *)
EXTENDS AgenticQueue, TLAPS

\* A map with one key set is a map of the same kind.
LEMMA PutFacts ==
  ASSUME NEW S, NEW f, f \in [DOMAIN f -> S], NEW v \in S, NEW p \in PullRequest,
         DOMAIN f \subseteq PullRequest
  PROVE  /\ DOMAIN Put(f, p, v) = DOMAIN f \cup {p}
         /\ DOMAIN Put(f, p, v) \subseteq PullRequest
         /\ Put(f, p, v) \in [DOMAIN Put(f, p, v) -> S]
         /\ Put(f, p, v)[p] = v
         /\ \A q \in DOMAIN f : q # p => Put(f, p, v)[q] = f[q]
BY DEF Put

\* So is a map with one key deleted.
LEMMA WithoutFacts ==
  ASSUME NEW S, NEW f, f \in [DOMAIN f -> S], NEW p, DOMAIN f \subseteq PullRequest
  PROVE  /\ DOMAIN Without(f, p) = DOMAIN f \ {p}
         /\ DOMAIN Without(f, p) \subseteq PullRequest
         /\ Without(f, p) \in [DOMAIN Without(f, p) -> S]
         /\ \A q \in DOMAIN f : q # p => Without(f, p)[q] = f[q]
BY DEF Without

\* The input of a pull request, present or not, is one, and its comments are.
LEMMA InputFacts ==
  ASSUME TypeOK, NEW p \in PullRequest
  PROVE  /\ InputOf(p) \in Input
         /\ Known(p) => InputOf(p) = inputs[p] /\ inputs[p] \in Input
         /\ ~Known(p) => InputOf(p).generation = 0 /\ InputOf(p).comments = <<>>
         /\ Deadline(p) \in Nat \cup {NoDeadline}
         /\ Oldest(InputOf(p).comments) \in Comment \cup {None}
         /\ Known(p) => Remaining(p) \in Seq(Comment)
<1>1. NewInput \in Input
  BY DEF NewInput, Input
<1>2. Known(p) => inputs[p] \in Input
  BY DEF TypeOK, Known
<1>3. InputOf(p) \in Input
  BY <1>1, <1>2 DEF InputOf
<1>4. InputOf(p).comments \in Seq(Comment)
  BY <1>3 DEF Input
<1>5. Oldest(InputOf(p).comments) \in Comment \cup {None}
  BY <1>4 DEF Oldest
<1>6. Deadline(p) \in Nat \cup {NoDeadline}
  BY DEF TypeOK, Deadline, NoDeadline
<1>7. ASSUME Known(p) PROVE Remaining(p) \in Seq(Comment)
  <2>1. inputs[p].comments \in Seq(Comment)
    BY <1>2, <1>7 DEF Input
  <2>2. CASE worker.comment # None /\ Oldest(inputs[p].comments) = worker.comment
    BY <2>1, <2>2 DEF Remaining, Oldest
  <2>3. CASE ~(worker.comment # None /\ Oldest(inputs[p].comments) = worker.comment)
    BY <2>1, <2>3 DEF Remaining
  <2> QED BY <2>2, <2>3
<1> QED BY <1>2, <1>3, <1>5, <1>6, <1>7 DEF InputOf, NewInput

\* What the delaying queue holds after an addition.
LEMMA SoonerFacts ==
  ASSUME TypeOK, NEW p \in PullRequest, NEW t \in Nat
  PROVE  /\ DOMAIN Sooner(p, t) = DOMAIN delayed \cup {p}
         /\ DOMAIN Sooner(p, t) \subseteq PullRequest
         /\ Sooner(p, t) \in [DOMAIN Sooner(p, t) -> Nat]
         /\ Sooner(p, t)[p] <= t
         /\ \A q \in DOMAIN delayed : q # p => Sooner(p, t)[q] = delayed[q]
<1>1. delayed \in [DOMAIN delayed -> Nat] /\ DOMAIN delayed \subseteq PullRequest
  BY DEF TypeOK
<1>2. CASE p \in DOMAIN delayed /\ delayed[p] <= t
  BY <1>1, <1>2 DEF Sooner
<1>3. CASE ~(p \in DOMAIN delayed /\ delayed[p] <= t)
  <2>1. Sooner(p, t) = Put(delayed, p, t)
    BY <1>3 DEF Sooner
  <2>2. /\ DOMAIN Put(delayed, p, t) = DOMAIN delayed \cup {p}
        /\ DOMAIN Put(delayed, p, t) \subseteq PullRequest
        /\ Put(delayed, p, t) \in [DOMAIN Put(delayed, p, t) -> Nat]
        /\ Put(delayed, p, t)[p] = t
        /\ \A q \in DOMAIN delayed : q # p => Put(delayed, p, t)[q] = delayed[q]
    BY <1>1 DEF Put
  <2>3. Sooner(p, t)[p] <= t
    BY <2>1, <2>2
  <2> QED BY <2>1, <2>2, <2>3
<1> QED BY <1>2, <1>3

LEMMA AddAfterFacts ==
  ASSUME TypeOK, NEW p \in PullRequest, NEW t \in Nat, AddAfter(p, t)
  PROVE  /\ queued' \in SUBSET PullRequest
         /\ DOMAIN delayed' \subseteq PullRequest
         /\ delayed' \in [DOMAIN delayed' -> Nat]
         /\ queued \subseteq queued'
         /\ t > 0 => p \in DOMAIN delayed' /\ delayed'[p] <= t
         /\ t = 0 => p \in queued'
         /\ \A q \in PullRequest \ {p} :
              /\ q \in queued' <=> q \in queued
              /\ q \in DOMAIN delayed' <=> q \in DOMAIN delayed
              /\ q \in DOMAIN delayed => delayed'[q] = delayed[q]
<1>1. CASE t > 0
  <2>1. delayed' = Sooner(p, t) /\ queued' = queued
    BY <1>1 DEF AddAfter
  <2>2. /\ DOMAIN delayed' = DOMAIN delayed \cup {p}
        /\ DOMAIN delayed' \subseteq PullRequest
        /\ delayed' \in [DOMAIN delayed' -> Nat]
        /\ delayed'[p] <= t
        /\ \A q \in DOMAIN delayed : q # p => delayed'[q] = delayed[q]
    BY <2>1, SoonerFacts
  <2> QED BY <1>1, <2>1, <2>2 DEF TypeOK
<1>2. CASE ~(t > 0)
  BY <1>2 DEF AddAfter, TypeOK
<1> QED BY <1>1, <1>2

\* The hands of the worker, filled or emptied, keep their type.
LEMMA WorkerFacts ==
  ASSUME TypeOK
  PROVE  /\ Idle \in Work /\ Idle.pc = "idle" /\ Idle.pr = None
         /\ \A p \in PullRequest :
              LET got == [Idle EXCEPT !.pc = "got", !.pr = p] IN
              got \in Work /\ got.pr = p /\ got.pc = "got" /\ p # None
         /\ worker.pc # "idle" => worker.pr \in PullRequest /\ worker.pr # None
         /\ worker.comment \in Comment \cup {None} /\ worker.generation \in Nat
BY ParameterAssumption DEF TypeOK, Work, Idle, Error

\* What a scenario allows stays a number.
LEMMA SpendType ==
  ASSUME TypeOK, NEW move \in Moves, Spend(move)
  PROVE  left' \in [Moves -> Nat]
BY DEF TypeOK, Spend

-----------------------------------------------------------------------------
(* Type correctness.                                                        *)

LEMMA InitType ==
  ASSUME Init
  PROVE  TypeOK
<1>1. Idle \in Work /\ Idle.pc = "idle" /\ Idle.pr = None
  BY DEF Idle, Work, Error
<1>2. /\ DOMAIN inputs \subseteq PullRequest /\ inputs \in [DOMAIN inputs -> Input]
      /\ DOMAIN delayed \subseteq PullRequest /\ delayed \in [DOMAIN delayed -> Nat]
      /\ DOMAIN waiting \subseteq PullRequest
      /\ waiting \in [DOMAIN waiting -> Nat \cup {NoDeadline}]
  BY DEF Init
<1>3. left \in [Moves -> Nat]
  BY ParameterAssumption DEF Init
<1> QED BY <1>1, <1>2, <1>3 DEF Init, TypeOK

LEMMA NextType ==
  ASSUME TypeOK, [Next]_vars
  PROVE  TypeOK'
<1>0. CASE UNCHANGED vars
  BY <1>0 DEF vars, TypeOK, Known
<1>1. ASSUME NEW p \in PullRequest, NEW c \in Comment \cup {None}, Enqueue(p, c)
      PROVE  TypeOK'
  <2> DEFINE new == [InputOf(p) EXCEPT !.generation = @ + 1, !.comments = Extended(p, c)]
  <2>1. InputOf(p) \in Input
    BY InputFacts
  <2>2. Extended(p, c) \in Seq(Comment)
    BY <2>1, ParameterAssumption DEF Extended, Input
  <2>3. new \in Input
    <3>1. InputOf(p).generation + 1 \in Nat
      BY <2>1 DEF Input
    <3> QED BY <2>1, <2>2, <3>1 DEF Input
  <2>4. DOMAIN inputs' \subseteq PullRequest /\ inputs' \in [DOMAIN inputs' -> Input]
    <3>1. inputs' = Put(inputs, p, new)
      BY <1>1 DEF Enqueue
    <3> HIDE DEF new
    <3> QED BY <2>3, <3>1, PutFacts DEF TypeOK
  <2>5. left' \in [Moves -> Nat]
    BY <1>1, SpendType DEF Enqueue, Moves
  <2> QED BY <1>1, <2>4, <2>5 DEF Enqueue, TypeOK
<1>2. ASSUME NEW p \in PullRequest, Release(p) PROVE TypeOK'
  BY <1>2, WithoutFacts DEF Release, TypeOK
<1>3. ASSUME NEW p \in PullRequest, Get(p) PROVE TypeOK'
  BY <1>3, WorkerFacts DEF Get, TypeOK
<1>4. CASE Run
  BY <1>4 DEF Run, TypeOK
<1>5. CASE Tick
  <2>1. \A t \in Nat : Less(t) \in Nat
    BY DEF Less
  <2>2. Less(NoDeadline) = NoDeadline
    BY DEF Less, NoDeadline
  <2>3. ASSUME NEW p \in DOMAIN inputs
        PROVE  [inputs[p] EXCEPT !.retryAt = Less(@)] \in Input
    BY <2>1 DEF TypeOK, Input
  <2>4. DOMAIN inputs' \subseteq PullRequest /\ inputs' \in [DOMAIN inputs' -> Input]
    BY <1>5, <2>3 DEF Tick, TypeOK
  <2>5. DOMAIN delayed' \subseteq PullRequest /\ delayed' \in [DOMAIN delayed' -> Nat]
    BY <1>5, <2>1 DEF Tick, TypeOK
  <2>6. /\ DOMAIN waiting' \subseteq PullRequest
        /\ waiting' \in [DOMAIN waiting' -> Nat \cup {NoDeadline}]
    BY <1>5, <2>1, <2>2 DEF Tick, TypeOK
  <2> QED BY <1>5, <2>4, <2>5, <2>6 DEF Tick, TypeOK
<1>6. CASE TooEarly
  <2>1. worker.pr \in PullRequest /\ inputs[worker.pr].retryAt \in Nat
    BY <1>6, WorkerFacts DEF TooEarly, TypeOK, Known, Input
  <2>2. /\ queued' \in SUBSET PullRequest /\ DOMAIN delayed' \subseteq PullRequest
        /\ delayed' \in [DOMAIN delayed' -> Nat]
    BY <1>6, <2>1, AddAfterFacts DEF TooEarly
  <2> QED BY <1>6, <2>2, WorkerFacts DEF TooEarly, TypeOK
<1>7. CASE Copy
  <2>1. worker.pr \in PullRequest
    BY <1>7, WorkerFacts DEF Copy
  <2>2. InputOf(worker.pr).generation \in Nat
    BY <2>1, InputFacts DEF Input
  <2>3. Oldest(InputOf(worker.pr).comments) \in Comment \cup {None}
    BY <2>1, InputFacts
  <2>4. Known(worker.pr) \in BOOLEAN
    BY DEF Known
  <2>5. worker' \in Work /\ worker'.pr = worker.pr
    BY <1>7, <2>2, <2>3, <2>4 DEF Copy, TypeOK, Work
  <2> QED BY <1>7, <2>1, <2>5 DEF Copy, TypeOK
<1>8. CASE NotDue
  <2>1. worker.pr \in PullRequest /\ Deadline(worker.pr) \in Nat \cup {NoDeadline}
    BY <1>8, WorkerFacts, InputFacts DEF NotDue
  <2>2. /\ queued' \in SUBSET PullRequest /\ DOMAIN delayed' \subseteq PullRequest
        /\ delayed' \in [DOMAIN delayed' -> Nat]
    <3>1. CASE UNCHANGED <<queued, delayed>>
      BY <3>1 DEF TypeOK
    <3>2. CASE Deadline(worker.pr) > 0 /\ AddAfter(worker.pr, Deadline(worker.pr))
      BY <2>1, <3>2, AddAfterFacts DEF NoDeadline
    <3> QED BY <1>8, <3>1, <3>2 DEF NotDue
  <2> QED BY <1>8, <2>2, WorkerFacts DEF NotDue, TypeOK
<1>9. ASSUME MayGoOn, NEW error \in Error, Reconciled(error), NEW t \in Nat \cup {NoDeadline},
             waiting' \in {waiting, Without(waiting, worker.pr), Put(waiting, worker.pr, t)},
             left' \in [Moves -> Nat]
      PROVE  TypeOK'
  <2>1. worker.pr \in PullRequest
    BY <1>9, WorkerFacts DEF MayGoOn
  <2>2. /\ DOMAIN waiting \subseteq PullRequest
        /\ waiting \in [DOMAIN waiting -> Nat \cup {NoDeadline}]
    BY DEF TypeOK
  <2>3. /\ DOMAIN waiting' \subseteq PullRequest
        /\ waiting' \in [DOMAIN waiting' -> Nat \cup {NoDeadline}]
    <3>1. CASE waiting' = Put(waiting, worker.pr, t)
      BY <2>1, <2>2, <3>1, PutFacts
    <3>2. CASE waiting' = Without(waiting, worker.pr)
      BY <2>2, <3>2, WithoutFacts
    <3> QED BY <1>9, <2>2, <3>1, <3>2
  <2>4. worker' \in Work /\ worker'.pc = "finish" /\ worker'.pr = worker.pr /\ worker.pr # None
    BY <1>9, WorkerFacts DEF MayGoOn, Reconciled, TypeOK, Work
  <2> QED BY <1>9, <2>1, <2>3, <2>4 DEF Reconciled, TypeOK
<1>10. CASE Reconcile
  <2>1. PICK error \in Error :
          /\ MayGoOn
          /\ IF error = "none" THEN UNCHANGED left ELSE Spend(error)
          /\ waiting' \in Outcomes(worker.pr, error)
          /\ Reconciled(error)
    BY <1>10 DEF Reconcile
  <2>2. left' \in [Moves -> Nat]
    <3>1. CASE error = "none"
      BY <2>1, <3>1 DEF TypeOK
    <3>2. CASE error # "none"
      BY <2>1, <3>2, SpendType DEF Error, Moves
    <3> QED BY <3>1, <3>2
  <2>3. Timers(worker.pr) \subseteq Nat \cup {NoDeadline}
    <3>1. worker.pr \in PullRequest
      BY <2>1, WorkerFacts DEF MayGoOn
    <3>2. Deadline(worker.pr) \in Nat \cup {NoDeadline}
      BY <3>1, InputFacts
    <3> QED BY <3>2, ParameterAssumption DEF Timers
  <2>4. \E t \in Nat \cup {NoDeadline} :
          waiting' \in {waiting, Without(waiting, worker.pr), Put(waiting, worker.pr, t)}
    BY <2>1, <2>3 DEF Outcomes
  <2> QED BY <2>1, <2>2, <2>4, <1>9
<1>11. CASE RecoverLate
  <2>1. PICK error \in {"transient", "permanent"} :
          /\ MayGoOn
          /\ Spend("late")
          /\ waiting' = Put(waiting, worker.pr, 0)
          /\ Reconciled(error)
    BY <1>11 DEF RecoverLate
  <2>2. left' \in [Moves -> Nat]
    BY <2>1, SpendType DEF Moves
  <2>3. error \in Error /\ 0 \in Nat
    BY DEF Error
  <2> QED BY <2>1, <2>2, <2>3, <1>9
<1>12. CASE Retry
  <2> DEFINE p == worker.pr
             after == IF worker.error = "throttled" THEN RetryAfter ELSE Backoff
             new == [InputOf(p) EXCEPT !.retries = @ + 1,
                       !.retryAt = IF worker.error = "throttled" THEN after ELSE @]
  <2>1. p \in PullRequest /\ after \in Nat
    BY <1>12, WorkerFacts, ParameterAssumption DEF Retry
  <2>2. inputs' = Put(inputs, p, new) /\ AddAfter(p, after)
    BY <1>12 DEF Retry
  <2>3. new \in Input
    <3>1. InputOf(p) \in Input /\ InputOf(p).retries + 1 \in Nat /\ InputOf(p).retryAt \in Nat
      BY <2>1, InputFacts DEF Input
    <3> HIDE DEF p, after
    <3> QED BY <2>1, <3>1 DEF Input
  <2> HIDE DEF p, after, new
  <2>4. DOMAIN inputs' \subseteq PullRequest /\ inputs' \in [DOMAIN inputs' -> Input]
    BY <2>1, <2>2, <2>3, PutFacts DEF TypeOK
  <2>5. /\ queued' \in SUBSET PullRequest /\ DOMAIN delayed' \subseteq PullRequest
        /\ delayed' \in [DOMAIN delayed' -> Nat]
    BY <2>1, <2>2, AddAfterFacts
  <2> QED BY <1>12, <2>4, <2>5, WorkerFacts DEF Retry, TypeOK
<1>13. CASE Finish
  <2> DEFINE p == worker.pr
  <2>1. p \in PullRequest
    BY <1>13, WorkerFacts DEF Finish
  <2>2. DOMAIN inputs' \subseteq PullRequest /\ inputs' \in [DOMAIN inputs' -> Input]
    <3>0. DOMAIN inputs \subseteq PullRequest /\ inputs \in [DOMAIN inputs -> Input]
      BY DEF TypeOK
    <3>1. CASE Known(p) /\ ~Settled(p)
      <4> DEFINE new == [inputs[p] EXCEPT !.comments = Remaining(p), !.retries = 0, !.retryAt = 0]
      <4>1. inputs' = Put(inputs, p, new)
        BY <1>13, <3>1 DEF Finish
      <4>2. new \in Input
        BY <2>1, <3>1, InputFacts DEF Input
      <4> HIDE DEF new, p
      <4> QED BY <2>1, <3>0, <4>1, <4>2, PutFacts
    <3>2. CASE ~(Known(p) /\ ~Settled(p))
      <4>1. inputs' = Without(inputs, p)
        BY <1>13, <3>2 DEF Finish
      <4> QED BY <3>0, <4>1, WithoutFacts
    <3> QED BY <3>1, <3>2
  <2>3. DOMAIN delayed' \subseteq PullRequest /\ delayed' \in [DOMAIN delayed' -> Nat]
    <3>1. CASE delayed' = delayed
      BY <3>1 DEF TypeOK
    <3>2. CASE delayed' # delayed
      <4>1. delayed' = Sooner(p, Deadline(p)) /\ Deadline(p) # NoDeadline
        BY <1>13, <3>2 DEF Finish, TimerSet
      <4>2. Deadline(p) \in Nat
        BY <2>1, <4>1, InputFacts
      <4> QED BY <2>1, <4>1, <4>2, SoonerFacts
    <3> QED BY <3>1, <3>2
  <2>4. queued' \in SUBSET PullRequest /\ gaveUp' \in SUBSET PullRequest
    BY <1>13, <2>1 DEF Finish, TypeOK
  <2> QED BY <1>13, <2>2, <2>3, <2>4, WorkerFacts DEF Finish, TypeOK
<1> QED
  BY <1>0, <1>1, <1>2, <1>3, <1>4, <1>5, <1>6, <1>7, <1>8, <1>10, <1>11, <1>12, <1>13 DEF Next

\* The queue's records keep their types, whatever the events, errors and delays
\* (agentic_queue.go: the maps under queueMu and a.mu).
THEOREM TypeCorrect == Spec => []TypeOK
<1>1. Init => TypeOK
  BY InitType
<1>2. TypeOK /\ [Next]_vars => TypeOK'
  BY NextType
<1> QED BY <1>1, <1>2, PTL DEF Spec

-----------------------------------------------------------------------------
(* Response timers are not forgotten.                                       *)

\* Before Run nothing is queued and nothing was reconciled.
NotStarted ==
  ~started => queued = {} /\ DOMAIN delayed = {} /\ DOMAIN waiting = {} /\ worker = Idle

IInv == TypeOK /\ NotStarted /\ TimerKept

LEMMA InitTimers ==
  ASSUME Init
  PROVE  NotStarted /\ TimerKept
BY DEF Init, NotStarted, TimerKept

LEMMA NextStarted ==
  ASSUME TypeOK, NotStarted, [Next]_vars
  PROVE  NotStarted'
<1> SUFFICES ASSUME ~started'
             PROVE  queued' = {} /\ DOMAIN delayed' = {} /\ DOMAIN waiting' = {} /\ worker' = Idle
  BY DEF NotStarted
<1>1. CASE UNCHANGED vars
  BY <1>1 DEF vars, NotStarted
<1>2. CASE \E p \in PullRequest : \E c \in Comment \cup {None} : Enqueue(p, c)
  BY <1>2 DEF Enqueue, NotStarted
<1>3. CASE \E p \in PullRequest : Release(p)
  BY <1>3 DEF Release, NotStarted
<1>4. CASE \E p \in PullRequest : Get(p)
  BY <1>4 DEF Get, NotStarted
<1>5. CASE Run
  BY <1>5 DEF Run
<1>6. CASE Tick
  BY <1>6 DEF Tick, NotStarted
<1>7. CASE TooEarly \/ Copy \/ NotDue \/ Reconcile \/ RecoverLate \/ Retry \/ Finish
  <2>1. started' = started /\ worker.pc # "idle"
    BY <1>7 DEF TooEarly, Copy, NotDue, Reconcile, RecoverLate, Retry, Finish, MayGoOn, Reconciled
  <2> QED BY <2>1 DEF NotStarted, Idle
<1> QED BY <1>1, <1>2, <1>3, <1>4, <1>5, <1>6, <1>7 DEF Next

LEMMA NextTimers ==
  ASSUME TypeOK, NotStarted, TimerKept, [Next]_vars
  PROVE  TimerKept'
<1> SUFFICES ASSUME NEW q \in DOMAIN waiting', waiting'[q] # NoDeadline,
                    worker'.pr # q, q \notin gaveUp'
             PROVE  HasEntry(q)'
  BY DEF TimerKept, AtRest
<1>0. q \in PullRequest
  BY NextType DEF TypeOK
<1>1. ASSUME q \in DOMAIN waiting, waiting'[q] = waiting[q], worker.pr # q, q \notin gaveUp
      PROVE  HasEntry(q)
  BY <1>1 DEF TimerKept, AtRest
<1>2. CASE UNCHANGED vars
  BY <1>1, <1>2 DEF vars, HasEntry, Known
<1>3. ASSUME NEW p \in PullRequest, NEW c \in Comment \cup {None}, Enqueue(p, c)
      PROVE  HasEntry(q)'
  <2>1. HasEntry(q) /\ queued \subseteq queued' /\ DOMAIN inputs \subseteq DOMAIN inputs'
    BY <1>1, <1>3 DEF Enqueue, Put
  <2> QED BY <1>3, <2>1 DEF Enqueue, HasEntry, Known
<1>4. ASSUME NEW p \in PullRequest, Release(p) PROVE HasEntry(q)'
  <2>1. HasEntry(q)
    BY <1>1, <1>4 DEF Release
  <2> QED BY <1>4, <2>1 DEF Release, Without, HasEntry, Known
<1>5. ASSUME NEW p \in PullRequest, Get(p) PROVE HasEntry(q)'
  <2>1. worker'.pr = p /\ worker.pr = None
    BY <1>5, WorkerFacts DEF Get, TypeOK
  <2>2. HasEntry(q)
    BY <1>0, <1>1, <1>5, <2>1, ParameterAssumption DEF Get
  <2> QED BY <1>5, <2>1, <2>2 DEF Get, HasEntry, Known
<1>6. CASE Run
  BY <1>6 DEF Run, NotStarted
<1>7. CASE Tick
  <2>1. waiting[q] \in Nat \cup {NoDeadline} /\ waiting'[q] = Less(waiting[q])
    BY <1>7 DEF Tick, TypeOK
  <2>2. HasEntry(q)
    BY <1>7, <2>1 DEF Tick, TimerKept, AtRest, Less, NoDeadline
  <2>3. q \in DOMAIN delayed => delayed[q] \in Nat /\ delayed'[q] = Less(delayed[q])
    BY <1>7 DEF Tick, TypeOK
  <2>4. q \in DOMAIN delayed /\ delayed[q] <= waiting[q] => delayed'[q] <= waiting'[q]
    BY <2>1, <2>3 DEF Less, NoDeadline
  <2> QED BY <1>7, <2>2, <2>4 DEF Tick, HasEntry, Known
<1>8. CASE TooEarly
  <2>1. worker.pr \in PullRequest /\ inputs[worker.pr].retryAt \in Nat
    BY <1>8, WorkerFacts DEF TooEarly, TypeOK, Known, Input
  <2>2. CASE q = worker.pr
    BY <1>8, <2>1, <2>2, AddAfterFacts DEF TooEarly, HasEntry, Known
  <2>3. CASE q # worker.pr
    <3>1. HasEntry(q)
      BY <1>1, <1>8, <2>3 DEF TooEarly
    <3> QED BY <1>0, <1>8, <2>1, <2>3, <3>1, AddAfterFacts DEF TooEarly, HasEntry, Known
  <2> QED BY <2>2, <2>3
<1>9. CASE Copy
  <2>1. HasEntry(q)
    BY <1>1, <1>9 DEF Copy
  <2> QED BY <1>9, <2>1 DEF Copy, HasEntry, Known
<1>10. CASE NotDue
  <2>1. worker.pr \in PullRequest /\ Deadline(worker.pr) \in Nat \cup {NoDeadline}
    BY <1>10, WorkerFacts, InputFacts DEF NotDue
  <2>2. CASE q = worker.pr
    <3>1. Deadline(q) = waiting[q] /\ waiting[q] # NoDeadline
      BY <1>10, <2>2 DEF NotDue, Deadline
    <3>2. AddAfter(q, Deadline(q)) /\ Deadline(q) > 0 /\ Deadline(q) \in Nat
      BY <1>10, <2>1, <2>2, <3>1 DEF NotDue
    <3>3. q \in DOMAIN delayed' /\ delayed'[q] <= Deadline(q)
      BY <1>0, <3>2, AddAfterFacts
    <3> QED BY <1>10, <3>1, <3>3 DEF NotDue, HasEntry
  <2>3. CASE q # worker.pr
    <3>1. HasEntry(q)
      BY <1>1, <1>10, <2>3 DEF NotDue
    <3>2. CASE UNCHANGED <<queued, delayed>>
      BY <1>10, <3>1, <3>2 DEF NotDue, HasEntry, Known
    <3>3. CASE Deadline(worker.pr) > 0 /\ AddAfter(worker.pr, Deadline(worker.pr))
      <4>1. Deadline(worker.pr) \in Nat
        BY <2>1, <3>3 DEF NoDeadline
      <4>2. /\ q \in queued' <=> q \in queued
            /\ q \in DOMAIN delayed' <=> q \in DOMAIN delayed
            /\ q \in DOMAIN delayed => delayed'[q] = delayed[q]
        BY <1>0, <2>1, <2>3, <3>3, <4>1, AddAfterFacts
      <4> QED BY <1>10, <3>1, <4>2 DEF NotDue, HasEntry, Known
    <3> QED BY <1>10, <3>2, <3>3 DEF NotDue
  <2> QED BY <2>2, <2>3
<1>11. CASE Reconcile \/ RecoverLate
  <2>1. /\ worker'.pr = worker.pr
        /\ UNCHANGED <<inputs, queued, delayed, gaveUp>>
        /\ \E t : waiting' \in {waiting, Without(waiting, worker.pr), Put(waiting, worker.pr, t)}
    <3>1. PICK error : Reconciled(error)
      BY <1>11 DEF Reconcile, RecoverLate
    <3>2. worker'.pr = worker.pr /\ UNCHANGED <<inputs, queued, delayed, gaveUp>>
      BY <3>1 DEF Reconciled, TypeOK, Work
    <3>3. CASE Reconcile
      BY <3>2, <3>3 DEF Reconcile, Outcomes
    <3>4. CASE RecoverLate
      BY <3>2, <3>4 DEF RecoverLate
    <3> QED BY <1>11, <3>3, <3>4
  <2>2. q \in DOMAIN waiting /\ waiting'[q] = waiting[q]
    BY <2>1 DEF Without, Put
  <2>3. HasEntry(q)
    BY <1>1, <2>1, <2>2
  <2> QED BY <2>1, <2>2, <2>3 DEF HasEntry, Known
<1>12. CASE Retry
  <2> DEFINE after == IF worker.error = "throttled" THEN RetryAfter ELSE Backoff
  <2>1. worker.pr \in PullRequest /\ after \in Nat /\ AddAfter(worker.pr, after)
    BY <1>12, WorkerFacts, ParameterAssumption DEF Retry
  <2>2. DOMAIN inputs' = DOMAIN inputs \cup {worker.pr}
    BY <1>12 DEF Retry, Put
  <2> HIDE DEF after
  <2>3. CASE q = worker.pr
    BY <1>12, <2>1, <2>2, <2>3, AddAfterFacts DEF HasEntry, Known
  <2>4. CASE q # worker.pr
    <3>1. HasEntry(q)
      BY <1>1, <1>12, <2>4 DEF Retry
    <3>2. /\ q \in queued' <=> q \in queued
          /\ q \in DOMAIN delayed' <=> q \in DOMAIN delayed
          /\ q \in DOMAIN delayed => delayed'[q] = delayed[q]
      BY <1>0, <2>1, <2>4, AddAfterFacts
    <3> QED BY <1>12, <2>2, <3>1, <3>2 DEF Retry, HasEntry, Known
  <2> QED BY <2>3, <2>4
<1>13. CASE Finish
  <2> DEFINE p == worker.pr
  <2>1. p \in PullRequest /\ queued \subseteq queued' /\ waiting' = waiting
    BY <1>13, WorkerFacts DEF Finish
  <2>2. CASE q = p
    <3>1. worker.error = "none" /\ Deadline(p) = waiting[p] /\ Deadline(p) # NoDeadline
      BY <1>13, <2>1, <2>2 DEF Finish, Deadline
    <3>2. Deadline(p) \in Nat
      BY <2>1, <3>1, InputFacts
    <3>3. CASE Deadline(p) = 0
      BY <1>13, <2>2, <3>1, <3>3 DEF Finish, TimerSet, HasEntry
    <3>4. CASE Deadline(p) # 0
      <4>1. delayed' = Sooner(p, Deadline(p))
        BY <1>13, <3>1, <3>4 DEF Finish, TimerSet
      <4>2. p \in DOMAIN delayed' /\ delayed'[p] <= Deadline(p)
        BY <2>1, <3>2, <4>1, SoonerFacts
      <4> QED BY <2>1, <2>2, <3>1, <4>2 DEF HasEntry
    <3> QED BY <3>3, <3>4
  <2>3. CASE q # p
    <3>1. HasEntry(q)
      BY <1>1, <1>13, <2>1, <2>3 DEF Finish
    <3>2. q \in DOMAIN delayed => q \in DOMAIN delayed' /\ delayed'[q] = delayed[q]
      <4>1. CASE delayed' = delayed
        BY <4>1
      <4>2. CASE delayed' # delayed
        <5>1. delayed' = Sooner(p, Deadline(p)) /\ Deadline(p) # NoDeadline
          BY <1>13, <4>2 DEF Finish, TimerSet
        <5>2. Deadline(p) \in Nat
          BY <2>1, <5>1, InputFacts
        <5> QED BY <2>1, <2>3, <5>1, <5>2, SoonerFacts
      <4> QED BY <4>1, <4>2
    <3>3. Known(q) => Known(q)'
      BY <1>13, <2>3 DEF Finish, Known, Put, Without
    <3> QED BY <2>1, <3>1, <3>2, <3>3 DEF HasEntry
  <2> QED BY <2>2, <2>3
<1> QED
  BY <1>2, <1>3, <1>4, <1>5, <1>6, <1>7, <1>8, <1>9, <1>10, <1>11, <1>12, <1>13 DEF Next

\* A running response timer keeps an entry in the queue, and in time (processNext,
\* agentic_queue.go:85 and :132), until an error that is not retried: an AddAfter
\* that comes later never outlives the one it replaced.
THEOREM TimersKept == Spec => []TimerKept
<1>1. Init => IInv
  BY InitType, InitTimers DEF IInv
<1>2. IInv /\ [Next]_vars => IInv'
  BY NextType, NextStarted, NextTimers DEF IInv
<1>3. IInv => TimerKept
  BY DEF IInv
<1> QED BY <1>1, <1>2, <1>3, PTL DEF Spec

-----------------------------------------------------------------------------
(* The queue implements AgenticIntake.                                      *)

\* The copy the worker reconciles is the oldest comment of the input still, and
\* no newer than it; an input that came meanwhile is newer than none.
CopyAgrees ==
  worker.pc \in {"reconcile", "finish"} =>
    /\ worker.found => /\ Known(worker.pr)
                       /\ worker.generation <= inputs[worker.pr].generation
    /\ worker.comment # None => /\ worker.found
                                /\ inputs[worker.pr].comments # <<>>
                                /\ Head(inputs[worker.pr].comments) = worker.comment
    /\ ~worker.found => /\ worker.generation = 0
                        /\ Known(worker.pr) => inputs[worker.pr].generation > 0

\* An event counts, and leaves the oldest comment where it is.
LEMMA EnqueueFacts ==
  ASSUME TypeOK, NEW p \in PullRequest, NEW c \in Comment \cup {None}, Enqueue(p, c)
  PROVE  /\ DOMAIN inputs' = DOMAIN inputs \cup {p}
         /\ inputs'[p].generation = InputOf(p).generation + 1
         /\ inputs'[p].comments = Extended(p, c)
         /\ \A q \in DOMAIN inputs : q # p => inputs'[q] = inputs[q]
         /\ InputOf(p).comments # <<>> =>
              Extended(p, c) # <<>> /\ Head(Extended(p, c)) = Head(InputOf(p).comments)
<1> DEFINE new == [InputOf(p) EXCEPT !.generation = @ + 1, !.comments = Extended(p, c)]
<1>1. InputOf(p) \in Input
  BY InputFacts
<1>2. new.generation = InputOf(p).generation + 1 /\ new.comments = Extended(p, c)
  BY <1>1 DEF Input
<1>3. inputs' = Put(inputs, p, new)
  BY DEF Enqueue
<1>4. InputOf(p).comments # <<>> =>
        Extended(p, c) # <<>> /\ Head(Extended(p, c)) = Head(InputOf(p).comments)
  <2>1. InputOf(p).comments \in Seq(Comment)
    BY <1>1 DEF Input
  <2>2. CASE c = None \/ Queued(p, c)
    BY <2>2 DEF Extended
  <2>3. CASE ~(c = None \/ Queued(p, c))
    <3>1. Extended(p, c) = Append(InputOf(p).comments, c)
      BY <2>3 DEF Extended
    <3> QED BY <2>1, <2>3, <3>1
  <2> QED BY <2>2, <2>3
<1> HIDE DEF new
<1> QED BY <1>2, <1>3, <1>4 DEF Put

LEMMA TickFacts ==
  ASSUME TypeOK, Tick
  PROVE  /\ DOMAIN inputs' = DOMAIN inputs
         /\ \A p \in DOMAIN inputs : /\ inputs'[p].generation = inputs[p].generation
                                     /\ inputs'[p].comments = inputs[p].comments
BY DEF Tick, TypeOK, Input

LEMMA NextAgrees ==
  ASSUME TypeOK, CopyAgrees, [Next]_vars
  PROVE  CopyAgrees'
<1>1. CASE UNCHANGED vars
  BY <1>1 DEF vars, CopyAgrees, Known
<1>2. ASSUME NEW p \in PullRequest, NEW c \in Comment \cup {None}, Enqueue(p, c)
      PROVE  CopyAgrees'
  <2>1. worker' = worker /\ InputOf(p).generation \in Nat
    BY <1>2, InputFacts DEF Enqueue, Input
  <2>2. CASE worker.pr = p
    <3>1. Known(p) => InputOf(p) = inputs[p]
      BY InputFacts
    <3>2. worker.generation \in Nat
      BY WorkerFacts
    <3>3. /\ p \in DOMAIN inputs'
          /\ inputs'[p].generation = InputOf(p).generation + 1
          /\ inputs'[p].comments = Extended(p, c)
          /\ InputOf(p).comments # <<>> =>
               Extended(p, c) # <<>> /\ Head(Extended(p, c)) = Head(InputOf(p).comments)
      BY <1>2, EnqueueFacts
    <3>4. CASE Known(p)
      BY <2>1, <2>2, <3>1, <3>2, <3>3, <3>4 DEF CopyAgrees, Known
    <3>5. CASE ~Known(p)
      BY <2>1, <2>2, <3>2, <3>3, <3>5 DEF CopyAgrees, Known
    <3> QED BY <3>4, <3>5
  <2>3. CASE worker.pr # p
    BY <1>2, <2>1, <2>3, EnqueueFacts DEF CopyAgrees, Known
  <2> QED BY <2>2, <2>3
<1>3. CASE \E p \in PullRequest : Release(p)
  BY <1>3 DEF Release, CopyAgrees, Known
<1>4. CASE \E p \in PullRequest : Get(p)
  BY <1>4, WorkerFacts DEF Get, CopyAgrees
<1>5. CASE Run
  BY <1>5 DEF Run, CopyAgrees, Known
<1>6. CASE Tick
  BY <1>6, TickFacts DEF Tick, CopyAgrees, Known
<1>7. CASE Copy
  <2> DEFINE p == worker.pr
  <2>1. p \in PullRequest
    BY <1>7, WorkerFacts DEF Copy
  <2>2. /\ worker'.pr = p /\ worker'.found = Known(p) /\ inputs' = inputs
        /\ worker'.generation = InputOf(p).generation
        /\ worker'.comment = Oldest(InputOf(p).comments)
    BY <1>7 DEF Copy, TypeOK, Work
  <2>3. InputOf(p).generation \in Nat
    BY <2>1, InputFacts DEF Input
  <2>4. Known(p) => InputOf(p) = inputs[p]
    BY <2>1, InputFacts
  <2>5. ~Known(p) => InputOf(p).generation = 0 /\ InputOf(p).comments = <<>>
    BY <2>1, InputFacts
  <2> HIDE DEF p
  <2>6. CASE Known(p)
    <3>1. worker'.found = TRUE /\ p \in DOMAIN inputs
      BY <2>2, <2>6 DEF Known
    <3>2. worker'.generation <= inputs[p].generation
      BY <2>2, <2>3, <2>4, <2>6
    <3>3. worker'.comment # None =>
            inputs[p].comments # <<>> /\ Head(inputs[p].comments) = worker'.comment
      BY <2>2, <2>4, <2>6 DEF Oldest
    <3> QED BY <2>2, <3>1, <3>2, <3>3 DEF CopyAgrees, Known
  <2>7. CASE ~Known(p)
    BY <2>2, <2>5, <2>7 DEF CopyAgrees, Oldest, Known
  <2> QED BY <2>6, <2>7
<1>8. CASE Reconcile \/ RecoverLate
  <2>1. PICK error : Reconciled(error)
    BY <1>8 DEF Reconcile, RecoverLate
  <2>2. /\ worker'.pr = worker.pr /\ worker'.found = worker.found
        /\ worker'.generation = worker.generation /\ worker'.comment = worker.comment
        /\ inputs' = inputs
    BY <2>1 DEF Reconciled, TypeOK, Work
  <2>3. worker.pc = "reconcile"
    BY <1>8 DEF Reconcile, RecoverLate, MayGoOn
  <2> QED BY <2>2, <2>3 DEF CopyAgrees, Known
<1>9. CASE TooEarly \/ NotDue \/ Retry \/ Finish
  BY <1>9, WorkerFacts DEF TooEarly, NotDue, Retry, Finish, CopyAgrees
<1> QED
  BY <1>1, <1>2, <1>3, <1>4, <1>5, <1>6, <1>7, <1>8, <1>9 DEF Next

IntakeInv == TypeOK /\ CopyAgrees

\* A step that leaves what the inputs say, whom they belong to and the copy alone
\* is no step of AgenticIntake.
LEMMA Unseen ==
  ASSUME DOMAIN inputs' = DOMAIN inputs,
         \A p \in DOMAIN inputs : /\ inputs'[p].generation = inputs[p].generation
                                  /\ inputs'[p].comments = inputs[p].comments,
         \A p \in DOMAIN inputs : Answered(p)' <=> Answered(p),
         Reconciling' = Reconciling
  PROVE  UNCHANGED Intake!vars
<1>1. \A p \in PullRequest : InputOf(p)'.comments = InputOf(p).comments
  BY DEF InputOf, Known
<1>2. Pending' = Pending
  BY <1>1 DEF Pending
<1>3. Owed' = Owed
  BY DEF Owed
<1> QED BY <1>2, <1>3 DEF Intake!vars

LEMMA EnqueueArrives ==
  ASSUME IntakeInv, NEW p \in PullRequest, NEW c \in Comment \cup {None}, Enqueue(p, c)
  PROVE  Intake!Arrive(p, c)
<1>1. /\ DOMAIN inputs' = DOMAIN inputs \cup {p}
      /\ inputs'[p].generation = InputOf(p).generation + 1
      /\ inputs'[p].comments = Extended(p, c)
      /\ \A q \in DOMAIN inputs : q # p => inputs'[q] = inputs[q]
  BY EnqueueFacts DEF IntakeInv
<1>2. worker' = worker
  BY DEF Enqueue
<1>3. Pending' = [Pending EXCEPT ![p] = Extended(p, c)]
  BY <1>1 DEF Pending, InputOf, Known
<1>4. Pending' = IF c = None \/ Intake!Queued(p, c) THEN Pending
                 ELSE [Pending EXCEPT ![p] = Append(@, c)]
  <2>1. Intake!Queued(p, c) <=> Queued(p, c)
    BY DEF Intake!Queued, Queued, Pending
  <2>2. CASE c = None \/ Queued(p, c)
    BY <1>3, <2>1, <2>2 DEF Extended, Pending
  <2>3. CASE ~(c = None \/ Queued(p, c))
    BY <1>3, <2>1, <2>3 DEF Extended, Pending
  <2> QED BY <2>2, <2>3
<1>5. ~Answered(p)'
  <2>1. InputOf(p).generation \in Nat /\ (Known(p) => InputOf(p) = inputs[p])
    BY InputFacts DEF IntakeInv, Input
  <2>2. worker.generation \in Nat
    BY WorkerFacts DEF IntakeInv
  <2>3. ASSUME worker.pr = p, worker.pc \in {"reconcile", "finish"}, worker.found
        PROVE  worker.generation # inputs'[p].generation
    <3>1. Known(p) /\ worker.generation <= inputs[p].generation
      BY <2>3 DEF IntakeInv, CopyAgrees
    <3> QED BY <1>1, <2>1, <2>2, <3>1
  <2> QED BY <1>2, <2>3 DEF Answered
<1>6. Owed' = Owed \cup {p}
  BY <1>1, <1>2, <1>5 DEF Owed, Answered
<1> QED BY <1>2, <1>4, <1>6 DEF Intake!Arrive, Reconciling

LEMMA CopyBegins ==
  ASSUME IntakeInv, Copy
  PROVE  UNCHANGED Intake!vars \/ \E p \in PullRequest : Intake!Begin(p)
<1> DEFINE p == worker.pr
<1>1. p \in PullRequest /\ p # None
  BY WorkerFacts DEF Copy, IntakeInv
<1>2. /\ worker.pc = "got" /\ inputs' = inputs
      /\ worker'.pr = p /\ worker'.pc = "reconcile" /\ worker'.found = Known(p)
      /\ worker'.generation = InputOf(p).generation
      /\ worker'.comment = Oldest(InputOf(p).comments)
  BY DEF Copy, IntakeInv, TypeOK, Work
<1>3. Pending' = Pending
  BY <1>2 DEF Pending, InputOf, Known
<1> HIDE DEF p
<1>4. CASE Known(p)
  <2>1. worker'.found = TRUE /\ InputOf(p) = inputs[p] /\ p \in DOMAIN inputs
    BY <1>2, <1>4 DEF Known, InputOf
  <2>2. Reconciling = {} /\ Reconciling' = {<<p, Oldest(InputOf(p).comments)>>}
    BY <1>2, <2>1 DEF Reconciling
  <2>3. Intake!Oldest(p) = Oldest(InputOf(p).comments)
    BY <1>1 DEF Intake!Oldest, Oldest, Pending
  <2>4. Owed = DOMAIN inputs /\ Owed' = DOMAIN inputs \ {p}
    BY <1>2, <2>1 DEF Owed, Answered
  <2>5. Intake!Begin(p)
    BY <1>3, <2>1, <2>2, <2>3, <2>4 DEF Intake!Begin
  <2> QED BY <1>1, <2>5
<1>5. CASE ~Known(p)
  <2>1. ~worker'.found
    BY <1>2, <1>5
  <2>2. Reconciling = {} /\ Reconciling' = {}
    BY <1>2, <2>1 DEF Reconciling
  <2>3. Owed' = Owed
    BY <1>2, <2>1 DEF Owed, Answered
  <2> QED BY <1>3, <2>2, <2>3 DEF Intake!vars
<1> QED BY <1>4, <1>5

LEMMA ReconcileWakes ==
  ASSUME IntakeInv, Reconcile \/ RecoverLate
  PROVE  UNCHANGED Intake!vars \/ \E p \in PullRequest : Intake!Wake(p)
<1>1. PICK error : Reconciled(error)
  BY DEF Reconcile, RecoverLate
<1>2. /\ inputs' = inputs /\ worker.pc = "reconcile" /\ worker'.pc = "finish"
      /\ worker'.pr = worker.pr /\ worker'.found = worker.found
      /\ worker'.generation = worker.generation /\ worker'.comment = worker.comment
  BY <1>1 DEF Reconcile, RecoverLate, MayGoOn, Reconciled, IntakeInv, TypeOK, Work
<1>3. worker.pr \in PullRequest
  BY <1>2, WorkerFacts DEF IntakeInv
<1>4. Pending' = Pending /\ Owed' = Owed
  BY <1>2 DEF Pending, InputOf, Known, Owed, Answered
<1>5. CASE worker.found
  BY <1>2, <1>4, <1>5 DEF Reconciling, Intake!vars
<1>6. CASE ~worker.found
  <2>1. worker.comment = None
    BY <1>2, <1>6 DEF IntakeInv, CopyAgrees
  <2>2. Reconciling = {} /\ Reconciling' = {<<worker.pr, None>>}
    BY <1>2, <1>6, <2>1 DEF Reconciling
  <2> QED BY <1>3, <1>4, <2>2 DEF Intake!Wake
<1> QED BY <1>5, <1>6

LEMMA RetryPostpones ==
  ASSUME IntakeInv, Retry
  PROVE  \E p \in PullRequest : Intake!Postpone(p)
<1> DEFINE p == worker.pr
           after == IF worker.error = "throttled" THEN RetryAfter ELSE Backoff
           new == [InputOf(p) EXCEPT !.retries = @ + 1,
                     !.retryAt = IF worker.error = "throttled" THEN after ELSE @]
<1>1. p \in PullRequest /\ worker.comment \in Comment \cup {None}
  BY WorkerFacts DEF Retry, IntakeInv
<1>2. inputs' = Put(inputs, p, new) /\ worker.pc = "finish" /\ worker' = Idle
  BY DEF Retry
<1>3. new.comments = InputOf(p).comments
  BY <1>1, InputFacts DEF IntakeInv, Input
<1> HIDE DEF p, new
<1>4. /\ DOMAIN inputs' = DOMAIN inputs \cup {p}
      /\ inputs'[p].comments = InputOf(p).comments
      /\ \A q \in DOMAIN inputs : q # p => inputs'[q] = inputs[q]
  BY <1>2, <1>3 DEF Put
<1>5. Pending' = Pending
  BY <1>4 DEF Pending, InputOf, Known
<1>6. Owed' = Owed \cup {p}
  BY <1>2, <1>4 DEF Owed, Answered, Idle, p
<1>7. Reconciling = {<<p, worker.comment>>} /\ Reconciling' = {}
  BY <1>2 DEF Reconciling, Idle, p
<1> QED BY <1>1, <1>5, <1>6, <1>7 DEF Intake!Postpone

LEMMA FinishConcludes ==
  ASSUME IntakeInv, Finish
  PROVE  \E p \in PullRequest : Intake!Conclude(p)
<1>0. PICK p \in PullRequest, c \in Comment \cup {None} : p = worker.pr /\ c = worker.comment
  BY WorkerFacts DEF Finish, IntakeInv
<1> DEFINE again == Known(p) /\ ~Settled(p)
           new == [inputs[p] EXCEPT !.comments = Remaining(p), !.retries = 0, !.retryAt = 0]
<1>1. worker.pc = "finish" /\ worker' = Idle
  BY DEF Finish
<1>2. /\ again => inputs' = Put(inputs, p, new)
      /\ ~again => inputs' = Without(inputs, p)
  BY <1>0 DEF Finish
<1>3. Known(p) => InputOf(p) = inputs[p] /\ inputs[p].comments \in Seq(Comment)
                    /\ new.comments = Remaining(p)
  BY InputFacts DEF IntakeInv, Input
<1>4. Settled(p) <=> Remaining(p) = <<>> /\ inputs[p].generation = worker.generation
  BY <1>0 DEF Settled
<1>5. /\ worker.found => Known(p)
      /\ c # None => /\ worker.found /\ inputs[p].comments # <<>>
                     /\ Head(inputs[p].comments) = c
      /\ ~worker.found => worker.generation = 0 /\ (Known(p) => inputs[p].generation > 0)
  BY <1>0, <1>1 DEF IntakeInv, CopyAgrees
<1>6. Known(p) => Remaining(p) = IF c = None THEN inputs[p].comments
                                 ELSE Tail(inputs[p].comments)
  BY <1>0, <1>5 DEF Remaining, Oldest
<1>7. /\ ~Known(p) => Pending[p] = <<>> /\ c = None
      /\ Known(p) => Pending[p] = inputs[p].comments
  BY <1>1, <1>3, <1>5 DEF Pending, InputOf, NewInput
<1> DEFINE rest == IF c = None THEN Pending[p] ELSE Tail(Pending[p])
<1>8. /\ again => rest = Remaining(p) /\ (rest = <<>> => inputs[p].generation # worker.generation)
      /\ ~again => rest = <<>>
  <2>1. CASE Known(p)
    <3>1. rest = Remaining(p)
      BY <1>6, <1>7, <2>1
    <3> HIDE DEF rest
    <3> QED BY <1>4, <2>1, <3>1
  <2>2. CASE ~Known(p)
    BY <1>7, <2>2
  <2> QED BY <2>1, <2>2
<1>9. \A q \in DOMAIN inputs : q # p => q \in DOMAIN inputs' /\ inputs'[q] = inputs[q]
  BY <1>2 DEF Put, Without
<1>10. /\ again => DOMAIN inputs' = DOMAIN inputs \cup {p} /\ inputs'[p] = new
       /\ ~again => DOMAIN inputs' = DOMAIN inputs \ {p}
  BY <1>2 DEF Put, Without
<1> HIDE DEF new, rest, again
<1>11. Pending' = [Pending EXCEPT ![p] = rest]
  <2>1. again => Known(p)
    BY DEF again
  <2>2. InputOf(p)'.comments = rest
    <3>1. CASE again
      BY <1>3, <1>8, <1>10, <2>1, <3>1 DEF InputOf, Known
    <3>2. CASE ~again
      BY <1>8, <1>10, <3>2 DEF InputOf, Known, NewInput
    <3> QED BY <3>1, <3>2
  <2>3. \A q \in PullRequest : q # p => InputOf(q)'.comments = InputOf(q).comments
    <3>1. ASSUME NEW q \in PullRequest, q # p
          PROVE  InputOf(q)'.comments = InputOf(q).comments
      <4>1. Known(q)' <=> Known(q)
        BY <1>10, <3>1 DEF Known
      <4> QED BY <1>9, <3>1, <4>1 DEF InputOf, Known
    <3> QED BY <3>1
  <2>4. Pending' = [q \in PullRequest |-> InputOf(q)'.comments]
    BY DEF Pending
  <2>5. [Pending EXCEPT ![p] = rest] = [q \in PullRequest |-> IF q = p THEN rest ELSE InputOf(q).comments]
    BY <1>1 DEF Pending
  <2> QED BY <2>2, <2>3, <2>4, <2>5
<1>12. Pending'[p] = rest
  BY <1>1, <1>11 DEF Pending
<1>13. Pending' = IF c = None THEN Pending ELSE [Pending EXCEPT ![p] = Tail(@)]
  BY <1>1, <1>11 DEF rest, Pending
<1>14. Owed' = DOMAIN inputs'
  BY <1>1 DEF Owed, Answered, Idle
<1>15. Owed = IF Answered(p) THEN DOMAIN inputs \ {p} ELSE DOMAIN inputs
  BY <1>0 DEF Owed, Answered
<1>16. Answered(p) <=> worker.found /\ worker.generation = inputs[p].generation
  BY <1>0, <1>1 DEF Answered
<1>17. Owed' = IF Pending'[p] = <<>> THEN Owed ELSE Owed \cup {p}
  <2>1. CASE again /\ rest # <<>>
    BY <1>10, <1>12, <1>14, <1>15, <2>1
  <2>2. CASE again /\ rest = <<>>
    <3>1. ~Answered(p) /\ p \in DOMAIN inputs
      BY <1>8, <1>16, <2>2 DEF again, Known
    <3> QED BY <1>10, <1>12, <1>14, <1>15, <2>2, <3>1
  <2>3. CASE ~again /\ Known(p)
    <3>1. inputs[p].generation = worker.generation
      BY <1>4, <2>3 DEF again
    <3>2. Answered(p)
      BY <1>5, <1>16, <2>3, <3>1
    <3> QED BY <1>8, <1>10, <1>12, <1>14, <1>15, <2>3, <3>2
  <2>4. CASE ~again /\ ~Known(p)
    BY <1>8, <1>10, <1>12, <1>14, <1>15, <2>4 DEF Known
  <2> QED BY <2>1, <2>2, <2>3, <2>4
<1>18. Reconciling = {<<p, c>>} /\ Reconciling' = {}
  BY <1>0, <1>1 DEF Reconciling, Idle
<1> QED BY <1>1, <1>13, <1>17, <1>18 DEF Intake!Conclude

LEMMA NextIntake ==
  ASSUME IntakeInv, [Next]_vars
  PROVE  [Intake!Next]_(Intake!vars)
<1>1. CASE UNCHANGED vars
  <2>1. Pending' = Pending /\ Owed' = Owed /\ Reconciling' = Reconciling
    BY <1>1 DEF vars, Pending, InputOf, Known, Owed, Answered, Reconciling
  <2> QED BY <2>1 DEF Intake!vars
<1>2. ASSUME NEW p \in PullRequest, NEW c \in Comment \cup {None}, Enqueue(p, c)
      PROVE  Intake!Next
  BY <1>2, EnqueueArrives DEF Intake!Next
<1>3. CASE Run \/ \E p \in PullRequest : Release(p) \/ Get(p)
  <2>1. inputs' = inputs
    BY <1>3 DEF Run, Release, Get
  <2>2. worker' = worker \/ (worker.pc = "idle" /\ worker'.pc = "got")
    BY <1>3, WorkerFacts DEF Run, Release, Get, IntakeInv
  <2>3. Reconciling' = Reconciling /\ \A q : Answered(q)' <=> Answered(q)
    BY <2>1, <2>2 DEF Reconciling, Answered
  <2> QED BY <2>1, <2>3, Unseen
<1>4. CASE Tick
  <2>1. worker' = worker
    BY <1>4 DEF Tick
  <2>2. /\ DOMAIN inputs' = DOMAIN inputs
        /\ \A p \in DOMAIN inputs : /\ inputs'[p].generation = inputs[p].generation
                                    /\ inputs'[p].comments = inputs[p].comments
    BY <1>4, TickFacts DEF IntakeInv
  <2>3. Reconciling' = Reconciling /\ \A q \in DOMAIN inputs : Answered(q)' <=> Answered(q)
    BY <2>1, <2>2 DEF Reconciling, Answered
  <2> QED BY <2>2, <2>3, Unseen
<1>5. CASE TooEarly \/ NotDue
  <2>1. inputs' = inputs /\ worker' = Idle
    BY <1>5 DEF TooEarly, NotDue
  <2>2. worker.pc = "got" \/ (worker.pc = "reconcile" /\ ~worker.found)
    BY <1>5 DEF TooEarly, NotDue
  <2>3. Reconciling' = Reconciling /\ \A q : Answered(q)' <=> Answered(q)
    BY <2>1, <2>2 DEF Reconciling, Answered, Idle
  <2> QED BY <2>1, <2>3, Unseen
<1>6. CASE Copy
  BY <1>6, CopyBegins DEF Intake!Next
<1>7. CASE Reconcile \/ RecoverLate
  BY <1>7, ReconcileWakes DEF Intake!Next
<1>8. CASE Retry
  BY <1>8, RetryPostpones DEF Intake!Next
<1>9. CASE Finish
  BY <1>9, FinishConcludes DEF Intake!Next
<1> QED
  BY <1>1, <1>2, <1>3, <1>4, <1>5, <1>6, <1>7, <1>8, <1>9 DEF Next

\* Whatever comes while the worker reconciles a copy (processNext and enqueue,
\* agentic_queue.go), the queue does what AgenticIntake allows and nothing else: no
\* event is taken for answered by a reconciliation that began before it, and no
\* comment is passed over, doubled or reordered.
THEOREM ImplementsIntake == Spec => Intake!SafeSpec
<1>1. Init => Intake!Init
  <2>1. Init => Pending = [p \in PullRequest |-> <<>>]
    BY DEF Init, Pending, InputOf, NewInput, Known
  <2>2. Init => Owed = {} /\ Reconciling = {}
    BY DEF Init, Owed, Reconciling, Idle
  <2> QED BY <2>1, <2>2 DEF Intake!Init
<1>2. Init => IntakeInv
  <2>1. Init => CopyAgrees
    BY DEF Init, Idle, CopyAgrees
  <2> QED BY <2>1, InitType DEF IntakeInv
<1>3. IntakeInv /\ [Next]_vars => IntakeInv'
  BY NextType, NextAgrees DEF IntakeInv
<1>4. IntakeInv /\ [Next]_vars => [Intake!Next]_(Intake!vars)
  BY NextIntake
<1> QED BY <1>1, <1>2, <1>3, <1>4, PTL DEF Spec, Intake!SafeSpec
=============================================================================
