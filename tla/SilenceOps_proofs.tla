------------------------- MODULE SilenceOps_proofs -------------------------
(* Theorems about SilenceOps, for any ownerships, callers, requests and      *)
(* scenarios.                                                                *)
EXTENDS SilenceOps, FiniteSetTheorems, TLAPS

Actions == {"create", "expire"}

Operation == [action : Actions, owner : Owner, replaces : Owner \cup {None},
              gen : Nat \ {0}, byDrain : BOOLEAN, req : Request \cup {None},
              phase : Phases, posts : Nat]

Silence == [owner : Owner, op : Nat, gen : Nat, state : {"live", "expired", "gone"}]

Reference == [state : States, sid : Nat, gen : Nat]

Call == [pc : {"idle", "checked"}, action : Actions \cup {"none"}, owner : Owner \cup {None},
         replaces : Owner \cup {None}, gen : Nat, req : Request \cup {None}]

Steps == {"idle", "selected", "listed", "marked", "posting", "posted", "readback", "expiring"}

Ends == {"idle", "retry", "cancel", "readback", "unauthorized", "complete", "expired"}

Worker == [pc : Steps, op : Nat, overdue : BOOLEAN, live : SUBSET Nat, canon : Nat,
           sources : SUBSET Nat, todo : SUBSET Nat, then : Ends, seen : States]

Kinds ==
  /\ mode \in {"active", "draining"}
  /\ drain \in {"off", "begin", "work", "verify", "done", "failed", "aborted"}
  /\ enabled \in BOOLEAN /\ auth \in BOOLEAN
  /\ ops \in Seq(Operation) /\ silences \in Seq(Silence)
  /\ refs \in [Owner -> Reference] /\ requests \in [Request -> Nat]
  /\ caller \in [Caller -> Call] /\ worker \in Worker
  /\ reader \in [pc : {"idle", "listed"}, seen : [Owner -> Reference]]
  /\ late \subseteq [op : Nat, target : Nat] /\ overdue \subseteq Nat
  /\ used \in [Moves -> Nat]

\* Everything that is referred to exists.
Pointers ==
  /\ \A o \in Owner : refs[o].sid <= Len(silences) /\ reader.seen[o].sid <= Len(silences)
  /\ \A r \in Request : requests[r] <= Len(ops)
  /\ \A c \in Caller : caller[c].pc = "checked" =>
       /\ caller[c].action \in Actions /\ caller[c].owner \in Owner
       /\ caller[c].req \in Request
       /\ caller[c].action = "expire" => caller[c].gen > 0
  /\ worker.op <= Len(ops) /\ worker.canon <= Len(silences)
  /\ worker.live \cup worker.sources \cup worker.todo \subseteq DOMAIN silences
  /\ \A s \in DOMAIN silences : silences[s].op \in DOMAIN ops
  /\ \A x \in late : x.op \in DOMAIN ops /\ x.target <= Len(silences)
  /\ overdue \subseteq DOMAIN ops

\* The worker, the readiness loop and the drain keep out of each other's way.
Turns ==
  /\ worker.pc # "idle" => /\ worker.op \in DOMAIN ops /\ ~Terminal(Op)
                           /\ reader.pc = "idle" /\ drain \in {"off", "work"}
  /\ drain # "off" => reader.pc = "idle" /\ \A c \in Caller : caller[c].pc = "idle"

TypeInv == Kinds /\ Pointers /\ Turns
-----------------------------------------------------------------------------
(* What the steps do to operations, silences and the worker.                 *)

\* What never changes of an operation.
Like(p, q) == /\ p.action = q.action /\ p.owner = q.owner /\ p.replaces = q.replaces
              /\ p.gen = q.gen /\ p.req = q.req

\* One operation changes its phase.
PhaseTo(k, p) ==
  /\ ops' \in Seq(Operation) /\ Len(ops') = Len(ops)
  /\ \A i \in DOMAIN ops : /\ Like(ops'[i], ops[i]) /\ ops'[i].posts = ops[i].posts
                           /\ ops'[i].phase = IF i = k THEN p ELSE ops[i].phase

\* Silences expire and vanish, and none appears.
Fades ==
  /\ silences' \in Seq(Silence) /\ Len(silences') = Len(silences)
  /\ \A s \in DOMAIN silences :
       /\ silences'[s].owner = silences[s].owner /\ silences'[s].op = silences[s].op
       /\ silences'[s].gen = silences[s].gen
       /\ silences'[s].state = "live" => silences[s].state = "live"
       /\ silences[s].state = "gone" => silences'[s].state = "gone"

LEMMA PhaseFacts ==
  ASSUME Kinds, NEW k \in DOMAIN ops, NEW p \in Phases, ops' = [ops EXCEPT ![k].phase = p]
  PROVE  PhaseTo(k, p)
<1> DEFINE y == [ops[k] EXCEPT !.phase = p]
<1>1. ops \in Seq(Operation) /\ ops[k] \in Operation
  BY DEF Kinds
<1>2. y \in Operation
  BY <1>1 DEF Operation
<1>3. y.posts = ops[k].posts /\ y.phase = p
  BY <1>1 DEF Operation
<1>4. Like(y, ops[k])
  BY <1>1 DEF Operation, Like
<1>5. ops' = [ops EXCEPT ![k] = y]
  OBVIOUS
<1> HIDE DEF y
<1>6. /\ ops' \in Seq(Operation) /\ Len(ops') = Len(ops)
      /\ \A i \in DOMAIN ops : ops'[i] = IF i = k THEN y ELSE ops[i]
  BY <1>1, <1>2, <1>5
<1>7. \A i \in DOMAIN ops : Like(ops[i], ops[i])
  BY DEF Like
<1> QED BY <1>3, <1>4, <1>6, <1>7 DEF PhaseTo

LEMMA PhaseSame ==
  ASSUME Kinds, ops' = ops, NEW k \in DOMAIN ops
  PROVE  PhaseTo(k, ops[k].phase)
BY DEF Kinds, PhaseTo, Like

LEMMA StateFacts ==
  ASSUME Kinds, NEW s \in DOMAIN silences, NEW t \in {"expired", "gone"},
         t = "expired" => silences[s].state = "live",
         silences' = [silences EXCEPT ![s].state = t]
  PROVE  Fades /\ silences'[s].state = t
               /\ \A r \in DOMAIN silences : r # s => silences'[r] = silences[r]
<1> DEFINE y == [silences[s] EXCEPT !.state = t]
<1>1. silences \in Seq(Silence) /\ silences[s] \in Silence
  BY DEF Kinds
<1>2. y \in Silence /\ y.state = t
  BY <1>1 DEF Silence
<1>3. y.owner = silences[s].owner /\ y.op = silences[s].op /\ y.gen = silences[s].gen
  BY <1>1 DEF Silence
<1>4. silences' = [silences EXCEPT ![s] = y]
  OBVIOUS
<1> HIDE DEF y
<1>5. /\ silences' \in Seq(Silence) /\ Len(silences') = Len(silences)
      /\ \A r \in DOMAIN silences : silences'[r] = IF r = s THEN y ELSE silences[r]
  BY <1>1, <1>2, <1>4
<1> QED BY <1>2, <1>3, <1>5 DEF Fades

LEMMA FadesSame ==
  ASSUME Kinds, silences' = silences
  PROVE  Fades
BY DEF Kinds, Fades

LEMMA SpendFacts ==
  ASSUME Kinds, NEW m \in Moves, Spend(m)
  PROVE  used' \in [Moves -> Nat] /\ \A x \in Moves : used'[x] = IF x = m THEN used[x] + 1
                                                               ELSE used[x]
<1>1. used \in [Moves -> Nat] /\ used' = [used EXCEPT ![m] = used[m] + 1]
  BY DEF Kinds, Spend
<1>2. used[m] + 1 \in Nat
  BY <1>1
<1> QED BY <1>1, <1>2

LEMMA IdleFacts == Idle \in Worker /\ Idle.pc = "idle" /\ Idle.op = 0 /\ Idle.canon = 0
                   /\ Idle.live \cup Idle.sources \cup Idle.todo = {}
BY DEF Idle, Worker, Steps, Ends, States

LEMMA NoRefFacts == NoRef \in Reference /\ NoRef.sid = 0 /\ NoRef.gen = 0 /\ NoRef.state = "none"
BY DEF NoRef, Reference, States

LEMMA UnreadFacts ==
  /\ Unread \in [pc : {"idle", "listed"}, seen : [Owner -> Reference]]
  /\ Unread.pc = "idle" /\ \A o \in Owner : Unread.seen[o].sid = 0
BY NoRefFacts DEF Unread

LEMMA UnaskedFacts == Unasked \in Call /\ Unasked.pc = "idle"
BY DEF Unasked, Call

LEMMA TypeInit == Init => TypeInv
<1> SUFFICES ASSUME Init PROVE TypeInv
  OBVIOUS
<1>1. Kinds
  BY IdleFacts, NoRefFacts, UnreadFacts, UnaskedFacts DEF Init, Kinds, Moves
<1>2. Pointers
  BY IdleFacts, NoRefFacts, UnreadFacts, UnaskedFacts DEF Init, Pointers
<1>3. Turns
  BY IdleFacts DEF Init, Turns
<1> QED BY <1>1, <1>2, <1>3 DEF TypeInv

-----------------------------------------------------------------------------
(* The worker goes on with an operation.                                     *)

\* What it holds beyond the operation, and refers to.
WorkerRefers ==
  /\ worker' \in Worker /\ worker'.op = worker.op /\ worker'.overdue = worker.overdue
  /\ worker'.canon <= Len(silences)
  /\ worker'.live \cup worker'.sources \cup worker'.todo \subseteq DOMAIN silences

LEMMA LiveFacts ==
  /\ \A o \in Owner \cup {None} : LiveOf(o) \subseteq DOMAIN silences
  /\ Sources \subseteq DOMAIN silences /\ Marked \subseteq DOMAIN silences
BY DEF LiveOf, Owned, Sources, Marked

LEMMA ListFacts ==
  ASSUME TypeInv, List
  PROVE  /\ WorkerRefers /\ worker'.pc = "listed"
         /\ worker'.live = LiveOf(Op.owner) /\ worker'.sources = Sources
         /\ \/ worker'.canon = 0 /\ Marked = {}
            \/ worker'.canon \in Marked
<1>1. PICK canon \in IF Marked = {} THEN {0} ELSE Marked :
        worker' = [worker EXCEPT !.pc = "listed", !.live = LiveOf(Op.owner),
                                 !.canon = canon, !.sources = Sources]
  BY DEF List, Goes
<1>2. /\ worker \in Worker /\ Len(silences) \in Nat /\ DOMAIN silences = 1..Len(silences)
      /\ worker.todo \subseteq DOMAIN silences
  BY DEF TypeInv, Kinds, Pointers
<1>3. /\ canon \in Nat /\ canon <= Len(silences)
      /\ LiveOf(Op.owner) \subseteq DOMAIN silences /\ Sources \subseteq DOMAIN silences
  BY <1>1, <1>2, LiveFacts DEF LiveOf, Owned
<1> DEFINE live == LiveOf(Op.owner)
           sources == Sources
<1>4. live \in SUBSET Nat /\ sources \in SUBSET Nat
  BY <1>2, <1>3
<1>5. worker' = [worker EXCEPT !.pc = "listed", !.live = live, !.canon = canon,
                               !.sources = sources]
  BY <1>1
<1>6. live = LiveOf(Op.owner) /\ sources = Sources
  OBVIOUS
<1> HIDE DEF live, sources
<1>7. worker' \in Worker
  BY <1>2, <1>3, <1>4, <1>5 DEF Worker, Steps
<1>8. worker'.pc = "listed" /\ worker'.live = live /\ worker'.canon = canon
      /\ worker'.sources = sources
  BY <1>2, <1>5 DEF Worker
<1>9. worker'.op = worker.op /\ worker'.overdue = worker.overdue /\ worker'.todo = worker.todo
  BY <1>2, <1>5 DEF Worker
<1> QED BY <1>1, <1>2, <1>3, <1>6, <1>7, <1>8, <1>9 DEF WorkerRefers

LEMMA ExpiringFacts ==
  ASSUME TypeInv, NEW todo \in SUBSET DOMAIN silences, NEW then \in Ends,
         Expiring(todo, then)
  PROVE  /\ WorkerRefers /\ worker'.pc = "expiring"
         /\ worker'.todo = todo /\ worker'.then = then /\ worker'.live = worker.live
         /\ worker'.canon = worker.canon /\ worker'.sources = worker.sources
<1>1. worker' = [worker EXCEPT !.pc = "expiring", !.todo = todo, !.then = then]
  BY DEF Expiring, Goes
<1>2. /\ worker \in Worker /\ Len(silences) \in Nat /\ DOMAIN silences = 1..Len(silences)
      /\ worker.live \cup worker.sources \subseteq DOMAIN silences
      /\ worker.canon <= Len(silences)
  BY DEF TypeInv, Kinds, Pointers
<1>6. todo \in SUBSET Nat
  BY <1>2
<1>3. worker' \in Worker
  BY <1>1, <1>2, <1>6 DEF Worker, Steps
<1>4. worker'.pc = "expiring" /\ worker'.todo = todo /\ worker'.then = then
  BY <1>1, <1>2 DEF Worker
<1>5. /\ worker'.op = worker.op /\ worker'.overdue = worker.overdue
      /\ worker'.live = worker.live /\ worker'.canon = worker.canon
      /\ worker'.sources = worker.sources
  BY <1>1, <1>2 DEF Worker
<1> QED BY <1>2, <1>3, <1>4, <1>5 DEF WorkerRefers

\* Only the step changes.
LEMMA StepFacts ==
  ASSUME TypeInv, NEW pc \in Steps, worker' = [worker EXCEPT !.pc = pc]
  PROVE  /\ WorkerRefers /\ worker'.pc = pc
         /\ worker'.live = worker.live /\ worker'.canon = worker.canon
         /\ worker'.sources = worker.sources /\ worker'.todo = worker.todo
         /\ worker'.then = worker.then
<1>1. worker \in Worker
  BY DEF TypeInv, Kinds
<1>2. worker' \in Worker /\ worker'.pc = pc
  BY <1>1 DEF Worker
<1>3. /\ worker'.op = worker.op /\ worker'.overdue = worker.overdue
      /\ worker'.live = worker.live /\ worker'.canon = worker.canon
      /\ worker'.sources = worker.sources /\ worker'.todo = worker.todo
      /\ worker'.then = worker.then
  BY <1>1 DEF Worker
<1> QED BY <1>2, <1>3 DEF WorkerRefers, TypeInv, Pointers

LEMMA AcceptedFacts ==
  ASSUME TypeInv, NEW canon \in Marked,
         worker' = [worker EXCEPT !.pc = "posted", !.canon = canon]
  PROVE  /\ WorkerRefers /\ worker'.pc = "posted" /\ worker'.canon = canon
         /\ worker'.live = worker.live /\ worker'.sources = worker.sources
<1>1. worker \in Worker /\ Len(silences) \in Nat /\ DOMAIN silences = 1..Len(silences)
  BY DEF TypeInv, Kinds
<1>2. canon \in Nat /\ canon <= Len(silences)
  BY <1>1, LiveFacts
<1>3. worker' \in Worker
  BY <1>1, <1>2 DEF Worker, Steps
<1>4. worker'.pc = "posted" /\ worker'.canon = canon
  BY <1>1 DEF Worker
<1>5. /\ worker'.op = worker.op /\ worker'.overdue = worker.overdue
      /\ worker'.live = worker.live /\ worker'.sources = worker.sources
      /\ worker'.todo = worker.todo
  BY <1>1 DEF Worker
<1> QED BY <1>2, <1>3, <1>4, <1>5 DEF WorkerRefers, TypeInv, Pointers

LEMMA PostedFacts ==
  ASSUME TypeInv, Posted
  PROVE  /\ WorkerRefers /\ worker'.pc = "expiring" /\ worker'.then = "readback"
         /\ worker'.todo = LiveOf(Op.owner) \ {worker.canon} /\ worker'.sources = Sources
         /\ worker'.canon = worker.canon /\ worker'.live = worker.live
<1> DEFINE todo == LiveOf(Op.owner) \ {worker.canon}
           sources == Sources
<1>1. worker' = [worker EXCEPT !.pc = "expiring", !.then = "readback", !.sources = sources,
                               !.todo = todo]
  BY DEF Posted, Goes
<1>2. /\ worker \in Worker /\ Len(silences) \in Nat /\ DOMAIN silences = 1..Len(silences)
      /\ worker.live \subseteq DOMAIN silences /\ worker.canon <= Len(silences)
  BY DEF TypeInv, Kinds, Pointers
<1>3. todo \subseteq DOMAIN silences /\ sources \subseteq DOMAIN silences
  BY LiveFacts DEF LiveOf, Owned
<1>4. todo = LiveOf(Op.owner) \ {worker.canon} /\ sources = Sources
  OBVIOUS
<1> HIDE DEF todo, sources
<1>8. todo \in SUBSET Nat /\ sources \in SUBSET Nat
  BY <1>2, <1>3
<1>5. worker' \in Worker
  BY <1>1, <1>2, <1>8 DEF Worker, Steps, Ends
<1>6. worker'.pc = "expiring" /\ worker'.then = "readback" /\ worker'.todo = todo
      /\ worker'.sources = sources
  BY <1>1, <1>2 DEF Worker
<1>7. /\ worker'.op = worker.op /\ worker'.overdue = worker.overdue
      /\ worker'.live = worker.live /\ worker'.canon = worker.canon
  BY <1>1, <1>2 DEF Worker
<1> QED BY <1>2, <1>3, <1>4, <1>5, <1>6, <1>7 DEF WorkerRefers

LEMMA ReadbackFacts ==
  ASSUME TypeInv, worker.canon \in DOMAIN silences, silences[worker.canon].state # "gone",
         worker' = [worker EXCEPT !.pc = "expiring", !.then = "complete",
                      !.todo = worker.sources, !.seen = silences[worker.canon].state]
  PROVE  /\ WorkerRefers /\ worker'.pc = "expiring" /\ worker'.then = "complete"
         /\ worker'.todo = worker.sources /\ worker'.seen = silences[worker.canon].state
         /\ worker'.canon = worker.canon /\ worker'.live = worker.live
         /\ worker'.sources = worker.sources
<1> DEFINE state == silences[worker.canon].state
<1>0. worker \in Worker /\ silences[worker.canon] \in Silence
  BY DEF TypeInv, Kinds
<1>1. worker \in Worker /\ state \in {"live", "expired"}
  BY <1>0 DEF Silence
<1>2. worker' = [worker EXCEPT !.pc = "expiring", !.then = "complete",
                   !.todo = worker.sources, !.seen = state]
  OBVIOUS
<1>3. state = silences[worker.canon].state
  OBVIOUS
<1> HIDE DEF state
<1>4. worker' \in Worker
  BY <1>1, <1>2 DEF Worker, Steps, Ends, States
<1>5. worker'.pc = "expiring" /\ worker'.then = "complete" /\ worker'.todo = worker.sources
      /\ worker'.seen = state
  BY <1>1, <1>2 DEF Worker
<1>6. /\ worker'.op = worker.op /\ worker'.overdue = worker.overdue
      /\ worker'.live = worker.live /\ worker'.canon = worker.canon
      /\ worker'.sources = worker.sources
  BY <1>1, <1>2 DEF Worker
<1> QED BY <1>3, <1>4, <1>5, <1>6 DEF WorkerRefers, TypeInv, Pointers

\* One silence less to expire.
LEMMA TodoFacts ==
  ASSUME TypeInv, NEW s, worker' = [worker EXCEPT !.todo = worker.todo \ {s}]
  PROVE  /\ WorkerRefers /\ worker'.pc = worker.pc /\ worker'.then = worker.then
         /\ worker'.todo = worker.todo \ {s} /\ worker'.canon = worker.canon
         /\ worker'.sources = worker.sources /\ worker'.seen = worker.seen
         /\ worker'.live = worker.live
<1> DEFINE todo == worker.todo \ {s}
<1>1. worker \in Worker /\ todo \in SUBSET Nat
  BY DEF TypeInv, Kinds, Worker
<1>2. worker' = [worker EXCEPT !.todo = todo]
  OBVIOUS
<1>3. todo = worker.todo \ {s}
  OBVIOUS
<1> HIDE DEF todo
<1>4. worker' \in Worker /\ worker'.todo = todo
  BY <1>1, <1>2 DEF Worker
<1>5. /\ worker'.op = worker.op /\ worker'.overdue = worker.overdue
      /\ worker'.live = worker.live /\ worker'.canon = worker.canon
      /\ worker'.sources = worker.sources
      /\ worker'.then = worker.then /\ worker'.pc = worker.pc /\ worker'.seen = worker.seen
  BY <1>1, <1>2 DEF Worker
<1> QED BY <1>3, <1>4, <1>5 DEF WorkerRefers, TypeInv, Pointers

-----------------------------------------------------------------------------
(* Types.                                                                    *)

\* The operation of the worker is not over, and has a first owner.
LEMMA OpFacts ==
  ASSUME TypeInv, worker.pc # "idle"
  PROVE  /\ worker.op \in DOMAIN ops /\ Op \in Operation /\ ~Terminal(Op)
         /\ Op.owner \in Owner /\ Op.replaces \in Owner \cup {None}
         /\ reader.pc = "idle" /\ drain \in {"off", "work"}
<1>1. worker.op \in DOMAIN ops /\ ops \in Seq(Operation)
  BY DEF TypeInv, Kinds, Turns
<1>2. Op \in Operation
  BY <1>1 DEF Op
<1> QED BY <1>1, <1>2 DEF TypeInv, Turns, Operation

\* The worker goes on: its operation may be marked or submitted, silences may expire.
LEMMA TypeGoes ==
  ASSUME TypeInv, WorkerRefers, worker.pc # "idle", worker'.pc # "idle",
         ops' \in Seq(Operation), Len(ops') = Len(ops), ~Terminal(ops'[worker.op]), Fades,
         late' \subseteq [op : Nat, target : Nat],
         \A x \in late' : x.op \in DOMAIN ops /\ x.target <= Len(silences),
         used' \in [Moves -> Nat],
         UNCHANGED <<mode, refs, requests, drain, caller, reader, enabled, auth, overdue>>
  PROVE  TypeInv'
<1>1. Kinds'
  BY DEF TypeInv, Kinds, WorkerRefers, Fades
<1>2. DOMAIN ops' = DOMAIN ops /\ DOMAIN silences' = DOMAIN silences
  BY DEF TypeInv, Kinds, Fades
<1>3. Pointers'
  BY <1>2 DEF TypeInv, Pointers, WorkerRefers, Fades
<1>4. Turns'
  BY <1>2 DEF TypeInv, Turns, Op, WorkerRefers
<1> QED BY <1>1, <1>3, <1>4 DEF TypeInv

\* An attempt ends, and may change references.
LEMMA TypeEnds ==
  ASSUME TypeInv, worker.pc # "idle", AttemptEnds,
         ops' \in Seq(Operation), Len(ops') = Len(ops), Fades,
         refs' \in [Owner -> Reference], \A o \in Owner : refs'[o].sid <= Len(silences),
         late' \subseteq late, used' \in [Moves -> Nat],
         UNCHANGED <<mode, requests, caller, reader, enabled, auth, overdue>>
  PROVE  TypeInv'
<1>0. worker' = Idle /\ drain' \in {"off", "begin"} /\ (drain' # "off" => drain # "off")
  BY DEF AttemptEnds
<1>1. Kinds'
  BY <1>0, IdleFacts DEF TypeInv, Kinds, Fades
<1>2. DOMAIN ops' = DOMAIN ops /\ DOMAIN silences' = DOMAIN silences
  BY DEF TypeInv, Kinds, Fades
<1>3. Pointers'
  <2>1. \A s \in DOMAIN silences' : silences'[s].op \in DOMAIN ops'
    BY <1>2 DEF TypeInv, Pointers, Fades
  <2>2. Len(ops') = Len(ops) /\ Len(silences') = Len(silences)
    BY DEF Fades
  <2> QED BY <1>0, <1>2, <2>1, <2>2, IdleFacts DEF TypeInv, Pointers, Kinds
<1>4. Turns'
  BY <1>0, IdleFacts DEF TypeInv, Turns
<1> QED BY <1>1, <1>3, <1>4 DEF TypeInv

\* Something happens while the worker does nothing.
LEMMA TypeRest ==
  ASSUME TypeInv, Kinds', Pointers', Len(ops) <= Len(ops'),
         worker.pc # "idle" => ops'[worker.op] = Op /\ UNCHANGED <<reader, drain>>,
         worker' = worker,
         drain' # "off" => reader'.pc = "idle" /\ \A c \in Caller : caller'[c].pc = "idle"
  PROVE  TypeInv'
<1>1. worker.pc # "idle" => worker.op \in DOMAIN ops'
  BY OpFacts DEF TypeInv, Kinds
<1>2. Turns'
  BY <1>1, OpFacts DEF TypeInv, Turns, Op
<1> QED BY <1>2 DEF TypeInv

LEMMA TypeAsk ==
  ASSUME TypeInv, NEW c \in Caller, NEW r \in Request, NEW o \in Owner,
         NEW p \in Owner \cup {None}, AskCreate(c, r, o, p) \/ AskExpire(c, r, o)
  PROVE  TypeInv'
<1>1. UNCHANGED <<mode, ops, refs, requests, worker, reader, drain, enabled, auth, silences,
                  late, overdue, used>> /\ drain = "off"
  BY DEF AskCreate, AskExpire, durable, world, Serving
<1>2. refs[o].gen \in Nat
  BY DEF TypeInv, Kinds, Reference
<1>3. PICK call \in Call : /\ caller' = [caller EXCEPT ![c] = call]
                           /\ call.action \in Actions /\ call.owner \in Owner
                           /\ call.req \in Request
                           /\ call.action = "expire" => call.gen > 0
  <2>1. CASE AskCreate(c, r, o, p)
    <3> DEFINE call == [pc |-> "checked", action |-> "create", owner |-> o, replaces |-> p,
                        gen |-> 0, req |-> r]
    <3>1. call \in Call
      BY DEF Call, Actions
    <3> QED BY <2>1, <3>1 DEF AskCreate, Actions
  <2>2. CASE AskExpire(c, r, o)
    <3> DEFINE call == [pc |-> "checked", action |-> "expire", owner |-> o, replaces |-> None,
                        gen |-> refs[o].gen + 1, req |-> r]
    <3>1. call \in Call /\ call.gen > 0
      BY <1>2 DEF Call, Actions
    <3> QED BY <2>2, <3>1 DEF AskExpire, Actions
  <2> QED BY <2>1, <2>2
<1>4. caller' \in [Caller -> Call] /\ \A d \in Caller : caller'[d] = IF d = c THEN call
                                                                  ELSE caller[d]
  BY <1>3 DEF TypeInv, Kinds
<1>5. Kinds'
  BY <1>1, <1>4 DEF TypeInv, Kinds
<1>6. Pointers'
  BY <1>1, <1>3, <1>4 DEF TypeInv, Pointers
<1>7. Len(ops) <= Len(ops')
  BY <1>1 DEF TypeInv, Kinds
<1> QED BY <1>1, <1>5, <1>6, <1>7, TypeRest DEF Op

-----------------------------------------------------------------------------
(* Registration.                                                             *)

\* A set of numbers with a bound has a greatest one: the numbers up to one of the set are
\* 0..n-1 for their number n.
LEMMA Greatest ==
  ASSUME NEW S, S \subseteq Nat, S # {}, NEW b \in Nat, \A g \in S : g <= b
  PROVE  \E m \in S : \A g \in S : g <= m
<1> DEFINE D == {g \in 0..b : \E h \in S : g <= h}
           n == Cardinality(D)
<1>1. IsFiniteSet(0..b) /\ D \in SUBSET (0..b)
  BY FS_Interval
<1>2. IsFiniteSet(D) /\ n \in Nat
  BY <1>1, FS_Subset, FS_CardinalityType
<1>3. S \subseteq D
  OBVIOUS
<1>4. \A g \in D, k \in Nat : k <= g => k \in D
  OBVIOUS
<1>5. n # 0
  <2>1. D # {}
    BY <1>3
  <2> QED BY <1>2, <2>1, FS_EmptySet
<1>6. D \subseteq Nat
  OBVIOUS
<1> HIDE DEF n, D
<1>7. n - 1 \in D
  <2> SUFFICES ASSUME n - 1 \notin D PROVE FALSE
    OBVIOUS
  <2>1. \A g \in D : g \in 0..(n - 2)
    BY <1>2, <1>4, <1>5, <1>6
  <2>2. D \in SUBSET (0..(n - 2))
    BY <2>1
  <2>3. IsFiniteSet(0..(n - 2)) /\ Cardinality(0..(n - 2)) = n - 1
    <3>1. 0 \in Int /\ n - 2 \in Int
      BY <1>2
    <3>2. /\ IsFiniteSet(0..(n - 2))
          /\ Cardinality(0..(n - 2)) = IF 0 > n - 2 THEN 0 ELSE n - 2 - 0 + 1
      BY <3>1, FS_Interval
    <3> QED BY <1>2, <1>5, <3>2
  <2>4. Cardinality(D) <= Cardinality(0..(n - 2))
    BY <2>2, <2>3, FS_Subset
  <2> QED BY <1>2, <2>3, <2>4 DEF n
<1>8. n \notin D
  <2> SUFFICES ASSUME n \in D PROVE FALSE
    OBVIOUS
  <2>1. (0..n) \in SUBSET D
    BY <1>2, <1>4
  <2>2. Cardinality(0..n) = n + 1
    BY <1>2, FS_Interval
  <2>3. Cardinality(0..n) <= Cardinality(D)
    BY <1>2, <2>1, FS_Subset
  <2> QED BY <1>2, <2>2, <2>3 DEF n
<1>9. \A g \in D : g < n
  BY <1>2, <1>4, <1>6, <1>8
<1>10. PICK h \in S : n - 1 <= h
  BY <1>7 DEF D
<1>11. h = n - 1
  BY <1>2, <1>3, <1>6, <1>9, <1>10
<1> QED BY <1>2, <1>3, <1>6, <1>9, <1>11

Scope(op) == {op.owner, op.replaces} \ {None}

\* Of two operations of a scope the first was over when the second was registered.
InOrder ==
  \A i, j \in DOMAIN ops :
    i < j /\ Scope(ops[i]) \cap Scope(ops[j]) # {} => Terminal(ops[i])

Numbered ==
  /\ \A i \in DOMAIN ops : ops[i].req \in Request \ {None} => requests[ops[i].req] = i
  /\ \A i, j \in DOMAIN ops :
       i < j /\ ops[i].owner = ops[j].owner /\ ops[j].action = "create"
       => ops[i].gen < ops[j].gen
  /\ \A o \in Owner : \E b \in Nat : \A i \in DOMAIN ops : ops[i].owner = o => ops[i].gen <= b

\* A silence bears the ownership and the generation of its operation.
Named ==
  \A s \in DOMAIN silences : /\ silences[s].owner = ops[silences[s].op].owner
                             /\ silences[s].gen = ops[silences[s].op].gen

Registered == InOrder /\ Numbered /\ Named

\* The next generation is the highest so far.
LEMMA NextFacts ==
  ASSUME TypeInv, Registered, NEW o \in Owner
  PROVE  /\ NextGeneration(o) \in Nat \ {0}
         /\ \A i \in DOMAIN ops : ops[i].owner = o => ops[i].gen < NextGeneration(o)
<1> DEFINE known == {refs[o].gen} \cup {op.gen : op \in {x \in OpSet : x.owner = o}}
           m == CHOOSE g \in known : \A h \in known : h <= g
<1>1. /\ refs[o].gen \in Nat /\ \A i \in DOMAIN ops : ops[i] \in Operation /\ ops[i].gen \in Nat
  <2>1. refs[o].gen \in Nat /\ \A i \in DOMAIN ops : ops[i] \in Operation
    BY DEF TypeInv, Kinds, Reference
  <2> QED BY <2>1 DEF Operation
<1>2. known \subseteq Nat /\ known # {}
  BY <1>1 DEF OpSet
<1>3. PICK b \in Nat : \A i \in DOMAIN ops : ops[i].owner = o => ops[i].gen <= b
  BY DEF Registered, Numbered
<1>4. \E c \in Nat : \A g \in known : g <= c
  <2> DEFINE c == IF b <= refs[o].gen THEN refs[o].gen ELSE b
  <2>1. c \in Nat /\ b <= c /\ refs[o].gen <= c
    BY <1>1
  <2>2. ASSUME NEW g \in known PROVE g <= c
    <3>1. CASE g = refs[o].gen
      BY <2>1, <3>1
    <3>2. CASE g # refs[o].gen
      <4>1. PICK i \in DOMAIN ops : ops[i].owner = o /\ g = ops[i].gen
        BY <3>2 DEF OpSet
      <4>2. g <= b /\ g \in Nat
        BY <1>1, <1>3, <4>1
      <4> HIDE DEF c
      <4> QED BY <2>1, <4>2
    <3> QED BY <3>1, <3>2
  <2> QED BY <2>1, <2>2
<1>5. \A i \in DOMAIN ops : ops[i].owner = o => ops[i].gen \in known
  BY DEF OpSet
<1>6. NextGeneration(o) = 1 + m
  BY DEF NextGeneration
<1>7. \E g \in known : \A h \in known : h <= g
  <2> HIDE DEF known
  <2> QED BY <1>2, <1>4, Greatest
<1>8. m \in known /\ \A h \in known : h <= m
  <2> HIDE DEF known
  <2> QED BY <1>7
<1> HIDE DEF m, known
<1>9. m \in Nat
  BY <1>2, <1>8
<1>10. \A i \in DOMAIN ops : ops[i].owner = o => ops[i].gen <= m
  BY <1>5, <1>8
<1> QED BY <1>1, <1>6, <1>9, <1>10

\* An operation is added at the end, prepared, in a scope where nothing is under way.
Adds(op) ==
  /\ op \in Operation /\ op.phase = "prepared" /\ op.posts = 0
  /\ op.action = "create" => op.gen = NextGeneration(op.owner)
  /\ ~NonTerminalFor(Scope(op))

LEMMA RegisterFacts ==
  ASSUME TypeInv, Registered, NEW c \in Caller, Register(c)
  PROVE  /\ caller' \in [Caller -> Call] /\ drain = "off"
         /\ \A d \in Caller : caller'[d] = IF d = c THEN Unasked ELSE caller[d]
         /\ \/ ops' = ops /\ requests' = requests
            \/ \E op \in Operation :
                 /\ Adds(op) /\ ops' = Append(ops, op)
                 /\ op.req \in Request /\ requests[op.req] = 0
                 /\ requests' = [requests EXCEPT ![op.req] = Len(ops) + 1]
<1>1. /\ caller[c].pc = "checked" /\ caller' = [caller EXCEPT ![c] = Unasked]
  BY DEF Register
<1>2. caller' \in [Caller -> Call]
      /\ \A d \in Caller : caller'[d] = IF d = c THEN Unasked ELSE caller[d]
  BY <1>1, UnaskedFacts DEF TypeInv, Kinds
<1>3. drain = "off"
  BY <1>1 DEF TypeInv, Turns
<1>4. CASE Refused(caller[c])
  BY <1>2, <1>3, <1>4 DEF Register
<1>5. CASE ~Refused(caller[c])
  <2> DEFINE call == caller[c]
             gen == IF call.action = "create" THEN NextGeneration(call.owner) ELSE call.gen
             op == NewOperation(call.action, call.owner, call.replaces, gen, FALSE, call.req)
  <2>1. /\ ops' = Append(ops, op)
        /\ requests' = [requests EXCEPT ![call.req] = Len(ops) + 1]
    BY <1>5 DEF Register
  <2>2. call \in Call /\ call.action \in Actions /\ call.owner \in Owner /\ call.req \in Request
        /\ (call.action = "expire" => call.gen > 0)
    BY <1>1 DEF TypeInv, Kinds, Pointers
  <2>3. call.replaces \in Owner \cup {None} /\ call.gen \in Nat
    BY <2>2 DEF Call
  <2>4. gen \in Nat \ {0}
    BY <2>2, <2>3, NextFacts DEF Actions
  <2>5. requests[call.req] = 0 /\ ~NonTerminalFor({call.owner, call.replaces} \ {None})
    BY <1>5 DEF Refused
  <2>6. gen = IF call.action = "create" THEN NextGeneration(call.owner) ELSE call.gen
    OBVIOUS
  <2>9. op = NewOperation(call.action, call.owner, call.replaces, gen, FALSE, call.req)
    OBVIOUS
  <2> HIDE DEF gen, op, call
  <2>7. /\ op \in Operation /\ op.phase = "prepared" /\ op.posts = 0
        /\ op.action = call.action /\ op.owner = call.owner /\ op.replaces = call.replaces
        /\ op.gen = gen /\ op.req = call.req
    BY <2>2, <2>3, <2>4, <2>9 DEF NewOperation, Operation, Phases
  <2>8. Adds(op)
    BY <2>5, <2>6, <2>7 DEF Adds, Scope
  <2> QED BY <1>2, <1>3, <2>1, <2>2, <2>5, <2>7, <2>8
<1> QED BY <1>4, <1>5

\* The drain keeps the references of what is live, and adds an expiry for each that is.
LEMMA BeginFacts ==
  ASSUME TypeInv, Begin
  PROVE  /\ refs' \in [Owner -> Reference]
         /\ \A o \in Owner : refs'[o].sid <= Len(silences) /\ refs'[o] \in Adopted(o)
         /\ \E new \in Seq(Operation) :
              /\ ops' = ops \o new
              /\ \A k \in DOMAIN new : /\ Adds(new[k]) /\ new[k].action = "expire"
                                       /\ new[k].req = None
              /\ \A j, k \in DOMAIN new : j # k => Scope(new[j]) \cap Scope(new[k]) = {}
<1>1. PICK rs \in [Owner -> UNION {Adopted(o) : o \in Owner}] :
        /\ \A o \in Owner : rs[o] \in Adopted(o)
        /\ refs' = rs
        /\ \E new \in Orders({DrainExpiry(o, rs[o]) :
                 o \in {x \in Owner : rs[x].state = "live" /\ ~NonTerminalFor({x})}}) :
             ops' = ops \o new
  BY DEF Begin
<1>2. /\ refs \in [Owner -> Reference] /\ \A o \in Owner : refs[o].sid <= Len(silences)
      /\ silences \in Seq(Silence) /\ Len(silences) \in Nat
  BY DEF TypeInv, Kinds, Pointers
<1>3. ASSUME NEW o \in Owner PROVE rs[o] \in Reference /\ rs[o].sid <= Len(silences)
  <2>1. CASE LiveOf(o) = {}
    BY <1>1, <1>2, <2>1 DEF Adopted
  <2>2. CASE LiveOf(o) # {}
    <3>1. PICK s \in LiveOf(o) :
            rs[o] = [state |-> "live", sid |-> s,
                     gen |-> IF refs[o] = NoRef THEN silences[s].gen ELSE refs[o].gen]
      BY <1>1, <2>2 DEF Adopted
    <3>2. s \in DOMAIN silences /\ s \in Nat /\ s <= Len(silences)
      BY <1>2 DEF LiveOf, Owned
    <3>3. silences[s].gen \in Nat /\ refs[o].gen \in Nat
      <4>1. silences[s] \in Silence /\ refs[o] \in Reference
        BY <1>2, <3>2
      <4> QED BY <4>1 DEF Silence, Reference
    <3> QED BY <3>1, <3>2, <3>3 DEF Reference, States
  <2> QED BY <2>1, <2>2
<1>4. refs' \in [Owner -> Reference]
  BY <1>1, <1>3
<1> DEFINE due == {x \in Owner : rs[x].state = "live" /\ ~NonTerminalFor({x})}
           S == {DrainExpiry(o, rs[o]) : o \in due}
<1>5. PICK new \in Orders(S) : ops' = ops \o new
  BY <1>1
<1>6. ASSUME NEW o \in due
      PROVE  LET op == DrainExpiry(o, rs[o])
             IN  /\ op \in Operation /\ Adds(op) /\ op.action = "expire" /\ op.req = None
                 /\ op.owner = o /\ Scope(op) = {o}
  <2> DEFINE gen == rs[o].gen + 1
             op == NewOperation("expire", o, None, gen, TRUE, None)
  <2>1. gen \in Nat \ {0}
    BY <1>3 DEF Reference
  <2>2. op = DrainExpiry(o, rs[o]) /\ op = NewOperation("expire", o, None, gen, TRUE, None)
    BY DEF DrainExpiry
  <2> HIDE DEF op, gen
  <2>3. /\ op \in Operation /\ op.phase = "prepared" /\ op.posts = 0
        /\ op.action = "expire" /\ op.owner = o /\ op.replaces = None /\ op.req = None
    BY <2>1, <2>2 DEF NewOperation, Operation, Phases, Actions
  <2>4. ~NonTerminalFor({o}) /\ o # None
    BY ParameterAssumption
  <2>5. Scope(op) = {o}
    BY <2>3, <2>4 DEF Scope
  <2>6. Adds(op)
    BY <2>3, <2>4, <2>5 DEF Adds
  <2> QED BY <2>2, <2>3, <2>5, <2>6
<1>7. IsFiniteSet(S)
  <2>1. due \in SUBSET Owner
    OBVIOUS
  <2>2. IsFiniteSet(due)
    BY <2>1, ParameterAssumption, FS_Subset
  <2> DEFINE f == [o \in due |-> DrainExpiry(o, rs[o])]
  <2>3. f \in Surjection(due, S)
    BY DEF Surjection
  <2> QED BY <2>2, <2>3, FS_Surjection
<1> HIDE DEF due
<1>8. /\ new \in Seq(S) /\ \A j, k \in DOMAIN new : j # k => new[j] # new[k]
  <2> DEFINE n == Cardinality(S)
  <2>1. n \in Nat
    BY <1>7, FS_CardinalityType
  <2>2. /\ new \in [1..n -> S]
        /\ \A j, k \in DOMAIN new : j # k => new[j] # new[k]
    BY DEF Orders
  <2> HIDE DEF n
  <2>3. new \in Seq(S)
    <3> HIDE DEF S
    <3> QED BY <2>1, <2>2
  <2> QED BY <2>2, <2>3
<1>9. \A k \in DOMAIN new : \E o \in due : new[k] = DrainExpiry(o, rs[o])
  BY <1>8
<1>10. \A k \in DOMAIN new : /\ new[k] \in Operation /\ Adds(new[k])
                             /\ new[k].action = "expire" /\ new[k].req = None
  BY <1>6, <1>9
<1>11. \A j, k \in DOMAIN new : j # k => Scope(new[j]) \cap Scope(new[k]) = {}
  <2> TAKE j \in DOMAIN new, k \in DOMAIN new
  <2> HAVE j # k
  <2>1. PICK o \in due : new[j] = DrainExpiry(o, rs[o])
    BY <1>9
  <2>2. PICK p \in due : new[k] = DrainExpiry(p, rs[p])
    BY <1>9
  <2>3. new[j] # new[k]
    BY <1>8
  <2>4. o # p
    BY <2>1, <2>2, <2>3
  <2>5. Scope(new[j]) = {o} /\ Scope(new[k]) = {p}
    BY <1>6, <2>1, <2>2
  <2> QED BY <2>4, <2>5
<1>12. new \in Seq(Operation)
  BY <1>8, <1>10
<1> QED BY <1>1, <1>3, <1>4, <1>5, <1>10, <1>11, <1>12

-----------------------------------------------------------------------------
(* The kinds of steps of the worker.                                         *)

\* It goes on with its operation.
Going ==
  /\ worker.pc # "idle" /\ worker'.pc # "idle" /\ WorkerRefers
  /\ UNCHANGED <<mode, refs, requests, drain, caller, reader, enabled, auth, overdue>>

Looks ==
  /\ Going /\ UNCHANGED <<ops, late, silences, used>>
  /\ worker'.pc \in {"listed", "posted", "readback", "expiring"}

Marks ==
  /\ Going /\ UNCHANGED <<late, silences, used>>
  /\ worker.pc = "listed" /\ worker'.pc = "marked" /\ Op.phase = "prepared"
  /\ PhaseTo(worker.op, "submitted")

Submits ==
  /\ Going /\ UNCHANGED <<silences, used>>
  /\ worker.pc = "marked" /\ worker'.pc = "posting" /\ Op.action = "create" /\ auth
  /\ \E target \in Nat : /\ target \in IF worker.live = {} THEN {0} ELSE worker.live
                         /\ late' = late \cup {[op |-> worker.op, target |-> target]}
  /\ ops' \in Seq(Operation) /\ Len(ops') = Len(ops)
  /\ \A i \in DOMAIN ops : /\ Like(ops'[i], ops[i]) /\ ops'[i].phase = ops[i].phase
                           /\ ops'[i].posts = IF i = worker.op THEN ops[i].posts + 1
                                              ELSE ops[i].posts

\* A silence of those to expire ends.
Kills(s) ==
  /\ worker.pc = "expiring" /\ s \in worker.todo /\ silences[s].state = "live"
  /\ silences' = [silences EXCEPT ![s].state = "expired"]

ExpiresOne ==
  /\ Going /\ UNCHANGED <<ops, late, used>>
  /\ \E s \in DOMAIN silences : Kills(s)
  /\ worker'.pc = "expiring" /\ worker'.then = worker.then

\* Its attempt ends.
Quits(p) ==
  /\ worker.pc # "idle" /\ AttemptEnds /\ PhaseTo(worker.op, p)
  /\ UNCHANGED <<mode, requests, caller, reader, enabled, auth, overdue, late>>

\* The operation will be tried again.
GivesUp ==
  /\ \E p \in Phases : /\ p \notin {"completed", "failed"}
                       /\ p = "prepared" <=> Op.phase = "prepared"
                       /\ Quits(p)
  /\ refs' = refs
  /\ used' \in [Moves -> Nat] /\ \A m \in Moves \ {"fault"} : used'[m] = used[m]
  /\ silences' = silences \/ \E s \in DOMAIN silences : Kills(s)

\* Why an operation may fail with no word about its silences.
Hopeless ==
  \/ worker.pc = "listed" /\ Op.action = "create" /\ Op.phase = "prepared"
  \/ worker.pc = "listed" /\ Op.action = "create" /\ worker.canon = 0 /\ worker.overdue
  \/ worker.pc = "marked"
  \/ worker.pc = "posting" /\ ~Created /\ ~Underway

GivesIn ==
  /\ Quits("failed") /\ UNCHANGED <<refs, silences>> /\ Hopeless
  /\ used' \in [Moves -> Nat] /\ \A m \in Moves : used[m] <= used'[m]
  /\ used'["auth"] = used["auth"]

WorkerSteps ==
  \/ Attempt \/ ReadFails \/ StoreFails \/ NoLongerAllowed \/ Unanswered
  \/ \E s \in DOMAIN silences : ExpireFails(s)

LEMMA RetryFacts ==
  ASSUME TypeInv, worker.pc # "idle", Retry \/ (AttemptEnds /\ UNCHANGED durable),
         UNCHANGED <<caller, reader, enabled, auth, late, overdue>>,
         silences' = silences \/ \E s \in DOMAIN silences : Kills(s),
         UNCHANGED used \/ Spend("fault")
  PROVE  GivesUp
<1>1. worker.op \in DOMAIN ops /\ ~Terminal(Op) /\ Op.phase \in Phases
  BY OpFacts DEF Operation
<1>2. used' \in [Moves -> Nat] /\ \A m \in Moves \ {"fault"} : used'[m] = used[m]
  BY SpendFacts DEF TypeInv, Kinds, Moves
<1>3. CASE Retry
  <2> DEFINE p == IF Op.phase = "prepared" THEN "prepared" ELSE "ambiguous"
  <2>1. p \in Phases /\ p \notin {"completed", "failed"} /\ (p = "prepared" <=> Op.phase = "prepared")
    BY DEF Phases
  <2>2. /\ AttemptEnds /\ ops' = [ops EXCEPT ![worker.op].phase = p]
        /\ UNCHANGED <<mode, requests, refs>>
    BY <1>3 DEF Retry, EndsAs
  <2> HIDE DEF p
  <2>3. PhaseTo(worker.op, p)
    BY <1>1, <2>1, <2>2, PhaseFacts DEF TypeInv
  <2> QED BY <1>2, <2>1, <2>2, <2>3 DEF GivesUp, Quits
<1>4. CASE AttemptEnds /\ UNCHANGED durable
  <2>1. PhaseTo(worker.op, Op.phase)
    BY <1>1, <1>4, PhaseSame DEF TypeInv, Op, durable
  <2>2. Op.phase \notin {"completed", "failed"}
    BY <1>1 DEF Terminal
  <2> QED BY <1>1, <1>2, <1>4, <2>1, <2>2 DEF GivesUp, Quits, durable
<1> QED BY <1>3, <1>4

LEMMA FailFacts ==
  ASSUME TypeInv, worker.pc # "idle", Fail, Hopeless,
         UNCHANGED <<caller, reader, enabled, auth, late, overdue, silences>>,
         UNCHANGED used \/ Spend("external")
  PROVE  GivesIn
<1>1. worker.op \in DOMAIN ops
  BY OpFacts
<1>2. /\ AttemptEnds /\ ops' = [ops EXCEPT ![worker.op].phase = "failed"]
      /\ UNCHANGED <<mode, requests, refs>>
  BY DEF Fail, EndsAs
<1>3. PhaseTo(worker.op, "failed")
  BY <1>1, <1>2, PhaseFacts DEF TypeInv, Phases
<1>4. used \in [Moves -> Nat]
  BY DEF TypeInv, Kinds
<1>5. used' \in [Moves -> Nat] /\ \A m \in Moves : used'[m] = used[m] \/ (m = "external" /\ used'[m] = used[m] + 1)
  BY <1>4, SpendFacts DEF TypeInv, Moves
<1>6. \A m \in Moves : used[m] <= used'[m]
  BY <1>4, <1>5
<1>7. used'["auth"] = used["auth"]
  BY <1>5 DEF Moves
<1> QED BY <1>2, <1>3, <1>5, <1>6, <1>7 DEF GivesIn, Quits

LEMMA MarkFacts ==
  ASSUME TypeInv, MarkSubmitted, worker.pc = "listed", Op.phase = "prepared",
         UNCHANGED <<caller, reader, enabled, auth, late, overdue, silences, used>>
  PROVE  Marks
<1>1. worker.op \in DOMAIN ops
  BY OpFacts
<1>2. PhaseTo(worker.op, "submitted")
  BY <1>1, PhaseFacts DEF TypeInv, Phases, MarkSubmitted
<1>3. WorkerRefers /\ worker'.pc = "marked"
  BY StepFacts DEF MarkSubmitted, Steps
<1> QED BY <1>2, <1>3 DEF Marks, Going, MarkSubmitted

LEMMA LooksFacts ==
  ASSUME TypeInv, NEW todo \in SUBSET DOMAIN silences, NEW then \in Ends,
         worker.pc # "idle", Expiring(todo, then),
         UNCHANGED <<caller, reader, enabled, auth, late, overdue, silences, used>>
  PROVE  Looks
BY ExpiringFacts DEF Looks, Going, Expiring, Goes, durable

LEMMA SubmitFacts ==
  ASSUME TypeInv, Submit, auth
  PROVE  Submits
<1>1. /\ worker.pc = "marked" /\ Op.action = "create" /\ worker.op \in DOMAIN ops
      /\ ops \in Seq(Operation) /\ Op \in Operation
  BY OpFacts DEF Submit, TypeInv, Kinds
<1>2. PICK target \in IF worker.live = {} THEN {0} ELSE worker.live :
        late' = late \cup {[op |-> worker.op, target |-> target]}
  BY DEF Submit
<1>3. target \in Nat
  BY <1>2 DEF TypeInv, Kinds, Worker
<1>4. WorkerRefers /\ worker'.pc = "posting"
  BY StepFacts DEF Submit, Steps
<1> DEFINE n == Op.posts + 1
           y == [Op EXCEPT !.posts = n]
<1>9. n \in Nat
  BY <1>1 DEF Operation
<1>6. ops' = [ops EXCEPT ![worker.op] = y]
  BY DEF Submit, Op
<1>10. n = Op.posts + 1
  OBVIOUS
<1> HIDE DEF n
<1>11. y \in Operation /\ y.phase = Op.phase /\ y.posts = n
  BY <1>1, <1>9 DEF Operation
<1>12. Like(y, Op)
  BY <1>1 DEF Operation, Like
<1>5. y \in Operation /\ Like(y, Op) /\ y.phase = Op.phase /\ y.posts = Op.posts + 1
  BY <1>10, <1>11, <1>12
<1> HIDE DEF y
<1>7. /\ ops' \in Seq(Operation) /\ Len(ops') = Len(ops)
      /\ \A i \in DOMAIN ops : ops'[i] = IF i = worker.op THEN y ELSE ops[i]
  BY <1>1, <1>5, <1>6
<1>8. \A i \in DOMAIN ops : /\ Like(ops'[i], ops[i]) /\ ops'[i].phase = ops[i].phase
                            /\ ops'[i].posts = IF i = worker.op THEN ops[i].posts + 1
                                               ELSE ops[i].posts
  BY <1>5, <1>7 DEF Op, Like
<1> QED BY <1>1, <1>2, <1>3, <1>4, <1>7, <1>8 DEF Submits, Going, Submit

\* Every step of the worker is one of these, or settles its operation.
Settles ==
  /\ \E p \in {"completed", "failed"} : Quits(p)
  /\ UNCHANGED <<silences, used>>
  /\ Complete \/ CompleteExpire \/ Cancel \/ Unauthorized

Kind == Looks \/ Marks \/ Submits \/ ExpiresOne \/ GivesUp \/ GivesIn \/ Settles

LEMMA ListKind ==
  ASSUME TypeInv, List
  PROVE  Looks
<1>1. UNCHANGED <<durable, drain, Others, silences, used>> /\ worker.pc # "idle"
  BY DEF List, Goes
<1> QED BY <1>1, ListFacts DEF Looks, Going, durable, Others

LEMMA DecideKind ==
  ASSUME TypeInv, Decide
  PROVE  Kind
<1>0. /\ worker.pc = "listed" /\ UNCHANGED <<Others, silences, used>>
      /\ worker.live \in SUBSET DOMAIN silences
      /\ worker.live \ {worker.canon} \in SUBSET DOMAIN silences
  BY DEF Decide, Draining, NotFound, Submission, Adopt, Expire, Listed, Missing, MaySubmit,
         TypeInv, Pointers
<1>1. UNCHANGED <<caller, reader, enabled, auth, late, overdue, silences, used>>
  BY <1>0 DEF Others
<1>2. CASE Draining
  <2>1. CASE worker.canon = 0 /\ Op.phase = "prepared"
    <3>1. Fail /\ Hopeless
      BY <1>2, <2>1 DEF Draining, Listed, Hopeless
    <3> QED BY <1>0, <1>1, <3>1, FailFacts DEF Kind
  <2>2. CASE ~(worker.canon = 0 /\ Op.phase = "prepared")
    <3>1. Expiring(worker.live, "retry") \/ Expiring(worker.live, "cancel")
      BY <1>2, <2>2 DEF Draining
    <3>2. "retry" \in Ends /\ "cancel" \in Ends
      BY DEF Ends
    <3> QED BY <1>0, <1>1, <3>1, <3>2, LooksFacts DEF Kind
  <2> QED BY <2>1, <2>2
<1>3. CASE NotFound
  <2>1. CASE worker.overdue
    <3>1. Fail /\ Hopeless
      BY <1>3, <2>1 DEF NotFound, Missing, Listed, Hopeless
    <3> QED BY <1>0, <1>1, <3>1, FailFacts DEF Kind
  <2>2. CASE ~worker.overdue
    <3>1. Retry
      BY <1>3, <2>2 DEF NotFound
    <3> QED BY <1>0, <1>1, <3>1, RetryFacts DEF Kind
  <2> QED BY <2>1, <2>2
<1>4. CASE Submission
  <2>0. Op.action = "create" /\ Op.phase = "prepared"
    BY <1>4 DEF Submission, MaySubmit, Missing, Listed
  <2>1. CASE enabled /\ auth
    <3>1. MarkSubmitted
      BY <1>4, <2>1 DEF Submission
    <3> QED BY <1>0, <1>1, <2>0, <3>1, MarkFacts DEF Kind
  <2>2. CASE ~(enabled /\ auth)
    <3>1. Fail /\ Hopeless
      BY <1>0, <1>4, <2>0, <2>2 DEF Submission, Hopeless
    <3> QED BY <1>0, <1>1, <3>1, FailFacts DEF Kind
  <2> QED BY <2>1, <2>2
<1>5. CASE Adopt
  <2>1. Expiring(worker.live \ {worker.canon}, "readback") \/ Expiring(worker.live, "unauthorized")
    BY <1>5 DEF Adopt
  <2>2. "readback" \in Ends /\ "unauthorized" \in Ends
    BY DEF Ends
  <2> QED BY <1>0, <1>1, <2>1, <2>2, LooksFacts DEF Kind
<1>6. CASE Expire
  <2>1. CASE worker.live # {} /\ ~Op.byDrain /\ Op.phase = "prepared"
    <3>1. MarkSubmitted
      BY <1>6, <2>1 DEF Expire
    <3> QED BY <1>0, <1>1, <2>1, <3>1, MarkFacts DEF Kind
  <2>2. CASE ~(worker.live # {} /\ ~Op.byDrain /\ Op.phase = "prepared")
    <3>1. Expiring(worker.live, "expired") /\ "expired" \in Ends
      BY <1>6, <2>2 DEF Expire, Ends
    <3> QED BY <1>0, <1>1, <3>1, LooksFacts DEF Kind
  <2> QED BY <2>1, <2>2
<1> QED BY <1>2, <1>3, <1>4, <1>5, <1>6 DEF Decide

LEMMA SubmissionKind ==
  ASSUME TypeInv, Submit \/ ExpireMarked \/ Accepted \/ Rejected \/ Unanswered
  PROVE  Kind
<1>1. CASE Submit
  <2>1. CASE auth
    BY <1>1, <2>1, SubmitFacts DEF Kind
  <2>2. CASE ~auth
    <3>1. Fail /\ Hopeless /\ worker.pc # "idle"
          /\ UNCHANGED <<caller, reader, enabled, auth, late, overdue, silences, used>>
      BY <1>1, <2>2 DEF Submit, Hopeless
    <3> QED BY <3>1, FailFacts DEF Kind
  <2> QED BY <2>1, <2>2
<1>2. CASE ExpireMarked
  <2>0. worker.pc = "marked" /\ worker.live \in SUBSET DOMAIN silences
        /\ UNCHANGED <<caller, reader, enabled, auth, late, overdue, silences, used>>
    BY <1>2 DEF ExpireMarked, Others, TypeInv, Pointers
  <2>1. CASE auth
    <3>1. Expiring(worker.live, "expired") /\ "expired" \in Ends
      BY <1>2, <2>1 DEF ExpireMarked, Ends
    <3> QED BY <2>0, <3>1, LooksFacts DEF Kind
  <2>2. CASE ~auth
    <3>1. Fail /\ Hopeless
      BY <1>2, <2>0, <2>2 DEF ExpireMarked, Hopeless
    <3> QED BY <2>0, <3>1, FailFacts DEF Kind
  <2> QED BY <2>1, <2>2
<1>3. CASE Accepted
  <2>0. worker.pc # "idle"
        /\ UNCHANGED <<caller, reader, enabled, auth, late, overdue, silences, used>>
    BY <1>3 DEF Accepted, Others
  <2>1. CASE Marked = {}
    <3>1. Retry
      BY <1>3, <2>1 DEF Accepted
    <3> QED BY <2>0, <3>1, RetryFacts DEF Kind
  <2>2. CASE Marked # {}
    <3>1. PICK canon \in Marked : Goes([worker EXCEPT !.pc = "posted", !.canon = canon])
      BY <1>3, <2>2 DEF Accepted
    <3>2. WorkerRefers /\ worker'.pc = "posted"
      BY <3>1, AcceptedFacts DEF Goes
    <3> QED BY <2>0, <3>1, <3>2 DEF Kind, Looks, Going, Goes, durable
  <2> QED BY <2>1, <2>2
<1>4. CASE Rejected
  <2>1. Fail /\ Hopeless /\ worker.pc # "idle"
        /\ UNCHANGED <<caller, reader, enabled, auth, late, overdue, silences, used>>
    BY <1>4 DEF Rejected, Hopeless, Others
  <2> QED BY <2>1, FailFacts DEF Kind
<1>5. CASE Unanswered
  <2>1. Retry /\ worker.pc # "idle" /\ (UNCHANGED used \/ Spend("fault"))
        /\ UNCHANGED <<caller, reader, enabled, auth, late, overdue, silences>>
    BY <1>5 DEF Unanswered, Others
  <2> QED BY <2>1, RetryFacts DEF Kind
<1> QED BY <1>1, <1>2, <1>3, <1>4, <1>5

LEMMA ReadbackKind ==
  ASSUME TypeInv, Posted \/ Readback \/ DuplicatesExpired \/ WaitForMarker,
         worker.pc = "readback" => worker.canon # 0
  PROVE  Kind
<1>1. CASE Posted
  BY <1>1, PostedFacts DEF Posted, Kind, Looks, Going, Goes, durable, Others
<1>2. CASE Readback
  <2>0. worker.pc = "readback"
        /\ UNCHANGED <<caller, reader, enabled, auth, late, overdue, silences, used>>
    BY <1>2 DEF Readback, Others
  <2>1. CASE silences[worker.canon].state = "gone"
    <3>1. Retry
      BY <1>2, <2>1 DEF Readback
    <3> QED BY <2>0, <3>1, RetryFacts DEF Kind
  <2>2. CASE silences[worker.canon].state # "gone"
    <3>1. worker.canon \in DOMAIN silences
      BY <2>0 DEF TypeInv, Kinds, Pointers, Worker
    <3>2. WorkerRefers /\ worker'.pc = "expiring" /\ UNCHANGED <<durable, drain>>
      BY <1>2, <2>2, <3>1, ReadbackFacts DEF Readback, Goes
    <3> QED BY <2>0, <3>2 DEF Kind, Looks, Going, durable
  <2> QED BY <2>1, <2>2
<1>3. CASE DuplicatesExpired
  <2>0. worker.pc = "expiring" /\ worker' = [worker EXCEPT !.pc = "readback"]
        /\ UNCHANGED <<durable, drain>>
        /\ UNCHANGED <<caller, reader, enabled, auth, late, overdue, silences, used>>
    BY <1>3 DEF DuplicatesExpired, Expired, Goes, Rest, Others
  <2>1. WorkerRefers /\ worker'.pc = "readback"
    BY <2>0, StepFacts DEF Steps
  <2> QED BY <2>0, <2>1 DEF Kind, Looks, Going, durable
<1>4. CASE WaitForMarker
  <2>0. worker.pc = "expiring" /\ Retry
        /\ UNCHANGED <<caller, reader, enabled, auth, late, overdue, silences, used>>
    BY <1>4 DEF WaitForMarker, Expired, Rest, Others
  <2> QED BY <2>0, RetryFacts DEF Kind
<1> QED BY <1>1, <1>2, <1>3, <1>4

LEMMA ExpiringKind ==
  ASSUME TypeInv, NEW s \in DOMAIN silences, ExpireOne(s) \/ ExpireFails(s)
  PROVE  Kind
<1>1. CASE ExpireOne(s)
  <2>0. worker.pc = "expiring" /\ s \in worker.todo
        /\ UNCHANGED <<caller, reader, enabled, auth, late, overdue, used>>
    BY <1>1 DEF ExpireOne, Others
  <2>1. CASE silences[s].state = "live"
    <3>1. /\ Kills(s) /\ UNCHANGED <<durable, drain>>
          /\ worker' = [worker EXCEPT !.todo = worker.todo \ {s}]
      BY <1>1, <2>0, <2>1 DEF ExpireOne, Goes, Kills
    <3>2. WorkerRefers /\ worker'.pc = "expiring" /\ worker'.then = worker.then
      BY <2>0, <3>1, TodoFacts
    <3> QED BY <2>0, <3>1, <3>2 DEF Kind, ExpiresOne, Going, durable
  <2>2. CASE silences[s].state # "live"
    <3>1. Retry /\ silences' = silences
      BY <1>1, <2>2 DEF ExpireOne
    <3> QED BY <2>0, <3>1, RetryFacts DEF Kind
  <2> QED BY <2>1, <2>2
<1>2. CASE ExpireFails(s)
  <2>1. /\ worker.pc # "idle" /\ Retry /\ Spend("fault")
        /\ UNCHANGED <<caller, reader, enabled, auth, late, overdue>>
        /\ silences' = silences \/ Kills(s)
    BY <1>2 DEF ExpireFails, Others, Kills
  <2> QED BY <2>1, RetryFacts DEF Kind
<1> QED BY <1>1, <1>2

LEMMA SettlesKind ==
  ASSUME TypeInv, Complete \/ CompleteExpire \/ Cancel \/ Unauthorized
  PROVE  Kind
<1>1. PICK p \in {"completed", "failed"} : EndsAs(p)
  BY DEF Complete, CompleteExpire, Cancel, Unauthorized
<1>2. Rest /\ worker.pc = "expiring"
  BY DEF Complete, CompleteExpire, Cancel, Unauthorized, Expired
<1>3. worker.op \in DOMAIN ops /\ p \in Phases
  BY <1>2, OpFacts DEF Phases
<1>4. PhaseTo(worker.op, p)
  BY <1>1, <1>3, PhaseFacts DEF TypeInv, EndsAs
<1> QED BY <1>1, <1>2, <1>4 DEF Kind, Settles, Quits, EndsAs, Rest, Others

LEMMA WorkerKind ==
  ASSUME TypeInv, WorkerSteps, worker.pc = "readback" => worker.canon # 0
  PROVE  Kind
<1>1. ASSUME ReadFails \/ StoreFails PROVE Kind
  <2>1. /\ worker.pc # "idle" /\ (Retry \/ (AttemptEnds /\ UNCHANGED durable))
        /\ Spend("fault") /\ UNCHANGED <<caller, reader, enabled, auth, late, overdue, silences>>
    BY <1>1 DEF ReadFails, StoreFails, Others
  <2> QED BY <2>1, RetryFacts DEF Kind
<1>2. ASSUME NoLongerAllowed PROVE Kind
  <2>1. /\ worker.pc = "listed" /\ Op.action = "create" /\ Op.phase = "prepared"
        /\ UNCHANGED <<caller, reader, enabled, auth, late, overdue, silences>>
    BY <1>2 DEF NoLongerAllowed, MaySubmit, Missing, Listed, Others
  <2>2. CASE Spend("fault") /\ Retry
    BY <2>1, <2>2, RetryFacts DEF Kind
  <2>3. CASE Spend("external") /\ Fail
    BY <2>1, <2>3, FailFacts DEF Kind, Hopeless
  <2> QED BY <1>2, <2>2, <2>3 DEF NoLongerAllowed
<1> QED BY <1>1, <1>2, ListKind, DecideKind, SubmissionKind, ReadbackKind, ExpiringKind,
           SettlesKind DEF WorkerSteps, Attempt, Kind

\* The marked silence is known where it is used.
Adopting == worker.pc \in {"posted", "readback"}
            \/ (worker.pc = "expiring" /\ worker.then \in {"readback", "unauthorized", "complete"})

Canonical == Adopting => worker.canon # 0

\* What becomes of an operation: it goes on for ever as it was requested, its phase is
\* final once it is over.
OpsKept ==
  /\ ops' \in Seq(Operation) /\ Len(ops') = Len(ops)
  /\ \A i \in DOMAIN ops : /\ Like(ops'[i], ops[i])
                           /\ Terminal(ops[i]) => /\ ops'[i].phase = ops[i].phase
                                                  /\ ops'[i].posts = ops[i].posts

LEMMA OpsSame ==
  ASSUME TypeInv, ops' = ops
  PROVE  OpsKept
BY DEF TypeInv, Kinds, OpsKept, Like

LEMMA PhaseKept ==
  ASSUME TypeInv, worker.pc # "idle", NEW p, PhaseTo(worker.op, p)
  PROVE  OpsKept
BY OpFacts DEF PhaseTo, OpsKept, Op

LEMMA KindKept ==
  ASSUME TypeInv, Kind
  PROVE  OpsKept /\ requests' = requests
<1>1. ASSUME Submits PROVE OpsKept
  BY <1>1, OpFacts DEF Submits, Going, OpsKept, Op
<1> QED BY <1>1, OpsSame, PhaseKept DEF Kind, Looks, Marks, ExpiresOne, GivesUp, GivesIn,
           Settles, Quits, Going, Submits

LEMMA KillFacts ==
  ASSUME TypeInv, NEW s \in DOMAIN silences, Kills(s)
  PROVE  /\ Fades /\ silences'[s].state = "expired"
         /\ \A r \in DOMAIN silences : r # s => silences'[r] = silences[r]
BY StateFacts DEF Kills, TypeInv

\* What completing and giving up an operation does to the references.
LEMMA SettlesRefs ==
  ASSUME TypeInv, Canonical, Settles
  PROVE  refs' \in [Owner -> Reference] /\ \A o \in Owner : refs'[o].sid <= Len(silences)
<1>1. /\ worker.pc = "expiring" /\ refs \in [Owner -> Reference]
      /\ \A o \in Owner : refs[o].sid <= Len(silences)
      /\ worker.seen \in States /\ worker.canon \in Nat /\ worker.canon <= Len(silences)
  BY DEF Settles, Complete, CompleteExpire, Cancel, Unauthorized, Expired, TypeInv, Kinds,
         Pointers, Worker
<1>2. Op.owner \in Owner /\ Op.replaces \in Owner \cup {None} /\ Op.gen \in Nat
  BY <1>1, OpFacts DEF Operation
<1>3. ASSUME NEW state \in States
      PROVE  CanonRef(state) \in Reference /\ CanonRef(state).sid <= Len(silences)
  BY <1>1, <1>2 DEF CanonRef, Reference
<1>4. ASSUME NEW rs \in [Owner -> Reference], \A o \in Owner : rs[o].sid <= Len(silences),
             NEW x \in Owner
      PROVE  /\ MarkExpired(rs, x) \in [Owner -> Reference]
             /\ \A o \in Owner : MarkExpired(rs, x)[o].sid <= Len(silences)
  <2> DEFINE y == [rs[x] EXCEPT !.state = "expired"]
  <2>1. y \in Reference /\ y.sid = rs[x].sid
    BY DEF Reference, States
  <2>2. MarkExpired(rs, x) = IF rs[x] = NoRef THEN rs ELSE [rs EXCEPT ![x] = y]
    BY DEF MarkExpired
  <2> HIDE DEF y
  <2> QED BY <1>4, <2>1, <2>2
<1>5. ASSUME NEW r \in Reference, r.sid <= Len(silences)
      PROVE  /\ [refs EXCEPT ![Op.owner] = r] \in [Owner -> Reference]
             /\ \A o \in Owner : [refs EXCEPT ![Op.owner] = r][o].sid <= Len(silences)
  BY <1>1, <1>2, <1>5
<1>6. CASE Complete
  <2> DEFINE new == [refs EXCEPT ![Op.owner] = CanonRef(worker.seen)]
  <2>1. new \in [Owner -> Reference] /\ \A o \in Owner : new[o].sid <= Len(silences)
    BY <1>1, <1>3, <1>5
  <2>2. refs' = IF Op.replaces \in {None, Op.owner} THEN new ELSE MarkExpired(new, Op.replaces)
    BY <1>6 DEF Complete
  <2> HIDE DEF new
  <2>3. CASE Op.replaces \in {None, Op.owner}
    BY <2>1, <2>2, <2>3
  <2>4. CASE Op.replaces \notin {None, Op.owner}
    BY <1>2, <1>4, <2>1, <2>2, <2>4
  <2> QED BY <2>3, <2>4
<1>7. CASE CompleteExpire
  <2> DEFINE y == [refs[Op.owner] EXCEPT !.state = "expired", !.gen = Op.gen]
  <2>1. y \in Reference /\ y.sid = refs[Op.owner].sid
    BY <1>1, <1>2 DEF Reference, States
  <2>2. refs' = IF refs[Op.owner] = NoRef THEN refs ELSE [refs EXCEPT ![Op.owner] = y]
    BY <1>1, <1>2, <1>7 DEF CompleteExpire
  <2> HIDE DEF y
  <2> QED BY <1>1, <1>2, <2>1, <2>2
<1>8. CASE Cancel
  <2>1. "expired" \in States
    BY DEF States
  <2>2. \/ refs' = [refs EXCEPT ![Op.owner] = CanonRef("expired")]
        \/ refs' = MarkExpired(refs, Op.owner)
    BY <1>8 DEF Cancel
  <2>3. CASE refs' = [refs EXCEPT ![Op.owner] = CanonRef("expired")]
    BY <1>3, <1>5, <2>1, <2>3
  <2>4. CASE refs' = MarkExpired(refs, Op.owner)
    BY <1>1, <1>2, <1>4, <2>4
  <2> QED BY <2>2, <2>3, <2>4
<1>9. CASE Unauthorized
  <2>1. "expired" \in States
    BY DEF States
  <2> QED BY <1>3, <1>5, <1>9, <2>1 DEF Unauthorized
<1> QED BY <1>6, <1>7, <1>8, <1>9 DEF Settles

LEMMA KindType ==
  ASSUME TypeInv, Canonical, Kind
  PROVE  TypeInv'
<1>0. /\ used \in [Moves -> Nat] /\ late \subseteq [op : Nat, target : Nat]
      /\ refs \in [Owner -> Reference] /\ \A o \in Owner : refs[o].sid <= Len(silences)
      /\ \A x \in late : x.op \in DOMAIN ops /\ x.target <= Len(silences)
      /\ ops \in Seq(Operation)
  BY DEF TypeInv, Kinds, Pointers
<1>1. ASSUME Looks \/ Marks \/ ExpiresOne PROVE TypeInv'
  <2>1. Going /\ UNCHANGED <<late, used>>
    BY <1>1 DEF Looks, Marks, ExpiresOne
  <2>2. Fades
    BY <1>1, FadesSame, KillFacts DEF Looks, Marks, ExpiresOne, TypeInv
  <2>3. ops' \in Seq(Operation) /\ Len(ops') = Len(ops) /\ ~Terminal(ops'[worker.op])
    <3>1. CASE Marks
      BY <3>1, OpFacts DEF Marks, Going, PhaseTo, Terminal
    <3>2. CASE Looks \/ ExpiresOne
      BY <1>0, <3>2, OpFacts DEF Looks, ExpiresOne, Going, Op
    <3> QED BY <1>1, <3>1, <3>2
  <2>4. /\ worker.pc # "idle" /\ worker'.pc # "idle" /\ WorkerRefers
        /\ UNCHANGED <<mode, refs, requests, drain, caller, reader, enabled, auth, overdue>>
    BY <2>1 DEF Going
  <2>5. late' \subseteq [op : Nat, target : Nat] /\ used' \in [Moves -> Nat]
        /\ \A x \in late' : x.op \in DOMAIN ops /\ x.target <= Len(silences)
    BY <1>0, <2>1
  <2> QED BY <2>2, <2>3, <2>4, <2>5, TypeGoes
<1>2. ASSUME Submits PROVE TypeInv'
  <2>1. PICK target \in Nat : /\ target \in IF worker.live = {} THEN {0} ELSE worker.live
                              /\ late' = late \cup {[op |-> worker.op, target |-> target]}
    BY <1>2 DEF Submits
  <2>2. worker.pc # "idle" /\ worker.op \in DOMAIN ops /\ worker.op \in Nat
    BY <1>2, OpFacts DEF Submits, Going, TypeInv, Kinds, Worker
  <2>3. target <= Len(silences)
    BY <2>1 DEF TypeInv, Kinds, Pointers
  <2>4. /\ late' \subseteq [op : Nat, target : Nat]
        /\ \A x \in late' : x.op \in DOMAIN ops /\ x.target <= Len(silences)
    BY <1>0, <2>1, <2>2, <2>3
  <2>5. Fades
    BY <1>2, FadesSame DEF Submits, TypeInv
  <2>6. ~Terminal(ops'[worker.op])
    BY <1>2, <2>2, OpFacts DEF Submits, Terminal, Op
  <2>7. /\ worker.pc # "idle" /\ worker'.pc # "idle" /\ WorkerRefers
        /\ ops' \in Seq(Operation) /\ Len(ops') = Len(ops) /\ used' \in [Moves -> Nat]
        /\ UNCHANGED <<mode, refs, requests, drain, caller, reader, enabled, auth, overdue>>
    BY <1>0, <1>2 DEF Submits, Going
  <2> QED BY <2>4, <2>5, <2>6, <2>7, TypeGoes
<1>3. ASSUME GivesUp \/ GivesIn \/ Settles PROVE TypeInv'
  <2>1. PICK p : Quits(p)
    BY <1>3 DEF GivesUp, GivesIn, Settles
  <2>2. Fades
    BY <1>3, FadesSame, KillFacts DEF GivesUp, GivesIn, Settles, TypeInv
  <2>3. refs' \in [Owner -> Reference] /\ \A o \in Owner : refs'[o].sid <= Len(silences)
    BY <1>0, <1>3, SettlesRefs DEF GivesUp, GivesIn
  <2>4. used' \in [Moves -> Nat]
    BY <1>0, <1>3 DEF GivesUp, GivesIn, Settles
  <2>5. /\ worker.pc # "idle" /\ AttemptEnds /\ ops' \in Seq(Operation) /\ Len(ops') = Len(ops)
        /\ late' \subseteq late
        /\ UNCHANGED <<mode, requests, caller, reader, enabled, auth, overdue>>
    BY <2>1 DEF Quits, PhaseTo
  <2> QED BY <2>2, <2>3, <2>4, <2>5, TypeEnds
<1> QED BY <1>1, <1>2, <1>3 DEF Kind

\* Alertmanager applies a submission: a new silence, and the end of its target.
Renews(x) ==
  /\ silences' \in Seq(Silence) /\ Len(silences') = Len(silences) + 1
  /\ \A s \in DOMAIN silences :
       /\ silences'[s].owner = silences[s].owner /\ silences'[s].op = silences[s].op
       /\ silences'[s].gen = silences[s].gen
       /\ silences'[s].state = IF s = x.target /\ silences[s].state # "gone" THEN "expired"
                               ELSE silences[s].state
  /\ silences'[Len(silences) + 1].owner = ops[x.op].owner
  /\ silences'[Len(silences) + 1].op = x.op
  /\ silences'[Len(silences) + 1].gen = ops[x.op].gen
  /\ silences'[Len(silences) + 1].state = "live"

LEMMA AppliedFacts ==
  ASSUME TypeInv, NEW x \in late, silences' = Applied(x)
  PROVE  silences' = silences \/ Renews(x)
<1> DEFINE gone(s) == silences[s].state = "gone"
           kept == [s \in DOMAIN silences |->
                      IF s = x.target /\ ~gone(s) THEN [silences[s] EXCEPT !.state = "expired"]
                      ELSE silences[s]]
           y == [owner |-> ops[x.op].owner, op |-> x.op, gen |-> ops[x.op].gen, state |-> "live"]
<1>1. /\ silences \in Seq(Silence) /\ \A s \in DOMAIN silences : silences[s] \in Silence
      /\ x.op \in DOMAIN ops /\ x.op \in Nat /\ ops[x.op] \in Operation
      /\ DOMAIN silences = 1..Len(silences) /\ Len(silences) \in Nat
  BY DEF TypeInv, Kinds, Pointers
<1>2. silences' = silences \/ silences' = Append(kept, y)
  BY DEF Applied
<1>3. y \in Silence
  BY <1>1 DEF Silence, Operation
<1>4. ASSUME NEW s \in DOMAIN silences
      PROVE  /\ kept[s] \in Silence /\ kept[s].owner = silences[s].owner
             /\ kept[s].op = silences[s].op /\ kept[s].gen = silences[s].gen
             /\ kept[s].state = IF s = x.target /\ silences[s].state # "gone" THEN "expired"
                                ELSE silences[s].state
  <2> DEFINE z == [silences[s] EXCEPT !.state = "expired"]
  <2>0. silences[s] \in Silence
    BY <1>1
  <2>1. /\ z \in Silence /\ z.owner = silences[s].owner /\ z.op = silences[s].op
        /\ z.gen = silences[s].gen /\ z.state = "expired"
    BY <2>0 DEF Silence
  <2>2. kept[s] = IF s = x.target /\ silences[s].state # "gone" THEN z ELSE silences[s]
    OBVIOUS
  <2> HIDE DEF z, kept
  <2> QED BY <2>0, <2>1, <2>2
<1>5. y.owner = ops[x.op].owner /\ y.op = x.op /\ y.gen = ops[x.op].gen /\ y.state = "live"
  OBVIOUS
<1>6. DOMAIN kept = DOMAIN silences
  OBVIOUS
<1>7. kept = [s \in DOMAIN silences |-> kept[s]]
  OBVIOUS
<1> HIDE DEF kept, y
<1>8. kept \in Seq(Silence) /\ Len(kept) = Len(silences)
  <2>1. \A s \in 1..Len(silences) : kept[s] \in Silence
    BY <1>1, <1>4
  <2>2. kept \in [1..Len(silences) -> Silence]
    BY <1>1, <1>7, <2>1
  <2> DEFINE n == Len(silences)
  <2>3. n \in Nat /\ kept \in [1..n -> Silence]
    BY <1>1, <2>2
  <2>4. n = Len(silences)
    OBVIOUS
  <2> HIDE DEF n
  <2> QED BY <2>3, <2>4
<1>9. CASE silences' = Append(kept, y)
  <2>1. /\ silences' \in Seq(Silence) /\ Len(silences') = Len(silences) + 1
        /\ silences'[Len(silences) + 1] = y
        /\ \A s \in DOMAIN silences : silences'[s] = kept[s]
    BY <1>1, <1>3, <1>8, <1>9
  <2> QED BY <1>4, <1>5, <2>1 DEF Renews
<1> QED BY <1>2, <1>9

LEMMA TypeRegister ==
  ASSUME TypeInv, Registered, NEW c \in Caller, Register(c)
  PROVE  TypeInv'
<1>1. UNCHANGED <<mode, refs, worker, reader, drain, enabled, auth, silences, late, overdue,
                  used>>
  BY DEF Register, world
<1>2. /\ caller' \in [Caller -> Call] /\ drain = "off"
      /\ \A d \in Caller : caller'[d] = IF d = c THEN Unasked ELSE caller[d]
  BY RegisterFacts
<1>3. /\ ops' \in Seq(Operation) /\ Len(ops) <= Len(ops')
      /\ \A i \in DOMAIN ops : i \in DOMAIN ops' /\ ops'[i] = ops[i]
      /\ requests' \in [Request -> Nat] /\ \A r \in Request : requests'[r] <= Len(ops')
  <2>1. /\ ops \in Seq(Operation) /\ requests \in [Request -> Nat]
        /\ \A r \in Request : requests[r] <= Len(ops)
    BY DEF TypeInv, Kinds, Pointers
  <2>2. CASE ops' = ops /\ requests' = requests
    BY <2>1, <2>2
  <2>3. CASE ~(ops' = ops /\ requests' = requests)
    <3>1. PICK op \in Operation :
            /\ ops' = Append(ops, op) /\ op.req \in Request
            /\ requests' = [requests EXCEPT ![op.req] = Len(ops) + 1]
      BY <2>3, RegisterFacts
    <3>2. /\ ops' \in Seq(Operation) /\ Len(ops') = Len(ops) + 1
          /\ \A i \in DOMAIN ops : i \in DOMAIN ops' /\ ops'[i] = ops[i]
      BY <2>1, <3>1
    <3>3. Len(ops) \in Nat /\ Len(ops) + 1 \in Nat
      BY <2>1
    <3>4. requests' \in [Request -> Nat]
          /\ \A r \in Request : requests'[r] = IF r = op.req THEN Len(ops) + 1 ELSE requests[r]
      BY <2>1, <3>1, <3>3
    <3> QED BY <2>1, <3>2, <3>3, <3>4
  <2> QED BY <2>2, <2>3
<1>4. Kinds'
  BY <1>1, <1>2, <1>3 DEF TypeInv, Kinds
<1>5. worker.op <= Len(ops') /\ overdue \subseteq DOMAIN ops'
      /\ (\A s \in DOMAIN silences : silences[s].op \in DOMAIN ops')
      /\ \A x \in late : x.op \in DOMAIN ops' /\ x.target <= Len(silences)
  BY <1>3 DEF TypeInv, Kinds, Pointers, Worker
<1>6. Pointers'
  BY <1>1, <1>2, <1>3, <1>5, UnaskedFacts DEF TypeInv, Pointers
<1> QED BY <1>1, <1>2, <1>3, <1>4, <1>6, OpFacts, TypeRest DEF Op

LEMMA TypeSelect ==
  ASSUME TypeInv, NEW o \in DOMAIN ops, Select(o)
  PROVE  TypeInv' /\ worker'.pc = "selected"
<1>1. /\ UNCHANGED <<mode, ops, refs, requests, caller, reader, drain, enabled, auth, silences,
                     late, overdue, used>>
      /\ reader.pc = "idle" /\ drain \in {"off", "work"} /\ ~Terminal(ops[o])
      /\ worker' = [Idle EXCEPT !.pc = "selected", !.op = o, !.overdue = o \in overdue]
  BY DEF Select, ReconcileLock, durable, world
<1>2. o \in Nat /\ o <= Len(ops)
  BY DEF TypeInv, Kinds
<1>3. /\ worker' \in Worker /\ worker'.pc = "selected" /\ worker'.op = o /\ worker'.canon = 0
      /\ worker'.live \cup worker'.sources \cup worker'.todo = {}
  <2> DEFINE d == o \in overdue
  <2>1. d \in BOOLEAN /\ worker' = [Idle EXCEPT !.pc = "selected", !.op = o, !.overdue = d]
    BY <1>1
  <2> HIDE DEF d
  <2>2. worker' \in Worker
    BY <1>2, <2>1, IdleFacts DEF Worker, Steps
  <2>3. worker'.pc = "selected" /\ worker'.op = o /\ worker'.canon = Idle.canon
        /\ worker'.live = Idle.live /\ worker'.sources = Idle.sources /\ worker'.todo = Idle.todo
    BY <2>1, IdleFacts DEF Worker
  <2> QED BY <2>2, <2>3, IdleFacts
<1>4. Kinds'
  BY <1>1, <1>3 DEF TypeInv, Kinds
<1>5. Pointers'
  BY <1>1, <1>2, <1>3 DEF TypeInv, Kinds, Pointers
<1>6. Turns'
  BY <1>1, <1>3 DEF TypeInv, Turns, Op
<1> QED BY <1>3, <1>4, <1>5, <1>6 DEF TypeInv

LEMMA ObservedFacts ==
  ASSUME TypeInv, Registered, NEW o \in Owner
  PROVE  Observed(o) \in Reference /\ Observed(o).sid <= Len(silences)
<1>1. CASE Owned(o) = {}
  BY <1>1, NoRefFacts DEF Observed, TypeInv, Kinds
<1>2. CASE Owned(o) # {}
  <2> DEFINE s == CHOOSE s \in Owned(o) : \A t \in Owned(o) : silences[t].gen <= silences[s].gen
  <2>1. /\ Owned(o) \subseteq DOMAIN silences /\ DOMAIN silences = 1..Len(silences)
        /\ Len(silences) \in Nat /\ \A t \in Owned(o) : silences[t] \in Silence
    BY DEF Owned, TypeInv, Kinds
  <2>2. \A t \in Owned(o) : silences[t].gen \in Nat
    BY <2>1 DEF Silence
  <2>3. s \in Owned(o)
    <3> DEFINE G == {silences[t].gen : t \in Owned(o)}
    <3>1. G \subseteq Nat /\ G # {}
      BY <1>2, <2>2
    <3>2. PICK b \in Nat : \A i \in DOMAIN ops : ops[i].owner = o => ops[i].gen <= b
      BY DEF Registered, Numbered
    <3>3. \A t \in Owned(o) : silences[t].gen <= b
      BY <2>1, <3>2 DEF Owned, Registered, Named, TypeInv, Pointers
    <3>4. \A g \in G : g <= b
      BY <3>3
    <3> HIDE DEF G
    <3>5. PICK m \in G : \A g \in G : g <= m
      BY <3>1, <3>4, Greatest
    <3>6. \E t \in Owned(o) : \A r \in Owned(o) : silences[r].gen <= silences[t].gen
      BY <3>5 DEF G
    <3> QED BY <3>6
  <2>4. Observed(o) = [state |-> silences[s].state, sid |-> s, gen |-> silences[s].gen]
    BY <1>2 DEF Observed
  <2> HIDE DEF s
  <2>5. s \in Nat /\ s <= Len(silences) /\ silences[s] \in Silence
    BY <2>1, <2>3
  <2>6. silences[s].state \in {"live", "expired"} /\ silences[s].gen \in Nat
    BY <2>3, <2>5 DEF Silence, Owned
  <2> QED BY <2>4, <2>5, <2>6 DEF Reference, States
<1> QED BY <1>1, <1>2

LEMMA RefreshedFacts ==
  ASSUME NEW ref \in Reference, NEW seen \in Reference
  PROVE  /\ Refreshed(ref, seen) \in Reference
         /\ Refreshed(ref, seen).sid \in {ref.sid, seen.sid}
<1>1. /\ [ref EXCEPT !.state = "deleted"] \in Reference
      /\ [ref EXCEPT !.state = "deleted"].sid = ref.sid
  BY DEF Reference, States
<1>2. /\ [ref EXCEPT !.state = seen.state, !.sid = seen.sid] \in Reference
      /\ [ref EXCEPT !.state = seen.state, !.sid = seen.sid].sid = seen.sid
  BY DEF Reference
<1> QED BY <1>1, <1>2 DEF Refreshed

LEMMA TypeReconcile ==
  ASSUME TypeInv, Registered, ReconcileList \/ RefreshOwned
  PROVE  TypeInv'
<1>1. CASE ReconcileList
  <2>1. /\ UNCHANGED <<mode, ops, refs, requests, caller, worker, drain, enabled, auth, silences,
                       late, overdue, used>>
        /\ drain = "off" /\ worker.pc = "idle"
        /\ reader' = [pc |-> "listed", seen |-> [o \in Owner |-> Observed(o)]]
    BY <1>1 DEF ReconcileList, ReconcileLock, Serving, durable, world
  <2>2. /\ reader' \in [pc : {"idle", "listed"}, seen : [Owner -> Reference]]
        /\ \A o \in Owner : reader'.seen[o].sid <= Len(silences)
    BY <2>1, ObservedFacts
  <2>3. Kinds'
    BY <2>1, <2>2 DEF TypeInv, Kinds
  <2>4. Pointers'
    BY <2>1, <2>2 DEF TypeInv, Pointers
  <2>5. Len(ops) <= Len(ops')
    BY <2>1 DEF TypeInv, Kinds
  <2> QED BY <2>1, <2>3, <2>4, <2>5, TypeRest
<1>2. CASE RefreshOwned
  <2>1. /\ UNCHANGED <<mode, ops, requests, caller, worker, drain, enabled, auth, silences,
                       late, overdue, used>>
        /\ reader.pc = "listed" /\ reader' = Unread
        /\ refs' = [o \in Owner |-> Refreshed(refs[o], reader.seen[o])]
    BY <1>2 DEF RefreshOwned, world
  <2>2. \A o \in Owner : /\ refs[o] \in Reference /\ reader.seen[o] \in Reference
                         /\ refs[o].sid <= Len(silences) /\ reader.seen[o].sid <= Len(silences)
    BY DEF TypeInv, Kinds, Pointers
  <2>3. refs' \in [Owner -> Reference] /\ \A o \in Owner : refs'[o].sid <= Len(silences)
    BY <2>1, <2>2, RefreshedFacts
  <2>4. Kinds'
    BY <2>1, <2>3, UnreadFacts DEF TypeInv, Kinds
  <2>5. Pointers'
    BY <2>1, <2>3, UnreadFacts DEF TypeInv, Kinds, Pointers
  <2>6. Turns'
    BY <2>1, UnreadFacts DEF TypeInv, Turns, Op
  <2> QED BY <2>4, <2>5, <2>6 DEF TypeInv
<1> QED BY <1>1, <1>2

LEMMA TypeDrain ==
  ASSUME TypeInv, DrainStep \/ DeliverFails \/ DrainAborts
  PROVE  TypeInv'
<1>1. CASE Begin
  <2>1. /\ mode' = "draining" /\ drain = "begin" /\ drain' = "work" /\ worker.pc = "idle"
        /\ UNCHANGED <<requests, caller, worker, reader, enabled, auth, silences, late, overdue,
                       used>>
    BY <1>1 DEF Begin, world, TypeInv, Turns
  <2>2. refs' \in [Owner -> Reference] /\ \A o \in Owner : refs'[o].sid <= Len(silences)
    BY <1>1, BeginFacts
  <2>3. PICK new \in Seq(Operation) : ops' = ops \o new
    BY <1>1, BeginFacts
  <2>4. ops' \in Seq(Operation) /\ Len(ops) <= Len(ops') /\ Len(ops) \in Nat /\ Len(ops') \in Nat
    BY <2>3 DEF TypeInv, Kinds
  <2>5. Kinds'
    BY <2>1, <2>2, <2>4 DEF TypeInv, Kinds
  <2>6. /\ \A r \in Request : requests[r] <= Len(ops')
        /\ worker.op <= Len(ops')
        /\ \A s \in DOMAIN silences : silences[s].op \in DOMAIN ops'
        /\ \A x \in late : x.op \in DOMAIN ops' /\ x.target <= Len(silences)
        /\ overdue \subseteq DOMAIN ops'
    <3>1. DOMAIN ops \subseteq DOMAIN ops'
      BY <2>4 DEF TypeInv, Kinds
    <3>2. \A r \in Request : requests[r] \in Nat /\ requests[r] <= Len(ops)
      BY DEF TypeInv, Kinds, Pointers
    <3>3. worker.op \in Nat /\ worker.op <= Len(ops)
      BY DEF TypeInv, Kinds, Pointers, Worker
    <3>4. (\A r \in Request : requests[r] <= Len(ops')) /\ worker.op <= Len(ops')
      BY <2>4, <3>2, <3>3
    <3> QED BY <3>1, <3>4 DEF TypeInv, Pointers
  <2>7. Pointers'
    BY <2>1, <2>2, <2>6 DEF TypeInv, Pointers
  <2>8. Turns'
    BY <2>1 DEF TypeInv, Turns
  <2> QED BY <2>5, <2>7, <2>8 DEF TypeInv
<1>2. CASE Deliver \/ DeliverFails \/ VerifyList \/ DrainAborts
  <2>1. /\ UNCHANGED <<mode, ops, refs, requests, caller, worker, reader, enabled, auth, silences,
                       late, overdue>>
        /\ worker.pc = "idle" /\ drain # "off" /\ drain' \in {"begin", "verify", "aborted"}
        /\ UNCHANGED used \/ Spend("fault")
    BY <1>2 DEF InRun, Deliver, DeliverFails, VerifyList, DrainAborts, durable, world
  <2>2. Kinds'
    BY <2>1, SpendFacts DEF TypeInv, Kinds, Moves
  <2>3. Pointers'
    BY <2>1 DEF TypeInv, Pointers
  <2>4. Len(ops) <= Len(ops')
    BY <2>1 DEF TypeInv, Kinds
  <2>5. reader.pc = "idle" /\ \A c \in Caller : caller[c].pc = "idle"
    BY <2>1 DEF TypeInv, Turns
  <2> QED BY <2>1, <2>2, <2>3, <2>4, <2>5, TypeRest
<1>3. CASE VerifyState
  <2>1. /\ UNCHANGED <<mode, ops, requests, caller, worker, reader, enabled, auth, silences,
                       late, overdue, used>>
        /\ drain = "verify" /\ drain' \in {"begin", "failed", "done"}
        /\ \/ refs' = refs
           \/ refs' = [o \in Owner |-> IF refs[o].state = "expired" THEN NoRef ELSE refs[o]]
    BY <1>3 DEF VerifyState, world
  <2>2. worker.pc = "idle" /\ reader.pc = "idle" /\ \A c \in Caller : caller[c].pc = "idle"
    BY <2>1 DEF TypeInv, Turns
  <2>3. refs' \in [Owner -> Reference] /\ \A o \in Owner : refs'[o].sid <= Len(silences)
    <3>1. /\ refs \in [Owner -> Reference] /\ \A o \in Owner : refs[o].sid <= Len(silences)
          /\ NoRef.sid <= Len(silences)
      BY NoRefFacts DEF TypeInv, Kinds, Pointers
    <3> QED BY <2>1, <3>1, NoRefFacts
  <2>4. Kinds'
    BY <2>1, <2>3 DEF TypeInv, Kinds
  <2>5. Pointers'
    BY <2>1, <2>3 DEF TypeInv, Pointers
  <2>6. Len(ops) <= Len(ops')
    BY <2>1 DEF TypeInv, Kinds
  <2> QED BY <2>1, <2>2, <2>4, <2>5, <2>6, TypeRest
<1> QED BY <1>1, <1>2, <1>3 DEF DrainStep

LEMMA TypeRestart ==
  ASSUME TypeInv, Restart
  PROVE  TypeInv'
<1>1. /\ UNCHANGED <<mode, ops, refs, requests, auth, silences, late, overdue>>
      /\ caller' = [c \in Caller |-> Unasked] /\ worker' = Idle /\ reader' = Unread
      /\ enabled' \in BOOLEAN /\ drain' \in {"off", "begin"}
      /\ Spend("crash") \/ Spend("drain")
  BY DEF Restart, durable, world
<1>2. caller' \in [Caller -> Call] /\ \A c \in Caller : caller'[c].pc = "idle"
  BY <1>1, UnaskedFacts
<1>3. Kinds'
  BY <1>1, <1>2, IdleFacts, UnreadFacts, SpendFacts DEF TypeInv, Kinds, Moves
<1>4. Pointers'
  BY <1>1, <1>2, IdleFacts, UnreadFacts DEF TypeInv, Kinds, Pointers
<1>5. Turns'
  BY <1>1, <1>2, IdleFacts, UnreadFacts DEF TypeInv, Turns
<1> QED BY <1>3, <1>4, <1>5 DEF TypeInv

LEMMA TypeWorld ==
  ASSUME TypeInv, World
  PROVE  TypeInv'
<1>0. /\ UNCHANGED <<mode, ops, refs, requests, caller, worker, reader, drain, enabled>>
      /\ Len(ops) <= Len(ops')
  BY DEF World, Apply, Discard, SilenceEnds, AuthChanges, DeadlinePasses, durable, TypeInv, Kinds
<1>1. SUFFICES Kinds' /\ Pointers'
  BY <1>0, TypeRest DEF Op, TypeInv, Turns
<1>2. CASE \E x \in late : Apply(x)
  <2>1. PICK x \in late : Apply(x)
    BY <1>2
  <2>2. late' \subseteq late /\ UNCHANGED <<auth, overdue, used>>
    BY <2>1 DEF Apply
  <2>3. silences' = silences \/ Renews(x)
    BY <2>1, AppliedFacts DEF Apply
  <2>4. x.op \in DOMAIN ops /\ silences \in Seq(Silence) /\ Len(silences) \in Nat
    BY DEF TypeInv, Kinds, Pointers
  <2>5. /\ silences' \in Seq(Silence) /\ Len(silences) <= Len(silences')
        /\ DOMAIN silences \subseteq DOMAIN silences' /\ Len(silences') \in Nat
        /\ \A s \in DOMAIN silences' : silences'[s].op \in DOMAIN ops
    <3>1. CASE silences' = silences
      BY <2>4, <3>1 DEF TypeInv, Pointers
    <3>2. CASE Renews(x)
      <4>1. /\ silences' \in Seq(Silence) /\ Len(silences') = Len(silences) + 1
            /\ \A s \in DOMAIN silences : silences'[s].op \in DOMAIN ops
            /\ silences'[Len(silences) + 1].op \in DOMAIN ops
        BY <2>4, <3>2 DEF Renews, TypeInv, Pointers
      <4>2. \A s \in DOMAIN silences' : s \in DOMAIN silences \/ s = Len(silences) + 1
        BY <2>4, <4>1
      <4> QED BY <2>4, <4>1, <4>2
    <3> QED BY <2>3, <3>1, <3>2
  <2>6. Kinds'
    BY <1>0, <2>2, <2>5 DEF TypeInv, Kinds
  <2>7. /\ \A o \in Owner : refs[o].sid <= Len(silences') /\ reader.seen[o].sid <= Len(silences')
        /\ worker.canon <= Len(silences')
        /\ \A y \in late' : y.target <= Len(silences')
    <3>1. \A o \in Owner : refs[o].sid \in Nat /\ reader.seen[o].sid \in Nat
      <4>1. \A o \in Owner : refs[o] \in Reference /\ reader.seen[o] \in Reference
        BY DEF TypeInv, Kinds
      <4> QED BY <4>1 DEF Reference
    <3>2. worker.canon \in Nat /\ \A y \in late : y.target \in Nat
      BY DEF TypeInv, Kinds, Worker
    <3> QED BY <2>2, <2>4, <2>5, <3>1, <3>2 DEF TypeInv, Pointers
  <2>8. Pointers'
    BY <1>0, <2>2, <2>5, <2>7 DEF TypeInv, Pointers
  <2> QED BY <2>6, <2>8
<1>3. CASE \E x \in late : Discard(x)
  <2>1. UNCHANGED <<auth, silences, overdue>> /\ Spend("fault") /\ late' \subseteq late
    BY <1>3 DEF Discard
  <2>2. Kinds'
    BY <1>0, <2>1, SpendFacts DEF TypeInv, Kinds, Moves
  <2>3. Pointers'
    BY <1>0, <2>1 DEF TypeInv, Pointers
  <2> QED BY <2>2, <2>3
<1>4. CASE \E s \in DOMAIN silences : SilenceEnds(s)
  <2>1. PICK s \in DOMAIN silences : SilenceEnds(s)
    BY <1>4
  <2>2. UNCHANGED <<auth, late, overdue>> /\ Spend("external")
    BY <2>1 DEF SilenceEnds
  <2>3. Fades
    <3>1. \E t \in {"expired", "gone"} : /\ t = "expired" => silences[s].state = "live"
                                         /\ silences' = [silences EXCEPT ![s].state = t]
      BY <2>1 DEF SilenceEnds
    <3> QED BY <3>1, StateFacts DEF TypeInv
  <2>4. Kinds'
    BY <1>0, <2>2, <2>3, SpendFacts DEF TypeInv, Kinds, Moves, Fades
  <2>5. DOMAIN silences' = DOMAIN silences /\ Len(silences') = Len(silences)
    BY <2>3 DEF TypeInv, Kinds, Fades
  <2>6. Pointers'
    BY <1>0, <2>2, <2>3, <2>5 DEF TypeInv, Pointers, Fades
  <2> QED BY <2>4, <2>6
<1>5. CASE AuthChanges
  <2>1. UNCHANGED <<silences, late, overdue>> /\ Spend("auth") /\ auth' \in BOOLEAN
    BY <1>5 DEF AuthChanges, TypeInv, Kinds
  <2>2. Kinds'
    BY <1>0, <2>1, SpendFacts DEF TypeInv, Kinds, Moves
  <2>3. Pointers'
    BY <1>0, <2>1 DEF TypeInv, Pointers
  <2> QED BY <2>2, <2>3
<1>6. CASE \E o \in DOMAIN ops : DeadlinePasses(o)
  <2>1. PICK o \in DOMAIN ops : overdue' = overdue \cup {o}
    BY <1>6 DEF DeadlinePasses
  <2>2. UNCHANGED <<auth, silences, late, used>>
    BY <1>6 DEF DeadlinePasses
  <2>5. o \in Nat
    BY DEF TypeInv, Kinds
  <2>3. Kinds'
    BY <1>0, <2>1, <2>2, <2>5 DEF TypeInv, Kinds
  <2>4. Pointers'
    BY <1>0, <2>1, <2>2 DEF TypeInv, Pointers
  <2> QED BY <2>3, <2>4
<1> QED BY <1>2, <1>3, <1>4, <1>5, <1>6 DEF World

\* The steps of Next that are not the worker's.
OtherSteps ==
  \/ \E c \in Caller : Handler(c)
  \/ \E o \in DOMAIN ops : Select(o)
  \/ ReconcileList \/ RefreshOwned
  \/ DrainStep \/ DeliverFails \/ DrainAborts
  \/ Restart \/ World

LEMMA NextSplit == Next => WorkerSteps \/ OtherSteps
BY DEF Next, WorkerSteps, OtherSteps, Attempt, Trouble

LEMMA OtherType ==
  ASSUME TypeInv, Registered, OtherSteps
  PROVE  TypeInv'
BY TypeAsk, TypeRegister, TypeSelect, TypeReconcile, TypeDrain, TypeRestart, TypeWorld
   DEF OtherSteps, Handler

\* Outside the worker's steps the worker stays where it is, starts or is stopped.
LEMMA OtherWorker ==
  ASSUME TypeInv, OtherSteps
  PROVE  \/ worker' = worker
         \/ worker' = Idle
         \/ \E o \in DOMAIN ops : Select(o)
BY DEF OtherSteps, Handler, AskExpire, AskCreate, Register, ReconcileList, RefreshOwned, DrainStep,
       DrainAborts, Begin,
       InRun, Deliver, DeliverFails, VerifyList, VerifyState, Restart, World, Apply, Discard,
       SilenceEnds,
       AuthChanges, DeadlinePasses

LEMMA CanonicalNext ==
  ASSUME TypeInv, Canonical, [Next]_vars
  PROVE  Canonical'
<1>1. ASSUME worker' = worker \/ worker'.pc \notin {"posted", "readback", "expiring"}
      PROVE  Canonical'
  BY <1>1 DEF Canonical, Adopting
<1>2. CASE UNCHANGED vars
  BY <1>1, <1>2 DEF vars
<1>3. CASE OtherSteps
  BY <1>1, <1>3, OtherWorker, TypeSelect, IdleFacts
<1>4. CASE WorkerSteps
  <2>1. CASE GivesUp \/ GivesIn \/ Settles
    BY <1>1, <2>1, IdleFacts DEF GivesUp, GivesIn, Settles, Quits, AttemptEnds
  <2>2. CASE Marks \/ Submits
    BY <1>1, <2>2 DEF Marks, Submits
  <2>3. CASE Looks \/ ExpiresOne
    <3>1. worker.pc # "idle" /\ worker'.pc # "idle" /\ worker' # Idle
      BY <2>3, IdleFacts DEF Looks, ExpiresOne, Going
    <3>2. CASE List
      BY <1>1, <3>2, ListFacts
    <3>3. CASE Decide
      <4>1. CASE Adopt
        <5>1. worker.canon # 0 /\ worker.live \in SUBSET DOMAIN silences
              /\ worker.live \ {worker.canon} \in SUBSET DOMAIN silences
              /\ "readback" \in Ends /\ "unauthorized" \in Ends
          BY <4>1 DEF Adopt, TypeInv, Pointers, Ends
        <5>2. worker'.canon = worker.canon
          BY <4>1, <5>1, ExpiringFacts DEF Adopt
        <5> QED BY <5>1, <5>2 DEF Canonical
      <4>2. CASE Draining \/ Expire
        <5>1. worker.live \in SUBSET DOMAIN silences
              /\ "retry" \in Ends /\ "cancel" \in Ends /\ "expired" \in Ends
          BY DEF TypeInv, Pointers, Ends
        <5>2. \/ Fail
              \/ MarkSubmitted
              \/ \E then \in {"retry", "cancel", "expired"} : Expiring(worker.live, then)
          BY <4>2 DEF Draining, Expire
        <5>3. CASE Fail
          BY <3>1, <5>3 DEF Fail, EndsAs, AttemptEnds
        <5>4. CASE MarkSubmitted
          BY <1>1, <5>4, StepFacts DEF MarkSubmitted, Steps
        <5>5. CASE \E then \in {"retry", "cancel", "expired"} : Expiring(worker.live, then)
          BY <5>1, <5>5, ExpiringFacts DEF Canonical, Adopting
        <5> QED BY <5>2, <5>3, <5>4, <5>5
      <4>3. CASE NotFound \/ Submission
        <5>1. Fail \/ Retry \/ MarkSubmitted
          BY <4>3 DEF NotFound, Submission
        <5>2. MarkSubmitted
          BY <3>1, <5>1 DEF Fail, Retry, EndsAs, AttemptEnds
        <5> QED BY <1>1, <5>2, StepFacts DEF MarkSubmitted, Steps
      <4> QED BY <3>3, <4>1, <4>2, <4>3 DEF Decide
    <3>4. CASE Submit
      <4>1. auth
        BY <3>1, <3>4 DEF Submit, Fail, EndsAs, AttemptEnds
      <4> QED BY <1>1, <3>4, <4>1, SubmitFacts DEF Submits
    <3>5. CASE ExpireMarked
      <4>1. Expiring(worker.live, "expired") /\ worker.live \in SUBSET DOMAIN silences
            /\ "expired" \in Ends
        BY <3>1, <3>5 DEF ExpireMarked, Fail, EndsAs, AttemptEnds, TypeInv, Pointers, Ends
      <4> QED BY <4>1, ExpiringFacts DEF Canonical, Adopting
    <3>6. CASE Accepted
      <4>1. PICK canon \in Marked : Goes([worker EXCEPT !.pc = "posted", !.canon = canon])
        BY <3>1, <3>6 DEF Accepted, Retry, EndsAs, AttemptEnds
      <4>2. worker'.canon = canon
        BY <4>1, AcceptedFacts DEF Goes
      <4>3. canon # 0
        BY LiveFacts DEF TypeInv, Kinds
      <4> QED BY <4>2, <4>3 DEF Canonical
    <3>7. CASE Posted
      BY <3>7, PostedFacts DEF Canonical, Adopting, Posted
    <3>8. CASE Readback
      <4>1. worker.canon # 0
        BY <3>8 DEF Readback, Canonical, Adopting
      <4>2. worker.canon \in DOMAIN silences
        BY <4>1 DEF TypeInv, Kinds, Pointers, Worker
      <4>3. worker'.canon = worker.canon
        BY <3>1, <3>8, <4>2, ReadbackFacts DEF Readback, Retry, EndsAs, AttemptEnds, Goes
      <4> QED BY <4>1, <4>3 DEF Canonical
    <3>9. CASE \E s \in DOMAIN silences : ExpireOne(s)
      <4>1. PICK s \in DOMAIN silences : ExpireOne(s)
        BY <3>9
      <4>2. worker.pc = "expiring" /\ worker' = [worker EXCEPT !.todo = worker.todo \ {s}]
        BY <3>1, <4>1 DEF ExpireOne, Retry, EndsAs, AttemptEnds, Goes
      <4> QED BY <4>2, TodoFacts DEF Canonical, Adopting
    <3>10. CASE DuplicatesExpired
      BY <3>10, StepFacts DEF DuplicatesExpired, Expired, Goes, Steps, Canonical, Adopting
    <3>11. CASE \/ ReadFails \/ StoreFails \/ NoLongerAllowed \/ Unanswered \/ WaitForMarker
                \/ Rejected \/ Complete \/ CompleteExpire \/ Cancel \/ Unauthorized
                \/ \E s \in DOMAIN silences : ExpireFails(s)
      BY <3>1, <3>11 DEF ReadFails, StoreFails, NoLongerAllowed, Unanswered, WaitForMarker,
         Rejected, Complete, CompleteExpire, Cancel, Unauthorized, ExpireFails, Retry, Fail,
         EndsAs, AttemptEnds
    <3> QED BY <1>4, <3>2, <3>3, <3>4, <3>5, <3>6, <3>7, <3>8, <3>9, <3>10, <3>11
            DEF WorkerSteps, Attempt
  <2>4. worker.pc = "readback" => worker.canon # 0
    BY DEF Canonical, Adopting
  <2> QED BY <1>4, <2>1, <2>2, <2>3, <2>4, WorkerKind DEF Kind
<1> QED BY <1>2, <1>3, <1>4, NextSplit

LEMMA NextType ==
  ASSUME TypeInv, Canonical, Registered, [Next]_vars
  PROVE  TypeInv'
<1>1. CASE UNCHANGED vars
  <2>1. Kinds' /\ Pointers' /\ Turns'
    BY <1>1 DEF vars, durable, world, TypeInv, Kinds, Pointers, Turns, Op
  <2> QED BY <2>1 DEF TypeInv
<1>2. CASE WorkerSteps
  <2>1. worker.pc = "readback" => worker.canon # 0
    BY DEF Canonical, Adopting
  <2> QED BY <1>2, <2>1, WorkerKind, KindType
<1>3. CASE OtherSteps
  BY <1>3, OtherType
<1> QED BY <1>1, <1>2, <1>3, NextSplit

\* Operations go on as they are, and at most a new silence of one of them appears.
LEMMA RegisteredKept ==
  ASSUME TypeInv, Registered, OpsKept, requests' = requests,
         Fades \/ \E x \in late : Renews(x)
  PROVE  Registered'
<1>1. /\ DOMAIN ops' = DOMAIN ops /\ \A i \in DOMAIN ops : Like(ops'[i], ops[i])
      /\ \A i \in DOMAIN ops : Terminal(ops[i]) => Terminal(ops'[i])
  BY DEF TypeInv, Kinds, OpsKept, Terminal
<1>2. \A i \in DOMAIN ops : Scope(ops'[i]) = Scope(ops[i])
  BY <1>1 DEF Like, Scope
<1>3. InOrder'
  BY <1>1, <1>2 DEF Registered, InOrder
<1>4. Numbered'
  <2>1. \A i \in DOMAIN ops : ops'[i].req = ops[i].req /\ ops'[i].owner = ops[i].owner
                              /\ ops'[i].action = ops[i].action /\ ops'[i].gen = ops[i].gen
    BY <1>1 DEF Like
  <2>2. (\A i \in DOMAIN ops : ops[i].req \in Request \ {None} => requests[ops[i].req] = i)'
    BY <1>1, <2>1 DEF Registered, Numbered
  <2>3. (\A i, j \in DOMAIN ops :
           i < j /\ ops[i].owner = ops[j].owner /\ ops[j].action = "create"
           => ops[i].gen < ops[j].gen)'
    BY <1>1, <2>1 DEF Registered, Numbered
  <2>4. (\A o \in Owner : \E b \in Nat : \A i \in DOMAIN ops : ops[i].owner = o => ops[i].gen <= b)'
    BY <1>1, <2>1 DEF Registered, Numbered
  <2> QED BY <2>2, <2>3, <2>4 DEF Numbered
<1>5. Named'
  <2>1. \A i \in DOMAIN ops : ops'[i].owner = ops[i].owner /\ ops'[i].gen = ops[i].gen
    BY <1>1 DEF Like
  <2>2. \A s \in DOMAIN silences : silences[s].op \in DOMAIN ops
    BY DEF TypeInv, Pointers
  <2>3. CASE Fades
    <3>1. DOMAIN silences' = DOMAIN silences
      BY <2>3 DEF TypeInv, Kinds, Fades
    <3> QED BY <2>1, <2>2, <2>3, <3>1 DEF Fades, Registered, Named
  <2>4. CASE \E x \in late : Renews(x)
    <3>1. PICK x \in late : Renews(x)
      BY <2>4
    <3>2. x.op \in DOMAIN ops
      BY DEF TypeInv, Pointers
    <3>3. \A s \in DOMAIN silences' : s \in DOMAIN silences \/ s = Len(silences) + 1
      BY <3>1 DEF TypeInv, Kinds, Renews
    <3>4. ASSUME NEW s \in DOMAIN silences'
          PROVE  /\ silences'[s].owner = ops'[silences'[s].op].owner
                 /\ silences'[s].gen = ops'[silences'[s].op].gen
      <4>1. CASE s \in DOMAIN silences
        BY <2>1, <2>2, <3>1, <4>1 DEF Renews, Registered, Named
      <4>2. CASE s = Len(silences) + 1
        BY <2>1, <3>1, <3>2, <4>2 DEF Renews
      <4> QED BY <3>3, <4>1, <4>2
    <3> QED BY <3>4 DEF Named
  <2> QED BY <2>3, <2>4
<1> QED BY <1>3, <1>4, <1>5 DEF Registered

\* Operations are added, in scopes that nobody works on.
LEMMA RegisteredGrows ==
  ASSUME TypeInv, Registered, NEW new \in Seq(Operation), ops' = ops \o new,
         \A k \in DOMAIN new : Adds(new[k]),
         \A j, k \in DOMAIN new : j # k => Scope(new[j]) \cap Scope(new[k]) = {},
         \A i \in DOMAIN ops : ops[i].req \in Request \ {None}
                               => requests'[ops[i].req] = requests[ops[i].req],
         \A k \in DOMAIN new : new[k].req \in Request \ {None}
                               => requests'[new[k].req] = Len(ops) + k,
         silences' = silences
  PROVE  Registered'
<1> DEFINE n == Len(ops)
<1>1. /\ n \in Nat /\ ops \in Seq(Operation) /\ DOMAIN ops = 1..n
      /\ \A i \in DOMAIN ops : ops[i] \in Operation
  BY DEF TypeInv, Kinds
<1>2. /\ DOMAIN ops' = 1..(n + Len(new)) /\ Len(new) \in Nat /\ DOMAIN new = 1..Len(new)
      /\ \A i \in DOMAIN ops : ops'[i] = ops[i]
      /\ \A k \in DOMAIN new : ops'[n + k] = new[k]
  BY <1>1
<1> HIDE DEF n
<1>3. \A i \in DOMAIN ops' : i \in DOMAIN ops \/ \E k \in DOMAIN new : i = n + k
  <2> TAKE i \in DOMAIN ops'
  <2>1. CASE i <= n
    BY <1>1, <1>2, <2>1
  <2>2. CASE i > n
    <3>1. i - n \in 1..Len(new) /\ i = n + (i - n)
      BY <1>1, <1>2, <2>2
    <3> QED BY <1>2, <3>1
  <2> QED BY <1>1, <1>2, <2>1, <2>2
<1>4. \A k \in DOMAIN new : new[k] \in Operation /\ new[k].owner \in Owner
                            /\ new[k].owner \in Scope(new[k]) /\ new[k].gen \in Nat
  <2>1. \A k \in DOMAIN new : new[k] \in Operation
    OBVIOUS
  <2> QED BY <2>1, ParameterAssumption DEF Operation, Scope
<1>5. ASSUME NEW i \in DOMAIN ops, NEW k \in DOMAIN new, Scope(ops[i]) \cap Scope(new[k]) # {}
      PROVE  Terminal(ops[i])
  <2>1. ~NonTerminalFor(Scope(new[k]))
    BY DEF Adds
  <2>2. {ops[i].owner, ops[i].replaces} \cap Scope(new[k]) # {}
    BY <1>5 DEF Scope
  <2> QED BY <2>1, <2>2 DEF NonTerminalFor, OpSet
<1>6. InOrder'
  <2> SUFFICES ASSUME NEW i \in DOMAIN ops', NEW j \in DOMAIN ops', i < j,
                      Scope(ops'[i]) \cap Scope(ops'[j]) # {}
               PROVE  Terminal(ops'[i])
    BY DEF InOrder
  <2>1. CASE i \in DOMAIN ops /\ j \in DOMAIN ops
    BY <1>2, <2>1 DEF Registered, InOrder
  <2>2. CASE i \in DOMAIN ops /\ j \notin DOMAIN ops
    <3>1. PICK k \in DOMAIN new : j = n + k
      BY <1>3, <2>2
    <3> QED BY <1>2, <1>5, <2>2, <3>1
  <2>3. CASE i \notin DOMAIN ops
    <3>1. PICK k \in DOMAIN new : i = n + k
      BY <1>3, <2>3
    <3>2. j \notin DOMAIN ops
      BY <1>1, <1>2, <3>1
    <3>3. PICK m \in DOMAIN new : j = n + m
      BY <1>3, <3>2
    <3>4. k # m
      BY <3>1, <3>3
    <3> QED BY <1>2, <3>1, <3>3, <3>4
  <2> QED BY <2>1, <2>2, <2>3
<1>7. Numbered'
  <2>1. ASSUME NEW i \in DOMAIN ops', ops'[i].req \in Request \ {None}
        PROVE  requests'[ops'[i].req] = i
    <3>1. CASE i \in DOMAIN ops
      BY <1>2, <2>1, <3>1 DEF Registered, Numbered
    <3>2. CASE i \notin DOMAIN ops
      <4>1. PICK k \in DOMAIN new : i = n + k
        BY <1>3, <3>2
      <4> QED BY <1>2, <2>1, <4>1 DEF n
    <3> QED BY <3>1, <3>2
  <2>2. ASSUME NEW i \in DOMAIN ops', NEW j \in DOMAIN ops', i < j,
               ops'[i].owner = ops'[j].owner, ops'[j].action = "create"
        PROVE  ops'[i].gen < ops'[j].gen
    <3>1. CASE i \in DOMAIN ops /\ j \in DOMAIN ops
      BY <1>2, <2>2, <3>1 DEF Registered, Numbered
    <3>2. CASE i \in DOMAIN ops /\ j \notin DOMAIN ops
      <4>1. PICK k \in DOMAIN new : j = n + k
        BY <1>3, <3>2
      <4>2. ops'[j] = new[k] /\ ops'[i] = ops[i]
        BY <1>2, <3>2, <4>1
      <4>3. new[k].gen = NextGeneration(new[k].owner)
        BY <2>2, <4>2 DEF Adds
      <4> QED BY <1>4, <2>2, <3>2, <4>2, <4>3, NextFacts
    <3>3. CASE i \notin DOMAIN ops
      <4>1. PICK k \in DOMAIN new : i = n + k
        BY <1>3, <3>3
      <4>2. j \notin DOMAIN ops
        BY <1>1, <1>2, <2>2, <4>1
      <4>3. PICK m \in DOMAIN new : j = n + m
        BY <1>3, <4>2
      <4>6. i # j
        BY <1>1, <1>2, <2>2
      <4>4. k # m /\ ops'[i] = new[k] /\ ops'[j] = new[m]
        BY <1>2, <4>1, <4>3, <4>6
      <4>5. Scope(new[k]) \cap Scope(new[m]) = {}
        BY <4>4
      <4> QED BY <1>4, <2>2, <4>4, <4>5
    <3> QED BY <3>1, <3>2, <3>3
  <2>3. ASSUME NEW o \in Owner
        PROVE  \E b \in Nat : \A i \in DOMAIN ops' : ops'[i].owner = o => ops'[i].gen <= b
    <3>1. PICK b \in Nat : \A i \in DOMAIN ops : ops[i].owner = o => ops[i].gen <= b
      BY DEF Registered, Numbered
    <3>0. \A i \in DOMAIN ops : ops[i].gen \in Nat
      BY <1>1 DEF Operation
    <3>2. CASE \A k \in DOMAIN new : new[k].owner # o
      <4>1. ASSUME NEW i \in DOMAIN ops', ops'[i].owner = o PROVE ops'[i].gen <= b
        <5>1. i \in DOMAIN ops
          BY <1>2, <1>3, <3>2, <4>1
        <5> QED BY <1>2, <3>1, <4>1, <5>1
      <4> QED BY <4>1
    <3>3. CASE \E k \in DOMAIN new : new[k].owner = o
      <4>1. PICK k \in DOMAIN new : new[k].owner = o
        BY <3>3
      <4>2. new[k].gen \in Nat /\ b + new[k].gen \in Nat
        BY <1>4
      <4>3. \A m \in DOMAIN new : new[m].owner = o => m = k
        BY <1>4, <4>1
      <4>4. ASSUME NEW i \in DOMAIN ops', ops'[i].owner = o
            PROVE  ops'[i].gen <= b + new[k].gen
        <5>1. CASE i \in DOMAIN ops
          <6>1. ops'[i].gen <= b /\ ops'[i].gen \in Nat
            BY <1>2, <3>0, <3>1, <4>4, <5>1
          <6> QED BY <4>2, <6>1
        <5>2. CASE i \notin DOMAIN ops
          <6>1. PICK m \in DOMAIN new : i = n + m
            BY <1>3, <5>2
          <6>2. ops'[i] = new[m]
            BY <1>2, <6>1
          <6>3. ops'[i].gen = new[k].gen
            BY <4>3, <4>4, <6>2
          <6> QED BY <4>2, <6>3
        <5> QED BY <5>1, <5>2
      <4> QED BY <4>2, <4>4
    <3> QED BY <3>2, <3>3
  <2> QED BY <2>1, <2>2, <2>3 DEF Numbered
<1>8. Named'
  BY <1>2 DEF Registered, Named, TypeInv, Pointers
<1> QED BY <1>6, <1>7, <1>8 DEF Registered

LEMMA NextRegistered ==
  ASSUME TypeInv, Canonical, Registered, [Next]_vars
  PROVE  Registered'
<1>0. Fades \/ silences' # silences
  BY FadesSame DEF TypeInv
<1>1. CASE UNCHANGED vars
  <2>1. UNCHANGED <<ops, requests, silences>>
    BY <1>1 DEF vars, durable, world
  <2> QED BY <1>0, <2>1, OpsSame, RegisteredKept
<1>2. CASE WorkerSteps
  <2>1. worker.pc = "readback" => worker.canon # 0
    BY DEF Canonical, Adopting
  <2>2. Kind
    BY <1>2, <2>1, WorkerKind
  <2>3. Fades
    BY <1>0, <2>2, KillFacts DEF Kind, Looks, Marks, Submits, ExpiresOne, GivesUp, GivesIn, Settles
  <2> QED BY <2>2, <2>3, KindKept, RegisteredKept
<1>3. ASSUME NEW c \in Caller, Register(c) PROVE Registered'
  <2>1. silences' = silences
    BY <1>3 DEF Register, world
  <2>2. CASE ops' = ops /\ requests' = requests
    BY <1>0, <2>1, <2>2, OpsSame, RegisteredKept
  <2>3. CASE ~(ops' = ops /\ requests' = requests)
    <3>1. PICK op \in Operation :
            /\ Adds(op) /\ ops' = Append(ops, op)
            /\ op.req \in Request /\ requests[op.req] = 0
            /\ requests' = [requests EXCEPT ![op.req] = Len(ops) + 1]
      BY <1>3, <2>3, RegisterFacts
    <3>2. ops \in Seq(Operation) /\ requests \in [Request -> Nat]
      BY DEF TypeInv, Kinds
    <3> DEFINE new == <<op>>
    <3>3. /\ new \in Seq(Operation) /\ DOMAIN new = {1} /\ new[1] = op
          /\ Append(ops, op) = ops \o new
      BY <3>2
    <3> HIDE DEF new
    <3>4. ASSUME NEW i \in DOMAIN ops, ops[i].req \in Request \ {None}
          PROVE  requests'[ops[i].req] = requests[ops[i].req]
      <4>1. requests[ops[i].req] = i /\ i # 0
        BY <3>2, <3>4 DEF Registered, Numbered
      <4> QED BY <3>1, <3>2, <4>1
    <3>5. \A k \in DOMAIN new : new[k].req \in Request \ {None}
                                => requests'[new[k].req] = Len(ops) + k
      BY <3>1, <3>2, <3>3
    <3>6. /\ \A k \in DOMAIN new : Adds(new[k])
          /\ \A j, k \in DOMAIN new : j # k => Scope(new[j]) \cap Scope(new[k]) = {}
          /\ ops' = ops \o new
      BY <3>1, <3>3
    <3> QED BY <2>1, <3>3, <3>4, <3>5, <3>6, RegisteredGrows
  <2> QED BY <2>2, <2>3
<1>4. ASSUME Begin PROVE Registered'
  <2>1. silences' = silences /\ requests' = requests
    BY <1>4 DEF Begin, world
  <2>2. PICK new \in Seq(Operation) :
          /\ ops' = ops \o new
          /\ \A k \in DOMAIN new : Adds(new[k]) /\ new[k].action = "expire" /\ new[k].req = None
          /\ \A j, k \in DOMAIN new : j # k => Scope(new[j]) \cap Scope(new[k]) = {}
    BY <1>4, BeginFacts
  <2>3. \A k \in DOMAIN new : new[k].req \in Request \ {None}
                              => requests'[new[k].req] = Len(ops) + k
    BY <2>2
  <2> QED BY <2>1, <2>2, <2>3, RegisteredGrows
<1>5. ASSUME NEW x \in late, Apply(x) PROVE Registered'
  <2>1. UNCHANGED <<ops, requests>> /\ (silences' = silences \/ Renews(x))
    BY <1>5, AppliedFacts DEF Apply, durable
  <2> QED BY <1>0, <2>1, OpsSame, RegisteredKept
<1>6. ASSUME NEW s \in DOMAIN silences, SilenceEnds(s) PROVE Registered'
  <2>1. \E t \in {"expired", "gone"} : /\ t = "expired" => silences[s].state = "live"
                                       /\ silences' = [silences EXCEPT ![s].state = t]
    BY <1>6 DEF SilenceEnds
  <2>2. Fades
    BY <2>1, StateFacts DEF TypeInv
  <2>3. UNCHANGED <<ops, requests>>
    BY <1>6 DEF SilenceEnds, durable
  <2> QED BY <2>2, <2>3, OpsSame, RegisteredKept
<1>7. ASSUME UNCHANGED <<ops, requests, silences>> PROVE Registered'
  BY <1>0, <1>7, OpsSame, RegisteredKept
<1>8. CASE OtherSteps
  <2>1. ASSUME NEW c \in Caller, Handler(c) PROVE Registered'
    <3>1. Register(c) \/ UNCHANGED <<ops, requests, silences>>
      BY <2>1 DEF Handler, AskCreate, AskExpire, durable, world
    <3> QED BY <1>3, <1>7, <3>1
  <2>2. ASSUME NEW o \in DOMAIN ops, Select(o) PROVE Registered'
    BY <1>7, <2>2 DEF Select, durable, world
  <2>3. ASSUME \/ ReconcileList \/ RefreshOwned \/ VerifyList \/ VerifyState \/ DrainAborts
               \/ Deliver \/ DeliverFails
               \/ Restart \/ AuthChanges
        PROVE  Registered'
    BY <1>7, <2>3 DEF ReconcileList, RefreshOwned,
       InRun, Deliver, DeliverFails, VerifyList, VerifyState, DrainAborts, Restart,
       AuthChanges, durable, world
  <2>4. ASSUME World PROVE Registered'
    <3>1. ASSUME \/ \E x \in late : Discard(x)
                 \/ \E o \in DOMAIN ops : DeadlinePasses(o)
          PROVE  Registered'
      BY <1>7, <3>1 DEF Discard, DeadlinePasses, durable
    <3> QED BY <1>5, <1>6, <2>3, <2>4, <3>1 DEF World
  <2> QED BY <1>4, <1>8, <2>1, <2>2, <2>3, <2>4 DEF OtherSteps, DrainStep
<1> QED BY <1>1, <1>2, <1>8, NextSplit

Stocked == outbox \in Contents

LEMMA NextContents ==
  ASSUME Stocked, [Next]_vars
  PROVE  Stocked'
<1>1. ASSUME NEW phase, EndsAs(phase) PROVE Stocked'
  BY <1>1 DEF EndsAs, Tell, Contents, Stocked
<1>2. Retry \/ Fail => Stocked'
  BY <1>1 DEF Retry, Fail
<1>3. ASSUME UNCHANGED durable PROVE Stocked'
  BY <1>3 DEF durable, Stocked
<1>4. MarkSubmitted => Stocked'
  BY DEF MarkSubmitted, Stocked
<1>5. (\E next : Goes(next)) \/ (\E todo, then : Expiring(todo, then)) => Stocked'
  BY <1>3 DEF Goes, Expiring
<1>6. CASE Decide \/ Unanswered \/ NoLongerAllowed
  BY <1>2, <1>4, <1>5, <1>6 DEF Decide, Draining, NotFound, Submission, Adopt, Expire,
     Unanswered, NoLongerAllowed
<1>7. CASE List \/ Submit \/ ExpireMarked \/ Accepted \/ Rejected \/ Posted \/ Readback
  <2>1. Submit => Stocked'
    BY <1>2 DEF Submit, Stocked
  <2> QED BY <1>2, <1>5, <1>7, <2>1 DEF List, ExpireMarked, Accepted, Rejected, Posted, Readback
<1>8. CASE (\E s \in DOMAIN silences : ExpireOne(s) \/ ExpireFails(s)) \/ ReadFails \/ StoreFails
  BY <1>2, <1>3, <1>5, <1>8 DEF ExpireOne, ExpireFails, ReadFails, StoreFails
<1>9. CASE \/ WaitForMarker \/ DuplicatesExpired
           \/ Complete \/ CompleteExpire \/ Cancel \/ Unauthorized
  BY <1>1, <1>2, <1>5, <1>9 DEF WaitForMarker, DuplicatesExpired, Complete, CompleteExpire,
     Cancel, Unauthorized
<1>10. CASE (\E c \in Caller : Handler(c)) \/ (\E o \in DOMAIN ops : Select(o)) \/ World
            \/ ReconcileList \/ RefreshOwned
  BY <1>10 DEF Handler, AskCreate, AskExpire, Register, Select, World, Apply, Discard, SilenceEnds,
     AuthChanges, DeadlinePasses, ReconcileList, RefreshOwned, durable, Stocked
<1>11. CASE DrainStep \/ DeliverFails \/ DrainAborts \/ Restart
  BY <1>11, ParameterAssumption DEF DrainStep, Begin, Deliver, DeliverFails, VerifyList, VerifyState,
     DrainAborts, Restart, Contents, durable, Stocked
<1>12. CASE UNCHANGED vars
  BY <1>3, <1>12 DEF vars
<1> QED BY <1>6, <1>7, <1>8, <1>9, <1>10, <1>11, <1>12 DEF Next, Attempt, Trouble

Sound == TypeInv /\ Canonical /\ Registered

LEMMA SoundAlways == Spec => []Sound
<1>1. Init => Sound
  <2> SUFFICES ASSUME Init PROVE Sound
    OBVIOUS
  <2>1. Canonical
    BY IdleFacts DEF Init, Canonical, Adopting
  <2>2. Registered
    BY DEF Init, Registered, InOrder, Numbered, Named
  <2> QED BY <2>1, <2>2, TypeInit DEF Sound
<1>2. Sound /\ [Next]_vars => Sound'
  BY NextType, CanonicalNext, NextRegistered DEF Sound
<1> QED BY <1>1, <1>2, PTL DEF Spec

\* Every operation, reference, request and silence that the document, the worker or
\* Alertmanager refers to exists, whatever fails and wherever the process stops.
THEOREM TypeCorrect == Spec => []TypeOK
<1>1. Sound /\ Stocked => TypeOK
  <2> SUFFICES ASSUME Sound, Stocked PROVE TypeOK
    OBVIOUS
  <2>1. /\ mode \in {"active", "draining"}
        /\ drain \in {"off", "begin", "work", "verify", "done", "failed", "aborted"}
        /\ enabled \in BOOLEAN /\ auth \in BOOLEAN
    BY DEF Sound, TypeInv, Kinds
  <2>2. ASSUME NEW o \in DOMAIN ops
        PROVE  /\ ops[o].phase \in Phases /\ ops[o].owner \in Owner
               /\ ops[o].replaces \in Owner \cup {None} /\ ops[o].gen \in Nat \ {0}
    <3>1. ops[o] \in Operation
      BY DEF Sound, TypeInv, Kinds
    <3> QED BY <3>1 DEF Operation
  <2>3. refs \in [Owner -> [state : States, sid : 0..Len(silences), gen : Nat]]
    <3>1. refs \in [Owner -> Reference] /\ \A o \in Owner : refs[o].sid <= Len(silences)
      BY DEF Sound, TypeInv, Kinds, Pointers
    <3>2. \A o \in Owner : refs[o] \in [state : States, sid : 0..Len(silences), gen : Nat]
      BY <3>1 DEF Reference, Sound, TypeInv, Kinds
    <3> QED BY <3>1, <3>2
  <2>4. requests \in [Request -> 0..Len(ops)] /\ worker.op \in 0..Len(ops)
        /\ worker.canon \in 0..Len(silences)
    BY DEF Sound, TypeInv, Kinds, Pointers, Worker
  <2>5. \A x \in late : x.op \in DOMAIN ops /\ x.target \in 0..Len(silences)
    BY DEF Sound, TypeInv, Kinds, Pointers
  <2> QED BY <2>1, <2>2, <2>3, <2>4, <2>5 DEF Sound, Stocked, TypeInv, Pointers, TypeOK
<1>2. Init => Stocked
  BY DEF Init, Contents, Stocked
<1>3. Stocked /\ [Next]_vars => Stocked'
  BY NextContents
<1> QED BY <1>1, <1>2, <1>3, SoundAlways, PTL DEF Spec

\* A request makes one operation, one operation works on a scope, and the generations of the
\* creations of a scope grow, whoever registers and however their reads and edits interleave.
THEOREM RegistrationHolds == Spec => []Registration
<1>1. Sound => Registration
  <2> SUFFICES ASSUME Sound PROVE Registration
    OBVIOUS
  <2>0. ops \in Seq(Operation) /\ \A i \in DOMAIN ops : i \in Nat /\ ops[i] \in Operation
    BY DEF Sound, TypeInv, Kinds
  <2>1. OneOperationPerRequest
    BY <2>0 DEF OneOperationPerRequest, Sound, Registered, Numbered, Operation
  <2>2. OneOperationPerScope
    <3> SUFFICES ASSUME NEW i \in DOMAIN ops, NEW j \in DOMAIN ops, i # j,
                        ~Terminal(ops[i]), ~Terminal(ops[j]),
                        Scope(ops[i]) \cap Scope(ops[j]) # {}
                 PROVE  FALSE
      BY DEF OneOperationPerScope, Scope
    <3>1. i < j \/ j < i
      BY <2>0
    <3> QED BY <3>1 DEF Sound, Registered, InOrder
  <2>3. GenerationsGrow
    BY DEF GenerationsGrow, Sound, Registered, Numbered
  <2> QED BY <2>1, <2>2, <2>3 DEF Registration
<1> QED BY <1>1, SoundAlways, PTL

-----------------------------------------------------------------------------
(* An operation is submitted once.                                           *)

\* Operations are added behind those there are.
OpsGrow ==
  /\ ops' \in Seq(Operation) /\ Len(ops) <= Len(ops')
  /\ \A i \in DOMAIN ops : i \in DOMAIN ops' /\ ops'[i] = ops[i]
  /\ \A i \in DOMAIN ops' : i \notin DOMAIN ops => Adds(ops'[i])

LEMMA GrowFacts ==
  ASSUME TypeInv, NEW new \in Seq(Operation), ops' = ops \o new,
         \A k \in DOMAIN new : Adds(new[k])
  PROVE  OpsGrow
<1> DEFINE n == Len(ops)
<1>1. n \in Nat /\ ops \in Seq(Operation) /\ DOMAIN ops = 1..n
  BY DEF TypeInv, Kinds
<1>2. /\ ops' \in Seq(Operation) /\ Len(ops') = n + Len(new)
      /\ DOMAIN ops' = 1..(n + Len(new)) /\ Len(new) \in Nat /\ DOMAIN new = 1..Len(new)
      /\ \A i \in DOMAIN ops : ops'[i] = ops[i]
      /\ \A k \in DOMAIN new : ops'[n + k] = new[k]
  BY <1>1
<1> HIDE DEF n
<1>3. ASSUME NEW i \in DOMAIN ops', i \notin DOMAIN ops PROVE Adds(ops'[i])
  <2>1. i - n \in DOMAIN new /\ i = n + (i - n)
    BY <1>1, <1>2, <1>3
  <2>2. ops'[i] = new[i - n]
    BY <1>2, <2>1
  <2> QED BY <2>1, <2>2
<1>4. \A i \in DOMAIN ops : i \in DOMAIN ops'
  BY <1>1, <1>2
<1> QED BY <1>1, <1>2, <1>3, <1>4 DEF OpsGrow, n

\* Who adds operations changes nothing the worker or Alertmanager knows of.
LEMMA OtherOps ==
  ASSUME TypeInv, Registered, OtherSteps
  PROVE  \/ ops' = ops
         \/ OpsGrow /\ UNCHANGED <<worker, reader, silences, late, overdue, used, auth, enabled>>
<1>1. ASSUME NEW c \in Caller, Register(c), ops' # ops PROVE OpsGrow
  <2>1. PICK op \in Operation : Adds(op) /\ ops' = Append(ops, op)
    BY <1>1, RegisterFacts
  <2>2. ops \in Seq(Operation)
    BY DEF TypeInv, Kinds
  <2>3. /\ <<op>> \in Seq(Operation) /\ DOMAIN <<op>> = {1} /\ <<op>>[1] = op
        /\ ops' = ops \o <<op>>
    BY <2>1, <2>2
  <2>4. \A k \in DOMAIN <<op>> : Adds(<<op>>[k])
    BY <2>1, <2>3
  <2> QED BY <2>3, <2>4, GrowFacts
<1>2. ASSUME Begin PROVE OpsGrow
  BY <1>2, BeginFacts, GrowFacts
<1>3. ASSUME ops' # ops PROVE (\E c \in Caller : Register(c)) \/ Begin
  BY <1>3 DEF OtherSteps, Handler, AskCreate, AskExpire, Select, ReconcileList, RefreshOwned,
     DrainStep,
     InRun, Deliver, DeliverFails, VerifyList, VerifyState, DrainAborts, Restart, World, Apply,
     Discard, SilenceEnds,
     AuthChanges, DeadlinePasses, durable
<1>4. ASSUME NEW c \in Caller, Register(c)
      PROVE  UNCHANGED <<worker, reader, silences, late, overdue, used, auth, enabled>>
  BY <1>4 DEF Register, world
<1>5. ASSUME Begin
      PROVE  UNCHANGED <<worker, reader, silences, late, overdue, used, auth, enabled>>
  BY <1>5 DEF Begin, world
<1> QED BY <1>1, <1>2, <1>3, <1>4, <1>5

Once ==
  /\ \A i \in DOMAIN ops :
       /\ ops[i].posts <= 1
       /\ ops[i].phase = "prepared" \/ ops[i].action = "expire" => ops[i].posts = 0
  /\ worker.pc = "marked" => Op.posts = 0 /\ Op.phase # "prepared"

LEMMA NextOnce ==
  ASSUME Sound, Once, [Next]_vars
  PROVE  Once'
<1>0. TypeInv /\ Canonical /\ Registered /\ ops \in Seq(Operation)
      /\ \A i \in DOMAIN ops : ops[i] \in Operation /\ ops[i].posts \in Nat
  <2>1. TypeInv /\ Canonical /\ Registered /\ ops \in Seq(Operation)
        /\ \A i \in DOMAIN ops : ops[i] \in Operation
    BY DEF Sound, TypeInv, Kinds
  <2> QED BY <2>1 DEF Operation
<1>1. ASSUME ops' = ops, worker' = worker \/ worker'.pc # "marked" PROVE Once'
  BY <1>1 DEF Once, Op
<1>2. CASE UNCHANGED vars
  BY <1>1, <1>2 DEF vars, durable
<1>3. CASE WorkerSteps
  <2>1. worker.pc = "readback" => worker.canon # 0
    BY <1>0 DEF Canonical, Adopting
  <2>2. Kind
    BY <1>0, <1>3, <2>1, WorkerKind
  <2>3. CASE Looks
    <3>1. worker'.pc # "marked" /\ ops' = ops
      BY <2>3 DEF Looks
    <3> QED BY <1>1, <3>1
  <2>4. CASE Marks
    <3>1. worker.op \in DOMAIN ops /\ Op.phase = "prepared" /\ worker'.op = worker.op
      BY <1>0, <2>4, OpFacts DEF Marks, Going, WorkerRefers
    <3>2. /\ \A i \in DOMAIN ops : /\ ops'[i].posts = ops[i].posts
                                   /\ ops'[i].action = ops[i].action
                                   /\ ops'[i].phase = "prepared" => ops[i].phase = "prepared"
          /\ DOMAIN ops' = DOMAIN ops /\ ops'[worker.op].phase = "submitted"
      BY <1>0, <2>4, <3>1 DEF Marks, PhaseTo, Like
    <3>3. \A i \in DOMAIN ops' :
            /\ ops'[i].posts <= 1
            /\ ops'[i].phase = "prepared" \/ ops'[i].action = "expire" => ops'[i].posts = 0
      BY <1>0, <3>2 DEF Once
    <3> QED BY <3>1, <3>2, <3>3 DEF Once, Op
  <2>5. CASE Submits
    <3>1. /\ worker.op \in DOMAIN ops /\ worker.pc = "marked" /\ worker'.pc = "posting"
          /\ Op.action = "create"
      BY <1>0, <2>5, OpFacts DEF Submits, Going
    <3>2. /\ \A i \in DOMAIN ops : /\ ops'[i].phase = ops[i].phase /\ ops'[i].action = ops[i].action
                                   /\ ops'[i].posts = IF i = worker.op THEN ops[i].posts + 1
                                                     ELSE ops[i].posts
          /\ DOMAIN ops' = DOMAIN ops
      BY <1>0, <2>5 DEF Submits, Like
    <3>3. Op.posts = 0 /\ Op.phase # "prepared"
      BY <3>1 DEF Once
    <3>4. ops'[worker.op].posts = 1
      BY <3>1, <3>2, <3>3 DEF Op
    <3> QED BY <3>1, <3>2, <3>3, <3>4 DEF Once, Op
  <2>6. CASE ExpiresOne
    BY <1>1, <2>6 DEF ExpiresOne
  <2>7. CASE GivesUp \/ GivesIn \/ Settles
    <3>1. PICK p : Quits(p) /\ (p = "prepared" => Op.phase = "prepared")
      BY <2>7 DEF GivesUp, GivesIn, Settles
    <3>2. worker.op \in DOMAIN ops /\ worker'.pc = "idle"
      BY <1>0, <3>1, OpFacts, IdleFacts DEF Quits, AttemptEnds
    <3>3. /\ \A i \in DOMAIN ops : /\ ops'[i].posts = ops[i].posts
                                   /\ ops'[i].action = ops[i].action
                                   /\ ops'[i].phase = "prepared" => ops[i].phase = "prepared"
          /\ DOMAIN ops' = DOMAIN ops
      BY <1>0, <3>1, <3>2 DEF Quits, PhaseTo, Like, Op
    <3>4. \A i \in DOMAIN ops' :
            /\ ops'[i].posts <= 1
            /\ ops'[i].phase = "prepared" \/ ops'[i].action = "expire" => ops'[i].posts = 0
      BY <1>0, <3>3 DEF Once
    <3> QED BY <3>2, <3>4 DEF Once
  <2> QED BY <2>2, <2>3, <2>4, <2>5, <2>6, <2>7 DEF Kind
<1>4. CASE OtherSteps
  <2>1. worker' = worker \/ worker'.pc # "marked"
    BY <1>0, <1>4, OtherWorker, TypeSelect, IdleFacts
  <2>2. CASE ops' = ops
    BY <1>1, <2>1, <2>2
  <2>3. CASE ops' # ops
    <3>1. OpsGrow /\ worker' = worker
      BY <1>0, <1>4, <2>3, OtherOps
    <3>2. \A i \in DOMAIN ops' : \/ i \in DOMAIN ops /\ ops'[i] = ops[i]
                                \/ ops'[i].posts = 0
      BY <3>1 DEF OpsGrow, Adds
    <3>3. worker.pc = "marked" => ops'[worker.op] = Op
      BY <1>0, <3>1, OpFacts DEF OpsGrow, Op
    <3> QED BY <3>1, <3>2, <3>3 DEF Once, Op
  <2> QED BY <2>2, <2>3
<1> QED BY <1>2, <1>3, <1>4, NextSplit

LEMMA OnceAlways == Spec => []Once
<1>1. Init => Once
  BY IdleFacts DEF Init, Once
<1> QED BY <1>1, NextOnce, SoundAlways, PTL DEF Spec

\* An operation is submitted to Alertmanager at most once: it is marked before, and the mark
\* stays in the document through every retry, failure and restart.
THEOREM SubmittedAtMostOnce == Spec => []SubmittedOnce
<1>1. Once => SubmittedOnce
  BY DEF Once, SubmittedOnce, OpSet
<1> QED BY <1>1, OnceAlways, PTL

-----------------------------------------------------------------------------
(* Silences and the submissions that make them, when no deadline passes      *)
(* while an operation is being submitted (SubmitsInTime).                    *)

Silenced(s) == ops[silences[s].op]

\* The silences of an ownership come one after the other, each from one operation, and only
\* the last one may be live.
Sequel ==
  /\ \A s \in DOMAIN silences : Silenced(s).action = "create" /\ Silenced(s).posts = 1
  /\ \A s, t \in DOMAIN silences :
       s < t /\ silences[s].owner = silences[t].owner
       => silences[s].op < silences[t].op /\ silences[s].state # "live"

\* What is under way is of an operation in time, comes after the silences there are, and
\* replaces the live one, if there is one.
Underways ==
  /\ \A x \in late : /\ ops[x.op].action = "create" /\ ops[x.op].posts = 1
                     /\ ~Terminal(ops[x.op]) /\ x.op \notin overdue
                     /\ x.target # 0 => silences[x.target].owner = ops[x.op].owner
  /\ \A x \in late, s \in DOMAIN silences :
       silences[s].owner = ops[x.op].owner
       => silences[s].op < x.op /\ (silences[s].state = "live" => s = x.target)
  /\ \A x, y \in late : x.op = y.op => x = y

FailedOff ==
  \A s \in DOMAIN silences : Silenced(s).phase = "failed" => silences[s].state # "live"

History == Sequel /\ Underways /\ FailedOff

Busy(pcs) == worker.pc \in pcs
Ending(ends) == worker.pc = "expiring" /\ worker.then \in ends

\* What the worker holds is of its operation, and its action and deadline are as it goes.
Meant ==
  /\ worker.pc # "idle" =>
       /\ worker.overdue <=> worker.op \in overdue
       /\ worker.canon # 0 => silences[worker.canon].op = worker.op
  /\ Busy({"posting", "posted", "readback"}) => Op.action = "create"
  /\ worker.pc = "expiring" => (Op.action = "expire" <=> worker.then = "expired")
  /\ Busy({"marked", "posting"}) => worker.canon = 0
  /\ worker.pc = "marked" /\ Op.action = "create" => ~worker.overdue
  /\ Ending({"cancel"}) => worker.canon # 0 \/ worker.overdue

Owning ==
  /\ worker.pc # "idle" =>
       /\ \A s \in worker.live : silences[s].owner = Op.owner
       /\ \A s \in worker.sources : silences[s].owner = Op.replaces /\ Op.replaces # Op.owner
  /\ worker.pc = "expiring" =>
       /\ worker.then = "complete" => worker.todo \subseteq worker.sources
       /\ worker.then # "complete" => \A s \in worker.todo : silences[s].owner = Op.owner
       /\ worker.then = "readback" => worker.canon \notin worker.todo

Replaces == Op.action = "create" /\ Op.replaces \notin {None, Op.owner}

\* The worker knows of the live silences it has to know of.
Aware ==
  /\ Busy({"listed", "marked"}) =>
       /\ \A s, t \in worker.live : s = t
       /\ \A s \in LiveOf(Op.owner) :
            s \in worker.live \/ (worker.canon = 0 /\ silences[s].op = worker.op)
  /\ Busy({"listed"}) /\ Op.action = "create" /\ worker.canon = 0 /\ worker.overdue =>
       \A s \in DOMAIN silences : silences[s].op = worker.op => silences[s].state = "gone"
  /\ Ending({"cancel", "unauthorized", "expired"}) => LiveOf(Op.owner) \subseteq worker.todo
  /\ (Busy({"listed", "readback"}) \/ Ending({"readback"})) /\ Replaces
     => LiveOf(Op.replaces) \subseteq worker.sources
  /\ Ending({"complete"}) /\ Replaces => LiveOf(Op.replaces) \subseteq worker.todo
  /\ Ending({"complete"}) /\ silences[worker.canon].state = "live" => worker.seen = "live"

Held == Meant /\ Owning /\ Aware

All == Sound /\ Once /\ History /\ Held

LEMMA AllTypes ==
  ASSUME All
  PROVE  /\ TypeInv /\ Canonical /\ Registered
         /\ ops \in Seq(Operation) /\ DOMAIN ops = 1..Len(ops) /\ Len(ops) \in Nat
         /\ \A i \in DOMAIN ops : ops[i] \in Operation /\ ops[i].owner \in Scope(ops[i])
         /\ silences \in Seq(Silence) /\ DOMAIN silences = 1..Len(silences)
         /\ Len(silences) \in Nat
         /\ \A s \in DOMAIN silences : /\ silences[s] \in Silence /\ silences[s].op \in DOMAIN ops
                                       /\ silences[s].owner = Silenced(s).owner
                                       /\ silences[s].gen = Silenced(s).gen
         /\ \A x \in late : x.op \in DOMAIN ops /\ x.target \in 0..Len(silences)
         /\ worker \in Worker
<1>1. TypeInv /\ Canonical /\ Registered
  BY DEF All, Sound
<1>2. \A i \in DOMAIN ops : ops[i] \in Operation
  BY <1>1 DEF TypeInv, Kinds
<1>3. \A i \in DOMAIN ops : ops[i].owner \in Scope(ops[i])
  BY <1>2, ParameterAssumption DEF Operation, Scope
<1>4. \A s \in DOMAIN silences : silences[s] \in Silence
  BY <1>1 DEF TypeInv, Kinds
<1>5. \A x \in late : x.op \in DOMAIN ops /\ x.target \in 0..Len(silences)
  BY <1>1 DEF TypeInv, Kinds, Pointers
<1> QED BY <1>1, <1>2, <1>3, <1>4, <1>5 DEF TypeInv, Kinds, Pointers, Registered, Named, Silenced

\* One operation at a time works on a scope.
LEMMA OneAtATime ==
  ASSUME All, NEW i \in DOMAIN ops, NEW j \in DOMAIN ops, ~Terminal(ops[i]), ~Terminal(ops[j]),
         Scope(ops[i]) \cap Scope(ops[j]) # {}
  PROVE  i = j
<1>1. i < j \/ j < i \/ i = j
  BY AllTypes
<1> QED BY <1>1, AllTypes DEF Registered, InOrder

\* While an operation goes on no other one has a silence after its own in its scope.
LEMMA NoneLater ==
  ASSUME All, NEW k \in DOMAIN ops, ~Terminal(ops[k]), NEW s \in DOMAIN silences,
         silences[s].owner = ops[k].owner
  PROVE  silences[s].op <= k
<1>1. /\ silences[s].op \in DOMAIN ops /\ k \in Nat /\ silences[s].op \in Nat
      /\ Scope(ops[k]) \cap Scope(Silenced(s)) # {}
  BY AllTypes DEF Silenced
<1>2. k < silences[s].op => Terminal(ops[k])
  BY <1>1, AllTypes DEF Registered, InOrder, Silenced
<1> QED BY <1>1, <1>2

\* The marked silence of an operation that goes on is the only one that may be live.
LEMMA OnlyLive ==
  ASSUME All, NEW k \in DOMAIN ops, ~Terminal(ops[k]),
         NEW c \in DOMAIN silences, silences[c].op = k,
         NEW s \in DOMAIN silences, silences[s].owner = ops[k].owner, silences[s].state = "live"
  PROVE  s = c
<1>1. silences[c].owner = ops[k].owner /\ s \in Nat /\ c \in Nat /\ k \in Nat
      /\ silences[s].op \in Nat
  BY AllTypes DEF Silenced
<1>2. ~(s < c)
  BY <1>1 DEF All, History, Sequel
<1>3. ~(c < s)
  <2>1. silences[s].op <= k
    BY NoneLater
  <2>2. c < s => k < silences[s].op
    BY <1>1 DEF All, History, Sequel
  <2> QED BY <1>1, <2>1, <2>2
<1> QED BY <1>1, <1>2, <1>3

\* What is under way in the scope of the worker's operation is the operation's.
LEMMA OursUnderway ==
  ASSUME All, worker.pc # "idle", NEW x \in late, ops[x.op].owner \in Scope(Op)
  PROVE  x.op = worker.op
<1>1. /\ worker.op \in DOMAIN ops /\ ~Terminal(Op) /\ x.op \in DOMAIN ops /\ ~Terminal(ops[x.op])
      /\ ops[x.op].owner \in Scope(ops[x.op])
  BY AllTypes, OpFacts DEF All, History, Underways
<1> QED BY <1>1, OneAtATime DEF Op

\* Nothing is under way once the marker was found or the deadline has passed.
LEMMA NoneUnderway ==
  ASSUME All, worker.pc # "idle",
         worker.canon # 0 \/ worker.overdue \/ Op.action = "expire" \/ Op.posts = 0,
         NEW x \in late
  PROVE  x.op # worker.op
<1> SUFFICES ASSUME x.op = worker.op PROVE FALSE
  OBVIOUS
<1>1. /\ ops[x.op].action = "create" /\ ops[x.op].posts = 1 /\ x.op \notin overdue
      /\ Op = ops[x.op] /\ x.op \in Nat
  BY AllTypes DEF All, History, Underways, Op
<1>2. worker.canon # 0
  BY <1>1 DEF All, Held, Meant
<1>3. worker.canon \in DOMAIN silences /\ silences[worker.canon].op = x.op
  BY <1>2, AllTypes DEF All, Held, Meant, TypeInv, Pointers, Worker
<1>4. silences[worker.canon].owner = ops[x.op].owner
  BY <1>3, AllTypes DEF Silenced
<1>5. silences[worker.canon].op < x.op
  BY <1>3, <1>4 DEF All, History, Underways
<1> QED BY <1>1, <1>3, <1>5

\* The live silences after a step, in which silences end or a submission is applied.
LEMMA LiveFades ==
  ASSUME TypeInv, Fades, NEW o
  PROVE  LiveOf(o)' \subseteq LiveOf(o)
BY DEF TypeInv, Kinds, Fades, LiveOf, Owned

LEMMA LiveRenews ==
  ASSUME TypeInv, NEW x \in late, Renews(x), NEW o
  PROVE  /\ \A s \in LiveOf(o)' : s \in LiveOf(o) \/ (s = Len(silences) + 1 /\ o = ops[x.op].owner)
         /\ DOMAIN silences \subseteq DOMAIN silences'
         /\ \A s \in DOMAIN silences' : s \in DOMAIN silences \/ s = Len(silences) + 1
         /\ Len(silences) + 1 \notin DOMAIN silences /\ Len(silences) + 1 \in DOMAIN silences'
<1>1. /\ silences \in Seq(Silence) /\ silences' \in Seq(Silence)
      /\ Len(silences') = Len(silences) + 1
  BY DEF TypeInv, Kinds, Renews
<1>2. /\ DOMAIN silences \subseteq DOMAIN silences'
      /\ \A s \in DOMAIN silences' : s \in DOMAIN silences \/ s = Len(silences) + 1
      /\ Len(silences) + 1 \notin DOMAIN silences /\ Len(silences) + 1 \in DOMAIN silences'
  BY <1>1
<1>3. ASSUME NEW s \in LiveOf(o)'
      PROVE  s \in LiveOf(o) \/ (s = Len(silences) + 1 /\ o = ops[x.op].owner)
  <2>1. s \in DOMAIN silences' /\ silences'[s].owner = o /\ silences'[s].state = "live"
    BY <1>3 DEF LiveOf, Owned
  <2>2. CASE s \in DOMAIN silences
    BY <2>1, <2>2 DEF Renews, LiveOf, Owned
  <2>3. CASE s = Len(silences) + 1
    BY <2>1, <2>3 DEF Renews
  <2> QED BY <1>2, <2>1, <2>2, <2>3
<1> QED BY <1>2, <1>3

\* History goes on when silences end, operations are added or go on, and one is over
\* only with nothing under way, and failed with nothing live.
LEMMA HistoryStays ==
  ASSUME All, Fades, late' \subseteq late, overdue' = overdue,
         \A i \in DOMAIN ops : /\ Like(ops'[i], ops[i]) /\ ops'[i].posts = ops[i].posts
                               /\ Terminal(ops'[i]) /\ ~Terminal(ops[i]) => \A x \in late : x.op # i
                               /\ ops'[i].phase = "failed" /\ ops[i].phase # "failed" =>
                                    \A s \in DOMAIN silences :
                                      silences[s].op = i => silences[s].state # "live"
  PROVE  History'
<1>0. Sequel /\ Underways /\ FailedOff
  BY DEF All, History
<1>1. /\ DOMAIN silences' = DOMAIN silences
      /\ \A s \in DOMAIN silences : /\ silences'[s].op = silences[s].op
                                    /\ silences'[s].owner = silences[s].owner
                                    /\ silences[s].op \in DOMAIN ops
                                    /\ silences'[s].state = "live" => silences[s].state = "live"
  BY AllTypes DEF Fades
<1>2. \A i \in DOMAIN ops : /\ ops'[i].action = ops[i].action /\ ops'[i].owner = ops[i].owner
                            /\ ops'[i].posts = ops[i].posts
  BY DEF Like
<1>3. Sequel'
  <2>1. \A s \in DOMAIN silences' : Silenced(s)'.action = "create" /\ Silenced(s)'.posts = 1
    BY <1>0, <1>1, <1>2 DEF Sequel, Silenced
  <2>2. \A s, t \in DOMAIN silences' :
          s < t /\ silences'[s].owner = silences'[t].owner
          => silences'[s].op < silences'[t].op /\ silences'[s].state # "live"
    BY <1>0, <1>1 DEF Sequel
  <2> QED BY <2>1, <2>2 DEF Sequel
<1>4. Underways'
  <2>1. ASSUME NEW x \in late'
        PROVE  /\ ops'[x.op].action = "create" /\ ops'[x.op].posts = 1
               /\ ~Terminal(ops'[x.op]) /\ x.op \notin overdue'
               /\ x.target # 0 => silences'[x.target].owner = ops'[x.op].owner
    <3>1. x \in late /\ x.op \in DOMAIN ops /\ x.target \in 0..Len(silences)
      BY AllTypes
    <3>2. x.target # 0 => x.target \in DOMAIN silences
      BY <3>1, AllTypes
    <3>3. ~Terminal(ops'[x.op])
      BY <1>0, <3>1 DEF Underways
    <3> QED BY <1>0, <1>1, <1>2, <3>1, <3>2, <3>3 DEF Underways
  <2>2. ASSUME NEW x \in late', NEW s \in DOMAIN silences', silences'[s].owner = ops'[x.op].owner
        PROVE  silences'[s].op < x.op /\ (silences'[s].state = "live" => s = x.target)
    <3>1. x \in late /\ x.op \in DOMAIN ops /\ s \in DOMAIN silences
      BY <1>1, AllTypes
    <3>2. silences[s].owner = ops[x.op].owner
      BY <1>1, <1>2, <2>2, <3>1
    <3>3. silences[s].op < x.op /\ (silences[s].state = "live" => s = x.target)
      BY <1>0, <3>1, <3>2 DEF Underways
    <3> QED BY <1>1, <3>1, <3>3
  <2>3. \A x, y \in late' : x.op = y.op => x = y
    BY <1>0 DEF Underways
  <2> QED BY <2>1, <2>2, <2>3 DEF Underways
<1>5. FailedOff'
  BY <1>0, <1>1 DEF FailedOff, Silenced
<1> QED BY <1>3, <1>4, <1>5 DEF History

LEMMA HistorySubmits ==
  ASSUME All, Submits
  PROVE  History'
<1>0. Sequel /\ Underways /\ FailedOff /\ TypeInv
  BY DEF All, History, Sound
<1> DEFINE k == worker.op
<1>1. /\ worker.pc = "marked" /\ Op.action = "create" /\ worker.op \in DOMAIN ops /\ ~Terminal(Op)
      /\ silences' = silences /\ overdue' = overdue /\ Op.owner \in Owner
  BY <1>0, OpFacts DEF Submits, Going
<1>2. PICK target \in Nat : /\ target \in IF worker.live = {} THEN {0} ELSE worker.live
                            /\ late' = late \cup {[op |-> k, target |-> target]}
  BY DEF Submits
<1>3. /\ Op.posts = 0 /\ worker.canon = 0 /\ ~worker.overdue /\ k \notin overdue
  BY <1>1 DEF All, Once, Held, Meant, Busy
<1>4. /\ DOMAIN ops' = DOMAIN ops
      /\ \A i \in DOMAIN ops : /\ ops'[i].action = ops[i].action /\ ops'[i].owner = ops[i].owner
                               /\ ops'[i].phase = ops[i].phase
                               /\ i # k => ops'[i].posts = ops[i].posts
      /\ ops'[k].posts = 1
  <2>1. ops'[k].posts = 1
    BY <1>1, <1>3 DEF Submits, Op
  <2> QED BY <2>1, AllTypes DEF Submits, Like
<1>5. ASSUME NEW s \in DOMAIN silences
      PROVE  silences[s].op # k /\ silences[s].op \in DOMAIN ops /\ silences[s].op \in Nat
  <2>1. Silenced(s).posts = 1 /\ silences[s].op \in DOMAIN ops
    BY <1>0, AllTypes DEF Sequel
  <2> QED BY <1>3, <2>1, AllTypes DEF Silenced, Op
<1>6. ASSUME NEW s \in DOMAIN silences, silences[s].owner = Op.owner
      PROVE  silences[s].op < k /\ (silences[s].state = "live" => s = target)
  <2>1. silences[s].op <= k /\ k \in Nat
    BY <1>1, <1>6, NoneLater, AllTypes DEF Op
  <2>2. ASSUME silences[s].state = "live" PROVE s = target
    <3>1. s \in LiveOf(Op.owner)
      BY <1>6, <2>2 DEF LiveOf, Owned
    <3>2. s \in worker.live
      BY <1>1, <1>5, <3>1 DEF All, Held, Aware, Busy
    <3>3. target \in worker.live
      BY <1>2, <3>2
    <3> QED BY <1>1, <3>2, <3>3 DEF All, Held, Aware, Busy
  <2> QED BY <1>5, <2>1, <2>2
<1>7. Sequel'
  BY <1>0, <1>1, <1>4, <1>5 DEF Sequel, Silenced
<1>8. FailedOff'
  BY <1>0, <1>1, <1>4, <1>5 DEF FailedOff, Silenced
<1>9. \A x \in late' : x \in late \/ (x.op = k /\ x.target = target)
  BY <1>2
<1>10. ASSUME NEW x \in late PROVE x.op # k /\ x.op \in DOMAIN ops
  BY <1>1, <1>3, NoneUnderway, AllTypes
<1>11. Underways'
  <2>1. ASSUME NEW x \in late'
        PROVE  /\ ops'[x.op].action = "create" /\ ops'[x.op].posts = 1
               /\ ~Terminal(ops'[x.op]) /\ x.op \notin overdue'
               /\ x.target # 0 => silences'[x.target].owner = ops'[x.op].owner
    <3>1. CASE x \in late
      <4>1. /\ ops[x.op].action = "create" /\ ops[x.op].posts = 1
            /\ ~Terminal(ops[x.op]) /\ x.op \notin overdue
            /\ x.target # 0 => silences[x.target].owner = ops[x.op].owner
        BY <1>0, <3>1 DEF Underways
      <4> QED BY <1>1, <1>4, <1>10, <3>1, <4>1 DEF Terminal
    <3>2. CASE x.op = k /\ x.target = target
      <4>1. target # 0 => silences[target].owner = Op.owner
        BY <1>1, <1>2 DEF All, Held, Owning
      <4> QED BY <1>1, <1>3, <1>4, <3>2, <4>1 DEF Terminal, Op
    <3> QED BY <1>9, <3>1, <3>2
  <2>2. ASSUME NEW x \in late', NEW s \in DOMAIN silences', silences'[s].owner = ops'[x.op].owner
        PROVE  silences'[s].op < x.op /\ (silences'[s].state = "live" => s = x.target)
    <3>1. CASE x \in late
      BY <1>0, <1>1, <1>4, <1>10, <2>2, <3>1 DEF Underways
    <3>2. CASE x.op = k /\ x.target = target
      BY <1>1, <1>4, <1>6, <2>2, <3>2 DEF Op
    <3> QED BY <1>9, <3>1, <3>2
  <2>3. \A x, y \in late' : x.op = y.op => x = y
    <3>1. \A x \in late' : x \in late \/ x = [op |-> k, target |-> target]
      BY <1>2
    <3> QED BY <1>0, <1>9, <1>10, <3>1 DEF Underways
  <2> QED BY <2>1, <2>2, <2>3 DEF Underways
<1> QED BY <1>7, <1>8, <1>11 DEF History

\* An attempt that ends an operation leaves nothing under way, and nothing live when it fails.
LEMMA SafeEnd ==
  ASSUME All, GivesIn \/ Settles
  PROVE  /\ \A x \in late : x.op # worker.op
         /\ (Quits("failed") =>
               \A s \in DOMAIN silences : silences[s].op = worker.op => silences[s].state # "live")
<1>0. /\ TypeInv /\ worker.pc # "idle" /\ worker.op \in DOMAIN ops /\ Op.owner \in Owner
      /\ ~Terminal(Op)
  <2>1. TypeInv /\ worker.pc # "idle"
    BY AllTypes DEF GivesIn, Settles, Quits
  <2> QED BY <2>1, OpFacts
<1>1. ASSUME Op.posts = 0
      PROVE  /\ \A x \in late : x.op # worker.op
             /\ \A s \in DOMAIN silences : silences[s].op # worker.op
  BY <1>0, <1>1, NoneUnderway DEF All, History, Sequel, Silenced, Op
<1>2. CASE GivesIn
  <2>1. CASE worker.pc = "listed" /\ Op.action = "create" /\ Op.phase = "prepared"
    BY <1>0, <1>1, <2>1 DEF All, Once, Op
  <2>2. CASE worker.pc = "listed" /\ Op.action = "create" /\ worker.canon = 0 /\ worker.overdue
    <3>1. \A s \in DOMAIN silences : silences[s].op = worker.op => silences[s].state = "gone"
      BY <2>2 DEF All, Held, Aware, Busy
    <3> QED BY <1>0, <2>2, <3>1, NoneUnderway
  <2>3. CASE worker.pc = "marked"
    BY <1>1, <2>3 DEF All, Once
  <2>4. CASE worker.pc = "posting" /\ ~Created /\ ~Underway
    BY <2>4 DEF Created, Underway
  <2> QED BY <1>2, <2>1, <2>2, <2>3, <2>4 DEF GivesIn, Hopeless
<1>3. CASE Settles
  <2>1. worker.pc = "expiring" /\ worker.todo = {}
        /\ worker.then \in {"complete", "expired", "cancel", "unauthorized"}
    BY <1>3 DEF Settles, Complete, CompleteExpire, Cancel, Unauthorized, Expired
  <2>2. worker.canon # 0 \/ worker.overdue \/ Op.action = "expire"
    BY <2>1, AllTypes DEF All, Held, Meant, Ending, Canonical, Adopting
  <2>3. Quits("failed") => worker.then \in {"cancel", "unauthorized"}
    <3>1. ASSUME Complete \/ CompleteExpire, Quits("failed") PROVE FALSE
      <4>1. PhaseTo(worker.op, "failed") /\ ops' = [ops EXCEPT ![worker.op].phase = "completed"]
        BY <3>1 DEF Quits, Complete, CompleteExpire, EndsAs
      <4>2. PhaseTo(worker.op, "completed")
        BY <1>0, <4>1, PhaseFacts DEF TypeInv, Phases
      <4> QED BY <1>0, <4>1, <4>2 DEF PhaseTo
    <3> QED BY <1>3, <3>1 DEF Settles, Cancel, Unauthorized, Expired
  <2>4. ASSUME worker.then \in {"cancel", "unauthorized"},
               NEW s \in DOMAIN silences, silences[s].op = worker.op
        PROVE  silences[s].state # "live"
    <3>1. silences[s].owner = Op.owner
      BY <2>4, AllTypes DEF Silenced, Op
    <3>2. LiveOf(Op.owner) = {}
      BY <2>1, <2>4 DEF All, Held, Aware, Ending
    <3> QED BY <3>1, <3>2 DEF LiveOf, Owned
  <2> QED BY <1>0, <2>2, <2>3, <2>4, NoneUnderway
<1> QED BY <1>2, <1>3

LEMMA HistoryApply ==
  ASSUME All, NEW x \in late, Apply(x)
  PROVE  History'
<1>0. Sequel /\ Underways /\ FailedOff /\ TypeInv
  BY DEF All, History, Sound
<1>1. UNCHANGED <<ops, overdue>> /\ late' = late \ {x} /\ (silences' = silences \/ Renews(x))
  BY <1>0, AppliedFacts DEF Apply, durable
<1>2. CASE silences' = silences
  <2>1. Fades
    BY <1>0, <1>2, FadesSame DEF TypeInv
  <2>2. \A i \in DOMAIN ops : Like(ops'[i], ops[i])
    BY <1>1 DEF Like
  <2> QED BY <1>1, <2>1, <2>2, HistoryStays
<1>3. CASE Renews(x)
  <2> DEFINE n == Len(silences) + 1
  <2>1. /\ DOMAIN silences \subseteq DOMAIN silences' /\ n \notin DOMAIN silences
        /\ \A s \in DOMAIN silences' : s \in DOMAIN silences \/ s = n
        /\ \A s \in DOMAIN silences : s < n
    <3>1. \A s \in DOMAIN silences : s < n
      BY AllTypes
    <3> QED BY <1>0, <1>3, <3>1, LiveRenews
  <2>2. /\ silences'[n].op = x.op /\ silences'[n].owner = ops[x.op].owner
        /\ silences'[n].state = "live"
        /\ \A s \in DOMAIN silences :
             /\ silences'[s].op = silences[s].op /\ silences'[s].owner = silences[s].owner
             /\ silences'[s].state = "live" => silences[s].state = "live"
             /\ s = x.target => silences'[s].state # "live"
    BY <1>3 DEF Renews
  <2> HIDE DEF n
  <2>3. /\ x.op \in DOMAIN ops /\ ops[x.op].action = "create" /\ ops[x.op].posts = 1
        /\ ~Terminal(ops[x.op])
    BY <1>0, AllTypes DEF Underways
  <2>4. Sequel'
    <3>1. ASSUME NEW s \in DOMAIN silences'
          PROVE  Silenced(s)'.action = "create" /\ Silenced(s)'.posts = 1
      BY <1>0, <1>1, <2>1, <2>2, <2>3 DEF Sequel, Silenced
    <3>2. ASSUME NEW s \in DOMAIN silences', NEW t \in DOMAIN silences', s < t,
                 silences'[s].owner = silences'[t].owner
          PROVE  silences'[s].op < silences'[t].op /\ silences'[s].state # "live"
      <4>1. CASE t \in DOMAIN silences
        <5>1. s \in DOMAIN silences
          <6>1. n \in Nat /\ t < n /\ t \in Nat
            BY <2>1, <4>1, AllTypes DEF n
          <6> QED BY <2>1, <3>2, <6>1
        <5> QED BY <1>0, <2>2, <3>2, <4>1, <5>1 DEF Sequel
      <4>2. CASE t = n
        <5>1. s \in DOMAIN silences
          <6>1. n \in Nat
            BY AllTypes DEF n
          <6> QED BY <2>1, <3>2, <4>2, <6>1
        <5>2. silences[s].owner = ops[x.op].owner
          BY <2>2, <3>2, <4>2, <5>1
        <5>3. silences[s].op < x.op /\ (silences[s].state = "live" => s = x.target)
          BY <1>0, <5>1, <5>2 DEF Underways
        <5> QED BY <2>2, <4>2, <5>1, <5>3
      <4> QED BY <2>1, <4>1, <4>2
    <3> QED BY <3>1, <3>2 DEF Sequel
  <2>5. FailedOff'
    BY <1>0, <1>1, <2>1, <2>2, <2>3 DEF FailedOff, Silenced, Terminal
  <2>6. Underways'
    <3>1. ASSUME NEW y \in late'
          PROVE  /\ ops'[y.op].action = "create" /\ ops'[y.op].posts = 1
                 /\ ~Terminal(ops'[y.op]) /\ y.op \notin overdue'
                 /\ y.target # 0 => silences'[y.target].owner = ops'[y.op].owner
      <4>1. y \in late /\ y.target \in 0..Len(silences)
        BY <1>1, AllTypes
      <4>2. y.target # 0 => y.target \in DOMAIN silences
        BY <4>1, AllTypes
      <4>3. /\ ops[y.op].action = "create" /\ ops[y.op].posts = 1
            /\ ~Terminal(ops[y.op]) /\ y.op \notin overdue
            /\ y.target # 0 => silences[y.target].owner = ops[y.op].owner
        BY <1>0, <4>1 DEF Underways
      <4> QED BY <1>1, <2>2, <4>2, <4>3
    <3>2. ASSUME NEW y \in late', NEW s \in DOMAIN silences', silences'[s].owner = ops'[y.op].owner
          PROVE  silences'[s].op < y.op /\ (silences'[s].state = "live" => s = y.target)
      <4>1. y \in late /\ y # x
        BY <1>1
      <4>2. s \in DOMAIN silences
        <5> SUFFICES ASSUME s = n PROVE FALSE
          BY <2>1
        <5>1. /\ y.op \in DOMAIN ops /\ ~Terminal(ops[y.op])
              /\ ops[y.op].owner = ops[x.op].owner
          BY <1>0, <1>1, <2>2, <3>2, <4>1, AllTypes DEF Underways
        <5>2. x.op = y.op
          BY <2>3, <5>1, OneAtATime, AllTypes
        <5> QED BY <1>0, <4>1, <5>2 DEF Underways
      <4>3. silences[s].op < y.op /\ (silences[s].state = "live" => s = y.target)
        BY <1>0, <1>1, <2>2, <3>2, <4>1, <4>2 DEF Underways
      <4> QED BY <2>2, <4>2, <4>3
    <3>3. \A y, z \in late' : y.op = z.op => y = z
      BY <1>0, <1>1 DEF Underways
    <3> QED BY <3>1, <3>2, <3>3 DEF Underways
  <2> QED BY <2>4, <2>5, <2>6 DEF History
<1> QED BY <1>1, <1>2, <1>3

LEMMA HistoryDeadline ==
  ASSUME All, SubmitsInTime, NEW o \in DOMAIN ops, DeadlinePasses(o)
  PROVE  History'
<1>1. /\ UNCHANGED <<ops, silences, late>> /\ overdue' = overdue \cup {o}
      /\ \A x \in late : x.op # o
  BY DEF DeadlinePasses, durable
<1>2. Sequel' /\ FailedOff'
  BY <1>1 DEF All, History, Sequel, FailedOff, Silenced
<1>3. Underways'
  BY <1>1 DEF All, History, Underways
<1> QED BY <1>2, <1>3 DEF History

\* What the other steps do to silences and submissions.
LEMMA OtherHistory ==
  ASSUME OtherSteps
  PROVE  \/ \E x \in late : Apply(x)
         \/ \E s \in DOMAIN silences : SilenceEnds(s)
         \/ \E o \in DOMAIN ops : DeadlinePasses(o)
         \/ UNCHANGED <<silences, overdue>> /\ late' \subseteq late
BY DEF OtherSteps, Handler, AskCreate, AskExpire, Register, Select, ReconcileList, RefreshOwned,
   DrainStep, Begin,
   InRun, Deliver, DeliverFails, VerifyList, VerifyState, DrainAborts, Restart, World, Discard,
   AuthChanges, world

LEMMA EndsFades ==
  ASSUME TypeInv, NEW s \in DOMAIN silences, SilenceEnds(s)
  PROVE  Fades
<1>1. \E t \in {"expired", "gone"} : /\ t = "expired" => silences[s].state = "live"
                                     /\ silences' = [silences EXCEPT ![s].state = t]
  BY DEF SilenceEnds
<1> QED BY <1>1, StateFacts DEF TypeInv

LEMMA NextHistory ==
  ASSUME All, SubmitsInTime, [Next]_vars
  PROVE  History'
<1>0. TypeInv /\ Canonical /\ Registered
  BY AllTypes
<1>1. ASSUME Fades, ops' = ops \/ OpsGrow, late' \subseteq late, overdue' = overdue PROVE History'
  <2>1. \A i \in DOMAIN ops : ops'[i] = ops[i] /\ Like(ops'[i], ops[i])
    BY <1>1 DEF OpsGrow, Like
  <2> QED BY <1>1, <2>1, HistoryStays
<1>2. ASSUME NEW p, Quits(p) \/ (Going /\ PhaseTo(worker.op, p) /\ late' = late), Fades,
             p \in {"completed", "failed"} =>
               /\ \A x \in late : x.op # worker.op
               /\ p = "failed" => \A s \in DOMAIN silences :
                                    silences[s].op = worker.op => silences[s].state # "live"
      PROVE  History'
  <2>1. late' \subseteq late /\ overdue' = overdue /\ PhaseTo(worker.op, p)
    BY <1>2 DEF Quits, Going
  <2>2. \A i \in DOMAIN ops : /\ Like(ops'[i], ops[i]) /\ ops'[i].posts = ops[i].posts
                              /\ ops'[i].phase = IF i = worker.op THEN p ELSE ops[i].phase
    BY <2>1 DEF PhaseTo
  <2>3. \A i \in DOMAIN ops :
          /\ Terminal(ops'[i]) /\ ~Terminal(ops[i]) => \A x \in late : x.op # i
          /\ ops'[i].phase = "failed" /\ ops[i].phase # "failed" =>
               \A s \in DOMAIN silences : silences[s].op = i => silences[s].state # "live"
    BY <1>2, <2>2 DEF Terminal
  <2> QED BY <1>2, <2>1, <2>2, <2>3, HistoryStays
<1>3. CASE UNCHANGED vars
  BY <1>0, <1>1, <1>3, FadesSame DEF vars, durable, world, TypeInv
<1>4. CASE WorkerSteps
  <2>1. Kind
    BY <1>0, <1>4, WorkerKind DEF Canonical, Adopting
  <2>2. Fades
    BY <1>0, <2>1, FadesSame, KillFacts
       DEF Kind, Looks, Marks, Submits, ExpiresOne, GivesUp, GivesIn, Settles, TypeInv
  <2>3. CASE Looks \/ ExpiresOne
    BY <1>1, <2>2, <2>3 DEF Looks, ExpiresOne, Going
  <2>4. CASE Marks
    BY <1>2, <2>2, <2>4 DEF Marks
  <2>5. CASE Submits
    BY <2>5, HistorySubmits
  <2>6. CASE GivesUp
    BY <1>2, <2>2, <2>6 DEF GivesUp
  <2>7. CASE GivesIn \/ Settles
    <3>1. PICK p \in {"completed", "failed"} : Quits(p)
      BY <2>7 DEF GivesIn, Settles
    <3> QED BY <1>2, <2>2, <2>7, <3>1, SafeEnd
  <2> QED BY <2>1, <2>3, <2>4, <2>5, <2>6, <2>7 DEF Kind
<1>5. CASE OtherSteps
  <2>1. ASSUME NEW s \in DOMAIN silences, SilenceEnds(s) PROVE History'
    <3>1. UNCHANGED <<ops, late, overdue>>
      BY <2>1 DEF SilenceEnds, durable
    <3> QED BY <1>0, <1>1, <2>1, <3>1, EndsFades
  <2>2. ASSUME UNCHANGED <<silences, overdue>>, late' \subseteq late PROVE History'
    BY <1>0, <1>1, <1>5, <2>2, FadesSame, OtherOps DEF TypeInv
  <2> QED BY <1>5, <2>1, <2>2, OtherHistory, HistoryApply, HistoryDeadline
<1> QED BY <1>3, <1>4, <1>5, NextSplit

-----------------------------------------------------------------------------
(* What the worker holds.                                                    *)

LEMMA HeldIdle ==
  ASSUME worker'.pc = "idle"
  PROVE  Held'
BY DEF Held, Meant, Owning, Aware, Busy, Ending

\* Silences change while the worker waits.
LEMMA HeldWaits ==
  ASSUME All, worker' = worker, worker.pc # "idle", Like(ops'[worker.op], Op),
         worker.op \in overdue' <=> worker.op \in overdue,
         Fades \/ \E x \in late : Renews(x)
  PROVE  Held'
<1>0. /\ TypeInv /\ worker.op \in DOMAIN ops /\ Op.owner \in Owner
      /\ Op.owner \in Scope(Op) /\ (Op.replaces # None => Op.replaces \in Scope(Op))
  <2>1. TypeInv /\ Op.owner \in Owner
    BY OpFacts, AllTypes
  <2> QED BY <2>1, OpFacts, ParameterAssumption DEF Scope
<1>1. /\ Op'.action = Op.action /\ Op'.owner = Op.owner /\ Op'.replaces = Op.replaces
      /\ worker' = worker
  BY DEF Like, Op
<1>2. /\ \A s \in DOMAIN silences : s \in DOMAIN silences'
      /\ \A s \in DOMAIN silences : /\ silences'[s].op = silences[s].op
                                    /\ silences'[s].owner = silences[s].owner
                                    /\ silences'[s].state = "live" => silences[s].state = "live"
                                    /\ silences[s].state = "gone" => silences'[s].state = "gone"
  BY <1>0, AllTypes, LiveRenews DEF Fades, Renews
\* A silence that is new is the operation's, when it is in its scope.
<1>3. ASSUME NEW s \in DOMAIN silences', s \notin DOMAIN silences, silences'[s].owner \in Scope(Op)
      PROVE  /\ silences'[s].owner = Op.owner /\ silences'[s].op = worker.op
             /\ worker.canon = 0 /\ ~worker.overdue /\ Op.action # "expire"
  <2>1. ~Fades
    BY <1>3, AllTypes DEF Fades
  <2>2. PICK x \in late : Renews(x)
    BY <2>1
  <2>3. silences'[s].owner = ops[x.op].owner /\ silences'[s].op = x.op
    BY <1>0, <1>3, <2>2, LiveRenews DEF Renews
  <2>4. x.op = worker.op
    BY <1>3, <2>3, OursUnderway
  <2> QED BY <2>3, <2>4, NoneUnderway DEF Op
<1>4. ASSUME NEW o, NEW s \in LiveOf(o)'
      PROVE  s \in LiveOf(o) \/ (s \in DOMAIN silences' /\ s \notin DOMAIN silences /\ silences'[s].owner = o)
  BY <1>2, <1>4 DEF LiveOf, Owned
<1>10. PICK own, rep : own = Op.owner /\ rep = Op.replaces
  OBVIOUS
<1>11. LiveOf(Op.owner)' = LiveOf(own)' /\ LiveOf(Op.replaces)' = LiveOf(rep)'
  BY <1>1, <1>10 DEF LiveOf, Owned
<1>12. ASSUME NEW s \in LiveOf(Op.owner)', worker.canon # 0 \/ worker.overdue \/ Op.action = "expire"
       PROVE  s \in LiveOf(Op.owner)
  BY <1>0, <1>3, <1>4, <1>10, <1>11, <1>12
<1>5. /\ worker.live \subseteq DOMAIN silences /\ worker.sources \subseteq DOMAIN silences
      /\ worker.todo \subseteq DOMAIN silences
      /\ worker.canon # 0 => worker.canon \in DOMAIN silences
  BY <1>0 DEF TypeInv, Kinds, Pointers, Worker
<1>6. Meant /\ Owning /\ Aware
  BY DEF All, Held
<1>7. Meant'
  <2>1. worker.canon # 0 => silences'[worker.canon].op = worker.op
    BY <1>2, <1>5, <1>6 DEF Meant
  <2> QED BY <1>1, <1>6, <2>1 DEF Meant, Busy, Ending
<1>8. Owning'
  BY <1>1, <1>2, <1>5, <1>6 DEF Owning
<1>9. Aware'
  <2>1. ASSUME worker.pc \in {"listed", "marked"}, NEW s \in LiveOf(Op.owner)'
        PROVE  s \in worker.live \/ (worker.canon = 0 /\ silences'[s].op = worker.op)
    <3>1. CASE s \in LiveOf(Op.owner)
      <4>1. s \in DOMAIN silences
        BY <3>1 DEF LiveOf, Owned
      <4> QED BY <1>2, <1>6, <2>1, <3>1, <4>1 DEF Aware, Busy
    <3>2. CASE s \notin LiveOf(Op.owner)
      BY <1>0, <1>3, <1>4, <1>10, <1>11, <2>1, <3>2
    <3> QED BY <3>1, <3>2
  <2>2. ASSUME worker.pc = "listed", Op.action = "create", worker.canon = 0, worker.overdue,
               NEW s \in DOMAIN silences', silences'[s].op = worker.op
        PROVE  silences'[s].state = "gone"
    <3>1. s \in DOMAIN silences
      <4> SUFFICES ASSUME s \notin DOMAIN silences PROVE FALSE
        OBVIOUS
      <4>1. PICK x \in late : Renews(x)
        BY AllTypes DEF Fades
      <4>2. x.op = worker.op
        BY <1>0, <2>2, <4>1, LiveRenews DEF Renews
      <4> QED BY <2>2, <4>2, NoneUnderway
    <3>2. silences[s].op = worker.op
      BY <1>2, <2>2, <3>1
    <3> QED BY <1>2, <1>6, <2>2, <3>1, <3>2 DEF Aware, Busy
  <2>3. ASSUME Ending({"cancel", "unauthorized", "expired"}), NEW s \in LiveOf(Op.owner)'
        PROVE  s \in worker.todo
    <3>1. worker.canon # 0 \/ worker.overdue \/ Op.action = "expire"
      BY <1>6, <2>3, AllTypes DEF Meant, Ending, Canonical, Adopting
    <3>2. s \in LiveOf(Op.owner)
      BY <1>12, <2>3, <3>1
    <3> QED BY <1>6, <2>3, <3>2 DEF Aware
  <2>4. ASSUME Replaces, NEW s \in LiveOf(Op.replaces)'
        PROVE  s \in LiveOf(Op.replaces)
    BY <1>0, <1>3, <1>4, <1>10, <1>11, <2>4 DEF Replaces
  <2>5. Ending({"complete"}) /\ silences'[worker.canon].state = "live" => worker.seen = "live"
    <3>1. Ending({"complete"}) => worker.canon \in DOMAIN silences
      BY <1>5, AllTypes DEF Ending, Canonical, Adopting
    <3> QED BY <1>2, <1>6, <3>1 DEF Aware
  <2>6. Replaces' <=> Replaces
    BY <1>1 DEF Replaces
  <2>7. (Busy({"listed", "marked"}) =>
           /\ \A s, t \in worker.live : s = t
           /\ \A s \in LiveOf(Op.owner) :
                s \in worker.live \/ (worker.canon = 0 /\ silences[s].op = worker.op))'
    BY <1>1, <1>6, <2>1 DEF Busy, Aware
  <2>8. (Busy({"listed"}) /\ Op.action = "create" /\ worker.canon = 0 /\ worker.overdue =>
           \A s \in DOMAIN silences : silences[s].op = worker.op => silences[s].state = "gone")'
    BY <1>1, <2>2 DEF Busy
  <2>9. (Ending({"cancel", "unauthorized", "expired"}) => LiveOf(Op.owner) \subseteq worker.todo)'
    BY <1>1, <2>3 DEF Ending
  <2>10. /\ ((Busy({"listed", "readback"}) \/ Ending({"readback"})) /\ Replaces
             => LiveOf(Op.replaces) \subseteq worker.sources)'
         /\ (Ending({"complete"}) /\ Replaces => LiveOf(Op.replaces) \subseteq worker.todo)'
    BY <1>1, <1>6, <2>4, <2>6 DEF Busy, Ending, Aware
  <2>11. (Ending({"complete"}) /\ silences[worker.canon].state = "live" => worker.seen = "live")'
    BY <1>1, <2>5 DEF Ending
  <2> QED BY <2>7, <2>8, <2>9, <2>10, <2>11 DEF Aware
<1> QED BY <1>7, <1>8, <1>9 DEF Held

\* The operation of the worker while it goes on.
LEMMA GoingFrame ==
  ASSUME All, Kind, worker'.pc # "idle"
  PROVE  /\ worker.pc # "idle" /\ worker.op \in DOMAIN ops /\ ~Terminal(Op)
         /\ Op.owner \in Owner /\ Op.action \in Actions
         /\ worker'.op = worker.op /\ worker'.overdue = worker.overdue /\ overdue' = overdue
         /\ Op'.action = Op.action /\ Op'.owner = Op.owner /\ Op'.replaces = Op.replaces
         /\ Replaces' <=> Replaces
         /\ silences' = silences => /\ LiveOf(Op.owner)' = LiveOf(Op.owner)
                                    /\ LiveOf(Op.replaces)' = LiveOf(Op.replaces)
<1>1. Going
  BY IdleFacts DEF Kind, Looks, Marks, Submits, ExpiresOne, GivesUp, GivesIn, Settles, Quits,
     AttemptEnds
<1>2. /\ worker.pc # "idle" /\ worker'.op = worker.op /\ worker'.overdue = worker.overdue
      /\ overdue' = overdue
  BY <1>1 DEF Going, WorkerRefers
<1>3. worker.op \in DOMAIN ops /\ ~Terminal(Op) /\ Op.owner \in Owner /\ Op.action \in Actions
  BY <1>2, AllTypes, OpFacts DEF Operation
<1>4. /\ Op'.action = Op.action /\ Op'.owner = Op.owner /\ Op'.replaces = Op.replaces
  BY <1>2, <1>3, AllTypes, KindKept DEF OpsKept, Like, Op
<1>5. Replaces' <=> Replaces
  BY <1>4 DEF Replaces
<1>6. silences' = silences => /\ LiveOf(Op.owner)' = LiveOf(Op.owner)
                              /\ LiveOf(Op.replaces)' = LiveOf(Op.replaces)
  BY <1>4 DEF LiveOf, Owned
<1> QED BY <1>2, <1>3, <1>4, <1>5, <1>6

LEMMA HeldSelect ==
  ASSUME All, NEW o \in DOMAIN ops, Select(o)
  PROVE  Held'
<1>1. /\ worker' = [Idle EXCEPT !.pc = "selected", !.op = o, !.overdue = o \in overdue]
      /\ overdue' = overdue
  BY DEF Select, world
<1>2. /\ worker'.pc = "selected" /\ worker'.canon = 0 /\ worker'.op = o
      /\ worker'.live = {} /\ worker'.sources = {} /\ (worker'.overdue <=> o \in overdue)
  <2> DEFINE d == o \in overdue
  <2>1. worker' = [Idle EXCEPT !.pc = "selected", !.op = o, !.overdue = d]
    BY <1>1
  <2>2. d <=> o \in overdue
    OBVIOUS
  <2> HIDE DEF d
  <2>3. /\ worker'.pc = "selected" /\ worker'.canon = Idle.canon /\ worker'.op = o
        /\ worker'.live = Idle.live /\ worker'.sources = Idle.sources /\ worker'.overdue = d
    BY <2>1, IdleFacts DEF Worker
  <2> QED BY <2>2, <2>3, IdleFacts
<1> QED BY <1>1, <1>2 DEF Held, Meant, Owning, Aware, Busy, Ending

LEMMA HeldList ==
  ASSUME All, List
  PROVE  Held'
<1>1. /\ worker'.pc = "listed" /\ worker'.live = LiveOf(Op.owner) /\ worker'.sources = Sources
      /\ \/ worker'.canon = 0 /\ Marked = {}
         \/ worker'.canon \in Marked
      /\ silences' = silences
  BY AllTypes, ListFacts DEF List
<1>2. Kind
  BY AllTypes, ListKind DEF Kind
<1>3. /\ worker.pc # "idle" /\ worker.op \in DOMAIN ops /\ ~Terminal(Op)
      /\ worker'.op = worker.op /\ worker'.overdue = worker.overdue /\ overdue' = overdue
      /\ Op'.action = Op.action /\ Op'.owner = Op.owner /\ Op'.replaces = Op.replaces
      /\ Replaces' <=> Replaces
      /\ LiveOf(Op.owner)' = LiveOf(Op.owner) /\ LiveOf(Op.replaces)' = LiveOf(Op.replaces)
  BY <1>1, <1>2, GoingFrame
<1>4. Meant'
  BY <1>1, <1>3 DEF All, Held, Meant, Busy, Ending, Marked
<1>5. Owning'
  BY <1>1, <1>3 DEF Owning, Sources, LiveOf, Owned
<1>6. \A s, t \in LiveOf(Op.owner) : s = t
  <2> TAKE s \in LiveOf(Op.owner), t \in LiveOf(Op.owner)
  <2>1. /\ s \in DOMAIN silences /\ t \in DOMAIN silences /\ s \in Nat /\ t \in Nat
        /\ silences[s].owner = silences[t].owner
        /\ silences[s].state = "live" /\ silences[t].state = "live"
    BY AllTypes DEF LiveOf, Owned
  <2>2. ~(s < t) /\ ~(t < s)
    BY <2>1 DEF All, History, Sequel
  <2> QED BY <2>1, <2>2
<1>7. Marked = {} => \A s \in DOMAIN silences : silences[s].op = worker.op => silences[s].state = "gone"
  BY <1>3, AllTypes DEF Marked, Owned, Silenced, Op
<1>8. worker'.canon = 0 => Marked = {}
  BY <1>1, LiveFacts, AllTypes
<1>9. Replaces => LiveOf(Op.replaces) \subseteq worker'.sources
  BY <1>1 DEF Replaces, Sources
<1>10. Aware'
  BY <1>1, <1>3, <1>6, <1>7, <1>8, <1>9 DEF Aware, Busy, Ending
<1> QED BY <1>4, <1>5, <1>10 DEF Held

\* Expiring begins after the listing.
LEMMA HeldExpiring ==
  ASSUME All, Kind, silences' = silences, worker.pc \in {"listed", "marked"},
         NEW then \in {"retry", "cancel", "unauthorized", "expired"},
         Expiring(worker.live, then),
         then = "expired" <=> Op.action = "expire",
         then = "cancel" => worker.canon # 0 \/ worker.overdue,
         then = "unauthorized" => worker.canon # 0
  PROVE  Held'
<1>0. /\ TypeInv /\ worker.live \in SUBSET DOMAIN silences /\ then \in Ends
  BY AllTypes DEF TypeInv, Pointers, Ends
<1>1. /\ worker'.pc = "expiring" /\ worker'.todo = worker.live /\ worker'.then = then
      /\ worker'.live = worker.live /\ worker'.canon = worker.canon
      /\ worker'.sources = worker.sources
  BY <1>0, ExpiringFacts
<1>2. /\ worker.pc # "idle" /\ worker.op \in DOMAIN ops /\ Op.action \in Actions
      /\ worker'.op = worker.op /\ worker'.overdue = worker.overdue /\ overdue' = overdue
      /\ Op'.action = Op.action /\ Op'.owner = Op.owner /\ Op'.replaces = Op.replaces
      /\ LiveOf(Op.owner)' = LiveOf(Op.owner)
  BY <1>1, GoingFrame
<1>3. Meant'
  BY <1>1, <1>2 DEF All, Held, Meant, Busy, Ending
<1>4. Owning'
  BY <1>1, <1>2 DEF All, Held, Owning
<1>5. ASSUME then # "retry", NEW s \in LiveOf(Op.owner) PROVE s \in worker.live
  <2>1. s \in DOMAIN silences /\ silences[s].state = "live"
    BY <1>5 DEF LiveOf, Owned
  <2>2. s \in worker.live \/ (worker.canon = 0 /\ silences[s].op = worker.op)
    BY DEF All, Held, Aware, Busy
  <2>3. CASE worker.canon = 0 /\ silences[s].op = worker.op
    <3>1. Op.action = "create"
      BY <2>1, <2>3 DEF All, History, Sequel, Silenced, Op
    <3>2. then = "cancel" /\ worker.overdue
      BY <1>5, <2>3, <3>1
    <3>3. worker.pc = "listed"
      BY <3>1, <3>2 DEF All, Held, Meant
    <3> QED BY <2>1, <2>3, <3>1, <3>2, <3>3 DEF All, Held, Aware, Busy
  <2> QED BY <2>2, <2>3
<1>6. Aware'
  BY <1>1, <1>2, <1>5 DEF Aware, Busy, Ending
<1> QED BY <1>3, <1>4, <1>6 DEF Held

LEMMA HeldAdopts ==
  ASSUME All, Kind, silences' = silences, worker.pc = "listed", Op.action = "create",
         worker.canon # 0, Expiring(worker.live \ {worker.canon}, "readback")
  PROVE  Held'
<1>0. /\ TypeInv /\ worker.live \ {worker.canon} \in SUBSET DOMAIN silences /\ "readback" \in Ends
  BY AllTypes DEF TypeInv, Pointers, Ends
<1>1. /\ worker'.pc = "expiring" /\ worker'.todo = worker.live \ {worker.canon}
      /\ worker'.then = "readback"
      /\ worker'.live = worker.live /\ worker'.canon = worker.canon
      /\ worker'.sources = worker.sources
  BY <1>0, ExpiringFacts
<1>2. /\ worker.pc # "idle" /\ Replaces' <=> Replaces
      /\ worker'.op = worker.op /\ worker'.overdue = worker.overdue /\ overdue' = overdue
      /\ Op'.action = Op.action /\ Op'.owner = Op.owner /\ Op'.replaces = Op.replaces
      /\ LiveOf(Op.replaces)' = LiveOf(Op.replaces)
  BY <1>1, GoingFrame
<1>3. Meant'
  BY <1>1, <1>2 DEF All, Held, Meant, Busy, Ending
<1>4. Owning'
  BY <1>1, <1>2 DEF All, Held, Owning
<1>5. Aware'
  BY <1>1, <1>2 DEF All, Held, Aware, Busy, Ending
<1> QED BY <1>3, <1>4, <1>5 DEF Held

LEMMA HeldMarks ==
  ASSUME All, Kind, silences' = silences, worker.pc = "listed", MarkSubmitted,
         worker.canon = 0, Op.action = "create" => ~worker.overdue
  PROVE  Held'
<1>1. /\ worker'.pc = "marked" /\ worker'.live = worker.live /\ worker'.canon = worker.canon
      /\ worker'.sources = worker.sources
  BY AllTypes, StepFacts DEF MarkSubmitted, Steps
<1>2. /\ worker.pc # "idle" /\ worker'.op = worker.op /\ worker'.overdue = worker.overdue
      /\ overdue' = overdue /\ Op'.action = Op.action /\ Op'.owner = Op.owner
      /\ Op'.replaces = Op.replaces /\ LiveOf(Op.owner)' = LiveOf(Op.owner)
  BY <1>1, GoingFrame
<1>3. Meant'
  BY <1>1, <1>2 DEF All, Held, Meant, Busy, Ending
<1>4. Owning'
  BY <1>1, <1>2 DEF All, Held, Owning
<1>5. Aware'
  BY <1>1, <1>2 DEF All, Held, Aware, Busy, Ending
<1> QED BY <1>3, <1>4, <1>5 DEF Held

LEMMA HeldSubmits ==
  ASSUME All, Kind, Submit, auth
  PROVE  Held'
<1>1. /\ worker.pc = "marked" /\ Op.action = "create" /\ silences' = silences
      /\ worker'.pc = "posting" /\ worker'.live = worker.live /\ worker'.canon = worker.canon
      /\ worker'.sources = worker.sources
  BY AllTypes, StepFacts DEF Submit, Steps
<1>2. /\ worker.pc # "idle" /\ worker'.op = worker.op /\ worker'.overdue = worker.overdue
      /\ overdue' = overdue /\ Op'.action = Op.action /\ Op'.owner = Op.owner
      /\ Op'.replaces = Op.replaces
  BY <1>1, GoingFrame
<1>3. Meant'
  BY <1>1, <1>2 DEF All, Held, Meant, Busy, Ending
<1>4. Owning'
  BY <1>1, <1>2 DEF All, Held, Owning
<1>5. Aware'
  BY <1>1 DEF Aware, Busy, Ending
<1> QED BY <1>3, <1>4, <1>5 DEF Held

LEMMA HeldAccepted ==
  ASSUME All, Kind, silences' = silences, worker.pc = "posting", NEW canon \in Marked,
         worker' = [worker EXCEPT !.pc = "posted", !.canon = canon]
  PROVE  Held'
<1>1. /\ worker'.pc = "posted" /\ worker'.canon = canon /\ worker'.live = worker.live
      /\ worker'.sources = worker.sources
  BY AllTypes, AcceptedFacts
<1>2. /\ worker.pc # "idle" /\ worker'.op = worker.op /\ worker'.overdue = worker.overdue
      /\ overdue' = overdue /\ Op'.action = Op.action /\ Op'.owner = Op.owner
      /\ Op'.replaces = Op.replaces
  BY <1>1, GoingFrame
<1>3. silences'[canon].op = worker.op
  BY DEF Marked
<1>4. Meant'
  BY <1>1, <1>2, <1>3 DEF All, Held, Meant, Busy, Ending
<1>5. Owning'
  BY <1>1, <1>2 DEF All, Held, Owning
<1>6. Aware'
  BY <1>1 DEF Aware, Busy, Ending
<1> QED BY <1>4, <1>5, <1>6 DEF Held

LEMMA HeldPosted ==
  ASSUME All, Kind, Posted
  PROVE  Held'
<1>1. /\ worker.pc = "posted" /\ silences' = silences
      /\ worker'.pc = "expiring" /\ worker'.then = "readback"
      /\ worker'.todo = LiveOf(Op.owner) \ {worker.canon} /\ worker'.sources = Sources
      /\ worker'.canon = worker.canon /\ worker'.live = worker.live
  BY AllTypes, PostedFacts DEF Posted
<1>2. /\ worker.pc # "idle" /\ worker'.op = worker.op /\ worker'.overdue = worker.overdue
      /\ overdue' = overdue /\ Op'.action = Op.action /\ Op'.owner = Op.owner
      /\ Op'.replaces = Op.replaces /\ (Replaces' <=> Replaces)
      /\ LiveOf(Op.replaces)' = LiveOf(Op.replaces)
  BY <1>1, GoingFrame
<1>3. Meant'
  BY <1>1, <1>2 DEF All, Held, Meant, Busy, Ending
<1>4. Owning'
  BY <1>1, <1>2 DEF All, Held, Owning, Sources, LiveOf, Owned
<1>5. Replaces => LiveOf(Op.replaces) \subseteq worker'.sources
  BY <1>1 DEF Replaces, Sources
<1>6. Aware'
  BY <1>1, <1>2, <1>5 DEF Aware, Busy, Ending
<1> QED BY <1>3, <1>4, <1>6 DEF Held

LEMMA HeldReadback ==
  ASSUME All, Kind, Readback, silences[worker.canon].state # "gone"
  PROVE  Held'
<1>1. /\ worker.pc = "readback" /\ silences' = silences
      /\ worker' = [worker EXCEPT !.pc = "expiring", !.then = "complete",
                      !.todo = worker.sources, !.seen = silences[worker.canon].state]
  BY DEF Readback, Goes
<1>2. worker.canon \in DOMAIN silences
  BY <1>1, AllTypes DEF TypeInv, Kinds, Pointers, Worker, Canonical, Adopting
<1>3. /\ worker'.pc = "expiring" /\ worker'.then = "complete" /\ worker'.todo = worker.sources
      /\ worker'.seen = silences[worker.canon].state
      /\ worker'.canon = worker.canon /\ worker'.live = worker.live
      /\ worker'.sources = worker.sources
  BY <1>1, <1>2, AllTypes, ReadbackFacts
<1>4. /\ worker.pc # "idle" /\ worker'.op = worker.op /\ worker'.overdue = worker.overdue
      /\ overdue' = overdue /\ Op'.action = Op.action /\ Op'.owner = Op.owner
      /\ Op'.replaces = Op.replaces /\ (Replaces' <=> Replaces)
      /\ LiveOf(Op.replaces)' = LiveOf(Op.replaces)
  BY <1>1, <1>3, GoingFrame
<1>5. Meant'
  BY <1>1, <1>3, <1>4 DEF All, Held, Meant, Busy, Ending
<1>6. Owning'
  BY <1>1, <1>3, <1>4 DEF All, Held, Owning
<1>7. Aware'
  BY <1>1, <1>3, <1>4 DEF All, Held, Aware, Busy, Ending
<1> QED BY <1>5, <1>6, <1>7 DEF Held

LEMMA HeldDuplicates ==
  ASSUME All, Kind, DuplicatesExpired
  PROVE  Held'
<1>1. /\ worker.pc = "expiring" /\ worker.then = "readback" /\ silences' = silences
      /\ worker'.pc = "readback" /\ worker'.live = worker.live /\ worker'.canon = worker.canon
      /\ worker'.sources = worker.sources
  BY AllTypes, StepFacts DEF DuplicatesExpired, Expired, Goes, Rest, Steps
<1>2. /\ worker.pc # "idle" /\ worker'.op = worker.op /\ worker'.overdue = worker.overdue
      /\ overdue' = overdue /\ Op'.action = Op.action /\ Op'.owner = Op.owner
      /\ Op.action \in Actions
      /\ Op'.replaces = Op.replaces /\ (Replaces' <=> Replaces)
      /\ LiveOf(Op.replaces)' = LiveOf(Op.replaces)
  BY <1>1, GoingFrame
<1>3. Meant'
  BY <1>1, <1>2 DEF All, Held, Meant, Busy, Ending, Actions
<1>4. Owning'
  BY <1>1, <1>2 DEF All, Held, Owning
<1>5. Aware'
  BY <1>1, <1>2 DEF All, Held, Aware, Busy, Ending
<1> QED BY <1>3, <1>4, <1>5 DEF Held

LEMMA HeldOne ==
  ASSUME All, Kind, NEW s \in DOMAIN silences, ExpireOne(s), silences[s].state = "live"
  PROVE  Held'
<1>1. Kills(s) /\ worker' = [worker EXCEPT !.todo = worker.todo \ {s}]
  BY DEF ExpireOne, Kills, Goes
<1>2. /\ worker.pc = "expiring"
      /\ worker'.pc = worker.pc /\ worker'.then = worker.then /\ worker'.todo = worker.todo \ {s}
      /\ worker'.canon = worker.canon /\ worker'.sources = worker.sources
      /\ worker'.seen = worker.seen /\ worker'.live = worker.live
  BY <1>1, AllTypes, TodoFacts DEF Kills
<1>3. /\ worker.pc # "idle" /\ worker'.op = worker.op /\ worker'.overdue = worker.overdue
      /\ overdue' = overdue /\ Op'.action = Op.action /\ Op'.owner = Op.owner
      /\ Op'.replaces = Op.replaces /\ (Replaces' <=> Replaces)
  BY <1>2, GoingFrame
<1>4. Fades /\ silences'[s].state = "expired"
  BY <1>1, AllTypes, KillFacts
<1>5. /\ worker.live \subseteq DOMAIN silences /\ worker.sources \subseteq DOMAIN silences
      /\ worker.todo \subseteq DOMAIN silences
      /\ worker.canon # 0 => worker.canon \in DOMAIN silences
  BY AllTypes DEF TypeInv, Kinds, Pointers, Worker
<1>6. \A r \in DOMAIN silences : /\ silences'[r].op = silences[r].op
                                 /\ silences'[r].owner = silences[r].owner
                                 /\ silences'[r].state = "live" => silences[r].state = "live"
  BY <1>4 DEF Fades
<1>7. ASSUME NEW o, NEW r \in LiveOf(o)' PROVE r \in LiveOf(o) /\ r # s
  <2>1. r \in LiveOf(o)
    BY <1>4, <1>7, AllTypes, LiveFades
  <2> QED BY <1>4, <1>7, <2>1 DEF LiveOf, Owned
<1>8. PICK own, rep : own = Op.owner /\ rep = Op.replaces
  OBVIOUS
<1>9. LiveOf(Op.owner)' = LiveOf(own)' /\ LiveOf(Op.replaces)' = LiveOf(rep)'
  BY <1>3, <1>8 DEF LiveOf, Owned
<1>10. /\ \A r \in LiveOf(Op.owner)' : r \in LiveOf(Op.owner) /\ r # s
       /\ \A r \in LiveOf(Op.replaces)' : r \in LiveOf(Op.replaces) /\ r # s
  BY <1>7, <1>8, <1>9
<1>11. Meant'
  BY <1>2, <1>3, <1>5, <1>6 DEF All, Held, Meant, Busy, Ending
<1>12. Owning'
  BY <1>2, <1>3, <1>5, <1>6 DEF All, Held, Owning
<1>13. Aware'
  <2>1. (Ending({"cancel", "unauthorized", "expired"}) => LiveOf(Op.owner) \subseteq worker.todo)'
    BY <1>2, <1>10 DEF Ending, All, Held, Aware
  <2>2. /\ (Ending({"readback"}) /\ Replaces => LiveOf(Op.replaces) \subseteq worker.sources)'
        /\ (Ending({"complete"}) /\ Replaces => LiveOf(Op.replaces) \subseteq worker.todo)'
    BY <1>2, <1>3, <1>10 DEF Ending, All, Held, Aware
  <2>3. (Ending({"complete"}) /\ silences[worker.canon].state = "live" => worker.seen = "live")'
    <3>1. Ending({"complete"}) => worker.canon \in DOMAIN silences
      BY <1>5, AllTypes DEF Ending, Canonical, Adopting
    <3> QED BY <1>2, <1>6, <3>1 DEF Ending, All, Held, Aware
  <2> QED BY <1>2, <2>1, <2>2, <2>3 DEF Aware, Busy
<1> QED BY <1>11, <1>12, <1>13 DEF Held

LEMMA HeldWorker ==
  ASSUME All, WorkerSteps, worker'.pc # "idle"
  PROVE  Held'
<1>0. TypeInv /\ Kind
  BY AllTypes, WorkerKind DEF Canonical, Adopting
<1>1. ~AttemptEnds /\ ~Retry /\ ~Fail /\ (\A p : ~EndsAs(p))
  BY IdleFacts DEF AttemptEnds, Retry, Fail, EndsAs
<1>2. CASE Decide
  <2>0. silences' = silences /\ worker.pc = "listed"
    BY <1>2 DEF Decide, Draining, NotFound, Submission, Adopt, Expire, Listed, Missing, MaySubmit
  <2>1. CASE Draining
    <3>1. /\ Op.action = "create"
          /\ \/ Expiring(worker.live, "retry")
             \/ Expiring(worker.live, "cancel") /\ (worker.canon # 0 \/ worker.overdue)
      BY <1>1, <2>1 DEF Draining, Listed
    <3> QED BY <1>0, <2>0, <3>1, HeldExpiring
  <2>2. CASE Submission
    BY <1>0, <1>1, <2>0, <2>2, HeldMarks DEF Submission, MaySubmit, Missing
  <2>3. CASE Adopt
    <3>1. /\ Op.action = "create" /\ worker.canon # 0
          /\ \/ Expiring(worker.live \ {worker.canon}, "readback")
             \/ Expiring(worker.live, "unauthorized")
      BY <2>3 DEF Adopt, Listed
    <3> QED BY <1>0, <2>0, <3>1, HeldAdopts, HeldExpiring
  <2>4. CASE Expire
    <3>1. Op.action = "expire"
      BY <2>4 DEF Expire, Listed
    <3>2. CASE MarkSubmitted
      <4>1. worker.canon = 0
        <5> SUFFICES ASSUME worker.canon # 0 PROVE FALSE
          OBVIOUS
        <5>1. worker.canon \in DOMAIN silences
          BY AllTypes DEF TypeInv, Kinds, Pointers, Worker
        <5>2. silences[worker.canon].op = worker.op
          BY <2>0 DEF All, Held, Meant
        <5> QED BY <3>1, <5>1, <5>2 DEF All, History, Sequel, Silenced, Op
      <4> QED BY <1>0, <2>0, <3>1, <3>2, <4>1, HeldMarks
    <3>3. CASE Expiring(worker.live, "expired")
      BY <1>0, <2>0, <3>1, <3>3, HeldExpiring
    <3> QED BY <2>4, <3>2, <3>3 DEF Expire
  <2> QED BY <1>1, <1>2, <2>1, <2>2, <2>3, <2>4 DEF Decide, NotFound
<1>3. CASE Submit
  BY <1>0, <1>1, <1>3, HeldSubmits DEF Submit
<1>4. CASE ExpireMarked
  <2>1. /\ silences' = silences /\ worker.pc = "marked" /\ Op.action = "expire"
        /\ Expiring(worker.live, "expired")
    BY <1>1, <1>4 DEF ExpireMarked
  <2> QED BY <1>0, <2>1, HeldExpiring
<1>5. CASE Accepted
  <2>1. /\ silences' = silences /\ worker.pc = "posting"
        /\ \E canon \in Marked : worker' = [worker EXCEPT !.pc = "posted", !.canon = canon]
    BY <1>1, <1>5 DEF Accepted, Goes
  <2> QED BY <1>0, <2>1, HeldAccepted
<1>6. CASE Readback
  BY <1>0, <1>1, <1>6, HeldReadback DEF Readback
<1>7. ASSUME NEW s \in DOMAIN silences, ExpireOne(s) PROVE Held'
  BY <1>0, <1>1, <1>7, HeldOne DEF ExpireOne
<1> QED BY <1>0, <1>1, <1>2, <1>3, <1>4, <1>5, <1>6, <1>7, HeldList, HeldPosted, HeldDuplicates
        DEF WorkerSteps, Attempt, Rejected, WaitForMarker, Complete, CompleteExpire, Cancel,
            Unauthorized, ReadFails, StoreFails, NoLongerAllowed, Unanswered, ExpireFails

LEMMA HeldOther ==
  ASSUME All, SubmitsInTime, OtherSteps
  PROVE  Held'
<1>0. TypeInv /\ Canonical /\ Registered
  BY AllTypes
<1>1. CASE worker' = worker /\ worker.pc # "idle"
  <2>0. worker.op \in DOMAIN ops
    BY <1>0, <1>1, OpFacts
  <2>1. Like(ops'[worker.op], Op)
    BY <1>0, <2>0, OtherOps DEF OpsGrow, Like, Op
  <2>2. ASSUME NEW x \in late, Apply(x) PROVE Held'
    <3>1. overdue' = overdue /\ (silences' = silences \/ Renews(x))
      BY <1>0, <2>2, AppliedFacts DEF Apply
    <3>2. Fades \/ \E y \in late : Renews(y)
      BY <1>0, <3>1, FadesSame DEF TypeInv
    <3> QED BY <1>1, <2>1, <3>1, <3>2, HeldWaits
  <2>3. ASSUME NEW s \in DOMAIN silences, SilenceEnds(s) PROVE Held'
    <3>1. overdue' = overdue /\ Fades
      BY <1>0, <2>3, EndsFades DEF SilenceEnds
    <3> QED BY <1>1, <2>1, <3>1, HeldWaits
  <2>4. ASSUME NEW o \in DOMAIN ops, DeadlinePasses(o) PROVE Held'
    <3>1. /\ silences' = silences /\ overdue' = overdue \cup {o} /\ worker.op # o
      BY <2>4 DEF DeadlinePasses
    <3>2. Fades
      BY <1>0, <3>1, FadesSame DEF TypeInv
    <3> QED BY <1>1, <2>1, <3>1, <3>2, HeldWaits
  <2>5. ASSUME UNCHANGED <<silences, overdue>> PROVE Held'
    <3>1. Fades
      BY <1>0, <2>5, FadesSame DEF TypeInv
    <3> QED BY <1>1, <2>1, <2>5, <3>1, HeldWaits
  <2> QED BY <2>2, <2>3, <2>4, <2>5, OtherHistory
<1>2. CASE worker'.pc = "idle"
  BY <1>2, HeldIdle
<1> QED BY <1>0, <1>1, <1>2, HeldSelect, OtherWorker, IdleFacts

LEMMA NextHeld ==
  ASSUME All, SubmitsInTime, [Next]_vars
  PROVE  Held'
<1>1. CASE UNCHANGED vars
  <2>1. /\ worker' = worker /\ ops' = ops /\ silences' = silences /\ overdue' = overdue
    BY <1>1 DEF vars, durable, world
  <2> QED BY <2>1 DEF All, Held, Meant, Owning, Aware, Busy, Ending, Replaces, LiveOf, Owned, Op
<1>2. CASE worker'.pc = "idle"
  BY <1>2, HeldIdle
<1> QED BY <1>1, <1>2, HeldWorker, HeldOther, NextSplit

LEMMA AllAlways ==
  ASSUME SubmitsInTime
  PROVE  Spec => []All
<1>1. Init => History /\ Held
  <2> SUFFICES ASSUME Init PROVE History /\ Held
    OBVIOUS
  <2>1. worker.pc = "idle" /\ silences = <<>> /\ late = {}
    BY IdleFacts DEF Init
  <2>2. Held
    BY <2>1 DEF Held, Meant, Owning, Aware, Busy, Ending
  <2> QED BY <2>1, <2>2 DEF History, Sequel, Underways, FailedOff
<1>2. Sound /\ Once /\ History /\ Held /\ [Next]_vars => (History /\ Held)'
  BY NextHistory, NextHeld DEF All
<1>3. (Sound /\ Once /\ History /\ Held) <=> All
  BY DEF All
<1> QED BY <1>1, <1>2, <1>3, SoundAlways, OnceAlways, PTL DEF Spec

\* When no deadline passes during a submission, no silence suppresses alerts for an operation
\* that ended as failed, however late Alertmanager applies what it was sent: an attempt gives
\* an operation up only when nothing of it is under way and what there is of it has expired.
THEOREM NothingLeft ==
  ASSUME SubmitsInTime
  PROVE  Spec => []FailedLeavesNothing
<1>1. All => FailedLeavesNothing
  BY DEF All, History, FailedOff, FailedLeavesNothing, Silenced
<1> QED BY <1>1, AllAlways, PTL

-----------------------------------------------------------------------------
(* The references of what is live.                                           *)

Shows(ref, s) == ref.sid = s /\ ref.state = "live"

\* A live silence whose operation is over is the one its reference shows, and the one the
\* readiness loop saw.
Tracked ==
  \A s \in DOMAIN silences : silences[s].state = "live" /\ Terminal(Silenced(s)) =>
    /\ Shows(refs[silences[s].owner], s)
    /\ reader.pc = "listed" => Shows(reader.seen[silences[s].owner], s)

\* What is live after a step, of an operation that is over, was so before.
Lasting ==
  \A s \in DOMAIN silences' : silences'[s].state = "live" /\ Terminal(Silenced(s)') =>
    /\ s \in DOMAIN silences /\ silences[s].state = "live" /\ Terminal(Silenced(s))
    /\ silences'[s].owner = silences[s].owner

\* One silence of a scope is live at most.
LEMMA OneLive ==
  ASSUME All, NEW o, NEW s \in LiveOf(o), NEW t \in LiveOf(o)
  PROVE  s = t
<1>1. /\ s \in DOMAIN silences /\ t \in DOMAIN silences /\ s \in Nat /\ t \in Nat
      /\ silences[s].owner = silences[t].owner
      /\ silences[s].state = "live" /\ silences[t].state = "live"
  BY AllTypes DEF LiveOf, Owned
<1>2. ~(s < t) /\ ~(t < s)
  BY <1>1 DEF All, History, Sequel
<1> QED BY <1>1, <1>2

\* The live silence of a scope has its highest generation.
LEMMA LiveObserved ==
  ASSUME All, NEW s \in DOMAIN silences, silences[s].state = "live"
  PROVE  Shows(Observed(silences[s].owner), s)
<1> DEFINE o == silences[s].owner
           Top(t) == \A r \in Owned(o) : silences[r].gen <= silences[t].gen
<1>1. s \in Owned(o)
  BY DEF Owned
<1>2. ASSUME NEW t \in Owned(o), t # s PROVE silences[t].gen < silences[s].gen
  <2>1. /\ t \in DOMAIN silences /\ t \in Nat /\ s \in Nat /\ silences[t].owner = silences[s].owner
    BY AllTypes DEF Owned
  <2>2. ~(s < t)
    BY <2>1 DEF All, History, Sequel
  <2>3. silences[t].op < silences[s].op
    BY <1>2, <2>1, <2>2 DEF All, History, Sequel
  <2>4. /\ silences[t].op \in DOMAIN ops /\ silences[s].op \in DOMAIN ops
        /\ Silenced(t).owner = Silenced(s).owner /\ Silenced(s).action = "create"
        /\ silences[t].gen = Silenced(t).gen /\ silences[s].gen = Silenced(s).gen
    BY <2>1, AllTypes DEF All, History, Sequel
  <2>5. Numbered
    BY AllTypes DEF Registered
  <2> QED BY <2>3, <2>4, <2>5 DEF Numbered, Silenced
<1>3. \A r \in Owned(o) : silences[r] \in Silence
  BY AllTypes DEF Owned
<1>4. \A r \in Owned(o) : silences[r].gen \in Nat
  BY <1>3 DEF Silence
<1>5. \A r \in Owned(o) : silences[r].gen <= silences[s].gen
  BY <1>1, <1>2, <1>4
<1>6. ASSUME NEW t \in Owned(o), Top(t) PROVE t = s
  <2>1. silences[s].gen <= silences[t].gen
    BY <1>1, <1>6
  <2>2. t # s => silences[t].gen < silences[s].gen
    BY <1>2
  <2> QED BY <1>1, <1>4, <2>1, <2>2
<1>7. (CHOOSE t \in Owned(o) : \A r \in Owned(o) : silences[r].gen <= silences[t].gen) = s
  BY <1>1, <1>5, <1>6
<1>8. Owned(o) # {}
  BY <1>1
<1>9. Observed(o) = [state |-> silences[s].state, sid |-> s, gen |-> silences[s].gen]
  <2> HIDE DEF o
  <2> QED BY <1>7, <1>8 DEF Observed
<1> QED BY <1>9 DEF Shows

LEMMA TrackedStays ==
  ASSUME Tracked, Lasting, refs' = refs, reader' = reader \/ reader'.pc # "listed"
  PROVE  Tracked'
BY DEF Tracked, Lasting

\* Where operations do not end and silences end or are created, nothing new is to be shown.
LEMMA FadesLasting ==
  ASSUME All, Fades \/ (\E x \in late : Renews(x)),
         \A i \in DOMAIN ops : Terminal(ops'[i]) => Terminal(ops[i])
  PROVE  Lasting
<1> SUFFICES ASSUME NEW s \in DOMAIN silences', silences'[s].state = "live", Terminal(Silenced(s)')
             PROVE  /\ s \in DOMAIN silences /\ silences[s].state = "live"
                    /\ Terminal(Silenced(s)) /\ silences'[s].owner = silences[s].owner
  BY DEF Lasting
<1>1. CASE s \in DOMAIN silences
  <2>1. /\ silences'[s].op = silences[s].op /\ silences[s].op \in DOMAIN ops
        /\ silences'[s].owner = silences[s].owner
        /\ silences'[s].state = "live" => silences[s].state = "live"
    BY <1>1, AllTypes DEF Fades, Renews
  <2> QED BY <1>1, <2>1 DEF Silenced
<1>2. CASE s \notin DOMAIN silences
  <2>1. PICK x \in late : Renews(x)
    BY <1>2, AllTypes DEF Fades
  <2>2. silences'[s].op = x.op /\ x.op \in DOMAIN ops
    BY <1>2, <2>1, AllTypes, LiveRenews DEF Renews
  <2>3. ~Terminal(ops[x.op])
    BY DEF All, History, Underways
  <2> QED BY <2>2, <2>3 DEF Silenced
<1> QED BY <1>1, <1>2

LEMMA TrackedSettles ==
  ASSUME All, Tracked, Settles
  PROVE  Tracked'
<1>0. /\ TypeInv /\ worker.pc = "expiring" /\ worker.todo = {} /\ silences' = silences
      /\ refs \in [Owner -> Reference] /\ reader.pc = "idle" /\ reader' = reader
      /\ worker.op \in DOMAIN ops /\ Op.owner \in Owner /\ Op.replaces \in Owner \cup {None}
  <2>1. /\ TypeInv /\ worker.pc = "expiring" /\ worker.todo = {} /\ silences' = silences
        /\ reader' = reader
    BY AllTypes DEF Settles, Complete, CompleteExpire, Cancel, Unauthorized, Expired, Rest, Others
  <2> QED BY <2>1, OpFacts DEF TypeInv, Kinds
<1>1. PICK p : PhaseTo(worker.op, p)
  BY DEF Settles, Quits
<1> SUFFICES ASSUME NEW s \in DOMAIN silences, silences[s].state = "live", Terminal(Silenced(s)')
             PROVE  Shows(refs'[silences[s].owner], s)
  BY <1>0 DEF Tracked
<1> DEFINE o == silences[s].owner
<1>2. /\ silences[s].op \in DOMAIN ops /\ o = Silenced(s).owner /\ s \in LiveOf(o) /\ o \in Owner
  <2>1. silences[s] \in Silence
    BY AllTypes
  <2> QED BY <2>1, AllTypes DEF LiveOf, Owned, Silence
<1>3. o # Op.owner => Shows(refs[o], s)
  <2> SUFFICES ASSUME o # Op.owner PROVE Shows(refs[o], s)
    OBVIOUS
  <2>1. silences[s].op # worker.op
    BY <1>2 DEF Silenced, Op
  <2>2. Terminal(Silenced(s))
    BY <1>0, <1>1, <1>2, <2>1 DEF PhaseTo, Silenced, Terminal
  <2> QED BY <2>2 DEF Tracked
<1>4. CASE Complete
  <2> DEFINE new == [refs EXCEPT ![Op.owner] = CanonRef(worker.seen)]
  <2>1. /\ worker.then = "complete" /\ Op.action = "create"
        /\ refs' = IF Op.replaces \in {None, Op.owner} THEN new ELSE MarkExpired(new, Op.replaces)
    BY <1>0, <1>4, AllTypes, OpFacts DEF Complete, Expired, All, Held, Meant, Operation, Actions
  <2>2. worker.canon \in DOMAIN silences /\ silences[worker.canon].op = worker.op
    BY <1>0, <2>1, AllTypes DEF All, Held, Meant, Canonical, Adopting, TypeInv, Kinds, Pointers,
       Worker
  <2>3. /\ new[Op.owner] = CanonRef(worker.seen) /\ \A x \in Owner : x # Op.owner => new[x] = refs[x]
    BY <1>0
  <2>4. \A x \in Owner : x # Op.replaces \/ Op.replaces \in {None, Op.owner} => refs'[x] = new[x]
    BY <1>0, <2>1 DEF MarkExpired
  <2>5. ASSUME Replaces PROVE o # Op.replaces
    BY <1>0, <1>2, <2>1, <2>5 DEF All, Held, Aware, Ending
  <2>6. o # Op.replaces \/ Op.replaces \in {None, Op.owner}
    BY <2>1, <2>5 DEF Replaces
  <2>7. refs'[o] = new[o]
    BY <1>2, <2>4, <2>6
  <2>8. CASE o = Op.owner
    <3>1. s = worker.canon
      BY <1>0, <2>2, <2>8, OnlyLive, OpFacts DEF Op
    <3>2. worker.seen = "live"
      BY <1>0, <2>1, <3>1 DEF All, Held, Aware, Ending
    <3> QED BY <2>3, <2>7, <2>8, <3>1, <3>2 DEF Shows, CanonRef
  <2>9. CASE o # Op.owner
    BY <1>2, <1>3, <2>3, <2>7, <2>9
  <2> QED BY <2>8, <2>9
<1>5. CASE CompleteExpire \/ Cancel \/ Unauthorized
  <2>1. worker.then \in {"expired", "cancel", "unauthorized"}
    BY <1>5 DEF CompleteExpire, Cancel, Unauthorized, Expired
  <2>2. LiveOf(Op.owner) = {}
    BY <1>0, <2>1 DEF All, Held, Aware, Ending
  <2>3. o # Op.owner
    BY <1>2, <2>2
  <2>4. refs'[o] = refs[o]
    BY <1>0, <1>2, <1>5, <2>3 DEF CompleteExpire, Cancel, Unauthorized, MarkExpired
  <2> QED BY <1>3, <2>3, <2>4
<1> QED BY <1>4, <1>5 DEF Settles

LEMMA TrackedWorker ==
  ASSUME All, Tracked, WorkerSteps
  PROVE  Tracked'
<1>0. TypeInv /\ Kind
  BY AllTypes, WorkerKind DEF Canonical, Adopting
<1>1. ASSUME Fades, refs' = refs, reader' = reader,
             \A i \in DOMAIN ops : ops'[i].phase = ops[i].phase
                                   \/ ops'[i].phase \notin {"completed", "failed"}
      PROVE  Tracked'
  BY <1>1, FadesLasting, TrackedStays DEF Terminal
<1>2. CASE Looks \/ Marks \/ Submits \/ ExpiresOne
  <2>1. Fades
    BY <1>0, <1>2, FadesSame, KillFacts DEF Looks, Marks, Submits, ExpiresOne, TypeInv
  <2> QED BY <1>1, <1>2, <2>1 DEF Looks, Marks, Submits, ExpiresOne, Going, PhaseTo
<1>3. CASE GivesUp
  <2>1. Fades
    BY <1>0, <1>3, FadesSame, KillFacts DEF GivesUp, TypeInv
  <2> QED BY <1>1, <1>3, <2>1 DEF GivesUp, Quits, PhaseTo
<1>4. CASE GivesIn
  <2>1. /\ PhaseTo(worker.op, "failed") /\ silences' = silences /\ refs' = refs /\ reader' = reader
        /\ Quits("failed")
    BY <1>4 DEF GivesIn, Quits
  <2>2. \A s \in DOMAIN silences : silences[s].op = worker.op => silences[s].state # "live"
    BY <1>4, <2>1, SafeEnd
  <2>3. Lasting
    BY <2>1, <2>2, AllTypes DEF Lasting, Silenced, PhaseTo, Terminal
  <2> QED BY <2>1, <2>3, TrackedStays
<1> QED BY <1>0, <1>2, <1>3, <1>4, TrackedSettles DEF Kind

LEMMA TrackedOther ==
  ASSUME All, Tracked, OtherSteps
  PROVE  Tracked'
<1>0. /\ TypeInv /\ Registered /\ refs \in [Owner -> Reference]
      /\ \A s \in DOMAIN silences : silences[s].owner \in Owner
  <2>1. \A s \in DOMAIN silences : silences[s] \in Silence
    BY AllTypes
  <2> QED BY <2>1, AllTypes DEF TypeInv, Kinds, Silence
<1>1. /\ Fades \/ \E x \in late : Renews(x)
      /\ \A i \in DOMAIN ops : ops'[i] = ops[i]
  <2>1. \A i \in DOMAIN ops : ops'[i] = ops[i]
    BY <1>0, OtherOps DEF OpsGrow
  <2>2. ASSUME NEW x \in late, Apply(x) PROVE Fades \/ \E y \in late : Renews(y)
    <3>1. silences' = silences \/ Renews(x)
      BY <1>0, <2>2, AppliedFacts DEF Apply
    <3> QED BY <1>0, <3>1, FadesSame DEF TypeInv
  <2>3. (\E o \in DOMAIN ops : DeadlinePasses(o)) => silences' = silences
    BY DEF DeadlinePasses
  <2> QED BY <1>0, <2>1, <2>2, <2>3, OtherHistory, EndsFades, FadesSame DEF TypeInv
<1>2. Lasting
  BY <1>1, FadesLasting
<1>3. CASE ReconcileList
  <2>1. /\ refs' = refs /\ silences' = silences /\ ops' = ops
        /\ reader' = [pc |-> "listed", seen |-> [o \in Owner |-> Observed(o)]]
    BY <1>3 DEF ReconcileList, durable, world
  <2>2. ASSUME NEW s \in DOMAIN silences, silences[s].state = "live"
        PROVE  Shows(reader'.seen[silences[s].owner], s)
    BY <1>0, <2>1, <2>2, LiveObserved
  <2> QED BY <2>1, <2>2 DEF Tracked, Silenced
<1>4. CASE RefreshOwned
  <2>1. /\ reader.pc = "listed" /\ silences' = silences /\ ops' = ops /\ reader'.pc = "idle"
        /\ refs' = [o \in Owner |-> Refreshed(refs[o], reader.seen[o])]
    BY <1>4 DEF RefreshOwned, world, Unread
  <2>2. ASSUME NEW s \in DOMAIN silences, silences[s].state = "live", Terminal(Silenced(s))
        PROVE  Shows(refs'[silences[s].owner], s)
    <3> DEFINE o == silences[s].owner
               ref == refs[o]
               seen == reader.seen[o]
    <3>1. o \in Owner /\ Shows(ref, s) /\ Shows(seen, s) /\ ref \in Reference
      BY <1>0, <2>1, <2>2 DEF Tracked
    <3>2. ref # NoRef /\ seen # NoRef
      BY <3>1 DEF Shows, NoRef
    <3>3. refs'[o] = Refreshed(ref, seen)
      BY <2>1, <3>1
    <3>4. refs'[o] = [ref EXCEPT !.state = seen.state, !.sid = seen.sid]
      BY <3>2, <3>3 DEF Refreshed
    <3> HIDE DEF ref, seen
    <3>5. refs'[o].state = seen.state /\ refs'[o].sid = seen.sid
      BY <3>1, <3>4 DEF Reference
    <3> QED BY <3>1, <3>5 DEF Shows
  <2> QED BY <2>1, <2>2 DEF Tracked, Silenced
<1>5. CASE Begin
  <2>1. /\ silences' = silences /\ reader' = reader /\ reader.pc = "idle"
        /\ \A o \in Owner : refs'[o] \in Adopted(o)
    BY <1>0, <1>5, BeginFacts DEF Begin, world, TypeInv, Turns
  <2>2. ASSUME NEW s \in DOMAIN silences, silences[s].state = "live"
        PROVE  Shows(refs'[silences[s].owner], s)
    <3> DEFINE o == silences[s].owner
    <3>1. s \in LiveOf(o) /\ o \in Owner
      BY <1>0, <2>2 DEF LiveOf, Owned
    <3>2. PICK t \in LiveOf(o) : refs'[o].state = "live" /\ refs'[o].sid = t
      <4> HIDE DEF o
      <4>1. refs'[o] \in Adopted(o) /\ LiveOf(o) # {}
        BY <2>1, <3>1
      <4> QED BY <4>1 DEF Adopted
    <3>3. t = s
      BY <3>1, <3>2, OneLive
    <3> QED BY <3>2, <3>3 DEF Shows
  <2> QED BY <2>1, <2>2 DEF Tracked
<1>6. CASE VerifyState
  <2>1. /\ silences' = silences /\ reader' = reader /\ reader.pc = "idle"
        /\ \A o \in Owner : refs[o].state = "live" => refs'[o] = refs[o]
    BY <1>0, <1>6 DEF VerifyState, world, TypeInv, Turns
  <2> QED BY <1>0, <1>2, <2>1 DEF Tracked, Lasting, Shows
<1>7. CASE ~(ReconcileList \/ RefreshOwned \/ Begin \/ VerifyState)
  <2>1. ASSUME (\E c \in Caller : Handler(c)) \/ World
        PROVE  refs' = refs /\ reader' = reader
    BY <2>1 DEF Handler, AskCreate, AskExpire, Register, World, Apply, Discard, SilenceEnds,
       AuthChanges, DeadlinePasses, durable
  <2>2. ASSUME (\E o \in DOMAIN ops : Select(o)) \/ VerifyList \/ DrainAborts
               \/ Deliver \/ DeliverFails
        PROVE  refs' = refs /\ reader' = reader
    BY <2>2 DEF Select, InRun, Deliver, DeliverFails, VerifyList, DrainAborts, durable
  <2>3. ASSUME Restart PROVE refs' = refs /\ reader'.pc # "listed"
    BY <2>3, UnreadFacts DEF Restart, durable, Unread
  <2>4. refs' = refs /\ (reader' = reader \/ reader'.pc # "listed")
    BY <1>7, <2>1, <2>2, <2>3 DEF OtherSteps, DrainStep
  <2> QED BY <1>2, <2>4, TrackedStays
<1> QED BY <1>3, <1>4, <1>5, <1>6, <1>7

LEMMA NextTracked ==
  ASSUME All, Tracked, [Next]_vars
  PROVE  Tracked'
<1>1. CASE UNCHANGED vars
  BY <1>1 DEF vars, durable, world, Tracked, Silenced
<1> QED BY <1>1, TrackedWorker, TrackedOther, NextSplit

\* When no deadline passes during a submission, the live silence of a scope on which nobody works
\* is the one its reference shows as live, whatever was replaced, lost, reconciled or restarted:
\* completing an operation, reconciling and the drain's adoption all write the silence that is
\* the last of its scope, and no other one of it is live.
THEOREM LiveKept ==
  ASSUME SubmitsInTime
  PROVE  Spec => []LiveIsTracked
<1>1. Init => Tracked
  BY DEF Init, Tracked
<1>2. All /\ Tracked /\ [Next]_vars => Tracked'
  BY NextTracked
<1>3. ASSUME All, Tracked PROVE LiveIsTracked
  <2> SUFFICES ASSUME NEW o \in Owner, Settled(o), NEW s \in LiveOf(o)
               PROVE  refs[o].sid = s /\ refs[o].state = "live"
    BY DEF LiveIsTracked
  <2>1. s \in DOMAIN silences /\ silences[s].owner = o /\ silences[s].state = "live"
    BY DEF LiveOf, Owned
  <2>2. silences[s].op \in DOMAIN ops /\ Silenced(s).owner = o
    BY <1>3, <2>1, AllTypes
  <2>3. Terminal(Silenced(s))
    BY <2>2 DEF Settled, NonTerminalFor, OpSet, Silenced
  <2> QED BY <1>3, <2>1, <2>3 DEF Tracked, Shows
<1>4. All /\ Tracked => LiveIsTracked
  BY <1>3
<1> QED BY <1>1, <1>2, <1>4, AllAlways, PTL DEF Spec

-----------------------------------------------------------------------------
(* The end of the drain.                                                     *)

\* What Alertmanager shows as live while the drain checks its end is of an operation that
\* is not over; at the end there is no such operation.
Drained ==
  /\ drain = "verify" =>
       \A s \in DOMAIN silences : silences[s].state = "live" => ~Terminal(Silenced(s))
  /\ drain = "done" =>
       /\ \A i \in DOMAIN ops : Terminal(ops[i])
       /\ \A s \in DOMAIN silences : silences[s].state # "live"
       /\ outbox = "empty"

LEMMA NextDrained ==
  ASSUME All, Drained, [Next]_vars
  PROVE  Drained'
<1>0. /\ TypeInv /\ Registered
      /\ \A s \in DOMAIN silences : silences[s].owner \in Owner
  <2>1. \A s \in DOMAIN silences : silences[s] \in Silence
    BY AllTypes
  <2> QED BY <2>1, AllTypes DEF Silence
<1>1. CASE UNCHANGED vars
  BY <1>1 DEF vars, durable, world, Drained, Silenced
<1>2. CASE WorkerSteps
  <2>1. worker.pc # "idle" /\ Kind
    <3>1. Kind
      BY <1>0, <1>2, AllTypes, WorkerKind DEF Canonical, Adopting
    <3> QED BY <3>1 DEF Kind, Looks, Marks, Submits, ExpiresOne, GivesUp, GivesIn, Settles,
                 Going, Quits
  <2>2. drain \in {"off", "work"}
    BY <1>0, <2>1, OpFacts
  <2>3. drain' = drain \/ drain' \in {"off", "begin"}
    BY <2>1 DEF Kind, Looks, Marks, Submits, ExpiresOne, GivesUp, GivesIn, Settles, Going, Quits,
       AttemptEnds
  <2> QED BY <2>2, <2>3 DEF Drained
<1>3. CASE OtherSteps
  <2>1. CASE drain' \notin {"verify", "done"}
    BY <2>1 DEF Drained
  <2>2. CASE VerifyList /\ drain' = "verify"
    <3>1. silences' = silences /\ \A o \in Owner : LiveOf(o) = {}
      BY <2>2 DEF InRun, Deliver, DeliverFails, VerifyList, world
    <3>2. \A s \in DOMAIN silences : silences[s].state # "live"
      BY <1>0, <3>1 DEF LiveOf, Owned
    <3> QED BY <2>2, <3>1, <3>2 DEF Drained
  <2>3. CASE VerifyState /\ drain' = "done"
    <3>1. /\ drain = "verify" /\ silences' = silences /\ ops' = ops /\ outbox' = "empty"
          /\ \A op \in OpSet : Terminal(op)
      BY <2>3 DEF VerifyState, world
    <3>2. \A i \in DOMAIN ops : Terminal(ops[i])
      BY <3>1 DEF OpSet
    <3>3. \A s \in DOMAIN silences : silences[s].state # "live"
      BY <3>1, <3>2, AllTypes DEF Drained, Silenced
    <3> QED BY <2>3, <3>1, <3>2, <3>3 DEF Drained
  <2>4. CASE drain' = drain /\ drain \in {"verify", "done"}
    <3>1. ops' = ops /\ outbox' = outbox
      <4>1. \A c \in Caller : ~Register(c)
        BY <1>0, <2>4, RegisterFacts
      <4> QED BY <1>3, <2>4, <4>1
            DEF OtherSteps, Handler, AskCreate, AskExpire, Select, ReconcileList, RefreshOwned,
                DrainStep, Begin,
                InRun, Deliver, DeliverFails, VerifyList, VerifyState, DrainAborts, Restart, World,
                Apply,
                Discard, SilenceEnds, AuthChanges, DeadlinePasses, durable
    <3>2. /\ late' \subseteq late
          /\ Fades \/ \E x \in late : Renews(x)
      <4>1. ASSUME NEW x \in late, Apply(x)
            PROVE  late' \subseteq late /\ (Fades \/ \E y \in late : Renews(y))
        <5>1. late' \subseteq late /\ (silences' = silences \/ Renews(x))
          BY <1>0, <4>1, AppliedFacts DEF Apply
        <5> QED BY <1>0, <5>1, FadesSame DEF TypeInv
      <4>2. ASSUME (\E o \in DOMAIN ops : DeadlinePasses(o)) \/ (\E s \in DOMAIN silences : SilenceEnds(s))
            PROVE  late' = late
        BY <4>2 DEF DeadlinePasses, SilenceEnds
      <4>3. (\E o \in DOMAIN ops : DeadlinePasses(o)) => silences' = silences
        BY DEF DeadlinePasses
      <4> QED BY <1>0, <1>3, <4>1, <4>2, <4>3, OtherHistory, EndsFades, FadesSame DEF TypeInv
    <3>3. Lasting
      BY <3>1, <3>2, FadesLasting
    <3>4. CASE drain = "verify"
      BY <2>4, <3>3, <3>4 DEF Drained, Lasting
    <3>5. CASE drain = "done"
      <4>1. \A i \in DOMAIN ops' : Terminal(ops'[i])
        BY <3>1, <3>5 DEF Drained
      <4>2. \A x \in late : FALSE
        BY <3>5, AllTypes DEF Drained, All, History, Underways
      <4>3. Fades
        BY <3>2, <4>2
      <4>4. \A s \in DOMAIN silences' : silences'[s].state # "live"
        <5>1. DOMAIN silences' = DOMAIN silences
          BY <4>3, AllTypes DEF Fades
        <5> QED BY <3>5, <4>3, <5>1 DEF Fades, Drained
      <4> QED BY <2>4, <3>1, <3>5, <4>1, <4>4 DEF Drained
    <3> QED BY <2>4, <3>4, <3>5
  <2>5. \/ drain' \notin {"verify", "done"} \/ (VerifyList /\ drain' = "verify")
        \/ (VerifyState /\ drain' = "done") \/ (drain' = drain /\ drain \in {"verify", "done"})
    <3>1. ASSUME (\E c \in Caller : Handler(c)) \/ (\E o \in DOMAIN ops : Select(o)) \/ World
                 \/ ReconcileList \/ RefreshOwned
          PROVE  drain' = drain
      BY <3>1 DEF Handler, AskCreate, AskExpire, Register, Select, World, Apply, Discard,
         SilenceEnds, AuthChanges, DeadlinePasses, ReconcileList, RefreshOwned
    <3>2. Begin \/ Restart \/ Deliver \/ DeliverFails \/ DrainAborts
            => drain' \in {"work", "off", "begin", "aborted"}
      BY DEF Begin, Restart, Deliver, DeliverFails, DrainAborts
    <3>3. VerifyList => drain' \in {"begin", "verify"}
      BY DEF VerifyList
    <3>4. VerifyState => drain' \in {"begin", "failed", "done"}
      BY DEF VerifyState
    <3> QED BY <1>3, <3>1, <3>2, <3>3, <3>4 DEF OtherSteps, DrainStep
  <2> QED BY <2>1, <2>2, <2>3, <2>4, <2>5
<1> QED BY <1>1, <1>2, <1>3, NextSplit

\* When no deadline passes during a submission, the drain command that says it is complete leaves
\* nothing that suppresses alerts, and nothing that will: what could still be applied belongs to
\* an operation that is not over, and the drain waits for all of them.
THEOREM DrainIsFinal ==
  ASSUME SubmitsInTime
  PROVE  Spec => []DrainedForGood
<1>1. Init => Drained
  BY DEF Init, Drained
<1>2. All /\ Drained /\ [Next]_vars => Drained'
  BY NextDrained
<1>3. ASSUME All, Drained PROVE DrainedForGood
  <2>1. ASSUME drain = "done", NEW x \in late PROVE FALSE
    BY <1>3, <2>1, AllTypes DEF Drained, All, History, Underways
  <2> QED BY <1>3, <2>1 DEF DrainedForGood, Drained
<1>4. All /\ Drained => DrainedForGood
  BY <1>3
<1> QED BY <1>1, <1>2, <1>4, AllAlways, PTL DEF Spec

-----------------------------------------------------------------------------
(* What a replacement does to its source.                                    *)

\* How the worker goes on: where it was, where it is, and why.
Path ==
  \/ worker'.pc = "listed"
  \/ /\ worker.pc = "listed" /\ worker'.pc = "marked" /\ Op.phase = "prepared"
     /\ Op.action = "create" => mode = "active"
  \/ worker.pc = "marked" /\ worker'.pc = "posting" /\ Op.action = "create"
  \/ /\ worker.pc = "posting" /\ worker'.pc = "posted"
     /\ worker'.canon \in DOMAIN silences /\ silences[worker'.canon].op = worker.op
  \/ /\ worker.pc = "posted" /\ worker'.canon = worker.canon
     /\ worker'.pc = "expiring" /\ worker'.then = "readback"
  \/ /\ worker.pc = "readback" /\ worker'.canon = worker.canon
     /\ worker'.pc = "expiring" /\ worker'.then = "complete"
  \/ /\ worker.pc = "expiring" /\ worker.then = "readback" /\ worker'.canon = worker.canon
     /\ worker'.pc = "readback"
  \/ /\ worker.pc = "listed" /\ worker'.canon = worker.canon /\ worker.canon # 0
     /\ mode = "active" /\ auth
     /\ worker'.pc = "expiring" /\ worker'.then = "readback"
  \/ /\ worker'.pc = "expiring"
     /\ \/ worker'.then \in {"retry", "cancel"} /\ mode = "draining"
        \/ worker'.then = "unauthorized" /\ ~auth
        \/ worker'.then = "expired"

LEMMA WorkerPath ==
  ASSUME All, WorkerSteps, worker'.pc # "idle"
  PROVE  \/ silences' = silences /\ Path
         \/ /\ \E s \in DOMAIN silences : Kills(s)
            /\ worker.pc = "expiring" /\ worker'.pc = "expiring" /\ worker'.then = worker.then
            /\ worker'.canon = worker.canon
<1>0. TypeInv /\ Canonical
  BY AllTypes
<1>1. ~AttemptEnds /\ ~Retry /\ ~Fail /\ (\A p : ~EndsAs(p))
  BY IdleFacts DEF AttemptEnds, Retry, Fail, EndsAs
<1>2. /\ worker.live \in SUBSET DOMAIN silences
      /\ worker.live \ {worker.canon} \in SUBSET DOMAIN silences
      /\ {"retry", "cancel", "readback", "unauthorized", "expired"} \subseteq Ends
  BY <1>0 DEF TypeInv, Pointers, Ends
<1>3. ASSUME NEW todo \in SUBSET DOMAIN silences, NEW then \in Ends, Expiring(todo, then)
      PROVE  /\ worker'.pc = "expiring" /\ worker'.then = then /\ worker'.canon = worker.canon
  BY <1>0, <1>3, ExpiringFacts
<1>4. MarkSubmitted => worker'.pc = "marked"
  BY <1>0, StepFacts DEF MarkSubmitted, Steps
<1>5. CASE Draining
  <2>1. /\ silences' = silences /\ mode = "draining"
        /\ Expiring(worker.live, "retry") \/ Expiring(worker.live, "cancel")
    BY <1>1, <1>5 DEF Draining
  <2> QED BY <1>2, <1>3, <2>1 DEF Path
<1>6. CASE NotFound \/ Submission
  <2>1. /\ silences' = silences /\ worker.pc = "listed" /\ Op.phase = "prepared" /\ mode = "active"
        /\ MarkSubmitted
    BY <1>1, <1>6 DEF NotFound, Submission, MaySubmit, Missing, Listed
  <2> QED BY <1>4, <2>1 DEF Path
<1>7. CASE Adopt
  <2>1. /\ silences' = silences /\ worker.pc = "listed" /\ mode = "active" /\ worker.canon # 0
        /\ \/ auth /\ Expiring(worker.live \ {worker.canon}, "readback")
           \/ ~auth /\ Expiring(worker.live, "unauthorized")
    BY <1>7 DEF Adopt, Listed
  <2> QED BY <1>2, <1>3, <2>1 DEF Path
<1>8. CASE Expire
  <2>1. /\ silences' = silences /\ worker.pc = "listed" /\ Op.action = "expire"
        /\ \/ Op.phase = "prepared" /\ MarkSubmitted
           \/ Expiring(worker.live, "expired")
    BY <1>8 DEF Expire, Listed
  <2> QED BY <1>2, <1>3, <1>4, <2>1 DEF Path
<1>9. CASE Submit
  BY <1>0, <1>1, <1>9, StepFacts DEF Submit, Steps, Path
<1>10. CASE ExpireMarked
  BY <1>1, <1>2, <1>3, <1>10 DEF ExpireMarked, Path
<1>11. CASE Accepted
  <2>1. PICK canon \in Marked : worker' = [worker EXCEPT !.pc = "posted", !.canon = canon]
    BY <1>1, <1>11 DEF Accepted, Goes
  <2>2. worker'.pc = "posted" /\ worker'.canon = canon
    BY <1>0, <2>1, AcceptedFacts
  <2> QED BY <1>11, <2>2, LiveFacts DEF Accepted, Marked, Path
<1>12. CASE Posted
  BY <1>0, <1>12, PostedFacts DEF Posted, Path
<1>13. CASE Readback
  <2>1. worker.canon \in DOMAIN silences
    BY <1>0, <1>13 DEF Readback, TypeInv, Kinds, Pointers, Worker, Canonical, Adopting
  <2>2. /\ worker'.pc = "expiring" /\ worker'.then = "complete" /\ worker'.canon = worker.canon
    BY <1>0, <1>1, <1>13, <2>1, ReadbackFacts DEF Readback, Goes
  <2> QED BY <1>13, <2>2 DEF Readback, Path
<1>14. CASE DuplicatesExpired
  BY <1>0, <1>14, StepFacts DEF DuplicatesExpired, Expired, Goes, Rest, Steps, Path
<1>15. ASSUME NEW s \in DOMAIN silences, ExpireOne(s)
       PROVE  /\ Kills(s) /\ worker.pc = "expiring" /\ worker'.pc = "expiring"
              /\ worker'.then = worker.then /\ worker'.canon = worker.canon
  <2>1. /\ worker.pc = "expiring" /\ Kills(s)
        /\ worker' = [worker EXCEPT !.todo = worker.todo \ {s}]
    BY <1>1, <1>15 DEF ExpireOne, Goes, Kills
  <2> QED BY <1>0, <2>1, TodoFacts
<1>16. CASE List
  BY <1>0, <1>16, ListFacts DEF List, Path
<1> QED BY <1>1, <1>5, <1>6, <1>7, <1>8, <1>9, <1>10, <1>11, <1>12, <1>13, <1>14, <1>15, <1>16
        DEF WorkerSteps, Attempt, Decide, Rejected, WaitForMarker, Complete, CompleteExpire, Cancel,
            Unauthorized, ReadFails, StoreFails, NoLongerAllowed, Unanswered, ExpireFails

\* Nobody else ended a silence so far, and users lost the permission once at most.
Calm == used["external"] = 0 /\ used["auth"] <= 1

Settling == Busy({"posted", "readback"}) \/ Ending({"readback", "complete"})

\* What the worker is about agrees with the mode and the permission.
Moded ==
  /\ used["auth"] = 0 => auth
  /\ used["auth"] = 1 => ~auth
  /\ Busy({"posting"}) \/ (Busy({"marked"}) /\ Op.action = "create") \/ Settling
     => mode = "active"
  /\ Ending({"retry", "cancel"}) => mode = "draining"
  /\ Ending({"unauthorized"}) => used["auth"] # 0
  /\ ~Ending({"idle"})

\* Silences of an operation that goes on stay live, as long as it may succeed.
Standing ==
  /\ Calm /\ mode = "active" /\ auth =>
       \A s \in DOMAIN silences : ~Terminal(Silenced(s)) => silences[s].state = "live"
  /\ Calm /\ Busy({"marked", "posting"}) /\ Op.action = "create" =>
       \A s \in DOMAIN silences : silences[s].op = worker.op => silences[s].state = "live"
  /\ Calm /\ Settling => silences[worker.canon].state = "live"

LEMMA UsedFacts ==
  ASSUME TypeInv, Canonical, [Next]_vars
  PROVE  /\ used \in [Moves -> Nat] /\ used' \in [Moves -> Nat]
         /\ used["external"] <= used'["external"]
         /\ \/ used'["auth"] = used["auth"] /\ auth' = auth
            \/ used'["auth"] = used["auth"] + 1 /\ auth' = ~auth /\ AuthChanges
         /\ (\E s \in DOMAIN silences : SilenceEnds(s)) => used'["external"] # 0
<1>0. used \in [Moves -> Nat] /\ used["external"] \in Nat /\ used["auth"] \in Nat
      /\ "external" \in Moves /\ "auth" \in Moves
  BY DEF TypeInv, Kinds, Moves
<1>1. ASSUME UNCHANGED <<used, auth>>
      PROVE  /\ used' \in [Moves -> Nat] /\ used["external"] <= used'["external"]
             /\ used'["auth"] = used["auth"] /\ auth' = auth
  BY <1>0, <1>1
<1>2. ASSUME NEW m \in Moves, Spend(m)
      PROVE  /\ used' \in [Moves -> Nat] /\ used["external"] <= used'["external"]
             /\ used'["auth"] = IF m = "auth" THEN used["auth"] + 1 ELSE used["auth"]
             /\ m = "external" => used'["external"] # 0
  <2>1. /\ used' \in [Moves -> Nat]
        /\ \A x \in Moves : used'[x] = IF x = m THEN used[x] + 1 ELSE used[x]
    BY <1>2, SpendFacts DEF TypeInv
  <2> QED BY <1>0, <2>1
<1>3. ASSUME NEW s \in DOMAIN silences, SilenceEnds(s)
      PROVE  /\ used' \in [Moves -> Nat] /\ used["external"] <= used'["external"]
             /\ used'["auth"] = used["auth"] /\ auth' = auth /\ used'["external"] # 0
  BY <1>0, <1>2, <1>3 DEF SilenceEnds
<1>4. ASSUME WorkerSteps
      PROVE  /\ used' \in [Moves -> Nat] /\ used["external"] <= used'["external"]
             /\ used'["auth"] = used["auth"] /\ auth' = auth
  <2>1. Kind /\ auth' = auth
    <3>1. Kind
      BY <1>4, WorkerKind DEF Canonical, Adopting
    <3> QED BY <3>1 DEF Kind, Looks, Marks, Submits, ExpiresOne, GivesUp, GivesIn, Settles,
                 Going, Quits
  <2>2. CASE Looks \/ Marks \/ Submits \/ ExpiresOne \/ Settles
    BY <1>1, <2>1, <2>2 DEF Looks, Marks, Submits, ExpiresOne, Settles
  <2>3. CASE GivesUp
    BY <1>0, <2>1, <2>3 DEF GivesUp, Moves
  <2>4. CASE GivesIn
    BY <1>0, <2>1, <2>4 DEF GivesIn
  <2> QED BY <2>1, <2>2, <2>3, <2>4 DEF Kind
<1>5. ASSUME AuthChanges
      PROVE  /\ used' \in [Moves -> Nat] /\ used["external"] <= used'["external"]
             /\ used'["auth"] = used["auth"] + 1 /\ auth' = ~auth
  BY <1>0, <1>2, <1>5 DEF AuthChanges
<1>6. ASSUME Restart \/ DeliverFails \/ DrainAborts \/ \E x \in late : Discard(x)
      PROVE  /\ used' \in [Moves -> Nat] /\ used["external"] <= used'["external"]
             /\ used'["auth"] = used["auth"] /\ auth' = auth
  <2>1. auth' = auth /\ \E m \in {"crash", "drain", "fault"} : Spend(m)
    BY <1>6 DEF Restart, DeliverFails, DrainAborts, Discard, world
  <2>2. {"crash", "drain", "fault"} \subseteq Moves
    BY DEF Moves
  <2> QED BY <1>2, <2>1, <2>2
<1>7. ASSUME \/ \E c \in Caller : Handler(c)
             \/ \E o \in DOMAIN ops : Select(o) \/ DeadlinePasses(o)
             \/ ReconcileList \/ RefreshOwned \/ DrainStep
             \/ \E x \in late : Apply(x)
      PROVE  UNCHANGED <<used, auth>>
  BY <1>7 DEF Handler, AskCreate, AskExpire, Register, Select, DeadlinePasses, ReconcileList,
     RefreshOwned, DrainStep, Begin, Deliver, VerifyList, VerifyState, Apply, world
<1>8. UNCHANGED vars => UNCHANGED <<used, auth>>
  BY DEF vars, world
<1> QED BY <1>0, <1>1, <1>3, <1>4, <1>5, <1>6, <1>7, <1>8, NextSplit DEF OtherSteps, World

LEMMA NextModed ==
  ASSUME All, Moded, [Next]_vars
  PROVE  Moded'
<1>0. TypeInv /\ Canonical /\ Registered
  BY AllTypes
<1>1. /\ used["auth"] \in Nat
      /\ \/ used'["auth"] = used["auth"] /\ auth' = auth
         \/ used'["auth"] = used["auth"] + 1 /\ auth' = ~auth
  BY <1>0, UsedFacts DEF Moves
<1>2. /\ used'["auth"] = 0 => auth'
      /\ used'["auth"] = 1 => ~auth'
      /\ used["auth"] # 0 => used'["auth"] # 0
  <2>1. CASE used'["auth"] = used["auth"] /\ auth' = auth
    BY <2>1 DEF Moded
  <2>2. CASE used'["auth"] = used["auth"] + 1 /\ auth' = ~auth
    <3>1. used'["auth"] # 0 /\ (used'["auth"] = 1 => used["auth"] = 0)
      BY <1>1, <2>2
    <3> QED BY <2>2, <3>1 DEF Moded
  <2> QED BY <1>1, <2>1, <2>2
<1>3. CASE worker'.pc \in {"idle", "selected"}
  BY <1>2, <1>3 DEF Moded, Busy, Settling, Ending
<1>4. ASSUME worker' = worker, worker.pc # "idle", Op'.action = Op.action, mode' = mode PROVE Moded'
  BY <1>2, <1>4 DEF Moded, Busy, Settling, Ending
<1>5. CASE WorkerSteps /\ worker'.pc # "idle"
  <2>1. Kind
    BY <1>0, <1>5, WorkerKind DEF Canonical, Adopting
  <2>2. mode' = mode /\ auth' = auth /\ used'["auth"] = used["auth"]
    <3>1. (auth' <=> auth) /\ ~(auth' <=> ~auth) /\ auth' = auth
      BY <2>1 DEF Kind, Looks, Marks, Submits, ExpiresOne, GivesUp, GivesIn, Settles, Going, Quits
    <3>2. mode' = mode
      BY <2>1 DEF Kind, Looks, Marks, Submits, ExpiresOne, GivesUp, GivesIn,
         Settles, Going, Quits
    <3> QED BY <1>1, <3>1, <3>2
  <2>3. Op'.action = Op.action
    BY <1>5, <2>1, GoingFrame
  <2>4. CASE /\ worker.pc = "expiring" /\ worker'.pc = "expiring" /\ worker'.then = worker.then
    BY <1>2, <2>2, <2>3, <2>4 DEF Moded, Busy, Settling, Ending
  <2>5. CASE Path
    BY <1>2, <2>2, <2>3, <2>5 DEF Path, Moded, Busy, Settling, Ending
  <2> QED BY <1>5, <2>4, <2>5, WorkerPath
<1>6. CASE OtherSteps /\ worker' = worker /\ worker.pc # "idle"
  <2>1. worker.op \in DOMAIN ops /\ drain \in {"off", "work"}
    BY <1>0, <1>6, OpFacts
  <2>2. Op'.action = Op.action
    BY <1>0, <1>6, <2>1, OtherOps DEF OpsGrow, Op
  <2>3. mode' = mode
    BY <1>6, <2>1 DEF OtherSteps, Handler, AskCreate, AskExpire, Register, Select, ReconcileList,
       RefreshOwned, DrainStep, Begin,
       InRun, Deliver, DeliverFails, VerifyList, VerifyState, DrainAborts, Restart, World, Apply,
       Discard, SilenceEnds, AuthChanges, DeadlinePasses, durable
  <2> QED BY <1>4, <1>6, <2>2, <2>3
<1>7. CASE UNCHANGED vars
  BY <1>3, <1>4, <1>7 DEF vars, durable, Op
<1>8. \A o \in DOMAIN ops : Select(o) => worker'.pc = "selected"
  BY <1>0, IdleFacts DEF Select, Worker
<1> QED BY <1>0, <1>3, <1>5, <1>6, <1>7, <1>8, NextSplit, OtherWorker, IdleFacts

\* What a submission replaces is of an operation that is over.
LEMMA TargetOver ==
  ASSUME All, NEW x \in late, x.target \in DOMAIN silences
  PROVE  Terminal(Silenced(x.target))
<1> SUFFICES ASSUME ~Terminal(Silenced(x.target)) PROVE FALSE
  OBVIOUS
<1>1. /\ x.op \in DOMAIN ops /\ silences[x.target].op \in DOMAIN ops /\ ~Terminal(ops[x.op])
      /\ x.target # 0 /\ silences[x.target].owner = ops[x.op].owner
      /\ silences[x.target].owner = Silenced(x.target).owner
  <2>1. x.target # 0
    BY AllTypes
  <2> QED BY <2>1, AllTypes DEF All, History, Underways
<1>2. silences[x.target].op = x.op
  BY <1>1, OneAtATime, AllTypes DEF Silenced
<1>3. silences[x.target].op < x.op /\ x.op \in Nat
  BY <1>1, AllTypes DEF All, History, Underways
<1> QED BY <1>2, <1>3

\* The worker spares its own silence.
LEMMA KillsOther ==
  ASSUME All, NEW s \in DOMAIN silences, Kills(s), worker.then \in {"readback", "complete"}
  PROVE  s # worker.canon
<1>1. worker.pc = "expiring" /\ s \in worker.todo
  BY DEF Kills
<1>2. CASE worker.then = "readback"
  BY <1>1, <1>2 DEF All, Held, Owning
<1>3. CASE worker.then = "complete"
  <2>1. s \in worker.sources
    BY <1>1, <1>3 DEF All, Held, Owning
  <2>2. silences[s].owner # Op.owner
    BY <1>1, <2>1 DEF All, Held, Owning
  <2>3. worker.canon = s => silences[s].op = worker.op
    BY <1>1, <1>3, AllTypes DEF All, Held, Meant, Canonical, Adopting
  <2> QED BY <2>2, <2>3, AllTypes DEF Silenced, Op
<1> QED BY <1>2, <1>3

\* With the permission kept, serving, the worker expires only what other operations left.
LEMMA KillsOver ==
  ASSUME All, Moded, mode = "active", auth, used["auth"] <= 1,
         NEW s \in DOMAIN silences, Kills(s)
  PROVE  Terminal(Silenced(s))
<1> SUFFICES ASSUME ~Terminal(Silenced(s)) PROVE FALSE
  OBVIOUS
<1>1. /\ worker.pc = "expiring" /\ s \in worker.todo /\ silences[s].state = "live"
      /\ worker.then \in Ends /\ used["auth"] \in Nat
  BY AllTypes DEF Kills, Worker, TypeInv, Kinds, Moves
<1>2. /\ worker.op \in DOMAIN ops /\ ~Terminal(Op) /\ Op.owner \in Scope(Op)
      /\ Op.replaces # None => Op.replaces \in Scope(Op)
      /\ silences[s].op \in DOMAIN ops /\ silences[s].owner = Silenced(s).owner
      /\ silences[s].owner \in Scope(Silenced(s)) /\ silences[s].owner # None
  <2>1. worker.op \in DOMAIN ops /\ ~Terminal(Op)
    BY <1>1, OpFacts, AllTypes
  <2>2. silences[s].op \in DOMAIN ops /\ silences[s].owner = Silenced(s).owner
        /\ silences[s].owner \in Scope(Silenced(s))
    BY AllTypes DEF Silenced
  <2> QED BY <2>1, <2>2, AllTypes DEF Scope, Op
<1>3. silences[s].owner \in Scope(Op) => silences[s].op = worker.op
  BY <1>2, OneAtATime DEF Op, Silenced
<1>4. silences[s].owner = Op.owner \/ silences[s].owner = Op.replaces
  <2>1. worker.then = "complete" => s \in worker.sources
    BY <1>1 DEF All, Held, Owning
  <2>2. worker.then # "complete" => silences[s].owner = Op.owner
    BY <1>1 DEF All, Held, Owning
  <2>3. s \in worker.sources => silences[s].owner = Op.replaces
    BY <1>1 DEF All, Held, Owning
  <2> QED BY <2>1, <2>2, <2>3
<1>5. silences[s].op = worker.op
  BY <1>2, <1>3, <1>4
<1>6. Op.action = "create" /\ silences[s].owner = Op.owner
  BY <1>2, <1>5 DEF All, History, Sequel, Silenced, Op
<1>7. worker.then \in {"readback", "complete"}
  <2>1. worker.then \notin {"idle", "retry", "cancel"}
    BY <1>1 DEF Moded, Ending
  <2>2. worker.then # "unauthorized"
    <3> SUFFICES ASSUME worker.then = "unauthorized" PROVE FALSE
      OBVIOUS
    <3>1. used["auth"] # 0
      BY <1>1 DEF Moded, Ending
    <3>2. used["auth"] = 1
      BY <1>1, <3>1
    <3> QED BY <3>2 DEF Moded
  <2>3. worker.then # "expired"
    BY <1>1, <1>6 DEF All, Held, Meant
  <2> QED BY <1>1, <2>1, <2>2, <2>3 DEF Ends
<1>8. worker.canon \in DOMAIN silences /\ silences[worker.canon].op = worker.op
  BY <1>1, <1>7, AllTypes DEF All, Held, Meant, Canonical, Adopting, TypeInv, Kinds, Pointers,
     Worker
<1>9. s = worker.canon
  BY <1>1, <1>2, <1>6, <1>8, OnlyLive DEF Op
<1> QED BY <1>7, <1>9, KillsOther

\* What becomes of the silences in a step, as long as nobody else ends one.
LEMMA Changes ==
  ASSUME All, [Next]_vars, used'["external"] = 0
  PROVE  \/ silences' = silences
         \/ WorkerSteps /\ \E s \in DOMAIN silences : Kills(s)
         \/ worker' = worker /\ ops' = ops /\ \E x \in late : Renews(x)
<1>0. TypeInv /\ Canonical /\ Registered
  BY AllTypes
<1>1. CASE UNCHANGED vars
  BY <1>1 DEF vars, world
<1>2. CASE WorkerSteps
  <2>1. Kind
    BY <1>0, <1>2, WorkerKind DEF Canonical, Adopting
  <2> QED BY <1>2, <2>1
        DEF Kind, Looks, Marks, Submits, ExpiresOne, GivesUp, GivesIn, Settles, Going
<1>3. CASE OtherSteps
  <2>1. ASSUME NEW x \in late, Apply(x)
        PROVE  worker' = worker /\ ops' = ops /\ (silences' = silences \/ Renews(x))
    BY <1>0, <2>1, AppliedFacts DEF Apply, durable
  <2>2. (\E o \in DOMAIN ops : DeadlinePasses(o)) => silences' = silences
    BY DEF DeadlinePasses
  <2>3. ~\E s \in DOMAIN silences : SilenceEnds(s)
    BY <1>0, UsedFacts
  <2> QED BY <1>3, <2>1, <2>2, <2>3, OtherHistory
<1> QED BY <1>1, <1>2, <1>3, NextSplit

LEMMA OverStays ==
  ASSUME All, [Next]_vars, NEW i \in DOMAIN ops, ~Terminal(ops'[i])
  PROVE  ~Terminal(ops[i])
<1>0. TypeInv /\ Canonical /\ Registered
  BY AllTypes
<1>1. CASE WorkerSteps
  <2>1. OpsKept
    BY <1>0, <1>1, WorkerKind, KindKept DEF Canonical, Adopting
  <2> QED BY <2>1 DEF OpsKept, Terminal
<1>2. CASE OtherSteps
  BY <1>0, <1>2, OtherOps DEF OpsGrow
<1> QED BY <1>1, <1>2, NextSplit DEF vars, durable

LEMMA NextStanding ==
  ASSUME All, Moded, Standing, [Next]_vars
  PROVE  Standing'
<1>0. TypeInv /\ Canonical /\ Registered
  BY AllTypes
<1> SUFFICES ASSUME Calm' PROVE Standing'
  BY DEF Standing
<1>1. /\ Calm /\ used["auth"] <= 1 /\ used'["external"] = 0
      /\ auth' => auth
  <2>1. /\ used["external"] \in Nat /\ used["auth"] \in Nat /\ used["external"] <= used'["external"]
        /\ \/ used'["auth"] = used["auth"] /\ auth' = auth
           \/ used'["auth"] = used["auth"] + 1 /\ auth' = ~auth
    BY <1>0, UsedFacts DEF Moves
  <2>2. used'["external"] = 0 /\ used'["auth"] <= 1
    BY DEF Calm
  <2>3. used["external"] = 0 /\ used["auth"] <= 1
    BY <2>1, <2>2
  <2>4. CASE used'["auth"] = used["auth"] /\ auth' = auth
    BY <2>2, <2>3, <2>4 DEF Calm
  <2>5. CASE used'["auth"] = used["auth"] + 1 /\ auth' = ~auth
    <3>1. used["auth"] = 0
      BY <2>1, <2>2, <2>5
    <3> QED BY <2>2, <2>3, <2>5, <3>1 DEF Moded, Calm
  <2> QED BY <2>1, <2>4, <2>5
<1>2. \/ silences' = silences
      \/ WorkerSteps /\ \E s \in DOMAIN silences : Kills(s)
      \/ worker' = worker /\ ops' = ops /\ \E x \in late : Renews(x)
  BY <1>1, Changes
<1>3. mode' = "active" => mode = "active"
  <2>1. CASE WorkerSteps
    <3>1. Kind
      BY <1>0, <2>1, WorkerKind DEF Canonical, Adopting
    <3> QED BY <3>1 DEF Kind, Looks, Marks, Submits, ExpiresOne, GivesUp, GivesIn,
                 Settles, Going, Quits
  <2>2. CASE OtherSteps
    BY <2>2 DEF OtherSteps, Handler, AskCreate, AskExpire, Register, Select, ReconcileList,
       RefreshOwned, DrainStep, Begin,
       InRun, Deliver, DeliverFails, VerifyList, VerifyState, DrainAborts, Restart, World, Apply,
       Discard, SilenceEnds, AuthChanges, DeadlinePasses, durable
  <2> QED BY <2>1, <2>2, NextSplit DEF vars, durable
\* A silence that is live stays so, unless it is replaced or expired, of an operation that is over.
<1>4. ASSUME NEW x \in late, Renews(x), NEW s \in DOMAIN silences, silences[s].state = "live",
             ~Terminal(Silenced(s))
      PROVE  silences'[s].state = "live"
  BY <1>4, TargetOver DEF Renews
<1>5. ASSUME NEW x \in late, Renews(x), NEW s \in DOMAIN silences', s \notin DOMAIN silences
      PROVE  silences'[s].state = "live"
  BY <1>0, <1>5, LiveRenews DEF Renews
<1>6. ASSUME NEW x \in late, Renews(x), NEW s \in DOMAIN silences
      PROVE  s \in DOMAIN silences' /\ silences'[s].op = silences[s].op
  BY <1>0, <1>6, LiveRenews DEF Renews
<1>7. ASSUME mode' = "active", auth', NEW s \in DOMAIN silences', ~Terminal(Silenced(s)')
      PROVE  silences'[s].state = "live"
  <2>1. ASSUME s \in DOMAIN silences, silences'[s].op = silences[s].op
        PROVE  ~Terminal(Silenced(s)) /\ silences[s].state = "live"
    <3>1. ~Terminal(Silenced(s))
      BY <1>7, <2>1, AllTypes, OverStays DEF Silenced
    <3> QED BY <1>1, <1>3, <1>7, <2>1, <3>1 DEF Standing
  <2>2. CASE silences' = silences
    BY <1>7, <2>1, <2>2
  <2>3. CASE \E r \in DOMAIN silences : Kills(r)
    <3>1. PICK r \in DOMAIN silences : Kills(r)
      BY <2>3
    <3>2. Terminal(Silenced(r))
      BY <1>1, <1>3, <1>7, <3>1, KillsOver
    <3>3. /\ Fades /\ DOMAIN silences' = DOMAIN silences
          /\ \A q \in DOMAIN silences : q # r => silences'[q] = silences[q]
      BY <1>0, <3>1, AllTypes, KillFacts DEF Fades
    <3>4. s \in DOMAIN silences /\ silences'[s].op = silences[s].op
      BY <1>7, <3>3 DEF Fades
    <3> QED BY <2>1, <3>2, <3>3, <3>4
  <2>4. CASE \E x \in late : Renews(x)
    <3>1. PICK x \in late : Renews(x)
      BY <2>4
    <3>2. s \in DOMAIN silences => silences'[s].op = silences[s].op
      BY <1>6, <3>1
    <3> QED BY <1>4, <1>5, <1>7, <2>1, <3>1, <3>2
  <2> QED BY <1>2, <2>2, <2>3, <2>4
<1>8. ASSUME Busy({"marked", "posting"})', Op'.action = "create",
             NEW s \in DOMAIN silences', silences'[s].op = worker'.op
      PROVE  silences'[s].state = "live"
  <2>0. worker'.pc \in {"marked", "posting"}
    BY <1>8 DEF Busy
  <2>1. CASE WorkerSteps
    <3>1. /\ worker'.op = worker.op /\ Op'.action = Op.action /\ worker.op \in DOMAIN ops
      BY <1>0, <2>0, <2>1, WorkerKind, GoingFrame DEF Canonical, Adopting
    <3>2. silences' = silences /\ Path
      BY <2>0, <2>1, WorkerPath
    <3>3. CASE worker.pc = "listed" /\ Op.phase = "prepared"
      <4>1. Op.posts = 0
        BY <3>1, <3>3 DEF All, Once, Op
      <4>2. Silenced(s).posts = 1
        BY <1>8, <3>2 DEF All, History, Sequel
      <4> QED BY <1>8, <3>1, <3>2, <4>1, <4>2 DEF Silenced, Op
    <3>4. CASE worker.pc = "marked"
      BY <1>1, <1>8, <3>1, <3>2, <3>4 DEF Standing, Busy
    <3> QED BY <2>0, <3>2, <3>3, <3>4 DEF Path
  <2>2. CASE worker' = worker
    <3>1. worker.op \in DOMAIN ops /\ ~Terminal(Op) /\ worker.pc \in {"marked", "posting"}
      BY <1>0, <2>0, <2>2, OpFacts
    <3>2. Op'.action = Op.action
      BY <1>0, <2>2, <3>1, OtherOps, NextSplit, KindKept, WorkerKind
         DEF OpsGrow, Op, OpsKept, Like, Canonical, Adopting, vars, durable
    <3>3. \A r \in DOMAIN silences : silences[r].op = worker.op => silences[r].state = "live"
      BY <1>1, <1>8, <3>1, <3>2 DEF Standing, Busy
    <3>4. \A r \in DOMAIN silences : ~Kills(r)
      BY <3>1 DEF Kills
    <3>5. CASE silences' = silences
      BY <1>8, <2>2, <3>3, <3>5
    <3>6. CASE \E x \in late : Renews(x)
      <4>1. PICK x \in late : Renews(x)
        BY <3>6
      <4>2. s \in DOMAIN silences => silences[s].op = worker.op /\ ~Terminal(Silenced(s))
        BY <1>6, <1>8, <2>2, <3>1, <4>1 DEF Silenced, Op
      <4> QED BY <1>4, <1>5, <3>3, <4>1, <4>2
    <3> QED BY <1>2, <3>4, <3>5, <3>6
  <2>3. CASE worker' = Idle \/ \E o \in DOMAIN ops : Select(o)
    <3>1. worker'.pc \in {"idle", "selected"}
      BY <1>0, <2>3, IdleFacts DEF Select, Worker
    <3> QED BY <2>0, <3>1
  <2> QED BY <1>0, <2>1, <2>2, <2>3, NextSplit, OtherWorker DEF vars
<1>9. ASSUME Settling'
      PROVE  silences'[worker'.canon].state = "live"
  <2>0. \/ worker'.pc \in {"posted", "readback"}
        \/ worker'.pc = "expiring" /\ worker'.then \in {"readback", "complete"}
    BY <1>9 DEF Settling, Busy, Ending
  <2>1. CASE WorkerSteps
    <3>1. worker.op \in DOMAIN ops /\ ~Terminal(Op)
      BY <1>0, <2>0, <2>1, WorkerKind, GoingFrame DEF Canonical, Adopting
    <3>2. CASE silences' = silences /\ Path
      <4>1. CASE worker.pc = "posting"
        <5>1. /\ worker'.canon \in DOMAIN silences /\ silences[worker'.canon].op = worker.op
              /\ Op.action = "create"
          BY <2>0, <3>2, <4>1 DEF Path, All, Held, Meant, Busy
        <5> QED BY <1>1, <3>2, <4>1, <5>1 DEF Standing, Busy
      <4>2. CASE worker.pc = "listed"
        <5>1. /\ worker'.canon = worker.canon /\ worker.canon # 0 /\ mode = "active" /\ auth
          BY <2>0, <3>2, <4>2 DEF Path
        <5>2. worker.canon \in DOMAIN silences /\ silences[worker.canon].op = worker.op
          BY <1>0, <4>2, <5>1 DEF All, Held, Meant, TypeInv, Kinds, Pointers, Worker
        <5>3. ~Terminal(Silenced(worker.canon))
          BY <3>1, <5>2 DEF Silenced, Op
        <5> QED BY <1>1, <3>2, <5>1, <5>2, <5>3 DEF Standing
      <4>3. CASE worker.pc \notin {"posting", "listed"}
        <5>1. worker'.canon = worker.canon /\ Settling
          BY <2>0, <3>2, <4>3 DEF Path, Settling, Busy, Ending
        <5> QED BY <1>1, <3>2, <5>1 DEF Standing
      <4> QED BY <4>1, <4>2, <4>3
    <3>3. CASE /\ \E r \in DOMAIN silences : Kills(r)
               /\ worker.pc = "expiring" /\ worker'.pc = "expiring" /\ worker'.then = worker.then
               /\ worker'.canon = worker.canon
      <4>1. PICK r \in DOMAIN silences : Kills(r)
        BY <3>3
      <4>2. worker.canon # r /\ Settling
        BY <2>0, <3>3, <4>1, KillsOther DEF Settling, Ending
      <4>3. worker.canon \in DOMAIN silences
        BY <1>0, <2>0, <3>3 DEF Canonical, Adopting, TypeInv, Kinds, Pointers, Worker
      <4>4. silences'[worker.canon] = silences[worker.canon]
        BY <1>0, <4>1, <4>2, <4>3, KillFacts
      <4> QED BY <1>1, <3>3, <4>2, <4>4 DEF Standing
    <3> QED BY <2>0, <2>1, <3>2, <3>3, WorkerPath
  <2>2. CASE worker' = worker
    <3>1. /\ worker.op \in DOMAIN ops /\ ~Terminal(Op) /\ Settling /\ worker.pc # "idle"
          /\ worker.canon # 0
      BY <1>0, <2>0, <2>2, OpFacts DEF Settling, Busy, Ending, Canonical, Adopting
    <3>2. worker.canon \in DOMAIN silences /\ silences[worker.canon].op = worker.op
      BY <1>0, <3>1 DEF All, Held, Meant, TypeInv, Kinds, Pointers, Worker
    <3>3. silences[worker.canon].state = "live" /\ ~Terminal(Silenced(worker.canon))
      BY <1>1, <3>1, <3>2 DEF Standing, Silenced, Op
    <3>4. CASE WorkerSteps
      BY <2>1, <3>4
    <3>5. CASE ~WorkerSteps
      BY <1>2, <1>4, <2>2, <3>2, <3>3, <3>5
    <3> QED BY <3>4, <3>5
  <2>3. CASE worker' = Idle \/ \E o \in DOMAIN ops : Select(o)
    <3>1. worker'.pc \in {"idle", "selected"}
      BY <1>0, <2>3, IdleFacts DEF Select, Worker
    <3> QED BY <2>0, <3>1
  <2> QED BY <1>0, <2>1, <2>2, <2>3, NextSplit, OtherWorker DEF vars
<1> QED BY <1>7, <1>8, <1>9 DEF Standing

\* When no deadline passes during a submission, a replacement expires a silence of its source only
\* while its own silence is live: nothing but its own recovery ends that silence, and a recovery
\* expires it only in a drain, or for a user who has not the permission.
THEOREM SourceKept ==
  ASSUME SubmitsInTime
  PROVE  Spec => ReplacedOnlyWhenEstablished
<1> DEFINE Kept == \A s \in DOMAIN silences :
                     /\ silences[s].state = "live" /\ silences'[s].state = "expired"
                     /\ worker.pc = "expiring" /\ worker.then = "complete"
                     /\ used["external"] = 0 /\ used["auth"] <= 1
                     => LiveOf(Op.owner) # {}
<1>1. Init => Moded /\ Standing
  <2> SUFFICES ASSUME Init PROVE Moded /\ Standing
    OBVIOUS
  <2>1. worker.pc = "idle" /\ silences = <<>> /\ auth /\ used["auth"] = 0
    BY IdleFacts DEF Init, Moves
  <2> QED BY <2>1 DEF Moded, Standing, Busy, Settling, Ending
<1>2. All /\ Moded /\ Standing /\ [Next]_vars => (Moded /\ Standing)'
  BY NextModed, NextStanding
<1>3. ASSUME All, Standing PROVE Kept
  <2> SUFFICES ASSUME worker.pc = "expiring", worker.then = "complete",
                      used["external"] = 0, used["auth"] <= 1
               PROVE  LiveOf(Op.owner) # {}
    OBVIOUS
  <2>1. worker.canon \in DOMAIN silences /\ silences[worker.canon].op = worker.op
    BY <1>3, AllTypes DEF All, Held, Meant, Canonical, Adopting, TypeInv, Kinds, Pointers, Worker
  <2>2. silences[worker.canon].state = "live"
    BY <1>3 DEF Standing, Calm, Settling, Ending
  <2>3. silences[worker.canon].owner = Op.owner
    BY <1>3, <2>1, AllTypes DEF Silenced, Op
  <2> QED BY <2>1, <2>2, <2>3 DEF LiveOf, Owned
<1>4. All /\ Moded /\ Standing => [Kept]_vars
  BY <1>3
<1>5. Spec => [][Kept]_vars
  BY <1>1, <1>2, <1>4, AllAlways, PTL DEF Spec
<1> QED BY <1>5 DEF ReplacedOnlyWhenEstablished
===============================================================================
