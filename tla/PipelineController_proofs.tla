----------------------- MODULE PipelineController_proofs -----------------------
(* Theorems about PipelineController, for any commits, branches, presubmits,  *)
(* scenarios and timeout: its records are well formed and fit together, and a *)
(* gate that says that the second stage was dispatched says the truth.        *)
EXTENDS PipelineController, WellFoundedInduction, TLAPS

Person == {"user", "chai", "stranger"}

Title == {"", "agentic", "traditional", "rerun"}

Summary == {"", "waiting", "dispatching", "dispatched", "failed", "override", "handoff", "retired"}

\* A comment as the worker gets it.
Comment == [id : Nat, by : Person \cup {""}, cmd : Command \cup {""}, head : Commit \cup {0},
            at : Nat]

Event == [kind : {"push", "lgtm"}, rev : Revision, labels : SUBSET Label]
           \cup [kind : {"comment"}, rev : Revision, labels : SUBSET Label, by : Person,
                 cmd : Command, head : Commit \cup {0}, id : Nat, at : Nat]

\* What a thread is about to dispatch.
Task == [busy : BOOLEAN, head : Commit \cup {0}, base : Base \cup {""},
         mode : {"", "delta", "force"}, explicit : BOOLEAN, guard : BOOLEAN]

AgenticState ==
  [known : BOOLEAN, head : Commit \cup {0}, base : Base \cup {""},
   title : Title, ready : BOOLEAN, fresh : BOOLEAN,
   timedOut : BOOLEAN, optOut : BOOLEAN, traditional : BOOLEAN, dispatched : BOOLEAN,
   last : Nat, waiting : Nat, published : Nat, answered : BOOLEAN]

Attending ==
  [pc : {"idle", "prepare", "command", "act", "timer", "dispatch", "send"},
   head : Commit \cup {0}, base : Base \cup {""}, labels : SUBSET Label, comment : Comment]

\* What GitHub, Prow and the caches hold.
Setting ==
  /\ scenario \in Scenarios /\ GitHub
  /\ listed \in [Revision -> SUBSET SecondStage] /\ first \in [Revision -> BOOLEAN]
  /\ events \subseteq Event /\ pjEvents \subseteq Revision
  /\ cwIds \subseteq Revision /\ rIds \subseteq Revision
  /\ closed \in {"unknown", "open", "closed"}
  /\ now \in Nat \ {0} /\ used \in [Moves -> Nat]

Histories == completed \subseteq Revision /\ traditionally \subseteq Revision

\* Whoever is about to dispatch knows what; the revision is guarded meanwhile.
Tasked ==
  /\ \A t \in {handler, reconciler} :
       t \in Task /\ (t = Nothing \/ (t.busy /\ t.head \in Commit /\ t.base \in Base))
  /\ handler.guard => Rev(handler.head, handler.base) \in cwIds
  /\ reconciler.busy => /\ Rev(reconciler.head, reconciler.base) \in rIds \cap pjEvents
                        /\ ~Enrolled(reconciler.base)

\* What the worker remembers of a revision, as long as Chai owns it.
Remembers(t, gs) ==
  /\ t.known => t.head \in Commit /\ t.base \in Base
  /\ ~TraditionalMode(t) =>
       /\ t.waiting # 0 => t.ready /\ ~t.dispatched /\ t.published # 0
       /\ t.dispatched => t.ready
       /\ t.ready => t.known /\ gs[t.head].id # 0

\* What it holds, in the light of what it remembers and of the comments that wait.
Attends(w, t, box) ==
  /\ w.pc # "idle" =>
       /\ w.head \in Commit /\ w.base \in Base /\ Enrolled(w.base)
       /\ w.comment.id # 0 => box # <<>> /\ w.comment = Head(box)
  /\ w.pc \notin {"idle", "prepare"} => t.known /\ t.head = w.head /\ t.base = w.base
  /\ w.pc = "timer" => ~TraditionalMode(t)
  /\ w.pc \in {"dispatch", "send"} => TraditionalMode(t)

\* Nobody has seen a commit that is still to be pushed.
Pushed ==
  /\ \A e \in events : e.rev.head <= pr.head
  /\ \A r \in pjEvents : r.head <= pr.head
  /\ \A r \in Revision : requested[r] # {} \/ first[r] => r.head <= pr.head
  /\ handler.head <= pr.head /\ reconciler.head <= pr.head /\ worker.head <= pr.head

SaysDispatched(g) == Succeeded(g) /\ g.summary = "dispatched"

\* Everything the pull request needs is among what was asked for at the commit.
Asked(reqs, h) == Applicable(scenario.changed) \subseteq UNION {reqs[Rev(h, b)] : b \in Base}

\* The gates from the head of the pull request on say the truth.
Truthful ==
  \A h \in Commit : h >= pr.head /\ SaysDispatched(gates[h]) => h = pr.head /\ Asked(requested, h)

\* What is listed was asked for.
ListedAsked == \A r \in Revision : listed[r] \subseteq requested[r]

\* The worker of the agentic handoff.
Mind ==
  /\ s \in AgenticState /\ worker \in Attending /\ inbox \in Seq(Comment)
  /\ Remembers(s, gates) /\ Attends(worker, s, inbox)

Sound ==
  Setting /\ Histories /\ Tasked /\ Pushed /\ ListedAsked /\ Truthful /\ Mind
-----------------------------------------------------------------------------
(* The gate, whatever is written.                                            *)

LEMMA CheckFacts ==
  ASSUME NEW base \in Base
  PROVE  /\ Check(base, "in_progress", "", "dispatching") \in Gate(Base)
         /\ Check(base, "in_progress", "", "dispatching").summary # "dispatched"
         /\ Check(base, "completed", "success", "dispatched") \in Gate(Base)
         /\ Check(base, "completed", "failure", "failed") \in Gate(Base)
         /\ Check(base, "completed", "failure", "failed").summary # "dispatched"
         /\ Check(base, "completed", "success", "override") \in Gate(Base)
         /\ Check(base, "completed", "success", "override").summary # "dispatched"
         /\ Waiting(base) \in Gate(Base) /\ Waiting(base).summary # "dispatched"
         /\ Check(base, "queued", "", "handoff") \in Gate(Base)
         /\ Check(base, "queued", "", "handoff").summary # "dispatched"
         /\ Check(base, "queued", "", "handoff").status = "queued"
<1> DEFINE text == {"waiting", "dispatching", "dispatched", "failed", "override", "handoff"}
<1>1. ASSUME NEW t \in text
      PROVE  /\ Check(base, "in_progress", "", t) \in Gate(Base)
             /\ Check(base, "in_progress", "", t).summary = t
  BY DEF Check, NoGate, Gate
<1>2. ASSUME NEW t \in text
      PROVE  /\ Check(base, "completed", "success", t) \in Gate(Base)
             /\ Check(base, "completed", "success", t).summary = t
             /\ Check(base, "completed", "failure", t) \in Gate(Base)
             /\ Check(base, "completed", "failure", t).summary = t
  BY DEF Check, NoGate, Gate
<1>3. ASSUME NEW t \in text
      PROVE  /\ Check(base, "queued", "", t) \in Gate(Base)
             /\ Check(base, "queued", "", t).summary = t
             /\ Check(base, "queued", "", t).status = "queued"
  BY DEF Check, NoGate, Gate
<1> QED BY <1>1, <1>2, <1>3 DEF Waiting

LEMMA RetiredFacts ==
  ASSUME NEW g \in Gate(Base), NEW title \in Title,
         NEW summary \in Summary
  PROVE  /\ Retired(g, title, summary) \in Gate(Base)
         /\ Retired(g, title, summary).id = g.id
         /\ ~Succeeded(Retired(g, title, summary))
<1> DEFINE r == Retired(g, title, summary)
           u == [g EXCEPT !.status = "completed", !.conclusion = "failure"]
<1>1. u \in Gate(Base)
  BY DEF Gate
<1>2. u.id = g.id /\ u.status = "completed" /\ u.conclusion = "failure"
  BY DEF Gate
<1>3. r = [u EXCEPT !.title = title, !.summary = summary]
  BY DEF Retired
<1> HIDE DEF u, r
<1>4. PICK status, conclusion, base :
        Gate(Base) = [id : Nat, status : status, conclusion : conclusion, title : Title,
                      base : base, summary : Summary]
  BY DEF Gate, Title, Summary
<1> DEFINE all == [id : Nat, status : status, conclusion : conclusion, title : Title,
                   base : base, summary : Summary]
<1>5. u \in all
  BY <1>1, <1>4
<1>6. r \in all
  BY <1>3, <1>5
<1>7. r.id = u.id /\ r.status = u.status /\ r.conclusion = u.conclusion
  BY <1>3, <1>5
<1>8. ~Succeeded(r)
  BY <1>2, <1>7 DEF Succeeded
<1> QED BY <1>2, <1>4, <1>6, <1>7, <1>8 DEF r

LEMMA CreatedFacts ==
  ASSUME NEW g \in Gate(Base), NEW next \in Gate(Base)
  PROVE  LET c == Created(g, next) IN
         /\ c \in Gate(Base) /\ c.id # 0
         /\ Succeeded(c) <=> Succeeded(next)
         /\ c.summary = next.summary
<1>0. g.id \in Nat
  BY DEF Gate
<1>1. g.id + 1 \in Nat /\ g.id + 1 # 0
  BY <1>0
<1>2. PICK top \in Nat : top = g.id + 1 /\ top # 0
  BY <1>1
<1>3. Created(g, next) = [next EXCEPT !.id = top]
  BY <1>2 DEF Created
<1>4. LET c == [next EXCEPT !.id = top] IN
      /\ c \in Gate(Base) /\ c.id = top /\ c.status = next.status
      /\ c.conclusion = next.conclusion /\ c.summary = next.summary
  BY DEF Gate
<1> QED BY <1>2, <1>3, <1>4 DEF Succeeded

LEMMA PatchedFacts ==
  ASSUME NEW g \in Gate(Base), NEW next \in Gate(Base)
  PROVE  LET c == Patched(g, next) IN
         /\ c \in Gate(Base) /\ c.id = g.id /\ c.summary = next.summary
BY DEF Patched, Gate

LEMMA TitledFacts ==
  ASSUME NEW g \in Gate(Base), NEW next \in Gate(Base)
  PROVE  LET c == Titled(g, next) IN
         /\ c \in Gate(Base) /\ c.summary = next.summary /\ c.status = next.status
         /\ c.conclusion = next.conclusion /\ c.base = next.base
<1>1. LET c == [next EXCEPT !.title = "rerun"] IN
      /\ c \in Gate(Base) /\ c.summary = next.summary /\ c.status = next.status
      /\ c.conclusion = next.conclusion /\ c.base = next.base
  BY DEF Gate
<1>2. Titled(g, next) = [next EXCEPT !.title = "rerun"] \/ Titled(g, next) = next
  BY DEF Titled
<1> QED BY <1>1, <1>2

\* What GitHub may hold while a check is written, and when it is: a gate that was there
\* stays, and none says that the second stage was dispatched unless it did or that is
\* written.
LEMMA VersionsFacts ==
  ASSUME NEW g \in Gate(Base), NEW next \in Gate(Base), NEW reopen \in BOOLEAN
  PROVE  /\ Written(g, next, reopen) \in Interrupted(g, next, reopen)
         /\ Written(g, next, reopen).id # 0
         /\ \A v \in Interrupted(g, next, reopen) :
              /\ v \in Gate(Base)
              /\ g.id # 0 => v.id # 0
              /\ SaysDispatched(v) => SaysDispatched(g) \/ next.summary = "dispatched"
<1> DEFINE new == Titled(g, next)
           old == IF reopen /\ new.status # "completed" THEN Retired(g, new.title, new.summary)
                  ELSE g
<1>1. new \in Gate(Base) /\ new.summary = next.summary
  BY TitledFacts
<1>2. new.title \in Title
      /\ new.summary \in Summary
  BY <1>1 DEF Gate, Title, Summary
<1>3. old \in Gate(Base) /\ old.id = g.id /\ (SaysDispatched(old) => SaysDispatched(g))
  <2>1. PICK title \in Title : title = new.title
    BY <1>2
  <2>2. PICK summary \in Summary : summary = new.summary
    BY <1>2
  <2>3. /\ Retired(g, title, summary) \in Gate(Base)
        /\ Retired(g, title, summary).id = g.id
        /\ ~Succeeded(Retired(g, title, summary))
    BY RetiredFacts
  <2>4. old = Retired(g, title, summary) \/ old = g
    BY <2>1, <2>2
  <2> QED BY <2>3, <2>4 DEF SaysDispatched
<1>4. Versions(g, next, reopen)
        = IF g.id = 0 THEN <<Created(g, new), g>> ELSE <<Patched(old, new), old, g>>
  BY DEF Versions
<1> HIDE DEF new, old
<1>5. /\ Created(g, new) \in Gate(Base) /\ Created(g, new).id # 0
      /\ SaysDispatched(Created(g, new)) => new.summary = "dispatched"
  BY <1>1, CreatedFacts DEF SaysDispatched
<1>6. /\ Patched(old, new) \in Gate(Base) /\ Patched(old, new).id = old.id
      /\ SaysDispatched(Patched(old, new)) => new.summary = "dispatched"
  BY <1>1, <1>3, PatchedFacts DEF SaysDispatched
<1>7. CASE g.id = 0
  <2>1. Versions(g, next, reopen) = <<Created(g, new), g>>
    BY <1>4, <1>7
  <2>2. /\ Written(g, next, reopen) = Created(g, new)
        /\ Interrupted(g, next, reopen) = {Created(g, new), g}
    BY <2>1 DEF Written, Interrupted
  <2> QED BY <1>1, <1>5, <1>7, <2>2
<1>8. CASE g.id # 0
  <2>1. Versions(g, next, reopen) = <<Patched(old, new), old, g>>
    BY <1>4, <1>8
  <2>2. /\ Written(g, next, reopen) = Patched(old, new)
        /\ Interrupted(g, next, reopen) = {Patched(old, new), old, g}
    BY <2>1 DEF Written, Interrupted
  <2> QED BY <1>1, <1>3, <1>6, <1>8, <2>2
<1> QED BY <1>7, <1>8

-----------------------------------------------------------------------------
(* What a thread may do to GitHub.                                           *)

\* A gate that is there stays; one of the commit h is said to be dispatched only if it is.
GateStep(h) ==
  /\ gates' \in [Commit -> Gate(Base)]
  /\ \A k \in Commit : gates[k].id # 0 => gates'[k].id # 0
  /\ \A k \in Commit : SaysDispatched(gates'[k]) =>
       \/ SaysDispatched(gates[k])
       \/ k = h /\ (h = pr.head => Asked(requested', h))

\* Jobs are asked for at the head of the pull request only, and stay.
RequestStep ==
  /\ contexts' \in [Commit -> SUBSET SecondStage]
  /\ requested' \in [Revision -> SUBSET SecondStage]
  /\ \A r \in Revision : requested[r] \subseteq requested'[r]
  /\ \A r \in Revision : requested'[r] # {} => requested[r] # {} \/ r.head = pr.head

LEMMA RevFacts ==
  ASSUME NEW h \in Commit, NEW b \in Base
  PROVE  Rev(h, b) \in Revision /\ Rev(h, b).head = h /\ Rev(h, b).base = b
BY DEF Rev, Revision

LEMMA CurrentFacts ==
  ASSUME GitHub
  PROVE  Current \in Revision /\ Current.head = pr.head /\ Current.base = pr.base
BY RevFacts DEF GitHub, Current

LEMMA RestStep ==
  ASSUME GitHub, UNCHANGED <<gates, contexts, requested>>, NEW h
  PROVE  GateStep(h) /\ RequestStep
BY DEF GitHub, GateStep, RequestStep

LEMMA SetGateStep ==
  ASSUME GitHub, NEW rev \in Revision, NEW versions, SetGate(rev, versions),
         \A v \in versions :
           /\ v \in Gate(Base)
           /\ gates[rev.head].id # 0 => v.id # 0
           /\ SaysDispatched(v) => \/ SaysDispatched(gates[rev.head])
                                   \/ rev.head = pr.head => Asked(requested', rev.head)
  PROVE  GateStep(rev.head)
<1>1. PICK g \in versions : gates' = [gates EXCEPT ![rev.head] = g]
  BY DEF SetGate
<1>2. rev.head \in Commit /\ gates \in [Commit -> Gate(Base)]
  BY DEF Revision, GitHub
<1>3. \A k \in Commit : gates'[k] = IF k = rev.head THEN g ELSE gates[k]
  BY <1>1, <1>2
<1>4. gates' \in [Commit -> Gate(Base)]
  BY <1>1, <1>2
<1>5. \A k \in Commit : gates[k].id # 0 => gates'[k].id # 0
  BY <1>3
<1>6. \A k \in Commit : SaysDispatched(gates'[k]) =>
        \/ SaysDispatched(gates[k])
        \/ k = rev.head /\ (rev.head = pr.head => Asked(requested', rev.head))
  BY <1>3
<1> QED BY <1>4, <1>5, <1>6 DEF GateStep

LEMMA PendingStep ==
  ASSUME GitHub, NEW rev \in Revision, NEW jobs \in SUBSET SecondStage, Pending(rev, jobs)
  PROVE  contexts' \in [Commit -> SUBSET SecondStage]
<1>1. rev.head \in Commit /\ contexts \in [Commit -> SUBSET SecondStage]
  BY DEF Revision, GitHub
<1>2. contexts[rev.head] \cup jobs \in SUBSET SecondStage
  BY <1>1
<1> QED BY <1>1, <1>2 DEF Pending

LEMMA PostedStep ==
  ASSUME GitHub, NEW jobs \in SUBSET SecondStage, Posted(jobs)
  PROVE  /\ requested' \in [Revision -> SUBSET SecondStage]
         /\ \A r \in Revision : requested[r] \subseteq requested'[r]
         /\ \A r \in Revision : requested'[r] # {} => requested[r] # {} \/ r.head = pr.head
         /\ jobs \subseteq requested'[Current]
<1>1. Current \in Revision /\ Current.head = pr.head
  BY CurrentFacts
<1>2. requested \in [Revision -> SUBSET SecondStage]
  BY DEF GitHub
<1>3. requested' = [requested EXCEPT ![Current] = requested[Current] \cup jobs]
  BY DEF Posted
<1>4. requested[Current] \cup jobs \in SUBSET SecondStage
  BY <1>1, <1>2
<1>5. requested' \in [Revision -> SUBSET SecondStage]
  BY <1>1, <1>2, <1>3, <1>4
<1>6. \A r \in Revision :
        requested'[r] = IF r = Current THEN requested[Current] \cup jobs ELSE requested[r]
  BY <1>2, <1>3
<1> QED BY <1>1, <1>5, <1>6

LEMMA PlannedFacts ==
  ASSUME NEW changed, NEW mode, NEW existing
  PROVE  /\ Planned(changed, mode, existing) \in SUBSET SecondStage
         /\ Applicable(changed) \subseteq Planned(changed, mode, existing) \cup existing
         /\ Expected(changed) \in SUBSET SecondStage
<1>1. Applicable(changed) \subseteq SecondStage /\ Expected(changed) \subseteq SecondStage
  BY DEF Applicable, Expected
<1>2. /\ Planned(changed, mode, existing) \subseteq Applicable(changed)
      /\ Applicable(changed) \subseteq Planned(changed, mode, existing) \cup existing
  BY DEF Planned
<1> QED BY <1>1, <1>2

\* What was planned was asked for, and what was not was there.
LEMMA PlannedAsked ==
  ASSUME GitHub, ListedAsked, NEW rev \in Revision, NEW mode, rev.head = pr.head,
         Posted(Planned(scenario.changed, mode, Existing(rev)))
  PROVE  Asked(requested', rev.head)
<1> DEFINE jobs == Planned(scenario.changed, mode, Existing(rev))
<1>1. /\ jobs \in SUBSET SecondStage
      /\ Applicable(scenario.changed) \subseteq jobs \cup listed[rev]
  BY PlannedFacts DEF Existing
<1> HIDE DEF jobs
<1>2. /\ \A r \in Revision : requested[r] \subseteq requested'[r]
      /\ jobs \subseteq requested'[Current]
  BY <1>1, PostedStep DEF jobs
<1>3. listed[rev] \subseteq requested'[rev]
  BY <1>2 DEF ListedAsked
<1>4. rev = Rev(rev.head, rev.base) /\ rev.base \in Base
  BY DEF Revision, Rev
<1>5. Current = Rev(rev.head, pr.base) /\ pr.base \in Base
  BY DEF Current, GitHub
<1>6. ASSUME NEW j \in Applicable(scenario.changed)
      PROVE  j \in UNION {requested'[Rev(rev.head, b)] : b \in Base}
  <2>1. j \in requested'[Rev(rev.head, rev.base)] \/ j \in requested'[Rev(rev.head, pr.base)]
    BY <1>1, <1>2, <1>3, <1>4, <1>5
  <2> QED BY <1>4, <1>5, <2>1
<1> QED BY <1>6 DEF Asked

\* A version of a gate that SetGate may take whatever was asked for.
Harmless(g, v) ==
  /\ v \in Gate(Base)
  /\ g.id # 0 => v.id # 0
  /\ SaysDispatched(v) => SaysDispatched(g)

LEMMA HarmlessStep ==
  ASSUME GitHub, NEW rev \in Revision, NEW versions, SetGate(rev, versions),
         \A v \in versions : Harmless(gates[rev.head], v)
  PROVE  GateStep(rev.head)
BY SetGateStep DEF Harmless

LEMMA HarmlessWrite ==
  ASSUME NEW g \in Gate(Base), NEW next \in Gate(Base), NEW reopen \in BOOLEAN,
         next.summary # "dispatched"
  PROVE  /\ \A v \in Interrupted(g, next, reopen) : Harmless(g, v)
         /\ Harmless(g, Written(g, next, reopen))
BY VersionsFacts DEF Harmless

LEMMA PostingFacts ==
  ASSUME NEW g \in Gate(Base), NEW rev \in Revision, NEW jobs
  PROVE  Harmless(g, Posting(g, rev, jobs))
<1> DEFINE next == Check(rev.base, "in_progress", "", "dispatching")
           reopen == g.conclusion = "success"
<1>1. rev.base \in Base /\ reopen \in BOOLEAN
  BY DEF Revision
<1>2. next \in Gate(Base) /\ next.summary # "dispatched"
  BY <1>1, CheckFacts
<1> HIDE DEF next, reopen
<1>3. Harmless(g, Written(g, next, reopen))
  BY <1>1, <1>2, HarmlessWrite
<1>4. Posting(g, rev, jobs) = g \/ Posting(g, rev, jobs) = Written(g, next, reopen)
  BY DEF Posting, next, reopen
<1>5. Harmless(g, g)
  BY DEF Harmless
<1> QED BY <1>3, <1>4, <1>5

LEMMA DispatchesStep ==
  ASSUME GitHub, ListedAsked, NEW rev \in Revision, NEW mode, NEW explicit,
         Dispatches(rev, mode, explicit)
  PROVE  GateStep(rev.head) /\ RequestStep
<1> DEFINE g == gates[rev.head]
           jobs == Planned(scenario.changed, mode, Existing(rev))
           open == Posting(g, rev, jobs)
           green == Check(rev.base, "completed", "success", "dispatched")
           to == IF jobs = {} /\ IsFor(g, rev.base) /\ Succeeded(g) THEN g
                 ELSE Written(open, green, FALSE)
<1>1. g \in Gate(Base) /\ rev.base \in Base
  BY DEF GitHub, Revision
<1>2. jobs \in SUBSET SecondStage
  BY PlannedFacts
<1>3. SetGate(rev, {to}) /\ Pending(rev, jobs) /\ Posted(jobs)
  BY DEF Dispatches
<1>4. green \in Gate(Base)
  BY <1>1, CheckFacts
<1>5. Harmless(g, open)
  BY <1>1, PostingFacts
<1>6. rev.head = pr.head => Asked(requested', rev.head)
  BY <1>3, PlannedAsked
<1> HIDE DEF g, jobs, open, green
<1>7. Written(open, green, FALSE) \in Gate(Base) /\ Written(open, green, FALSE).id # 0
  <2>1. open \in Gate(Base) /\ FALSE \in BOOLEAN
    BY <1>5 DEF Harmless
  <2> QED BY <1>4, <2>1, VersionsFacts
<1>8. to \in Gate(Base) /\ (g.id # 0 => to.id # 0) /\ (to = g \/ to = Written(open, green, FALSE))
  BY <1>1, <1>7
<1> HIDE DEF to
<1>9. GateStep(rev.head)
  BY <1>3, <1>6, <1>8, SetGateStep DEF g
<1>10. RequestStep
  BY <1>2, <1>3, PendingStep, PostedStep DEF RequestStep
<1> QED BY <1>9, <1>10

LEMMA DispatchFailsStep ==
  ASSUME GitHub, ListedAsked, NEW rev \in Revision, NEW mode, NEW explicit,
         DispatchFails(rev, mode, explicit)
  PROVE  GateStep(rev.head) /\ RequestStep
<1> DEFINE g == gates[rev.head]
           jobs == Planned(scenario.changed, mode, Existing(rev))
           open == Posting(g, rev, jobs)
           started == Check(rev.base, "in_progress", "", "dispatching")
           failed == Written(open, Check(rev.base, "completed", "failure", "failed"), FALSE)
           green == Check(rev.base, "completed", "success", "dispatched")
<1>1. g \in Gate(Base) /\ rev.base \in Base
  BY DEF GitHub, Revision
<1>2. jobs \in SUBSET SecondStage /\ {} \in SUBSET SecondStage
  BY PlannedFacts
<1>3. Harmless(g, open)
  BY <1>1, PostingFacts
<1>4. green \in Gate(Base)
  BY <1>1, CheckFacts
<1>5. Posted(jobs) /\ rev.head = pr.head => Asked(requested', rev.head)
  BY PlannedAsked
<1>6. \/ /\ SetGate(rev, Interrupted(g, started, g.conclusion = "success"))
         /\ UNCHANGED <<contexts, requested>>
      \/ /\ SetGate(rev, {open, failed})
         /\ \/ (\E some \in {{}, jobs} : Pending(rev, some)) /\ UNCHANGED requested
            \/ Pending(rev, jobs) /\ Posted(jobs)
      \/ SetGate(rev, Interrupted(open, green, FALSE)) /\ Pending(rev, jobs) /\ Posted(jobs)
  BY DEF DispatchFails
<1>7. Harmless(g, failed)
  <2> DEFINE next == Check(rev.base, "completed", "failure", "failed")
  <2>1. next \in Gate(Base) /\ next.summary # "dispatched"
    BY <1>1, CheckFacts
  <2>2. open \in Gate(Base) /\ FALSE \in BOOLEAN
    BY <1>3 DEF Harmless
  <2> HIDE DEF next, open
  <2>3. Harmless(open, Written(open, next, FALSE))
    BY <2>1, <2>2, HarmlessWrite
  <2> QED BY <1>3, <2>3 DEF Harmless, next
<1>8. \A v \in Interrupted(g, started, g.conclusion = "success") : Harmless(g, v)
  <2>1. started \in Gate(Base) /\ started.summary # "dispatched"
    BY <1>1, CheckFacts
  <2>2. (g.conclusion = "success") \in BOOLEAN
    OBVIOUS
  <2> HIDE DEF started, g
  <2> QED BY <1>1, <2>1, <2>2, HarmlessWrite
<1>9. \A v \in Interrupted(open, green, FALSE) :
        v \in Gate(Base) /\ (g.id # 0 => v.id # 0)
  <2>1. open \in Gate(Base) /\ FALSE \in BOOLEAN
    BY <1>3 DEF Harmless
  <2> HIDE DEF open, green
  <2> QED BY <1>3, <1>4, <2>1, VersionsFacts DEF Harmless
<1> HIDE DEF g, jobs, open, started, failed, green
<1>10. GateStep(rev.head)
  <2>1. CASE SetGate(rev, Interrupted(g, started, g.conclusion = "success"))
    BY <1>8, <2>1, HarmlessStep DEF g
  <2>2. CASE SetGate(rev, {open, failed})
    BY <1>3, <1>7, <2>2, HarmlessStep DEF g
  <2>3. CASE SetGate(rev, Interrupted(open, green, FALSE)) /\ Posted(jobs)
    BY <1>5, <1>9, <2>3, SetGateStep DEF g
  <2> QED BY <1>6, <2>1, <2>2, <2>3
<1>11. RequestStep
  <2>1. contexts' \in [Commit -> SUBSET SecondStage]
    <3>1. CASE UNCHANGED contexts
      BY <3>1 DEF GitHub
    <3>2. CASE \E some \in {{}, jobs} : Pending(rev, some)
      BY <1>2, <3>2, PendingStep
    <3> QED BY <1>6, <3>1, <3>2
  <2>2. CASE UNCHANGED requested
    BY <2>1, <2>2 DEF GitHub, RequestStep
  <2>3. CASE Posted(jobs)
    BY <1>2, <2>1, <2>3, PostedStep DEF RequestStep
  <2> QED BY <1>6, <2>2, <2>3
<1> QED BY <1>10, <1>11

LEMMA PendingGateStep ==
  ASSUME GitHub, NEW rev \in Revision, NEW ok \in BOOLEAN, PendingGate(rev, ok)
  PROVE  GateStep(rev.head)
<1> DEFINE g == gates[rev.head]
           reopen == g.conclusion = "success"
           next == Waiting(rev.base)
<1>1. g \in Gate(Base) /\ rev.base \in Base /\ reopen \in BOOLEAN
  BY DEF GitHub, Revision
<1>2. next \in Gate(Base) /\ next.summary # "dispatched"
  BY <1>1, CheckFacts
<1>3. \/ UNCHANGED gates
      \/ SetGate(rev, {Written(g, next, reopen)})
      \/ SetGate(rev, Interrupted(g, next, reopen))
  BY DEF PendingGate
<1> HIDE DEF next, reopen
<1>4. /\ \A v \in Interrupted(g, next, reopen) : Harmless(g, v)
      /\ Harmless(g, Written(g, next, reopen))
  <2> HIDE DEF g
  <2> QED BY <1>1, <1>2, HarmlessWrite
<1>5. CASE UNCHANGED gates
  BY <1>5 DEF GitHub, GateStep
<1>6. CASE SetGate(rev, {Written(g, next, reopen)})
  BY <1>4, <1>6, HarmlessStep
<1>7. CASE SetGate(rev, Interrupted(g, next, reopen))
  BY <1>4, <1>7, HarmlessStep
<1> QED BY <1>3, <1>5, <1>6, <1>7

LEMMA MarkedFacts ==
  ASSUME NEW g \in Gate(Base), NEW base \in Base, NEW title \in Title
  PROVE  Marked(g, base, title) \in Gate(Base) /\ Marked(g, base, title).summary # "dispatched"
<1> DEFINE next == Check(base, "completed", "success", "override")
           named == IF title = "" THEN g.title ELSE title
<1>1. next \in Gate(Base) /\ next.summary # "dispatched"
  BY CheckFacts
<1>2. named \in {"", "agentic", "traditional", "rerun"}
  BY DEF Gate, Title
<1>3. Marked(g, base, title) = IF named = "" THEN next ELSE [next EXCEPT !.title = named]
  BY DEF Marked
<1> HIDE DEF next, named
<1>4. [next EXCEPT !.title = named] \in Gate(Base)
  BY <1>1, <1>2 DEF Gate
<1>5. [next EXCEPT !.title = named].summary = next.summary
  BY <1>1 DEF Gate
<1> QED BY <1>1, <1>3, <1>4, <1>5

\* The worker writes the gate of the commit that it read.
LEMMA WriteStep ==
  ASSUME GitHub, worker.head \in Commit, worker.base \in Base, NEW ok \in BOOLEAN,
         NEW next \in Gate(Base), next.summary # "dispatched", NEW reopen \in BOOLEAN,
         Write(ok, next, reopen)
  PROVE  GateStep(worker.head) /\ (ok => gates'[worker.head].id # 0)
<1>1. Snapshot \in Revision /\ Snapshot.head = worker.head
  BY RevFacts DEF Snapshot
<1>2. Live \in Gate(Base) /\ Live = gates[worker.head]
  BY DEF GitHub, Live
<1>3. /\ \A v \in Interrupted(Live, next, reopen) : Harmless(Live, v)
      /\ Harmless(Live, Written(Live, next, reopen))
  BY <1>2, HarmlessWrite
<1>4. CASE ok
  <2>1. SetGate(Snapshot, {Written(Live, next, reopen)})
    BY <1>4 DEF Write
  <2>2. gates'[worker.head] = Written(Live, next, reopen)
    BY <1>1, <2>1 DEF SetGate, GitHub
  <2>3. Written(Live, next, reopen).id # 0
    BY <1>2, VersionsFacts
  <2>4. GateStep(Snapshot.head)
    BY <1>1, <1>2, <1>3, <2>1, HarmlessStep
  <2> QED BY <1>1, <2>2, <2>3, <2>4
<1>5. CASE ~ok
  <2>1. SetGate(Snapshot, Interrupted(Live, next, reopen))
    BY <1>5 DEF Write
  <2>2. GateStep(Snapshot.head)
    BY <1>1, <1>2, <1>3, <2>1, HarmlessStep
  <2> QED BY <1>1, <1>5, <2>2
<1> QED BY <1>4, <1>5

LEMMA RetiredHarmless ==
  ASSUME NEW g \in Gate(Base)
  PROVE  Harmless(g, g) /\ Harmless(g, Retired(g, "agentic", "retired"))
<1>1. "agentic" \in Title /\ "retired" \in Summary
  BY DEF Title, Summary
<1>2. /\ Retired(g, "agentic", "retired") \in Gate(Base)
      /\ Retired(g, "agentic", "retired").id = g.id
      /\ ~Succeeded(Retired(g, "agentic", "retired"))
  BY <1>1, RetiredFacts
<1> QED BY <1>2 DEF Harmless, SaysDispatched

LEMMA RetireStep ==
  ASSUME GitHub, worker.head \in Commit, worker.base \in Base, NEW ok \in BOOLEAN, Retire(ok)
  PROVE  GateStep(worker.head)
<1>1. Snapshot \in Revision /\ Snapshot.head = worker.head
  BY RevFacts DEF Snapshot
<1>2. Live \in Gate(Base) /\ Live = gates[worker.head]
  BY DEF GitHub, Live
<1>3. Harmless(Live, Live) /\ Harmless(Live, Retired(Live, "agentic", "retired"))
  BY <1>2, RetiredHarmless
<1>4. PICK versions \in SUBSET {Live, Retired(Live, "agentic", "retired")} :
        SetGate(Snapshot, versions)
  BY DEF Retire
<1>5. GateStep(Snapshot.head)
  BY <1>1, <1>2, <1>3, <1>4, HarmlessStep
<1> QED BY <1>1, <1>5

LEMMA HandoffFacts ==
  ASSUME worker.base \in Base, NEW g \in Gate(Base)
  PROVE  Harmless(g, Created(g, Handoff)) /\ Created(g, Handoff).id # 0
<1> DEFINE c == Check(worker.base, "queued", "", "handoff")
<1>1. c \in Gate(Base) /\ c.summary # "dispatched" /\ c.status = "queued"
  BY CheckFacts
<1>2. Handoff = [c EXCEPT !.title = "agentic"]
  BY DEF Handoff
<1> HIDE DEF c
<1>3. Handoff \in Gate(Base) /\ Handoff.summary # "dispatched"
  BY <1>1, <1>2 DEF Gate
<1>4. /\ Created(g, Handoff) \in Gate(Base) /\ Created(g, Handoff).id # 0
      /\ Created(g, Handoff).summary # "dispatched"
  BY <1>3, CreatedFacts
<1> QED BY <1>4 DEF Harmless, SaysDispatched

LEMMA SignalsStep ==
  ASSUME GitHub, worker.head \in Commit, worker.base \in Base, Signals
  PROVE  GateStep(worker.head) /\ gates'[worker.head].id # 0
<1>1. Snapshot \in Revision /\ Snapshot.head = worker.head
  BY RevFacts DEF Snapshot
<1>2. Live \in Gate(Base) /\ Live = gates[worker.head]
  BY DEF GitHub, Live
<1>3. Harmless(Live, Created(Live, Handoff)) /\ Created(Live, Handoff).id # 0
  BY <1>2, HandoffFacts
<1>4. SetGate(Snapshot, {Created(Live, Handoff)})
  BY DEF Signals
<1>5. GateStep(Snapshot.head)
  BY <1>1, <1>2, <1>3, <1>4, HarmlessStep
<1>6. gates'[worker.head] = Created(Live, Handoff)
  BY <1>1, <1>4 DEF SetGate, GitHub
<1> QED BY <1>1, <1>3, <1>5, <1>6

LEMMA SignalFailsStep ==
  ASSUME GitHub, worker.head \in Commit, worker.base \in Base, SignalFails
  PROVE  GateStep(worker.head)
<1>1. Snapshot \in Revision /\ Snapshot.head = worker.head
  BY RevFacts DEF Snapshot
<1>2. Live \in Gate(Base) /\ Live = gates[worker.head]
  BY DEF GitHub, Live
<1>3. Harmless(Live, Live) /\ Harmless(Live, Retired(Live, "agentic", "retired"))
  BY <1>2, RetiredHarmless
<1>4. Harmless(Live, Created(Live, Handoff))
  BY <1>2, HandoffFacts
<1>5. CASE Retire(FALSE)
  BY <1>5, RetireStep
<1>6. CASE SetGate(Snapshot, {IF Live.id = 0 THEN Live ELSE Retired(Live, "agentic", "retired"),
                              Created(Live, Handoff)})
  <2>1. GateStep(Snapshot.head)
    BY <1>1, <1>2, <1>3, <1>4, <1>6, HarmlessStep
  <2> QED BY <1>1, <2>1
<1> QED BY <1>5, <1>6 DEF SignalFails

-----------------------------------------------------------------------------
(* What a step of a thread keeps.                                            *)

LEMMA RequestRest ==
  ASSUME GitHub, UNCHANGED <<contexts, requested>>
  PROVE  RequestStep
BY DEF GitHub, RequestStep

LEMMA GateRest ==
  ASSUME GitHub, UNCHANGED gates, NEW h
  PROVE  GateStep(h)
BY DEF GitHub, GateStep

LEMMA HeadFacts ==
  ASSUME GitHub
  PROVE  pr.head \in Commit /\ pr.head \in Nat /\ 0 <= pr.head /\ pr.head <= pr.head
<1>1. pr.head \in Commit
  BY DEF GitHub
<1>2. pr.head \in Nat
  BY <1>1, DispatchAssumption
<1> QED BY <1>1, <1>2

LEMMA TruthKept ==
  ASSUME GitHub, Truthful, NEW h \in Commit, h <= pr.head, GateStep(h), RequestStep,
         UNCHANGED scenario, pr'.head \in Commit, pr'.head >= pr.head
  PROVE  Truthful'
<1> SUFFICES ASSUME NEW k \in Commit, k >= pr'.head, SaysDispatched(gates'[k])
             PROVE  k = pr'.head /\ Asked(requested', k)
  BY DEF Truthful, Asked
<1>1. k \in Nat /\ h \in Nat /\ pr.head \in Nat /\ pr'.head \in Nat
  BY HeadFacts, DispatchAssumption
<1>2. k >= pr.head
  BY <1>1
<1>3. CASE SaysDispatched(gates[k])
  <2>1. k = pr.head /\ Asked(requested, k)
    BY <1>2, <1>3 DEF Truthful
  <2>2. \A r \in Revision : requested[r] \subseteq requested'[r]
    BY DEF RequestStep
  <2>3. \A b \in Base : Rev(k, b) \in Revision
    BY RevFacts
  <2>4. UNION {requested[Rev(k, b)] : b \in Base} \subseteq UNION {requested'[Rev(k, b)] : b \in Base}
    BY <2>2, <2>3
  <2> QED BY <1>1, <2>1, <2>4 DEF Asked
<1>4. CASE k = h /\ (h = pr.head => Asked(requested', h))
  BY <1>1, <1>2, <1>4
<1> QED BY <1>3, <1>4 DEF GateStep

LEMMA MindKept ==
  ASSUME Mind, NEW h, GateStep(h), UNCHANGED <<scenario, s, worker, inbox>>
  PROVE  Mind'
<1>1. Remembers(s, gates')
  BY DEF Mind, Remembers, GateStep
<1>2. Attends(worker, s, inbox)'
  BY DEF Mind, Attends, Enrolled
<1> QED BY <1>1, <1>2 DEF Mind, Remembers, TraditionalMode

LEMMA ListedKept ==
  ASSUME ListedAsked, RequestStep, UNCHANGED listed
  PROVE  ListedAsked'
BY DEF ListedAsked, RequestStep

\* The requests of a step, and what was pushed.
LEMMA PushedKept ==
  ASSUME GitHub, Pushed, RequestStep, UNCHANGED first, pr'.head = pr.head,
         \A e \in events' : e.rev.head <= pr.head, pjEvents' \subseteq pjEvents,
         handler'.head <= pr.head, reconciler'.head <= pr.head, worker'.head <= pr.head
  PROVE  Pushed'
BY HeadFacts DEF Pushed, RequestStep

GitHubTyped ==
  /\ pr' \in [head : Commit, base : Base, draft : BOOLEAN, labels : SUBSET Label]
  /\ pr'.head = pr.head

LEMMA GitHubKept ==
  ASSUME GitHubTyped, NEW h, GateStep(h), RequestStep
  PROVE  GitHub'
BY DEF GitHubTyped, GateStep, RequestStep, GitHub

LEMMA StepFrame ==
  ASSUME Sound, UNCHANGED <<scenario, listed, first, now>>, GitHubTyped,
         NEW h \in Commit, h <= pr.head, GateStep(h), RequestStep,
         used' \in [Moves -> Nat], events' \subseteq events, pjEvents' \subseteq pjEvents,
         cwIds' \subseteq Revision, rIds' \subseteq Revision,
         closed' \in {"unknown", "open", "closed"},
         Tasked', Histories', Mind', handler'.head <= pr.head, reconciler'.head <= pr.head,
         worker'.head <= pr.head
  PROVE  Sound'
<1>1. GitHub /\ Pushed /\ ListedAsked /\ Truthful
  BY DEF Sound, Setting
<1>2. GitHub'
  BY GitHubKept
<1>3. Setting'
  BY <1>2 DEF Sound, Setting
<1>4. Pushed'
  <2>1. (\A e \in events' : e.rev.head <= pr.head) /\ pr'.head = pr.head
    BY <1>1 DEF Pushed, GitHubTyped
  <2> QED BY <1>1, <2>1, PushedKept
<1>5. ListedAsked'
  BY <1>1, ListedKept
<1>6. Truthful'
  <2>1. pr'.head \in Commit /\ pr'.head >= pr.head
    BY <1>1, HeadFacts DEF GitHubTyped
  <2> QED BY <1>1, <2>1, TruthKept
<1> QED BY <1>3, <1>4, <1>5, <1>6 DEF Sound

\* A step of the worker of the agentic handoff.
LEMMA WorkerFrame ==
  ASSUME Sound, UNCHANGED outside, GitHubTyped, NEW h \in Commit, h <= pr.head,
         GateStep(h), RequestStep, used' \in [Moves -> Nat], Histories', Mind',
         worker'.head <= pr.head
  PROVE  Sound'
<1>1. /\ scenario' = scenario /\ listed' = listed /\ first' = first /\ pjEvents' = pjEvents
      /\ events' = events /\ handler' = handler /\ cwIds' = cwIds /\ reconciler' = reconciler
      /\ rIds' = rIds /\ closed' = closed /\ now' = now
  BY DEF outside, prow, hooks, loop
<1>2. Tasked'
  BY <1>1 DEF Sound, Tasked, Enrolled, Rev
<1>3. /\ events' \subseteq events /\ pjEvents' \subseteq pjEvents
      /\ cwIds' \subseteq Revision /\ rIds' \subseteq Revision
      /\ closed' \in {"unknown", "open", "closed"}
      /\ handler'.head <= pr.head /\ reconciler'.head <= pr.head
  BY <1>1 DEF Sound, Setting, Pushed
<1> QED BY <1>1, <1>2, <1>3, StepFrame

\* Nothing that is the worker's; what is remembered of the revisions may be void.
Unheeded ==
  /\ UNCHANGED <<s, worker, inbox>>
  /\ completed' \subseteq completed /\ traditionally' \subseteq traditionally

\* A step of a webhook or of the reconciler.
LEMMA HookFrame ==
  ASSUME Sound, UNCHANGED <<scenario, listed, first, now>>, Unheeded, GitHubTyped,
         NEW h \in Commit, h <= pr.head, GateStep(h), RequestStep,
         used' \in [Moves -> Nat], events' \subseteq events, pjEvents' \subseteq pjEvents,
         cwIds' \subseteq Revision, rIds' \subseteq Revision,
         closed' \in {"unknown", "open", "closed"},
         Tasked', handler'.head <= pr.head, reconciler'.head <= pr.head
  PROVE  Sound'
<1>1. /\ s' = s /\ worker' = worker /\ inbox' = inbox
      /\ completed' \subseteq completed /\ traditionally' \subseteq traditionally
  BY DEF Unheeded
<1>2. Mind'
  BY <1>1, MindKept DEF Sound
<1>3. Histories' /\ worker'.head <= pr.head
  BY <1>1 DEF Sound, Histories, Pushed
<1> QED BY <1>2, <1>3, StepFrame

LEMMA SpendFacts ==
  ASSUME used \in [Moves -> Nat], NEW m \in Moves, Spend(m)
  PROVE  used' \in [Moves -> Nat]
BY DEF Spend

LEMMA CostsFacts ==
  ASSUME used \in [Moves -> Nat], NEW ok, Costs(ok)
  PROVE  used' \in [Moves -> Nat]
<1>1. "fault" \in Moves
  BY DEF Moves
<1> QED BY <1>1, SpendFacts DEF Costs

-----------------------------------------------------------------------------
(* Webhooks.                                                                 *)

LEMMA NothingFacts ==
  Nothing \in Task /\ ~Nothing.busy /\ ~Nothing.guard /\ Nothing.head = 0
BY DEF Nothing, Task

LEMMA HandlerKeeps ==
  ASSUME Tasked, UNCHANGED <<scenario, reconciler, rIds, pjEvents, handler>>, cwIds \subseteq cwIds'
  PROVE  Tasked'
BY DEF Tasked, Enrolled

LEMMA HandlerRests ==
  ASSUME Tasked, UNCHANGED <<scenario, reconciler, rIds, pjEvents>>, handler' = Nothing
  PROVE  Tasked'
BY NothingFacts DEF Tasked, Enrolled

LEMMA HandlerClaims ==
  ASSUME Tasked, UNCHANGED <<scenario, reconciler, rIds, pjEvents>>, NEW rev \in Revision,
         NEW mode \in {"delta", "force"}, NEW explicit \in BOOLEAN, Claims(rev, mode, explicit),
         mode = "delta" => rev \in cwIds'
  PROVE  Tasked' /\ handler'.head = rev.head
<1>1. rev.head \in Commit /\ rev.base \in Base /\ rev = Rev(rev.head, rev.base)
  BY DEF Revision, Rev
<1>2. /\ handler' \in Task
      /\ handler'.busy /\ handler'.head = rev.head /\ handler'.base = rev.base
      /\ handler'.guard <=> mode = "delta"
  BY <1>1 DEF Claims, Nothing, Task
<1>3. \A t \in {handler', reconciler'} :
        t \in Task /\ (t = Nothing \/ (t.busy /\ t.head \in Commit /\ t.base \in Base))
  BY <1>1, <1>2 DEF Tasked
<1>4. handler'.guard => Rev(handler'.head, handler'.base) \in cwIds'
  BY <1>1, <1>2
<1>5. reconciler'.busy => /\ Rev(reconciler'.head, reconciler'.base) \in rIds' \cap pjEvents'
                          /\ reconciler'.base \notin scenario'.enrolled
  BY DEF Tasked, Enrolled
<1> QED BY <1>2, <1>3, <1>4, <1>5 DEF Tasked, Enrolled

\* The revision of an event is one of a commit that was pushed.
LEMMA EventFacts ==
  ASSUME Sound, NEW e \in events
  PROVE  e.rev \in Revision /\ e.rev.head \in Commit /\ e.rev.head <= pr.head
<1>1. e \in Event
  BY DEF Sound, Setting
<1>2. e.rev \in Revision
  BY <1>1 DEF Event
<1> QED BY <1>2 DEF Sound, Pushed, Revision

\* What every step of a webhook leaves alone, and what it may rely on.
LEMMA SoundFacts ==
  ASSUME Sound
  PROVE  /\ GitHub /\ Tasked /\ Pushed /\ ListedAsked /\ Mind
         /\ used \in [Moves -> Nat] /\ cwIds \subseteq Revision /\ rIds \subseteq Revision
         /\ pjEvents \subseteq Revision
         /\ closed \in {"unknown", "open", "closed"}
         /\ handler.head <= pr.head /\ reconciler.head <= pr.head /\ worker.head <= pr.head
         /\ pr.head \in Commit /\ pr.head <= pr.head /\ 0 <= pr.head
         /\ pr \in [head : Commit, base : Base, draft : BOOLEAN, labels : SUBSET Label]
<1>1. GitHub /\ Pushed
  BY DEF Sound, Setting
<1> QED BY <1>1, HeadFacts DEF Sound, Setting, Pushed, GitHub

LEMMA HandlePushSound ==
  ASSUME Sound, NEW e \in events, HandlePush(e), Unheeded
  PROVE  Sound'
<1>1. /\ UNCHANGED <<scenario, pr, requested, listed, first, pjEvents, handler, cwIds, reconciler,
                     rIds, closed, now>>
      /\ events' \subseteq events
  BY DEF HandlePush, prow, loop
<1>2. /\ e.rev \in Revision /\ e.rev.head \in Commit /\ e.rev.head <= pr.head
  BY EventFacts
<1>3. GitHub /\ Tasked
  BY SoundFacts
<1>4. GateStep(e.rev.head) /\ contexts' \in [Commit -> SUBSET SecondStage]
      /\ used' \in [Moves -> Nat]
  <2>1. CASE UNCHANGED <<gates, contexts, used>>
    BY <1>2, <1>3, <2>1, SoundFacts, GateRest DEF GitHub
  <2>2. CASE \E ok \in BOOLEAN :
               /\ Costs(ok) /\ Log(ok)
               /\ IF Approved(e.labels)
                  THEN PendingGate(e.rev, ok) \/ (~ok /\ PendingGate(e.rev, TRUE))
                  ELSE UNCHANGED gates
               /\ \E jobs \in IF ok THEN {Expected(scenario.changed)}
                              ELSE {{}, Expected(scenario.changed)} : Pending(e.rev, jobs)
    <3>1. PICK ok \in BOOLEAN :
            /\ Costs(ok)
            /\ PendingGate(e.rev, ok) \/ PendingGate(e.rev, TRUE) \/ UNCHANGED gates
            /\ \E jobs \in {{}, Expected(scenario.changed)} : Pending(e.rev, jobs)
      BY <2>2
    <3>2. used' \in [Moves -> Nat]
      BY <3>1, CostsFacts, SoundFacts
    <3>3. TRUE \in BOOLEAN
      OBVIOUS
    <3>4. GateStep(e.rev.head)
      BY <1>2, <1>3, <3>1, <3>3, PendingGateStep, GateRest
    <3>5. {} \in SUBSET SecondStage /\ Expected(scenario.changed) \in SUBSET SecondStage
      BY PlannedFacts
    <3>6. contexts' \in [Commit -> SUBSET SecondStage]
      BY <1>2, <1>3, <3>1, <3>5, PendingStep
    <3> QED BY <3>2, <3>4, <3>6
  <2> QED BY <2>1, <2>2 DEF HandlePush
<1>5. RequestStep
  BY <1>1, <1>3, <1>4 DEF RequestStep, GitHub
<1>6. GitHubTyped
  BY <1>1, SoundFacts DEF GitHubTyped
<1>7. Tasked'
  BY <1>1, <1>3, HandlerKeeps
<1> QED BY <1>1, <1>2, <1>4, <1>5, <1>6, <1>7, SoundFacts, HookFrame

\* A webhook that does nothing to the gate and asks for nothing.
LEMMA ClaimFrame ==
  ASSUME Sound, UNCHANGED <<scenario, gates, contexts, requested, prow, loop, now>>, Unheeded,
         GitHubTyped, used' \in [Moves -> Nat], events' \subseteq events, cwIds \subseteq cwIds',
         cwIds' \subseteq Revision,
         \/ UNCHANGED handler
         \/ \E rev \in Revision, mode \in {"delta", "force"}, explicit \in BOOLEAN :
              /\ Claims(rev, mode, explicit)
              /\ rev.head <= pr.head
              /\ mode = "delta" => rev \in cwIds'
  PROVE  Sound'
<1>1. UNCHANGED <<listed, first, pjEvents, reconciler, rIds, closed>>
  BY DEF prow, loop
<1>2. Tasked /\ GitHub
  BY SoundFacts
<1>3. Tasked' /\ handler'.head <= pr.head
  <2>1. CASE UNCHANGED handler
    BY <1>1, <1>2, <2>1, HandlerKeeps, SoundFacts
  <2>2. ASSUME NEW rev \in Revision, NEW mode \in {"delta", "force"}, NEW explicit \in BOOLEAN,
               Claims(rev, mode, explicit), rev.head <= pr.head, mode = "delta" => rev \in cwIds'
        PROVE  Tasked' /\ handler'.head <= pr.head
    BY <1>1, <1>2, <2>2, HandlerClaims
  <2> QED BY <2>1, <2>2
<1>4. GateStep(pr.head) /\ RequestStep
  BY <1>2, GateRest, RequestRest
<1> QED BY <1>1, <1>3, <1>4, SoundFacts, HookFrame

LEMMA HandleLabelSound ==
  ASSUME Sound, NEW e \in events, HandleLabel(e), Unheeded
  PROVE  Sound'
<1>1. /\ UNCHANGED <<scenario, gates, contexts, requested, prow, loop, now>>
      /\ UNCHANGED <<pr, used>> /\ events' \subseteq events
      /\ \/ UNCHANGED <<cwIds, handler>>
         \/ cwIds' = cwIds \cup {e.rev} /\ Claims(e.rev, "delta", FALSE)
  BY DEF HandleLabel, github
<1>2. e.rev \in Revision /\ e.rev.head <= pr.head
  BY EventFacts
<1>3. cwIds' \subseteq Revision /\ cwIds \subseteq cwIds' /\ used' \in [Moves -> Nat]
  BY <1>1, <1>2, SoundFacts
<1>4. GitHubTyped
  BY <1>1, SoundFacts DEF GitHubTyped
<1>5. \/ UNCHANGED handler
      \/ \E rev \in Revision, mode \in {"delta", "force"}, explicit \in BOOLEAN :
           /\ Claims(rev, mode, explicit)
           /\ rev.head <= pr.head
           /\ mode = "delta" => rev \in cwIds'
  <2>1. CASE cwIds' = cwIds \cup {e.rev} /\ Claims(e.rev, "delta", FALSE)
    <3>1. e.rev \in cwIds' /\ "delta" \in {"delta", "force"} /\ FALSE \in BOOLEAN
      BY <2>1
    <3> QED BY <1>2, <2>1, <3>1
  <2> QED BY <1>1, <2>1
<1> QED BY <1>1, <1>3, <1>4, <1>5, ClaimFrame

LEMMA HandleRequiredSound ==
  ASSUME Sound, NEW e \in events, HandleRequired(e), Unheeded
  PROVE  Sound'
<1>1. /\ UNCHANGED <<scenario, gates, contexts, requested, prow, loop, now>>
      /\ UNCHANGED <<pr, used, cwIds>> /\ events' \subseteq events
      /\ Claims(Current, "force", TRUE)
  BY DEF HandleRequired, IsCommand, github
<1>2. Current \in Revision /\ Current.head <= pr.head
  BY SoundFacts, CurrentFacts
<1>3. cwIds' \subseteq Revision /\ cwIds \subseteq cwIds' /\ used' \in [Moves -> Nat]
  BY <1>1, SoundFacts
<1>4. GitHubTyped
  BY <1>1, SoundFacts DEF GitHubTyped
<1>5. \E rev \in Revision, mode \in {"delta", "force"}, explicit \in BOOLEAN :
        /\ Claims(rev, mode, explicit)
        /\ rev.head <= pr.head
        /\ mode = "delta" => rev \in cwIds'
  <2>1. "force" \in {"delta", "force"} /\ "force" # "delta" /\ TRUE \in BOOLEAN
    OBVIOUS
  <2> QED BY <1>1, <1>2, <2>1
<1> QED BY <1>1, <1>3, <1>4, <1>5, ClaimFrame

LEMMA GuardedFacts ==
  ASSUME Sound, Guarded(Current)
  PROVE  /\ cwIds \subseteq cwIds' /\ cwIds' \subseteq Revision
         /\ \/ UNCHANGED handler
            \/ \E rev \in Revision, mode \in {"delta", "force"}, explicit \in BOOLEAN :
                 /\ Claims(rev, mode, explicit)
                 /\ rev.head <= pr.head
                 /\ mode = "delta" => rev \in cwIds'
<1>1. Current \in Revision /\ Current.head <= pr.head /\ cwIds \subseteq Revision
  BY SoundFacts, CurrentFacts
<1>2. CASE UNCHANGED <<cwIds, handler>>
  BY <1>1, <1>2
<1>3. CASE cwIds' = cwIds \cup {Current} /\ Claims(Current, "delta", TRUE)
  <2>1. "delta" \in {"delta", "force"} /\ TRUE \in BOOLEAN /\ Current \in cwIds'
    BY <1>3
  <2> QED BY <1>1, <1>3, <2>1
<1> QED BY <1>2, <1>3 DEF Guarded

LEMMA HandleRemainingSound ==
  ASSUME Sound, NEW e \in events, HandleRemaining(e), Unheeded
  PROVE  Sound'
<1>1. /\ UNCHANGED <<scenario, gates, contexts, requested, prow, loop, now>>
      /\ UNCHANGED <<pr, used>> /\ events' \subseteq events
      /\ Guarded(Current)
  BY DEF HandleRemaining, IsCommand, github
<1>2. GitHubTyped /\ used' \in [Moves -> Nat]
  BY <1>1, SoundFacts DEF GitHubTyped
<1> QED BY <1>1, <1>2, GuardedFacts, ClaimFrame

LEMMA HandleAutoSound ==
  ASSUME Sound, NEW e \in events, HandleAuto(e), Unheeded
  PROVE  Sound'
<1>1. /\ UNCHANGED <<scenario, gates, contexts, requested, prow, loop, now>>
      /\ events' \subseteq events
      /\ pr' = pr \/ pr' = [pr EXCEPT !.labels = @ \cup {"auto"}]
      /\ UNCHANGED used \/ \E ok \in BOOLEAN : Costs(ok)
      /\ UNCHANGED <<cwIds, handler>> \/ Guarded(Current)
  BY DEF HandleAuto, IsCommand
<1>2. used' \in [Moves -> Nat]
  BY <1>1, SoundFacts, CostsFacts
<1>3. GitHubTyped
  <2>1. pr.labels \cup {"auto"} \in SUBSET Label
    BY SoundFacts DEF Label
  <2>2. CASE pr' = [pr EXCEPT !.labels = @ \cup {"auto"}]
    BY <2>1, <2>2, SoundFacts DEF GitHubTyped
  <2> QED BY <1>1, <2>2, SoundFacts DEF GitHubTyped
<1>4. CASE UNCHANGED <<cwIds, handler>>
  BY <1>1, <1>2, <1>3, <1>4, SoundFacts, ClaimFrame
<1>5. CASE Guarded(Current)
  BY <1>1, <1>2, <1>3, <1>5, GuardedFacts, ClaimFrame
<1> QED BY <1>1, <1>4, <1>5

LEMMA HandleMarkSound ==
  ASSUME Sound, NEW e \in events, HandleMark(e), Unheeded
  PROVE  Sound'
<1> DEFINE g == gates[pr.head]
           next == Marked(g, pr.base, "")
<1>1. /\ UNCHANGED <<scenario, pr, contexts, requested, listed, first, pjEvents, handler, cwIds,
                     reconciler, rIds, closed, now>>
      /\ events' \subseteq events
      /\ \/ UNCHANGED <<gates, used>>
         \/ \E ok \in BOOLEAN :
              /\ Costs(ok)
              /\ SetGate(Current, IF ok THEN {Written(g, next, FALSE)} ELSE Interrupted(g, next, FALSE))
  BY DEF HandleMark, IsCommand, prow, loop
<1>2. GitHub /\ Tasked
  BY SoundFacts
<1>3. Current \in Revision /\ Current.head = pr.head
  BY <1>2, CurrentFacts
<1>4. g \in Gate(Base) /\ pr.base \in Base /\ "" \in Title
  BY <1>2 DEF GitHub, Title
<1>5. next \in Gate(Base) /\ next.summary # "dispatched" /\ FALSE \in BOOLEAN
  <2> HIDE DEF g
  <2> QED BY <1>4, MarkedFacts
<1> HIDE DEF next
<1>6. /\ \A v \in Interrupted(g, next, FALSE) : Harmless(g, v)
      /\ Harmless(g, Written(g, next, FALSE))
  <2> HIDE DEF g
  <2> QED BY <1>4, <1>5, HarmlessWrite
<1>7. GateStep(pr.head) /\ used' \in [Moves -> Nat]
  <2>1. CASE UNCHANGED <<gates, used>>
    BY <1>2, <2>1, GateRest, SoundFacts
  <2>2. ASSUME NEW ok \in BOOLEAN, Costs(ok),
               SetGate(Current, IF ok THEN {Written(g, next, FALSE)} ELSE Interrupted(g, next, FALSE))
        PROVE  GateStep(pr.head) /\ used' \in [Moves -> Nat]
    <3>1. GateStep(Current.head)
      BY <1>2, <1>3, <1>6, <2>2, HarmlessStep
    <3> QED BY <1>3, <2>2, <3>1, CostsFacts, SoundFacts
  <2> QED BY <1>1, <2>1, <2>2
<1>8. RequestStep
  BY <1>1, <1>2, RequestRest
<1>9. GitHubTyped
  BY <1>1, SoundFacts DEF GitHubTyped
<1>10. Tasked'
  BY <1>1, <1>2, HandlerKeeps
<1> QED BY <1>1, <1>7, <1>8, <1>9, <1>10, SoundFacts, HookFrame

LEMMA HandleOtherSound ==
  ASSUME Sound, NEW e \in events, HandleOther(e), Unheeded
  PROVE  Sound'
<1>1. /\ UNCHANGED <<scenario, gates, contexts, requested, prow, loop, now>>
      /\ UNCHANGED <<pr, used, cwIds, handler>> /\ events' \subseteq events
  BY DEF HandleOther, IsCommand, github
<1>2. GitHubTyped /\ used' \in [Moves -> Nat] /\ cwIds' \subseteq Revision /\ cwIds \subseteq cwIds'
  BY <1>1, SoundFacts DEF GitHubTyped
<1> QED BY <1>1, <1>2, ClaimFrame

LEMMA HandlerSendsSound ==
  ASSUME Sound, HandlerSends, Unheeded
  PROVE  Sound'
<1> DEFINE rev == Rev(handler.head, handler.base)
<1>1. PICK ok \in BOOLEAN :
        /\ Costs(ok)
        /\ IF ok THEN Dispatches(rev, handler.mode, handler.explicit)
           ELSE DispatchFails(rev, handler.mode, handler.explicit)
        /\ cwIds' \subseteq cwIds
  BY DEF HandlerSends, Released
<1>2. /\ UNCHANGED <<scenario, pr, listed, first, pjEvents, events, reconciler, rIds, closed, now>>
      /\ handler' = Nothing /\ handler # Nothing
  BY DEF HandlerSends, Idle, prow, loop
<1>3. Tasked /\ GitHub /\ ListedAsked
  BY SoundFacts
<1>4. rev \in Revision /\ rev.head = handler.head /\ rev.head \in Commit /\ rev.head <= pr.head
  <2>1. handler.head \in Commit /\ handler.base \in Base
    BY <1>2, <1>3 DEF Tasked
  <2> QED BY <2>1, RevFacts, SoundFacts
<1> HIDE DEF rev
<1>5. GateStep(rev.head) /\ RequestStep
  BY <1>1, <1>3, <1>4, DispatchesStep, DispatchFailsStep
<1>6. Tasked' /\ handler'.head <= pr.head
  BY <1>2, <1>3, HandlerRests, NothingFacts, SoundFacts
<1>7. GitHubTyped
  BY <1>2, SoundFacts DEF GitHubTyped
<1>8. /\ used' \in [Moves -> Nat] /\ cwIds' \subseteq Revision /\ rIds' \subseteq Revision
      /\ closed' \in {"unknown", "open", "closed"} /\ events' \subseteq events
      /\ pjEvents' \subseteq pjEvents /\ reconciler'.head <= pr.head
  BY <1>1, <1>2, CostsFacts, SoundFacts
<1> QED BY <1>2, <1>4, <1>5, <1>6, <1>7, <1>8, HookFrame

LEMMA WebhooksSound ==
  ASSUME Sound, Webhooks
  PROVE  Sound'
<1>1. Unheeded
  BY DEF Webhooks, Elsewhere, Unheeded
<1>2. CASE HandlerSends
  BY <1>1, <1>2, HandlerSendsSound
<1>3. ASSUME NEW e \in events,
             HandlePush(e) \/ HandleLabel(e) \/ HandleRequired(e) \/ HandleRemaining(e)
               \/ HandleAuto(e) \/ HandleMark(e) \/ HandleOther(e)
      PROVE  Sound'
  BY <1>1, <1>3, HandlePushSound, HandleLabelSound, HandleRequiredSound, HandleRemainingSound,
     HandleAutoSound, HandleMarkSound, HandleOtherSound
<1> QED BY <1>2, <1>3 DEF Webhooks

-----------------------------------------------------------------------------
(* The reconciler of ProwJobs.                                               *)

\* Events go, but for that of the revision which the reconciler is about to dispatch.
LEMMA ReconcilerKeeps ==
  ASSUME Tasked, UNCHANGED <<scenario, handler, cwIds, reconciler, rIds>>,
         NEW rev, pjEvents' = pjEvents \ {rev}, reconciler = Nothing \/ Enrolled(rev.base)
  PROVE  Tasked'
<1>1. reconciler.busy => Rev(reconciler.head, reconciler.base) \in rIds' \cap pjEvents'
  <2>1. CASE reconciler = Nothing
    BY <2>1, NothingFacts
  <2>2. CASE Enrolled(rev.base)
    <3>1. reconciler.busy => Rev(reconciler.head, reconciler.base) # rev
      BY <2>2 DEF Tasked, Rev
    <3> QED BY <3>1 DEF Tasked
  <2> QED BY <2>1, <2>2
<1> QED BY <1>1 DEF Tasked, Enrolled

LEMMA ReconcilerRests ==
  ASSUME Tasked, UNCHANGED <<scenario, handler, cwIds>>, reconciler' = Nothing
  PROVE  Tasked'
BY NothingFacts DEF Tasked

LEMMA ReconcilerClaims ==
  ASSUME Tasked, UNCHANGED <<scenario, handler, cwIds, pjEvents>>, NEW rev \in Revision,
         rev \in pjEvents, ~Enrolled(rev.base), rIds' = rIds \cup {rev},
         reconciler' = [Nothing EXCEPT !.busy = TRUE, !.head = rev.head, !.base = rev.base,
                                       !.mode = "delta"]
  PROVE  Tasked' /\ reconciler'.head = rev.head
<1>1. rev.head \in Commit /\ rev.base \in Base /\ rev = Rev(rev.head, rev.base)
  BY DEF Revision, Rev
<1>2. /\ reconciler' \in Task
      /\ reconciler'.busy /\ reconciler'.head = rev.head /\ reconciler'.base = rev.base
  BY <1>1 DEF Nothing, Task
<1>3. \A t \in {handler', reconciler'} :
        t \in Task /\ (t = Nothing \/ (t.busy /\ t.head \in Commit /\ t.base \in Base))
  BY <1>1, <1>2 DEF Tasked
<1>4. handler'.guard => Rev(handler'.head, handler'.base) \in cwIds'
  BY DEF Tasked
<1>5. /\ Rev(reconciler'.head, reconciler'.base) \in rIds' \cap pjEvents'
      /\ reconciler'.base \notin scenario'.enrolled
  BY <1>1, <1>2 DEF Enrolled
<1> QED BY <1>2, <1>3, <1>4, <1>5 DEF Tasked, Enrolled

\* A step of the reconciler that does nothing to GitHub.
LEMMA ReconcilerFrame ==
  ASSUME Sound, UNCHANGED <<scenario, github, listed, first, events, handler, cwIds, now>>, Unheeded,
         used' \in [Moves -> Nat], pjEvents' \subseteq pjEvents, rIds' \subseteq Revision,
         closed' \in {"unknown", "open", "closed"}, Tasked', reconciler'.head <= pr.head
  PROVE  Sound'
<1>1. UNCHANGED <<pr, gates, contexts, requested>>
  BY DEF github
<1>2. GateStep(pr.head) /\ RequestStep
  BY <1>1, GateRest, RequestRest, SoundFacts
<1>3. GitHubTyped
  BY <1>1, SoundFacts DEF GitHubTyped
<1> QED BY <1>2, <1>3, SoundFacts, HookFrame

LEMMA ReconcileSound ==
  ASSUME Sound, NEW rev \in Revision, Reconcile(rev), Unheeded
  PROVE  Sound'
<1>1. /\ UNCHANGED <<scenario, github, listed, first, events, handler, cwIds, now, used>>
      /\ reconciler = Nothing /\ rev \in pjEvents /\ ~Enrolled(rev.base)
      /\ closed' \in {closed, "open", "closed"}
      /\ \/ pjEvents' = pjEvents \ {rev} /\ UNCHANGED <<rIds, reconciler>>
         \/ /\ rIds' = rIds \cup {rev}
            /\ reconciler' = [Nothing EXCEPT !.busy = TRUE, !.head = rev.head, !.base = rev.base,
                                             !.mode = "delta"]
            /\ UNCHANGED pjEvents
  BY DEF Reconcile, Takes
<1>2. Tasked /\ rev.head <= pr.head
  BY <1>1, SoundFacts DEF Pushed
<1>3. /\ used' \in [Moves -> Nat] /\ closed' \in {"unknown", "open", "closed"}
      /\ pjEvents' \subseteq pjEvents /\ rIds' \subseteq Revision
  BY <1>1, SoundFacts
<1>4. Tasked' /\ reconciler'.head <= pr.head
  <2>1. CASE pjEvents' = pjEvents \ {rev} /\ UNCHANGED <<rIds, reconciler>>
    BY <1>1, <1>2, <2>1, ReconcilerKeeps, SoundFacts
  <2>2. CASE /\ rIds' = rIds \cup {rev}
             /\ reconciler' = [Nothing EXCEPT !.busy = TRUE, !.head = rev.head, !.base = rev.base,
                                              !.mode = "delta"]
             /\ UNCHANGED pjEvents
    BY <1>1, <1>2, <2>2, ReconcilerClaims
  <2> QED BY <1>1, <2>1, <2>2
<1> QED BY <1>1, <1>3, <1>4, ReconcilerFrame

LEMMA ReconcileFailsSound ==
  ASSUME Sound, NEW rev \in Revision, ReconcileFails(rev), Unheeded
  PROVE  Sound'
<1>1. /\ UNCHANGED <<scenario, github, listed, first, events, handler, cwIds, reconciler, rIds,
                     closed, now>>
      /\ reconciler = Nothing /\ pjEvents' = pjEvents \ {rev} /\ Spend("fault")
  BY DEF ReconcileFails, Takes, hooks, loop
<1>2. "fault" \in Moves
  BY DEF Moves
<1>3. /\ used' \in [Moves -> Nat] /\ closed' \in {"unknown", "open", "closed"}
      /\ pjEvents' \subseteq pjEvents /\ rIds' \subseteq Revision /\ reconciler'.head <= pr.head
  BY <1>1, <1>2, SpendFacts, SoundFacts
<1>4. Tasked'
  BY <1>1, ReconcilerKeeps, SoundFacts
<1> QED BY <1>1, <1>3, <1>4, ReconcilerFrame

LEMMA ReconcileAgenticSound ==
  ASSUME Sound, NEW rev \in Revision, ReconcileAgentic(rev)
  PROVE  Sound'
<1>1. /\ UNCHANGED <<scenario, github, listed, first, events, handler, cwIds, reconciler, rIds,
                     closed, now, used>>
      /\ Unheeded /\ Enrolled(rev.base) /\ pjEvents' = pjEvents \ {rev}
  BY DEF ReconcileAgentic, hooks, loop, unaware, Unheeded
<1>2. /\ used' \in [Moves -> Nat] /\ closed' \in {"unknown", "open", "closed"}
      /\ pjEvents' \subseteq pjEvents /\ rIds' \subseteq Revision /\ reconciler'.head <= pr.head
  BY <1>1, SoundFacts
<1>3. Tasked'
  BY <1>1, ReconcilerKeeps, SoundFacts
<1> QED BY <1>1, <1>2, <1>3, ReconcilerFrame

LEMMA ReconcilerSendsSound ==
  ASSUME Sound, ReconcilerSends, Unheeded
  PROVE  Sound'
<1> DEFINE rev == Rev(reconciler.head, reconciler.base)
<1>1. PICK ok \in BOOLEAN :
        /\ Costs(ok)
        /\ IF ok THEN Dispatches(rev, "delta", FALSE) ELSE DispatchFails(rev, "delta", FALSE)
        /\ rIds' \subseteq rIds /\ pjEvents' \subseteq pjEvents
  BY DEF ReconcilerSends, Released
<1>2. /\ UNCHANGED <<scenario, pr, listed, first, events, handler, cwIds, closed, now>>
      /\ reconciler' = Nothing /\ reconciler.busy
  BY DEF ReconcilerSends, hooks
<1>3. Tasked /\ GitHub /\ ListedAsked
  BY SoundFacts
<1>4. rev \in Revision /\ rev.head = reconciler.head /\ rev.head \in Commit /\ rev.head <= pr.head
  <2>1. reconciler.head \in Commit /\ reconciler.base \in Base
    BY <1>2, <1>3, NothingFacts DEF Tasked
  <2> QED BY <2>1, RevFacts, SoundFacts
<1> HIDE DEF rev
<1>5. GateStep(rev.head) /\ RequestStep
  BY <1>1, <1>3, <1>4, DispatchesStep, DispatchFailsStep
<1>6. Tasked' /\ reconciler'.head <= pr.head
  BY <1>2, <1>3, ReconcilerRests, NothingFacts, SoundFacts
<1>7. GitHubTyped
  BY <1>2, SoundFacts DEF GitHubTyped
<1>8. /\ used' \in [Moves -> Nat] /\ cwIds' \subseteq Revision /\ rIds' \subseteq Revision
      /\ closed' \in {"unknown", "open", "closed"} /\ events' \subseteq events
      /\ pjEvents' \subseteq pjEvents /\ handler'.head <= pr.head
  BY <1>1, <1>2, CostsFacts, SoundFacts
<1> QED BY <1>2, <1>4, <1>5, <1>6, <1>7, <1>8, HookFrame

LEMMA ReconcilerSound ==
  ASSUME Sound, Reconciler
  PROVE  Sound'
<1>1. Elsewhere => Unheeded
  BY DEF Elsewhere, Unheeded
<1> QED BY <1>1, ReconcilerSendsSound, ReconcileSound, ReconcileFailsSound, ReconcileAgenticSound
        DEF Reconciler

-----------------------------------------------------------------------------
(* Comments that the worker gets.                                            *)

LEMMA RoutedSound ==
  ASSUME Sound, NEW e \in events, e.kind = "comment", Routed(e),
         UNCHANGED <<scenario, github, prow, handler, cwIds, loop, now, s, worker, completed,
                     traditionally>>,
         used' \in [Moves -> Nat]
  PROVE  Sound'
<1> DEFINE c == [id |-> e.id, by |-> e.by, cmd |-> e.cmd, head |-> e.head, at |-> e.at]
<1>1. UNCHANGED <<pr, gates, contexts, requested, listed, first, pjEvents, reconciler, rIds, closed>>
  BY DEF github, prow, loop
<1>2. events' \subseteq events /\ inbox' = Append(inbox, c)
  BY DEF Routed
<1>3. c \in Comment
  <2>1. e \in Event
    BY DEF Sound, Setting
  <2>2. /\ e.id \in Nat /\ e.by \in Person /\ e.cmd \in Command /\ e.head \in Commit \cup {0}
        /\ e.at \in Nat
    BY <2>1 DEF Event
  <2> QED BY <2>2 DEF Comment
<1> HIDE DEF c
<1>4. inbox \in Seq(Comment)
  BY DEF Sound, Mind
<1>5. /\ inbox' \in Seq(Comment) /\ inbox' # <<>>
      /\ inbox # <<>> => Head(inbox') = Head(inbox)
  BY <1>2, <1>3, <1>4
<1>6. Remembers(s, gates)' /\ Attends(worker, s, inbox)'
  <2>1. Remembers(s, gates) /\ Attends(worker, s, inbox)
    BY DEF Sound, Mind
  <2>2. s' = s /\ gates' = gates /\ worker' = worker /\ scenario' = scenario
    BY <1>1
  <2>3. Attends(worker, s, inbox)'
    BY <1>5, <2>1, <2>2 DEF Attends, Enrolled, TraditionalMode
  <2>4. Remembers(s, gates)'
    BY <2>1, <2>2 DEF Remembers, TraditionalMode
  <2> QED BY <2>3, <2>4
<1>7. Mind'
  BY <1>5, <1>6 DEF Sound, Mind
<1>8. GateStep(pr.head) /\ RequestStep /\ GitHubTyped
  BY <1>1, GateRest, RequestRest, SoundFacts DEF GitHubTyped
<1>9. Tasked' /\ Histories'
  BY <1>1 DEF Sound, Tasked, Histories, Enrolled
<1>10. /\ cwIds' \subseteq Revision /\ rIds' \subseteq Revision /\ pjEvents' \subseteq pjEvents
       /\ closed' \in {"unknown", "open", "closed"}
       /\ handler'.head <= pr.head /\ reconciler'.head <= pr.head /\ worker'.head <= pr.head
  BY <1>1, SoundFacts
<1> QED BY <1>1, <1>2, <1>7, <1>8, <1>9, <1>10, SoundFacts, StepFrame

LEMMA RoutesSound ==
  ASSUME Sound, Routes
  PROVE  Sound'
<1>1. PICK e \in events : Route(e) \/ RouteUnsure(e)
  BY DEF Routes
<1>2. /\ e.kind = "comment" /\ Routed(e)
      /\ UNCHANGED <<scenario, github, prow, handler, cwIds, loop, now, s, worker, completed,
                     traditionally>>
      /\ UNCHANGED used \/ Spend("fault")
  BY <1>1 DEF Route, RouteUnsure, IsComment
<1>3. "fault" \in Moves
  BY DEF Moves
<1>4. used' \in [Moves -> Nat]
  BY <1>2, <1>3, SoundFacts, SpendFacts
<1> QED BY <1>2, <1>4, RoutedSound

-----------------------------------------------------------------------------
(* People.                                                                   *)

LEMMA PersonFrame ==
  ASSUME Sound, UNCHANGED <<idle, unaware, prow, now>>,
         pr' \in [head : Commit, base : Base, draft : BOOLEAN, labels : SUBSET Label],
         pr'.head >= pr.head, RequestStep, used' \in [Moves -> Nat], events' \subseteq Event,
         \A e \in events' : e \in events \/ e.rev.head <= pr'.head
  PROVE  Sound'
<1>1. /\ UNCHANGED <<scenario, gates, contexts, handler, reconciler, cwIds, rIds, closed>>
      /\ UNCHANGED <<s, worker, inbox, completed, traditionally>>
      /\ UNCHANGED <<listed, first, pjEvents, now>>
  BY DEF idle, unaware, prow
<1>2. GitHub /\ Pushed /\ ListedAsked /\ Truthful /\ Mind
  BY DEF Sound, Setting
<1>3. GateStep(pr.head)
  BY <1>1, <1>2, GateRest
<1>4. Setting'
  BY <1>1, <1>3 DEF Sound, Setting, GitHub, RequestStep, GateStep
<1>5. pr.head \in Nat /\ pr'.head \in Commit /\ pr'.head \in Nat
  BY <1>2, HeadFacts, DispatchAssumption
<1>6. Pushed'
  <2>1. \A k \in Nat : k <= pr.head => k <= pr'.head
    BY <1>5
  <2>2. \A e \in events : e.rev.head \in Nat
    <3>1. \A e \in events : e \in Event
      BY DEF Sound, Setting
    <3>2. \A e \in events : e.rev.head \in Commit
      BY <3>1 DEF Event, Revision
    <3> QED BY <3>2, DispatchAssumption
  <2>3. \A e \in events' : e.rev.head <= pr'.head
    BY <1>2, <2>1, <2>2 DEF Pushed
  <2>4. \A r \in Revision : r.head \in Nat
    BY DispatchAssumption DEF Revision
  <2>5. \A r \in pjEvents' : r.head <= pr'.head
    BY <1>1, <1>2, <2>1, <2>4 DEF Sound, Setting, Pushed
  <2>6. \A r \in Revision : requested'[r] # {} \/ first'[r] => r.head <= pr.head
    BY <1>1, <1>2, HeadFacts DEF RequestStep, Pushed
  <2>7. \A r \in Revision : requested'[r] # {} \/ first'[r] => r.head <= pr'.head
    BY <2>1, <2>4, <2>6
  <2>8. handler.head \in Nat /\ reconciler.head \in Nat /\ worker.head \in Nat
    <3>1. handler \in Task /\ reconciler \in Task /\ worker \in Attending
      BY DEF Sound, Tasked, Mind
    <3>2. handler.head \in Commit \cup {0} /\ reconciler.head \in Commit \cup {0}
      BY <3>1 DEF Task
    <3>3. worker.head \in Commit \cup {0}
      BY <3>1 DEF Attending
    <3>4. \A k \in Commit : k \in Nat
      BY DispatchAssumption
    <3>5. \A k \in Commit \cup {0} : k \in Nat
      BY <3>4
    <3> QED BY <3>2, <3>3, <3>5
  <2>9. handler'.head <= pr'.head /\ reconciler'.head <= pr'.head /\ worker'.head <= pr'.head
    BY <1>1, <1>2, <2>1, <2>8 DEF Pushed
  <2> QED BY <2>3, <2>5, <2>7, <2>9 DEF Pushed
<1>7. Tasked' /\ Histories'
  BY <1>1 DEF Sound, Tasked, Histories, Enrolled
<1>8. ListedAsked'
  BY <1>1, <1>2, ListedKept
<1>9. Mind'
  BY <1>1, <1>2, <1>3, MindKept
<1>10. Truthful'
  BY <1>1, <1>2, <1>3, <1>5, HeadFacts, TruthKept
<1> QED BY <1>4, <1>6, <1>7, <1>8, <1>9, <1>10 DEF Sound

\* What GitHub reports is about the pull request as it is then.
LEMMA ReportsFacts ==
  ASSUME Sound, NEW kinds \in SUBSET {"push", "lgtm"}, Reports(kinds),
         pr' \in [head : Commit, base : Base, draft : BOOLEAN, labels : SUBSET Label]
  PROVE  /\ events' \subseteq Event
         /\ \A e \in events' : e \in events \/ e.rev.head <= pr'.head
<1>1. pr'.head \in Commit /\ pr'.base \in Base /\ pr'.labels \in SUBSET Label
  OBVIOUS
<1>2. Rev(pr'.head, pr'.base) \in Revision /\ Rev(pr'.head, pr'.base).head = pr'.head
  BY <1>1, RevFacts
<1>3. pr'.head <= pr'.head
  <2>1. pr'.head \in Nat
    BY <1>1, DispatchAssumption
  <2> QED BY <2>1
<1>4. ASSUME NEW e \in events', e \notin events
      PROVE  e \in Event /\ e.rev.head <= pr'.head
  <2>1. PICK k \in kinds :
          e = [kind |-> k, rev |-> Rev(pr'.head, pr'.base), labels |-> pr'.labels]
    BY <1>4 DEF Reports
  <2> QED BY <1>1, <1>2, <1>3, <2>1 DEF Event
<1> QED BY <1>4 DEF Sound, Setting

LEMMA MoveFrame ==
  ASSUME Sound, UNCHANGED <<idle, unaware, requested, prow, now>>, NEW m \in Moves, Spend(m),
         pr' \in [head : Commit, base : Base, draft : BOOLEAN, labels : SUBSET Label],
         pr'.head >= pr.head, NEW kinds \in SUBSET {"push", "lgtm"}, Reports(kinds)
  PROVE  Sound'
<1>1. UNCHANGED <<contexts, requested>>
  BY DEF idle
<1>2. RequestStep
  BY <1>1, RequestRest, SoundFacts
<1>3. used' \in [Moves -> Nat]
  BY SpendFacts, SoundFacts
<1>4. /\ events' \subseteq Event
      /\ \A e \in events' : e \in events \/ e.rev.head <= pr'.head
  BY ReportsFacts
<1> QED BY <1>2, <1>3, <1>4, PersonFrame

LEMMA MovesFacts ==
  Moves = {"push", "retarget", "label", "unlabel", "draft", "test", "rerun", "comment", "fault",
           "restart", "tick", "day"}
BY DEF Moves

LEMMA PushSound ==
  ASSUME Sound, Push
  PROVE  Sound'
<1>1. PICK h \in Commit : h > pr.head /\ pr' = [pr EXCEPT !.head = h]
  BY DEF Push
<1>2. pr \in [head : Commit, base : Base, draft : BOOLEAN, labels : SUBSET Label]
  BY SoundFacts
<1>3. pr' \in [head : Commit, base : Base, draft : BOOLEAN, labels : SUBSET Label] /\ pr'.head = h
  BY <1>1, <1>2
<1>4. pr'.head >= pr.head
  <2>1. h \in Nat /\ pr.head \in Nat
    BY SoundFacts, DispatchAssumption
  <2> QED BY <1>1, <1>3, <2>1
<1>5. "push" \in Moves /\ {"push"} \in SUBSET {"push", "lgtm"}
  BY DEF Moves
<1> QED BY <1>3, <1>4, <1>5, MoveFrame DEF Push

LEMMA SameHead ==
  ASSUME Sound, pr'.head = pr.head
  PROVE  pr'.head >= pr.head
BY SoundFacts, DispatchAssumption

LEMMA RetargetSound ==
  ASSUME Sound, Retarget
  PROVE  Sound'
<1>1. PICK b \in Base : pr' = [pr EXCEPT !.base = b]
  BY DEF Retarget
<1>2. /\ pr' \in [head : Commit, base : Base, draft : BOOLEAN, labels : SUBSET Label]
      /\ pr'.head = pr.head
  BY <1>1, SoundFacts
<1>3. "retarget" \in Moves /\ {} \in SUBSET {"push", "lgtm"}
  BY DEF Moves
<1> QED BY <1>2, <1>3, SameHead, MoveFrame DEF Retarget

LEMMA AddLabelSound ==
  ASSUME Sound, AddLabel
  PROVE  Sound'
<1>1. PICK l \in scenario.labels \ pr.labels :
        /\ pr' = [pr EXCEPT !.labels = @ \cup {l}]
        /\ Reports(IF l = "lgtm" THEN {"lgtm"} ELSE {})
  BY DEF AddLabel
<1>2. l \in Label
  BY DispatchAssumption DEF Sound, Setting
<1>3. /\ pr' \in [head : Commit, base : Base, draft : BOOLEAN, labels : SUBSET Label]
      /\ pr'.head = pr.head
  BY <1>1, <1>2, SoundFacts
<1>4. "label" \in Moves /\ (IF l = "lgtm" THEN {"lgtm"} ELSE {}) \in SUBSET {"push", "lgtm"}
  BY DEF Moves
<1>5. Spend("label") /\ UNCHANGED <<idle, unaware, requested, prow, now>>
  BY DEF AddLabel
<1> QED BY <1>1, <1>3, <1>4, <1>5, SameHead, MoveFrame

LEMMA RemoveLabelSound ==
  ASSUME Sound, RemoveLabel
  PROVE  Sound'
<1>1. PICK l \in scenario.labels : pr' = [pr EXCEPT !.labels = @ \ {l}]
  BY DEF RemoveLabel
<1>2. /\ pr' \in [head : Commit, base : Base, draft : BOOLEAN, labels : SUBSET Label]
      /\ pr'.head = pr.head
  BY <1>1, SoundFacts
<1>3. "unlabel" \in Moves /\ {} \in SUBSET {"push", "lgtm"}
  BY DEF Moves
<1> QED BY <1>2, <1>3, SameHead, MoveFrame DEF RemoveLabel

LEMMA ToggleDraftSound ==
  ASSUME Sound, ToggleDraft
  PROVE  Sound'
<1>1. pr' = [pr EXCEPT !.draft = ~@] /\ Reports(IF pr.draft THEN {"push"} ELSE {})
  BY DEF ToggleDraft
<1>2. /\ pr' \in [head : Commit, base : Base, draft : BOOLEAN, labels : SUBSET Label]
      /\ pr'.head = pr.head
  BY <1>1, SoundFacts
<1>3. "draft" \in Moves /\ (IF pr.draft THEN {"push"} ELSE {}) \in SUBSET {"push", "lgtm"}
  BY DEF Moves
<1>4. Spend("draft") /\ UNCHANGED <<idle, unaware, requested, prow, now>>
  BY DEF ToggleDraft
<1> QED BY <1>1, <1>2, <1>3, <1>4, SameHead, MoveFrame

LEMMA CommentsSound ==
  ASSUME Sound, Comments
  PROVE  Sound'
<1>1. PICK t \in scenario.talk :
        events' = events \cup
          {[kind |-> "comment", rev |-> Current, labels |-> {}, by |-> t[1], cmd |-> t[2],
            head |-> IF t[3] THEN pr.head ELSE 0, id |-> used["comment"] + 1, at |-> now]}
  BY DEF Comments
<1> DEFINE head == IF t[3] THEN pr.head ELSE 0
           id == used["comment"] + 1
           e == [kind |-> "comment", rev |-> Current, labels |-> {}, by |-> t[1], cmd |-> t[2],
                 head |-> head, id |-> id, at |-> now]
<1>2. t[1] \in Person /\ t[2] \in Command
  <2>1. scenario.talk \subseteq {"user", "chai", "stranger"} \X Command \X BOOLEAN
    BY DispatchAssumption DEF Sound, Setting
  <2> QED BY <2>1 DEF Person
<1>3. head \in Commit \cup {0} /\ now \in Nat
  BY SoundFacts DEF Sound, Setting
<1>4. id \in Nat
  <2>1. used["comment"] \in Nat
    BY SoundFacts DEF Moves
  <2> QED BY <2>1
<1>5. Current \in Revision /\ Current.head = pr.head
  BY SoundFacts, CurrentFacts
<1> HIDE DEF head, id
<1>6. e \in Event /\ e.rev = Current
  BY <1>2, <1>3, <1>4, <1>5 DEF Event
<1>7. events' = events \cup {e}
  BY <1>1 DEF head, id
<1> HIDE DEF e
<1>8. events' \subseteq Event
  BY <1>6, <1>7 DEF Sound, Setting
<1>9. UNCHANGED pr /\ UNCHANGED <<idle, unaware, requested, prow, now>> /\ Spend("comment")
  BY DEF Comments
<1>10. \A x \in events' : x \in events \/ x.rev.head <= pr'.head
  BY <1>5, <1>6, <1>7, <1>9, SoundFacts
<1>11. UNCHANGED <<contexts, requested>> /\ "comment" \in Moves
  BY <1>9 DEF idle, Moves
<1>12. RequestStep /\ used' \in [Moves -> Nat]
  BY <1>9, <1>11, RequestRest, SpendFacts, SoundFacts
<1>13. pr'.head >= pr.head
         /\ pr' \in [head : Commit, base : Base, draft : BOOLEAN, labels : SUBSET Label]
  BY <1>9, SameHead, SoundFacts
<1> QED BY <1>8, <1>9, <1>10, <1>12, <1>13, PersonFrame

LEMMA TestsSound ==
  ASSUME Sound, Tests
  PROVE  Sound'
<1>1. PICK j \in SecondStage : requested' = [requested EXCEPT ![Current] = @ \cup {j}]
  BY DEF Tests
<1>2. Posted({j}) /\ {j} \in SUBSET SecondStage
  BY <1>1 DEF Posted
<1>3. UNCHANGED <<idle, unaware, prow, now>> /\ UNCHANGED <<pr, events>> /\ Spend("test")
  BY DEF Tests
<1>4. contexts' = contexts /\ "test" \in Moves
  BY <1>3 DEF idle, Moves
<1>5. RequestStep
  BY <1>2, <1>4, PostedStep, SoundFacts DEF RequestStep, GitHub
<1>6. used' \in [Moves -> Nat]
  BY <1>3, <1>4, SpendFacts, SoundFacts
<1>7. pr'.head >= pr.head
        /\ pr' \in [head : Commit, base : Base, draft : BOOLEAN, labels : SUBSET Label]
  BY <1>3, SameHead, SoundFacts
<1>8. events' \subseteq Event /\ \A e \in events' : e \in events \/ e.rev.head <= pr'.head
  BY <1>3 DEF Sound, Setting
<1> QED BY <1>3, <1>5, <1>6, <1>7, <1>8, PersonFrame

LEMMA PeopleSound ==
  ASSUME Sound, People
  PROVE  Sound'
BY PushSound, RetargetSound, AddLabelSound, RemoveLabelSound, ToggleDraftSound, CommentsSound,
   TestsSound DEF People
-----------------------------------------------------------------------------
(* Prow, time, and a new process.                                            *)

LEMMA AroundFrame ==
  ASSUME Sound, UNCHANGED <<scenario, github, events, handler, cwIds, reconciler, rIds, closed, unaware>>,
         listed' \in [Revision -> SUBSET SecondStage], first' \in [Revision -> BOOLEAN],
         \A r \in Revision : listed'[r] \subseteq requested[r],
         \A r \in Revision : first'[r] => first[r] \/ r.head <= pr.head,
         pjEvents' \subseteq Revision, pjEvents \subseteq pjEvents',
         \A r \in pjEvents' : r \in pjEvents \/ r.head <= pr.head,
         now' \in Nat \ {0}, used' \in [Moves -> Nat]
  PROVE  Sound'
<1>1. UNCHANGED <<pr, gates, contexts, requested>> /\ UNCHANGED <<s, worker, inbox, completed, traditionally>>
  BY DEF github, unaware
<1>2. GitHub /\ Pushed /\ Truthful /\ Mind
  BY DEF Sound, Setting
<1>3. GateStep(pr.head) /\ RequestStep
  BY <1>1, <1>2, GateRest, RequestRest
<1>4. Setting'
  BY <1>1 DEF Sound, Setting, GitHub
<1>5. Pushed'
  BY <1>1, <1>2 DEF Pushed
<1>6. Tasked' /\ Histories' /\ ListedAsked'
  BY <1>1 DEF Sound, Tasked, Histories, Enrolled, ListedAsked
<1>7. Mind'
  BY <1>1, <1>2, <1>3, MindKept
<1>8. Truthful'
  BY <1>1, <1>2, <1>3, SoundFacts, TruthKept
<1> QED BY <1>4, <1>5, <1>6, <1>7, <1>8 DEF Sound

LEMMA FirstSound ==
  ASSUME Sound, FirstPasses \/ FirstReruns
  PROVE  Sound'
<1>1. PICK value \in BOOLEAN : first' = [first EXCEPT ![Current] = value]
  BY DEF FirstPasses, FirstReruns
<1>2. /\ UNCHANGED <<scenario, github, events, handler, cwIds, reconciler, rIds, closed, unaware>>
      /\ UNCHANGED <<listed, now>> /\ pjEvents' = pjEvents \cup {Current}
      /\ UNCHANGED used \/ Spend("rerun")
  BY DEF FirstPasses, FirstReruns, hooks, loop, agenticVars, unaware
<1>3. Current \in Revision /\ Current.head <= pr.head
  BY SoundFacts, CurrentFacts
<1>4. "rerun" \in Moves
  BY DEF Moves
<1>5. used' \in [Moves -> Nat]
  BY <1>2, <1>4, SpendFacts, SoundFacts
<1>6. first \in [Revision -> BOOLEAN] /\ listed' \in [Revision -> SUBSET SecondStage]
      /\ now' \in Nat \ {0} /\ pjEvents \subseteq Revision
  BY <1>2 DEF Sound, Setting
<1>7. /\ first' \in [Revision -> BOOLEAN]
      /\ \A r \in Revision : first'[r] => first[r] \/ r.head <= pr.head
  BY <1>1, <1>3, <1>6
<1>8. \A r \in Revision : listed'[r] \subseteq requested[r]
  BY <1>2 DEF Sound, ListedAsked
<1>9. /\ pjEvents' \subseteq Revision /\ pjEvents \subseteq pjEvents'
      /\ \A r \in pjEvents' : r \in pjEvents \/ r.head <= pr.head
  BY <1>2, <1>3, <1>6
<1> QED BY <1>2, <1>5, <1>6, <1>7, <1>8, <1>9, AroundFrame

LEMMA TickSound ==
  ASSUME Sound, Tick
  PROVE  Sound'
<1>1. /\ UNCHANGED <<scenario, github, events, handler, cwIds, reconciler, rIds, closed, unaware>>
      /\ UNCHANGED <<listed, first, pjEvents>> /\ now' = now + 1
      /\ UNCHANGED used \/ Spend("tick")
  BY DEF Tick, prow, hooks, loop, agenticVars, unaware
<1>2. "tick" \in Moves
  BY DEF Moves
<1>3. used' \in [Moves -> Nat]
  BY <1>1, <1>2, SpendFacts, SoundFacts
<1>4. now \in Nat \ {0}
  BY DEF Sound, Setting
<1>5. now' \in Nat \ {0}
  BY <1>1, <1>4
<1>6. listed' \in [Revision -> SUBSET SecondStage] /\ first' \in [Revision -> BOOLEAN]
      /\ pjEvents' \subseteq Revision
  BY <1>1 DEF Sound, Setting
<1>7. \A r \in Revision : listed'[r] \subseteq requested[r]
  BY <1>1 DEF Sound, ListedAsked
<1> QED BY <1>1, <1>3, <1>5, <1>6, <1>7, AroundFrame

LEMMA JobsListedSound ==
  ASSUME Sound, NEW rev \in Revision, JobsListed(rev)
  PROVE  Sound'
<1>1. /\ UNCHANGED <<scenario, github, events, handler, cwIds, reconciler, rIds, closed, unaware>>
      /\ UNCHANGED <<first, now, used>>
      /\ listed' = [listed EXCEPT ![rev] = requested[rev]] /\ listed[rev] # requested[rev]
      /\ pjEvents' = pjEvents \/ pjEvents' = pjEvents \cup {rev}
  BY DEF JobsListed, hooks, loop, agenticVars, unaware
<1>2. /\ listed \in [Revision -> SUBSET SecondStage] /\ first' \in [Revision -> BOOLEAN]
      /\ requested \in [Revision -> SUBSET SecondStage]
      /\ pjEvents \subseteq Revision /\ now' \in Nat \ {0} /\ used' \in [Moves -> Nat]
  BY <1>1 DEF Sound, Setting, GitHub
<1>3. /\ listed' \in [Revision -> SUBSET SecondStage]
      /\ \A r \in Revision : listed'[r] = IF r = rev THEN requested[r] ELSE listed[r]
  BY <1>1, <1>2
<1>4. \A r \in Revision : listed[r] \subseteq requested[r]
  BY DEF Sound, ListedAsked
<1>5. \A r \in Revision : listed'[r] \subseteq requested[r]
  BY <1>3, <1>4
<1>6. rev.head <= pr.head
  <2>1. requested[rev] # {}
    BY <1>1, <1>4
  <2> QED BY <2>1 DEF Sound, Pushed
<1>7. /\ pjEvents' \subseteq Revision /\ pjEvents \subseteq pjEvents'
      /\ \A r \in pjEvents' : r \in pjEvents \/ r.head <= pr.head
  BY <1>1, <1>2, <1>6
<1> QED BY <1>1, <1>2, <1>3, <1>5, <1>7, AroundFrame

LEMMA DaySound ==
  ASSUME Sound, Day
  PROVE  Sound'
<1>1. /\ UNCHANGED <<scenario, pr, gates, contexts, requested, listed, first, pjEvents, events,
                     handler, reconciler, now>>
      /\ Unheeded
      /\ Spend("day") /\ closed' = "unknown"
      /\ cwIds' = IF handler.guard THEN cwIds \cap {Rev(handler.head, handler.base)} ELSE {}
      /\ rIds' = IF reconciler.busy THEN rIds \cap {Rev(reconciler.head, reconciler.base)} ELSE {}
  BY DEF Day, github, prow, agenticVars, Unheeded
<1>2. "day" \in Moves
  BY DEF Moves
<1>3. GateStep(pr.head) /\ RequestStep /\ GitHubTyped
  BY <1>1, GateRest, RequestRest, SoundFacts DEF GitHubTyped
<1>4. used' \in [Moves -> Nat]
  BY <1>1, <1>2, SpendFacts, SoundFacts
<1>5. cwIds' \subseteq Revision /\ rIds' \subseteq Revision
  BY <1>1, SoundFacts
<1>6. Tasked'
  <2>1. handler'.guard => Rev(handler'.head, handler'.base) \in cwIds'
    BY <1>1 DEF Sound, Tasked
  <2>2. reconciler'.busy => Rev(reconciler'.head, reconciler'.base) \in rIds' \cap pjEvents'
    BY <1>1 DEF Sound, Tasked
  <2> QED BY <1>1, <2>1, <2>2 DEF Sound, Tasked, Enrolled
<1> QED BY <1>1, <1>3, <1>4, <1>5, <1>6, SoundFacts, HookFrame

LEMMA StartFacts ==
  /\ NoState \in AgenticState /\ Sleeping \in Attending /\ <<>> \in Seq(Comment)
  /\ Sleeping.head = 0 /\ Sleeping.pc = "idle"
  /\ \A gs : Remembers(NoState, gs)
<1>1. NoComment \in Comment
  BY DEF NoComment, Comment
<1>2. Sleeping \in Attending /\ Sleeping.head = 0 /\ Sleeping.pc = "idle"
  BY <1>1 DEF Sleeping, Attending
<1>3. "" \in Title
  BY DEF Title
<1>4. NoState \in AgenticState
  BY <1>3 DEF NoState, AgenticState
<1>5. ASSUME NEW gs PROVE Remembers(NoState, gs)
  BY DEF Remembers, NoState
<1> QED BY <1>2, <1>4, <1>5

LEMMA RestartSound ==
  ASSUME Sound, Restart
  PROVE  Sound'
<1>1. /\ UNCHANGED <<scenario, pr, gates, contexts, requested, first, now, completed, traditionally>>
      /\ Spend("restart") /\ events' \subseteq events
      /\ pjEvents' = {r \in Revision : ~Enrolled(r.base) /\ (first[r] \/ requested[r] # {})}
      /\ listed' = requested
      /\ handler' = Nothing /\ reconciler' = Nothing /\ cwIds' = {} /\ rIds' = {}
      /\ closed' = "unknown"
      /\ s' = NoState /\ worker' = Sleeping /\ inbox' = <<>>
  BY DEF Restart, github
<1>2. "restart" \in Moves
  BY DEF Moves
<1>3. used' \in [Moves -> Nat]
  BY <1>1, <1>2, SpendFacts, SoundFacts
<1>4. GitHub /\ Pushed /\ Truthful
  BY DEF Sound, Setting
<1>5. GateStep(pr.head) /\ RequestStep
  BY <1>1, <1>4, GateRest, RequestRest
<1>6. Setting'
  BY <1>1, <1>3 DEF Sound, Setting, GitHub
<1>7. Tasked' /\ Histories'
  BY <1>1, NothingFacts DEF Sound, Tasked, Histories
<1>8. Pushed'
  BY <1>1, <1>4, NothingFacts, StartFacts, SoundFacts DEF Pushed
<1>9. ListedAsked'
  BY <1>1 DEF ListedAsked
<1>10. Truthful'
  BY <1>1, <1>4, <1>5, SoundFacts, TruthKept
<1>11. Mind'
  <2>1. Attends(worker, s, inbox)'
    BY <1>1, StartFacts DEF Attends
  <2>2. Remembers(NoState, gates')
    BY StartFacts
  <2>3. Remembers(s, gates)'
    BY <1>1, <2>2 DEF Remembers, TraditionalMode
  <2> QED BY <1>1, <2>1, <2>3, StartFacts DEF Mind
<1> QED BY <1>6, <1>7, <1>8, <1>9, <1>10, <1>11 DEF Sound

LEMMA AroundSound ==
  ASSUME Sound, Around
  PROVE  Sound'
BY FirstSound, TickSound, DaySound, RestartSound, JobsListedSound DEF Around

-----------------------------------------------------------------------------
(* The worker of the agentic handoff: how a step leaves it.                  *)

\* It is done with the revision, and perhaps with the comment.
Sleeps ==
  /\ worker' = Sleeping
  /\ inbox' = inbox \/ (Heard.id # 0 /\ inbox' = Tail(inbox))

\* What is remembered of the revisions.
LEMMA RecallFacts ==
  ASSUME NEW done, NEW sent, Recall(done, sent)
  PROVE  completed' \subseteq completed \cup done /\ traditionally' \subseteq traditionally \cup sent
BY DEF Recall

LEMMA RecallSame ==
  Recall({}, {}) => completed' \subseteq completed /\ traditionally' \subseteq traditionally
BY DEF Recall

\* It goes on with it.
Goes(pc) ==
  /\ worker' \in Attending /\ worker'.pc = pc
  /\ worker'.head = worker.head /\ worker'.base = worker.base /\ worker'.comment = worker.comment
  /\ inbox' = inbox

LEMMA SleepsFacts ==
  /\ Concluded \/ Succeeds \/ GivesUp \/ Errs => Sleeps
BY DEF Sleeps, Concluded, Succeeds, GivesUp, Errs

Steps == {"command", "act", "timer", "dispatch", "send"}

LEMMA GotoFacts ==
  ASSUME worker \in Attending, NEW pc \in Steps, Goto(pc)
  PROVE  Goes(pc)
<1>1. pc \in {"idle", "prepare", "command", "act", "timer", "dispatch", "send"}
  BY DEF Steps
<1> QED BY <1>1 DEF Goto, Goes, Attending

LEMMA ContinuesFacts ==
  ASSUME worker \in Attending, NEW pc \in Steps, NEW ok \in BOOLEAN, Continues(ok, pc)
  PROVE  (ok => Goes(pc)) /\ (~ok => Sleeps)
BY GotoFacts, SleepsFacts DEF Continues

\* What the worker works on.
LEMMA WorkingFacts ==
  ASSUME Sound, worker.pc # "idle"
  PROVE  /\ worker \in Attending /\ s \in AgenticState /\ inbox \in Seq(Comment)
         /\ worker.head \in Commit /\ worker.base \in Base /\ worker.head <= pr.head
         /\ Snapshot \in Revision /\ Snapshot.head = worker.head
         /\ Live \in Gate(Base) /\ Live = gates[worker.head]
         /\ Heard.id \in Nat
         /\ Remembers(s, gates)
         /\ worker.pc # "prepare" => s.known /\ s.head = worker.head /\ s.base = worker.base
<1>1. Mind /\ GitHub
  BY DEF Sound, Setting
<1>2. /\ worker \in Attending /\ s \in AgenticState /\ inbox \in Seq(Comment)
      /\ worker.head \in Commit /\ worker.base \in Base /\ Remembers(s, gates)
      /\ worker.pc # "prepare" => s.known /\ s.head = worker.head /\ s.base = worker.base
  BY <1>1 DEF Mind, Attends
<1>3. worker.head <= pr.head
  BY DEF Sound, Pushed
<1>4. Snapshot \in Revision /\ Snapshot.head = worker.head
  BY <1>2, RevFacts DEF Snapshot
<1>5. Live \in Gate(Base) /\ Live = gates[worker.head]
  BY <1>1, <1>2 DEF GitHub, Live
<1>6. Heard.id \in Nat
  <2>1. worker.comment \in Comment
    BY <1>2 DEF Attending
  <2> QED BY <2>1 DEF Comment, Heard
<1> QED BY <1>2, <1>3, <1>4, <1>5, <1>6

LEMMA SleepFrame ==
  ASSUME Sound, worker.pc # "idle", UNCHANGED outside, GitHubTyped, GateStep(worker.head),
         RequestStep, used' \in [Moves -> Nat], Histories',
         s' \in AgenticState, Remembers(s', gates'), Sleeps
  PROVE  Sound'
<1>1. inbox' \in Seq(Comment)
  <2>1. inbox \in Seq(Comment) /\ (Heard.id # 0 => inbox # <<>>)
    BY DEF Sound, Mind, Attends, Heard
  <2>2. inbox # <<>> => Tail(inbox) \in Seq(Comment)
    BY <2>1
  <2>3. inbox' = inbox \/ (Heard.id # 0 /\ inbox' = Tail(inbox))
    BY DEF Sleeps
  <2> QED BY <2>1, <2>2, <2>3
<1>2. worker' = Sleeping /\ Sleeping \in Attending /\ Sleeping.head = 0 /\ Sleeping.pc = "idle"
  BY StartFacts DEF Sleeps
<1>3. Attends(worker, s, inbox)'
  BY <1>2 DEF Attends
<1>4. Remembers(s, gates)'
  BY DEF Remembers, TraditionalMode
<1>5. Mind'
  BY <1>1, <1>2, <1>3, <1>4 DEF Mind
<1>6. worker'.head <= pr.head
  BY <1>2, SoundFacts
<1> QED BY <1>5, <1>6, WorkingFacts, WorkerFrame

LEMMA GoFrame ==
  ASSUME Sound, worker.pc # "idle", UNCHANGED outside, GitHubTyped, GateStep(worker.head),
         RequestStep, used' \in [Moves -> Nat], Histories',
         s' \in AgenticState, Remembers(s', gates'), NEW pc \in Steps, Goes(pc),
         s'.known, s'.head = worker.head, s'.base = worker.base,
         pc = "timer" => ~TraditionalMode(s'), pc \in {"dispatch", "send"} => TraditionalMode(s')
  PROVE  Sound'
<1>1. /\ worker' \in Attending /\ worker'.pc = pc /\ inbox' = inbox
      /\ worker'.head = worker.head /\ worker'.base = worker.base /\ worker'.comment = worker.comment
  BY DEF Goes
<1>2. scenario' = scenario
  BY DEF outside
<1>3. Attends(worker, s, inbox)'
  <2>1. /\ worker.head \in Commit /\ worker.base \in Base /\ worker.base \in scenario.enrolled
        /\ worker.comment.id # 0 => inbox # <<>> /\ worker.comment = Head(inbox)
    BY DEF Sound, Mind, Attends, Enrolled
  <2> QED BY <1>1, <1>2, <2>1 DEF Attends, Enrolled, TraditionalMode
<1>4. Remembers(s, gates)'
  BY DEF Remembers, TraditionalMode
<1>5. Mind'
  BY <1>1, <1>3, <1>4 DEF Sound, Mind
<1>6. worker'.head <= pr.head
  BY <1>1, WorkingFacts
<1> QED BY <1>5, <1>6, WorkingFacts, WorkerFrame

-----------------------------------------------------------------------------
(* What the worker remembers afterwards.                                     *)

\* What it may remember of the revision it works on.
Owns(t, gs) ==
  /\ t \in AgenticState /\ Remembers(t, gs)
  /\ t.known /\ t.head = worker.head /\ t.base = worker.base

\* The same, though a command was obeyed or a timer stopped.
Alike(t, u) ==
  /\ u \in AgenticState
  /\ u.known = t.known /\ u.head = t.head /\ u.base = t.base
  /\ u.optOut = t.optOut /\ u.timedOut = t.timedOut /\ u.traditional = t.traditional
  /\ u.ready = t.ready /\ u.dispatched = t.dispatched /\ u.published = t.published
  /\ u.waiting = 0 \/ u.waiting = t.waiting

LEMMA AlikeOwns ==
  ASSUME NEW t, NEW u, NEW gs, Alike(t, u), Owns(t, gs)
  PROVE  Owns(u, gs) /\ (TraditionalMode(u) <=> TraditionalMode(t))
<1>1. TraditionalMode(u) <=> TraditionalMode(t)
  BY DEF Alike, TraditionalMode
<1>2. Remembers(u, gs)
  BY <1>1 DEF Alike, Owns, Remembers
<1> QED BY <1>1, <1>2 DEF Alike, Owns

LEMMA DoneAlike ==
  ASSUME NEW t \in AgenticState, Heard.id \in Nat
  PROVE  Alike(t, Done(t))
<1>1. PICK id \in Nat : id = Heard.id
  OBVIOUS
<1>2. Done(t) = [t EXCEPT !.last = id]
  BY <1>1 DEF Done
<1> QED BY <1>2 DEF Alike, AgenticState

LEMMA StoppedAlike ==
  ASSUME NEW t \in AgenticState
  PROVE  Alike(t, t) /\ Alike(t, [t EXCEPT !.waiting = 0]) /\ Alike(t, Cancelled(t))
<1>1. Alike(t, t)
  BY DEF Alike
<1>2. Alike(t, [t EXCEPT !.waiting = 0])
  BY DEF Alike, AgenticState
<1>3. Alike(t, [t EXCEPT !.waiting = 0, !.answered = TRUE])
  BY DEF Alike, AgenticState
<1>4. Cancelled(t) = t \/ Cancelled(t) = [t EXCEPT !.waiting = 0, !.answered = TRUE]
  BY DEF Cancelled
<1> QED BY <1>1, <1>2, <1>3, <1>4

LEMMA RemembersKept ==
  ASSUME NEW t \in AgenticState, Remembers(t, gates), NEW h, GateStep(h)
  PROVE  Remembers(t, gates')
BY DEF Remembers, GateStep

LEMMA OwnsKept ==
  ASSUME NEW t, Owns(t, gates), NEW h, GateStep(h)
  PROVE  Owns(t, gates')
BY RemembersKept DEF Owns

\* The worker knows its revision, unless it has just begun.
LEMMA OwnsFacts ==
  ASSUME Sound, worker.pc \notin {"idle", "prepare"}
  PROVE  Owns(s, gates)
BY WorkingFacts DEF Owns

LEMMA NewStateOwns ==
  ASSUME Sound, worker.pc # "idle", NEW out \in BOOLEAN
  PROVE  Owns([NewState EXCEPT !.optOut = out], gates)
<1> DEFINE g == Live
           fresh == s.known \/ (g.id # 0 /\ g.base # worker.base)
           here == ~fresh /\ g.id # 0
           traditional == here /\ TraditionalRevisionOwner(g)
           ready == here /\ NativeAgenticReadiness(g)
           dispatched == here /\ Succeeded(g)
           t == [NewState EXCEPT !.optOut = out]
<1>1. g \in Gate(Base) /\ s \in AgenticState /\ worker.head \in Commit /\ worker.base \in Base
  BY WorkingFacts
<1>2. /\ g.title \in Title /\ s.last \in Nat
      /\ fresh \in BOOLEAN /\ traditional \in BOOLEAN /\ ready \in BOOLEAN /\ dispatched \in BOOLEAN
  BY <1>1 DEF Gate, Title, AgenticState
<1>3. dispatched => ready
  BY DEF NativeAgenticReadiness
<1>4. ready => gates[worker.head].id # 0
  BY DEF Live
<1>5. NewState = [NoState EXCEPT
        !.known = TRUE, !.head = worker.head, !.base = worker.base, !.title = g.title,
        !.fresh = fresh, !.last = s.last, !.traditional = traditional, !.ready = ready,
        !.dispatched = dispatched]
  BY DEF NewState
<1> HIDE DEF g, fresh, traditional, ready, dispatched
<1>6. /\ t \in AgenticState
      /\ t.known = TRUE /\ t.head = worker.head /\ t.base = worker.base
      /\ t.ready = ready /\ t.dispatched = dispatched /\ t.waiting = 0
  <2> DEFINE u == [NoState EXCEPT !.known = TRUE, !.head = worker.head, !.base = worker.base,
                                  !.title = g.title, !.fresh = fresh]
             v == [u EXCEPT !.last = s.last, !.traditional = traditional, !.ready = ready,
                            !.dispatched = dispatched]
  <2>1. NoState \in AgenticState /\ NoState.waiting = 0
    BY StartFacts DEF NoState
  <2>2. u \in AgenticState /\ u.waiting = 0
        /\ u.known = TRUE /\ u.head = worker.head /\ u.base = worker.base
    BY <1>1, <1>2, <2>1 DEF AgenticState
  <2>3. NewState = v
    BY <1>5
  <2> HIDE DEF u
  <2>4. v.waiting = 0 /\ v.known = TRUE /\ v.head = worker.head /\ v.base = worker.base
        /\ v.ready = ready /\ v.dispatched = dispatched
    BY <2>2 DEF AgenticState
  <2>5. PICK last \in Nat : last = s.last
    BY <1>2
  <2>6. [u EXCEPT !.last = last] \in AgenticState
    BY <2>2 DEF AgenticState
  <2>7. v = [[u EXCEPT !.last = last] EXCEPT
               !.traditional = traditional, !.ready = ready, !.dispatched = dispatched]
    BY <2>5
  <2> DEFINE w == [u EXCEPT !.last = last]
  <2> HIDE DEF v
  <2>8. /\ w \in AgenticState
        /\ v = [w EXCEPT !.traditional = traditional, !.ready = ready, !.dispatched = dispatched]
    BY <2>6, <2>7
  <2> HIDE DEF w
  <2>9. v \in AgenticState
    BY <1>2, <2>8 DEF AgenticState
  <2> QED BY <2>3, <2>4, <2>9 DEF AgenticState
<1> HIDE DEF t
<1>7. Remembers(t, gates)
  BY <1>1, <1>3, <1>4, <1>6 DEF Remembers
<1> QED BY <1>6, <1>7 DEF Owns, t

LEMMA RestoredOwns ==
  ASSUME Sound, worker.pc # "idle", s.known, s.head = worker.head, s.base = worker.base
  PROVE  Owns(Restored, gates)
<1> DEFINE g == Live
           current == IsFor(g, worker.base)
           complete == current /\ Succeeded(g)
           traditional == current /\ TraditionalRevisionOwner(g)
           deferred == complete \/ traditional
           title == IF deferred THEN g.title ELSE s.title
           published == IF deferred THEN 0 ELSE s.published
           fresh == ~deferred
<1>1. g \in Gate(Base) /\ s \in AgenticState /\ worker.head \in Commit /\ worker.base \in Base
  BY WorkingFacts
<1>2. /\ title \in Title /\ published \in Nat
      /\ complete \in BOOLEAN /\ traditional \in BOOLEAN /\ fresh \in BOOLEAN
  BY <1>1 DEF Gate, Title, AgenticState
<1>3. complete => gates[worker.head].id # 0
  BY DEF IsFor, Live
<1>4. Restored = [s EXCEPT !.optOut = FALSE, !.timedOut = FALSE, !.dispatched = complete,
               !.traditional = traditional, !.ready = complete, !.fresh = fresh, !.waiting = 0,
               !.answered = FALSE, !.title = title, !.published = published]
  BY DEF Restored
<1> HIDE DEF complete, traditional, fresh, title, published
<1>5. /\ Restored \in AgenticState
      /\ Restored.known = s.known /\ Restored.head = s.head /\ Restored.base = s.base
      /\ Restored.ready = complete /\ Restored.dispatched = complete /\ Restored.waiting = 0
  <2>1. /\ Restored.known = s.known /\ Restored.head = s.head /\ Restored.base = s.base
        /\ Restored.ready = complete /\ Restored.dispatched = complete /\ Restored.waiting = 0
    BY <1>1, <1>4 DEF AgenticState
  <2> DEFINE u == [s EXCEPT !.optOut = FALSE, !.timedOut = FALSE, !.dispatched = complete,
                            !.traditional = traditional, !.ready = complete]
  <2>2. u \in AgenticState
    BY <1>1, <1>2 DEF AgenticState
  <2>3. Restored = [u EXCEPT !.fresh = fresh, !.waiting = 0, !.answered = FALSE,
                             !.title = title, !.published = published]
    BY <1>4
  <2> HIDE DEF u
  <2>4. Restored \in AgenticState
    BY <1>2, <2>2, <2>3 DEF AgenticState
  <2> QED BY <2>1, <2>4
<1>6. Remembers(Restored, gates)
  BY <1>1, <1>3, <1>5 DEF Remembers
<1> QED BY <1>5, <1>6 DEF Owns

\* Chai owns the revision and was not told.
LEMMA NotReady ==
  ASSUME NEW gs, Owns(s, gs), ~TraditionalMode(s), ~s.ready
  PROVE  s.waiting = 0 /\ ~s.dispatched
BY DEF Owns, Remembers

LEMMA AdoptedOwns ==
  ASSUME Sound, worker.pc # "idle", Owns(s, gates), ~TraditionalMode(s), ~s.ready, Adopts
  PROVE  Owns(Adopted, gates) /\ ~TraditionalMode(Adopted)
<1> DEFINE dispatched == Succeeded(Live)
           waiting == IF Succeeded(Live) THEN 0
                      ELSE IF s.published # 0 THEN s.published + Timeout ELSE s.waiting
<1>1. Live \in Gate(Base) /\ Live = gates[worker.head] /\ Live.id # 0 /\ Live.title \in Title
  BY WorkingFacts DEF Adopts, IsFor, Gate, Title
<1>2. s \in AgenticState /\ s.waiting = 0 /\ ~s.dispatched
  BY NotReady DEF Owns
<1>3. waiting \in Nat
  <2>1. s.published \in Nat /\ Timeout \in Nat
    BY <1>2, HandoffAssumption DEF AgenticState
  <2> QED BY <1>2, <2>1
<1>4. dispatched \in BOOLEAN
  BY DEF Succeeded
<1>5. waiting # 0 => ~dispatched /\ s.published # 0
  BY <1>2
<1>6. Adopted = [s EXCEPT !.title = Live.title, !.ready = TRUE, !.dispatched = dispatched,
                          !.waiting = waiting]
  BY DEF Adopted
<1> HIDE DEF dispatched, waiting
<1>7. /\ Adopted.known = s.known /\ Adopted.head = s.head /\ Adopted.base = s.base
      /\ Adopted.optOut = s.optOut /\ Adopted.timedOut = s.timedOut
      /\ Adopted.traditional = s.traditional /\ Adopted.published = s.published
      /\ Adopted.ready = TRUE /\ Adopted.dispatched = dispatched /\ Adopted.waiting = waiting
  BY <1>2, <1>6 DEF AgenticState
<1>8. Adopted \in AgenticState
  BY <1>1, <1>2, <1>3, <1>4, <1>6 DEF AgenticState
<1>9. ~TraditionalMode(Adopted)
  BY <1>7 DEF TraditionalMode
<1>10. Remembers(Adopted, gates)
  BY <1>1, <1>5, <1>7 DEF Remembers, Owns
<1> QED BY <1>7, <1>8, <1>9, <1>10 DEF Owns

LEMMA SignalledOwns ==
  ASSUME Sound, Owns(s, gates), ~TraditionalMode(s), ~s.ready,
         NEW gs, gs[worker.head].id # 0
  PROVE  Owns(Signalled, gs) /\ ~TraditionalMode(Signalled)
<1>1. s \in AgenticState /\ s.waiting = 0 /\ ~s.dispatched
  BY NotReady DEF Owns
<1>2. now \in Nat /\ now # 0
  BY DEF Sound, Setting
<1>3. PICK due \in Nat : due = now + Timeout
  BY <1>2, HandoffAssumption
<1>4. Signalled = [s EXCEPT !.title = "agentic", !.ready = TRUE, !.fresh = FALSE,
                            !.published = now, !.waiting = due, !.answered = FALSE]
  BY <1>3 DEF Signalled
<1>5. "agentic" \in Title
  BY DEF Title
<1>6. /\ Signalled.known = s.known /\ Signalled.head = s.head /\ Signalled.base = s.base
      /\ Signalled.optOut = s.optOut /\ Signalled.timedOut = s.timedOut
      /\ Signalled.traditional = s.traditional /\ Signalled.published = now
      /\ Signalled.ready = TRUE /\ Signalled.dispatched = s.dispatched
  BY <1>1, <1>4 DEF AgenticState
<1>7. Signalled \in AgenticState
  BY <1>1, <1>2, <1>4, <1>5 DEF AgenticState
<1>8. ~TraditionalMode(Signalled)
  BY <1>6 DEF TraditionalMode
<1>9. Remembers(Signalled, gs)
  BY <1>1, <1>2, <1>6 DEF Remembers, Owns
<1> QED BY <1>6, <1>7, <1>8, <1>9 DEF Owns

LEMMA FreshOwns ==
  ASSUME Owns(s, gates), NEW fresh \in BOOLEAN
  PROVE  Owns([s EXCEPT !.fresh = fresh], gates)
         /\ (TraditionalMode([s EXCEPT !.fresh = fresh]) <=> TraditionalMode(s))
<1>1. Alike(s, [s EXCEPT !.fresh = fresh])
  BY DEF Owns, Alike, AgenticState
<1> QED BY <1>1, AlikeOwns

LEMMA SignalFailsOwns ==
  ASSUME Sound, Owns(s, gates), ~TraditionalMode(s), ~s.ready, SignalFails
  PROVE  Owns(s', gates)
<1>1. CASE s' = [s EXCEPT !.fresh = @ \/ (Live.id # 0 /\ Live.base # worker.base)]
  <2> DEFINE fresh == s.fresh \/ (Live.id # 0 /\ Live.base # worker.base)
  <2>1. fresh \in BOOLEAN /\ s' = [s EXCEPT !.fresh = fresh]
    BY <1>1
  <2> HIDE DEF fresh
  <2> QED BY <2>1, FreshOwns
<1>2. CASE s' = [s EXCEPT !.fresh = FALSE, !.published = now]
  <2>1. s \in AgenticState /\ s.waiting = 0
    BY NotReady DEF Owns
  <2>2. now \in Nat
    BY DEF Sound, Setting
  <2>3. /\ s'.known = s.known /\ s'.head = s.head /\ s'.base = s.base
        /\ s'.optOut = s.optOut /\ s'.timedOut = s.timedOut /\ s'.traditional = s.traditional
        /\ s'.ready = s.ready /\ s'.dispatched = s.dispatched /\ s'.waiting = 0
    BY <1>2, <2>1 DEF AgenticState
  <2>4. s' \in AgenticState
    BY <1>2, <2>1, <2>2 DEF AgenticState
  <2>5. Remembers(s', gates)
    BY <2>3 DEF Owns, Remembers, TraditionalMode
  <2> QED BY <2>3, <2>4, <2>5 DEF Owns
<1> QED BY <1>1, <1>2 DEF SignalFails

LEMMA FoundOwns ==
  ASSUME Sound, worker.pc # "idle", Owns(s, gates), ~TraditionalMode(s)
  PROVE  /\ Owns(Found, gates) /\ ~TraditionalMode(Found)
         /\ Found.dispatched = s.dispatched
<1>1. s \in AgenticState
  BY DEF Owns
<1>2. CASE Found = s
  BY <1>2
<1>3. CASE ~s.ready /\ IsFor(Live, worker.base)
           /\ Found = [s EXCEPT !.title = Live.title, !.ready = TRUE]
  <2>1. s.waiting = 0 /\ ~s.dispatched
    BY <1>3, NotReady
  <2>2. Live \in Gate(Base) /\ Live = gates[worker.head] /\ Live.id # 0 /\ Live.title \in Title
    BY <1>3, WorkingFacts DEF IsFor, Gate, Title
  <2>3. /\ Found.known = s.known /\ Found.head = s.head /\ Found.base = s.base
        /\ Found.optOut = s.optOut /\ Found.timedOut = s.timedOut
        /\ Found.traditional = s.traditional /\ Found.published = s.published
        /\ Found.ready = TRUE /\ Found.dispatched = s.dispatched /\ Found.waiting = s.waiting
    BY <1>1, <1>3 DEF AgenticState
  <2>4. Found \in AgenticState
    BY <1>1, <1>3, <2>2 DEF AgenticState
  <2>5. ~TraditionalMode(Found)
    BY <2>3 DEF TraditionalMode
  <2>6. Remembers(Found, gates)
    BY <2>1, <2>2, <2>3 DEF Remembers, Owns
  <2> QED BY <2>3, <2>4, <2>5, <2>6 DEF Owns
<1> QED BY <1>2, <1>3 DEF Found

LEMMA CompletedByOwns ==
  ASSUME Owns(Found, gates), ~TraditionalMode(Found), NEW g \in Gate(Base),
         NEW gs, gs[worker.head].id # 0
  PROVE  Owns(CompletedBy(g), gs)
<1> DEFINE t == CompletedBy(g)
<1>1. Found \in AgenticState /\ g.title \in Title
  BY DEF Owns, Gate, Title
<1>2. /\ t.known = Found.known /\ t.head = Found.head /\ t.base = Found.base
      /\ t.ready = TRUE /\ t.waiting = 0
  BY <1>1 DEF CompletedBy, AgenticState
<1>3. t \in AgenticState
  BY <1>1 DEF CompletedBy, AgenticState
<1> HIDE DEF t
<1>4. Remembers(t, gs)
  BY <1>2 DEF Owns, Remembers
<1> QED BY <1>2, <1>3, <1>4 DEF Owns, t

-----------------------------------------------------------------------------
(* The steps of the worker.                                                  *)

LEMMA UntouchedFacts ==
  ASSUME Sound, UNCHANGED github, NEW h
  PROVE  GateStep(h) /\ RequestStep /\ GitHubTyped
<1>1. UNCHANGED <<pr, gates, contexts, requested>>
  BY DEF github
<1> QED BY <1>1, GateRest, RequestRest, SoundFacts DEF GitHubTyped

LEMMA HistoriesKept ==
  ASSUME Sound, completed' \subseteq completed \cup {Snapshot},
         traditionally' \subseteq traditionally \cup {Snapshot}, Snapshot \in Revision
  PROVE  Histories'
BY DEF Sound, Histories

LEMMA FetchSound ==
  ASSUME Sound, Fetch
  PROVE  Sound'
<1>1. /\ UNCHANGED outside /\ UNCHANGED github /\ UNCHANGED <<used, completed, traditionally>>
      /\ worker.pc = "idle"
  BY DEF Fetch
<1>2. scenario' = scenario /\ gates' = gates
  BY <1>1 DEF outside, github
<1>3. Mind
  BY DEF Sound
<1>4. inbox # <<>> => Head(inbox) \in Comment /\ Tail(inbox) \in Seq(Comment)
  BY <1>3 DEF Mind
<1>5. Mind' /\ worker'.head <= pr.head
  <2>1. CASE s' = NoState /\ inbox' = (IF inbox = <<>> THEN inbox ELSE Tail(inbox)) /\ UNCHANGED worker
    <3>1. Remembers(NoState, gates')
      BY StartFacts
    <3>2. Remembers(s, gates)'
      BY <2>1, <3>1 DEF Remembers, TraditionalMode
    <3>3. Attends(worker, s, inbox)'
      BY <1>1, <2>1 DEF Attends
    <3> QED BY <1>3, <1>4, <2>1, <3>2, <3>3, StartFacts, SoundFacts DEF Mind
  <2>2. CASE /\ Enrolled(pr.base)
             /\ worker' = [pc |-> "prepare", head |-> pr.head, base |-> pr.base,
                           labels |-> pr.labels,
                           comment |-> IF inbox = <<>> THEN NoComment ELSE Head(inbox)]
             /\ UNCHANGED <<s, inbox>>
    <3> DEFINE c == IF inbox = <<>> THEN NoComment ELSE Head(inbox)
    <3>1. NoComment \in Comment /\ NoComment.id = 0
      BY DEF NoComment, Comment
    <3>2. c \in Comment /\ (c.id # 0 => inbox # <<>> /\ c = Head(inbox))
      BY <1>4, <3>1
    <3> HIDE DEF c
    <3>3. /\ worker'.pc = "prepare" /\ worker'.head = pr.head /\ worker'.base = pr.base
          /\ worker'.labels = pr.labels /\ worker'.comment = c
      BY <2>2 DEF c
    <3>4. worker' \in Attending
      BY <2>2, <3>2, SoundFacts DEF Attending, c
    <3>5. Attends(worker, s, inbox)'
      BY <1>2, <2>2, <3>2, <3>3, SoundFacts DEF Attends, Enrolled
    <3>6. Remembers(s, gates)'
      BY <1>2, <1>3, <2>2 DEF Mind, Remembers, TraditionalMode
    <3> QED BY <1>3, <2>2, <3>3, <3>4, <3>5, <3>6, SoundFacts DEF Mind
  <2> QED BY <2>1, <2>2 DEF Fetch
<1>6. GateStep(pr.head) /\ RequestStep /\ GitHubTyped
  BY <1>1, UntouchedFacts
<1>7. Histories' /\ used' \in [Moves -> Nat]
  BY <1>1, SoundFacts DEF Sound, Histories
<1> QED BY <1>1, <1>5, <1>6, <1>7, SoundFacts, WorkerFrame

LEMMA PrepareNewSound ==
  ASSUME Sound, PrepareNew
  PROVE  Sound'
<1>1. PICK ok \in BOOLEAN :
        /\ Costs(ok)
        /\ UNCHANGED gates \/ Retire(ok)
        /\ s' = IF ok THEN Cancelled([NewState EXCEPT !.optOut = "skip" \in worker.labels]) ELSE s
        /\ Continues(ok, "command")
        /\ completed' \subseteq completed /\ traditionally' \subseteq traditionally
  BY RecallFacts DEF PrepareNew
<1>2. UNCHANGED outside /\ UNCHANGED <<pr, contexts, requested>> /\ worker.pc = "prepare"
  BY DEF PrepareNew
<1>3. /\ worker \in Attending /\ s \in AgenticState /\ worker.head \in Commit
      /\ worker.base \in Base /\ Remembers(s, gates) /\ Snapshot \in Revision
  BY <1>2, WorkingFacts
<1>4. GateStep(worker.head) /\ RequestStep /\ GitHubTyped
  BY <1>1, <1>2, <1>3, SoundFacts, GateRest, RetireStep, RequestRest DEF GitHubTyped
<1>5. used' \in [Moves -> Nat] /\ Histories'
  BY <1>1, <1>3, SoundFacts, CostsFacts, HistoriesKept
<1>6. "command" \in Steps
  BY DEF Steps
<1>7. CASE ok
  <2> DEFINE out == "skip" \in worker.labels
             t == [NewState EXCEPT !.optOut = out]
  <2>1. out \in BOOLEAN
    OBVIOUS
  <2> HIDE DEF out
  <2>2. Owns(t, gates)
    BY <1>2, <2>1, NewStateOwns
  <2>3. s' = Cancelled(t)
    BY <1>1, <1>7 DEF out
  <2> HIDE DEF t
  <2>4. Alike(t, s')
    BY <2>2, <2>3, StoppedAlike DEF Owns
  <2>5. Owns(s', gates')
    BY <1>4, <2>2, <2>4, AlikeOwns, OwnsKept
  <2>6. Goes("command")
    BY <1>1, <1>3, <1>6, <1>7, ContinuesFacts
  <2>7. s' \in AgenticState /\ Remembers(s', gates')
        /\ s'.known /\ s'.head = worker.head /\ s'.base = worker.base
    BY <2>5 DEF Owns
  <2> QED BY <1>2, <1>4, <1>5, <1>6, <2>6, <2>7, GoFrame
<1>8. CASE ~ok
  <2>1. Sleeps /\ s' = s
    BY <1>1, <1>3, <1>6, <1>8, ContinuesFacts
  <2>2. s' \in AgenticState /\ Remembers(s', gates')
    BY <1>3, <1>4, <2>1, RemembersKept
  <2> QED BY <1>2, <1>4, <1>5, <2>1, <2>2, SleepFrame
<1> QED BY <1>7, <1>8

LEMMA PrepareRestoredSound ==
  ASSUME Sound, PrepareRestored
  PROVE  Sound'
<1>1. PICK ok \in BOOLEAN :
        /\ Costs(ok)
        /\ UNCHANGED gates \/ Retire(ok)
        /\ s' = IF ok THEN Cancelled(Restored) ELSE s
        /\ Continues(ok, "command")
  BY DEF PrepareRestored, Restore
<1>2. /\ UNCHANGED outside /\ UNCHANGED <<pr, contexts, requested>>
      /\ completed' \subseteq completed /\ traditionally' \subseteq traditionally
      /\ worker.pc = "prepare" /\ s.known /\ s.head = worker.head /\ s.base = worker.base
  BY RecallFacts DEF PrepareRestored, Stale
<1>3. /\ worker \in Attending /\ s \in AgenticState /\ worker.head \in Commit
      /\ worker.base \in Base /\ Remembers(s, gates) /\ Snapshot \in Revision
  BY <1>2, WorkingFacts
<1>4. GateStep(worker.head) /\ RequestStep /\ GitHubTyped
  BY <1>1, <1>2, <1>3, SoundFacts, GateRest, RetireStep, RequestRest DEF GitHubTyped
<1>5. used' \in [Moves -> Nat] /\ Histories'
  BY <1>1, <1>2, <1>3, SoundFacts, CostsFacts, HistoriesKept
<1>6. "command" \in Steps
  BY DEF Steps
<1>7. CASE ok
  <2>1. Owns(Restored, gates)
    BY <1>2, RestoredOwns
  <2>2. Alike(Restored, s')
    BY <1>1, <1>7, <2>1, StoppedAlike DEF Owns
  <2>3. Owns(s', gates')
    BY <1>4, <2>1, <2>2, AlikeOwns, OwnsKept
  <2>4. Goes("command")
    BY <1>1, <1>3, <1>6, <1>7, ContinuesFacts
  <2>5. s' \in AgenticState /\ Remembers(s', gates')
        /\ s'.known /\ s'.head = worker.head /\ s'.base = worker.base
    BY <2>3 DEF Owns
  <2> QED BY <1>2, <1>4, <1>5, <1>6, <2>4, <2>5, GoFrame
<1>8. CASE ~ok
  <2>1. Sleeps /\ s' = s
    BY <1>1, <1>3, <1>6, <1>8, ContinuesFacts
  <2>2. s' \in AgenticState /\ Remembers(s', gates')
    BY <1>3, <1>4, <2>1, RemembersKept
  <2> QED BY <1>2, <1>4, <1>5, <2>1, <2>2, SleepFrame
<1> QED BY <1>7, <1>8

LEMMA PrepareSound ==
  ASSUME Sound, Prepare
  PROVE  Sound'
<1> DEFINE out == "skip" \in worker.labels
           t == [s EXCEPT !.optOut = out]
<1>1. /\ UNCHANGED outside /\ UNCHANGED github /\ UNCHANGED <<used, completed, traditionally>>
      /\ worker.pc = "prepare" /\ s.known /\ s.head = worker.head /\ s.base = worker.base
      /\ s.optOut => out
      /\ s' = Cancelled(t) /\ Goto("command")
  BY DEF Prepare, Stale
<1>2. worker \in Attending /\ s \in AgenticState /\ Remembers(s, gates) /\ Snapshot \in Revision
  BY <1>1, WorkingFacts
<1>3. GateStep(worker.head) /\ RequestStep /\ GitHubTyped
  BY <1>1, UntouchedFacts
<1>4. used' \in [Moves -> Nat] /\ Histories'
  BY <1>1, <1>2, SoundFacts, HistoriesKept
<1>5. "command" \in Steps /\ out \in BOOLEAN
  BY DEF Steps
<1> HIDE DEF out
<1>6. /\ t \in AgenticState
      /\ t.known = s.known /\ t.head = s.head /\ t.base = s.base /\ t.optOut = out
      /\ t.timedOut = s.timedOut /\ t.traditional = s.traditional /\ t.ready = s.ready
      /\ t.dispatched = s.dispatched /\ t.waiting = s.waiting /\ t.published = s.published
  BY <1>2, <1>5 DEF AgenticState
<1> HIDE DEF t
<1>7. Owns(t, gates)
  BY <1>1, <1>2, <1>6 DEF Owns, Remembers, TraditionalMode
<1>8. Owns(s', gates')
  BY <1>1, <1>3, <1>6, <1>7, StoppedAlike, AlikeOwns, OwnsKept
<1>9. Goes("command")
  BY <1>1, <1>2, <1>5, GotoFacts
<1>10. s' \in AgenticState /\ Remembers(s', gates')
       /\ s'.known /\ s'.head = worker.head /\ s'.base = worker.base
  BY <1>8 DEF Owns
<1> QED BY <1>1, <1>3, <1>4, <1>5, <1>9, <1>10, GoFrame

LEMMA OwnsFrame ==
  ASSUME Sound, worker.pc # "idle", UNCHANGED outside, GitHubTyped, GateStep(worker.head),
         RequestStep, used' \in [Moves -> Nat], Histories', Owns(s', gates'),
         Sleeps \/ \E pc \in Steps :
                     /\ Goes(pc)
                     /\ pc = "timer" => ~TraditionalMode(s')
                     /\ pc \in {"dispatch", "send"} => TraditionalMode(s')
  PROVE  Sound'
<1>1. s' \in AgenticState /\ Remembers(s', gates')
      /\ s'.known /\ s'.head = worker.head /\ s'.base = worker.base
  BY DEF Owns
<1>2. CASE Sleeps
  BY <1>1, <1>2, SleepFrame
<1>3. ASSUME NEW pc \in Steps, Goes(pc), pc = "timer" => ~TraditionalMode(s'),
             pc \in {"dispatch", "send"} => TraditionalMode(s')
      PROVE  Sound'
  BY <1>1, <1>3, GoFrame
<1> QED BY <1>2, <1>3

\* A step that obeys a command, or fails to.
LEMMA CommandFrame ==
  ASSUME Sound, worker.pc # "idle", UNCHANGED outside, GitHubTyped, GateStep(worker.head),
         RequestStep, used' \in [Moves -> Nat], Histories', Owns(s', gates'),
         Sleeps \/ Goes("act")
  PROVE  Sound'
<1>1. "act" \in Steps /\ "act" # "timer" /\ "act" \notin {"dispatch", "send"}
  BY DEF Steps
<1> QED BY <1>1, OwnsFrame

LEMMA ActFacts ==
  "act" \in Steps /\ "timer" \in Steps /\ "dispatch" \in Steps /\ "send" \in Steps
BY DEF Steps

\* Before a command is obeyed.
LEMMA ObeyingFacts ==
  ASSUME Sound, NEW names, Obeying(names)
  PROVE  /\ worker.pc # "idle" /\ worker.pc = "command" /\ Owns(s, gates)
         /\ worker \in Attending /\ worker.head \in Commit /\ worker.base \in Base
         /\ worker.head <= pr.head
         /\ Snapshot \in Revision /\ Snapshot.head = worker.head
         /\ Live \in Gate(Base) /\ Live = gates[worker.head] /\ Heard.id \in Nat
         /\ s \in AgenticState
<1>1. worker.pc = "command"
  BY DEF Obeying
<1> QED BY <1>1, WorkingFacts, OwnsFacts

LEMMA DoneOwns ==
  ASSUME NEW t, NEW gs, Owns(t, gs), Heard.id \in Nat
  PROVE  Owns(Done(t), gs) /\ (TraditionalMode(Done(t)) <=> TraditionalMode(t))
<1>1. t \in AgenticState
  BY DEF Owns
<1>2. Alike(t, Done(t))
  BY <1>1, DoneAlike
<1> QED BY <1>2, AlikeOwns

LEMMA CommandSignalSound ==
  ASSUME Sound, CommandSignal
  PROVE  Sound'
<1>1. /\ Obeying({"required", "remaining"}) /\ ~TraditionalMode(s)
      /\ UNCHANGED outside /\ UNCHANGED <<pr, contexts, requested>>
      /\ completed' \subseteq completed /\ traditionally' \subseteq traditionally
  BY RecallFacts DEF CommandSignal
<1>2. /\ worker.pc # "idle" /\ Owns(s, gates) /\ worker \in Attending
      /\ worker.head \in Commit /\ worker.base \in Base
      /\ Snapshot \in Revision /\ Heard.id \in Nat
  BY <1>1, ObeyingFacts
<1>3. GitHub /\ RequestStep /\ GitHubTyped /\ Histories'
  BY <1>1, <1>2, SoundFacts, RequestRest, HistoriesKept DEF GitHubTyped
<1>4. CASE /\ s.ready \/ Adopts
           /\ s' = Done(IF s.ready THEN s ELSE Adopted) /\ Goto("act")
           /\ UNCHANGED <<gates, used>>
  <2> DEFINE t == IF s.ready THEN s ELSE Adopted
  <2>1. Owns(t, gates)
    BY <1>1, <1>2, <1>4, AdoptedOwns
  <2>2. GateStep(worker.head) /\ used' \in [Moves -> Nat]
    BY <1>3, <1>4, GateRest, SoundFacts
  <2>3. Goes("act")
    BY <1>2, <1>4, GotoFacts, ActFacts
  <2> HIDE DEF t
  <2>4. Owns(Done(t), gates)
    BY <1>2, <2>1, DoneOwns
  <2>5. Owns(s', gates')
    BY <1>4, <2>4 DEF t
  <2> QED BY <1>1, <1>2, <1>3, <2>2, <2>3, <2>5, CommandFrame
<1>5. ASSUME NEW ok \in BOOLEAN, ~s.ready, Costs(ok), Continues(ok, "act"),
             IF ok THEN Signals /\ s' = Done(Signalled) ELSE SignalFails
      PROVE  Sound'
  <2>1. used' \in [Moves -> Nat] /\ (Sleeps \/ Goes("act"))
    BY <1>2, <1>5, SoundFacts, CostsFacts, ContinuesFacts, ActFacts
  <2>2. CASE ok
    <3>1. GateStep(worker.head) /\ gates'[worker.head].id # 0
      BY <1>2, <1>3, <1>5, <2>2, SignalsStep
    <3>2. Owns(Signalled, gates')
      BY <1>1, <1>2, <1>5, <3>1, SignalledOwns
    <3>3. Owns(s', gates')
      BY <1>2, <1>5, <2>2, <3>2, DoneOwns
    <3> QED BY <1>1, <1>2, <1>3, <2>1, <3>1, <3>3, CommandFrame
  <2>3. CASE ~ok
    <3>1. GateStep(worker.head)
      BY <1>2, <1>3, <1>5, <2>3, SignalFailsStep
    <3>2. Owns(s', gates')
      BY <1>1, <1>2, <1>5, <2>3, <3>1, SignalFailsOwns, OwnsKept
    <3> QED BY <1>1, <1>2, <1>3, <2>1, <3>1, <3>2, CommandFrame
  <2> QED BY <2>2, <2>3
<1> QED BY <1>4, <1>5 DEF CommandSignal

LEMMA DispatchedOwns ==
  ASSUME NEW gs, Owns(s, gs), TraditionalMode(s)
  PROVE  Owns([s EXCEPT !.dispatched = TRUE], gs)
<1> DEFINE t == [s EXCEPT !.dispatched = TRUE]
<1>1. s \in AgenticState
  BY DEF Owns
<1>2. /\ t \in AgenticState /\ t.known = s.known /\ t.head = s.head /\ t.base = s.base
      /\ t.optOut = s.optOut /\ t.timedOut = s.timedOut /\ t.traditional = s.traditional
  BY <1>1 DEF AgenticState
<1> HIDE DEF t
<1>3. Remembers(t, gs)
  BY <1>2 DEF Owns, Remembers, TraditionalMode
<1> QED BY <1>2, <1>3 DEF Owns, t

LEMMA CommandDispatchSound ==
  ASSUME Sound, CommandDispatch
  PROVE  Sound'
<1>1. /\ Obeying({"required", "remaining"}) /\ TraditionalMode(s)
      /\ UNCHANGED outside /\ UNCHANGED pr
      /\ \/ /\ s' = Done(s) /\ Goto("act")
            /\ UNCHANGED <<gates, contexts, requested, used, completed, traditionally>>
         \/ \E ok \in BOOLEAN, mode \in {"force", "delta"} :
              /\ Costs(ok) /\ Continues(ok, "act")
              /\ IF ok THEN Dispatches(Snapshot, mode, TRUE) ELSE DispatchFails(Snapshot, mode, TRUE)
              /\ s' = IF ok THEN Done([s EXCEPT !.dispatched = TRUE]) ELSE s
              /\ completed' \subseteq completed
              /\ traditionally' \subseteq traditionally \cup {Snapshot}
  <2>1. \A ok \in BOOLEAN : Recall({}, IF ok THEN {Snapshot} ELSE {}) =>
          /\ completed' \subseteq completed
          /\ traditionally' \subseteq traditionally \cup {Snapshot}
    BY DEF Recall
  <2> QED BY <2>1 DEF CommandDispatch
<1>2. /\ worker.pc # "idle" /\ Owns(s, gates) /\ worker \in Attending
      /\ worker.head \in Commit /\ worker.base \in Base
      /\ Snapshot \in Revision /\ Snapshot.head = worker.head /\ Heard.id \in Nat
  BY <1>1, ObeyingFacts
<1>3. GitHub /\ ListedAsked /\ GitHubTyped /\ Histories'
  BY <1>1, <1>2, SoundFacts, HistoriesKept DEF GitHubTyped
<1>4. CASE /\ s' = Done(s) /\ Goto("act")
           /\ UNCHANGED <<gates, contexts, requested, used, completed, traditionally>>
  <2>1. GateStep(worker.head) /\ RequestStep /\ used' \in [Moves -> Nat]
    BY <1>3, <1>4, GateRest, RequestRest, SoundFacts
  <2>2. Goes("act")
    BY <1>2, <1>4, GotoFacts, ActFacts
  <2>3. Owns(s', gates')
    BY <1>2, <1>4, DoneOwns
  <2> QED BY <1>1, <1>2, <1>3, <2>1, <2>2, <2>3, CommandFrame
<1>5. ASSUME NEW ok \in BOOLEAN, NEW mode \in {"force", "delta"},
             Costs(ok), Continues(ok, "act"),
             IF ok THEN Dispatches(Snapshot, mode, TRUE) ELSE DispatchFails(Snapshot, mode, TRUE),
             s' = IF ok THEN Done([s EXCEPT !.dispatched = TRUE]) ELSE s
      PROVE  Sound'
  <2>1. used' \in [Moves -> Nat] /\ (Sleeps \/ Goes("act"))
    BY <1>2, <1>5, SoundFacts, CostsFacts, ContinuesFacts, ActFacts
  <2>2. GateStep(worker.head) /\ RequestStep
    BY <1>2, <1>3, <1>5, DispatchesStep, DispatchFailsStep
  <2>3. Owns(s, gates')
    BY <1>2, <2>2, OwnsKept
  <2>4. Owns(s', gates')
    <3>1. Owns([s EXCEPT !.dispatched = TRUE], gates')
      BY <1>1, <2>3, DispatchedOwns
    <3>2. Owns(Done([s EXCEPT !.dispatched = TRUE]), gates')
      BY <1>2, <3>1, DoneOwns
    <3> QED BY <1>5, <2>3, <3>2
  <2> QED BY <1>1, <1>2, <1>3, <2>1, <2>2, <2>4, CommandFrame
<1> QED BY <1>1, <1>4, <1>5

LEMMA LabelTyped ==
  ASSUME Sound, NEW ok, NEW labels \in SUBSET Label, SetLabel(ok, labels)
  PROVE  GitHubTyped
BY SoundFacts DEF SetLabel, GitHubTyped

LEMMA SamePull ==
  ASSUME Sound, UNCHANGED pr
  PROVE  GitHubTyped
BY SoundFacts DEF GitHubTyped

LEMMA CommandAutoSound ==
  ASSUME Sound, CommandAuto
  PROVE  Sound'
<1>1. /\ Obeying({"auto"}) /\ UNCHANGED outside
      /\ UNCHANGED <<gates, contexts, requested, completed, traditionally>>
  BY DEF CommandAuto
<1>2. /\ worker.pc # "idle" /\ Owns(s, gates) /\ worker \in Attending
      /\ Snapshot \in Revision /\ Heard.id \in Nat
  BY <1>1, ObeyingFacts
<1>3. GateStep(worker.head) /\ RequestStep /\ Histories'
  BY <1>1, <1>2, SoundFacts, GateRest, RequestRest, HistoriesKept
<1>4. Owns(s, gates') /\ Owns(Done(s), gates')
  BY <1>2, <1>3, OwnsKept, DoneOwns
<1>5. CASE s' = Done(s) /\ Goto("act") /\ UNCHANGED <<pr, used>>
  <2>1. Goes("act") /\ GitHubTyped /\ used' \in [Moves -> Nat]
    BY <1>2, <1>5, GotoFacts, ActFacts, SamePull, SoundFacts
  <2> QED BY <1>1, <1>2, <1>3, <1>4, <1>5, <2>1, CommandFrame
<1>6. ASSUME NEW ok \in BOOLEAN, Costs(ok), SetLabel(ok, pr.labels \cup {"auto"}),
             s' = IF ok THEN Done(s) ELSE s,
             IF ok THEN /\ worker' = [worker EXCEPT !.pc = "act", !.labels = @ \cup {"auto"}]
                        /\ UNCHANGED <<inbox, owed, dropped>>
             ELSE Errs
      PROVE  Sound'
  <2>1. pr.labels \cup {"auto"} \in SUBSET Label
    BY SoundFacts DEF Label
  <2>2. GitHubTyped /\ used' \in [Moves -> Nat]
    BY <1>6, <2>1, LabelTyped, CostsFacts, SoundFacts
  <2>3. Sleeps \/ Goes("act")
    <3>1. CASE ok
      <4>1. worker.labels \cup {"auto"} \in SUBSET Label
        BY <1>2 DEF Attending, Label
      <4> QED BY <1>2, <1>6, <3>1, <4>1 DEF Goes, Attending
    <3>2. CASE ~ok
      BY <1>6, <3>2, SleepsFacts
    <3> QED BY <3>1, <3>2
  <2>4. Owns(s', gates')
    BY <1>4, <1>6
  <2> QED BY <1>1, <1>2, <1>3, <2>2, <2>3, <2>4, CommandFrame
<1> QED BY <1>5, <1>6 DEF CommandAuto

LEMMA CommandSkipSound ==
  ASSUME Sound, CommandSkip
  PROVE  Sound'
<1> DEFINE kept == s.dispatched /\ TraditionalMode(s)
           reset == [s EXCEPT !.dispatched = kept]
           out == [reset EXCEPT !.optOut = TRUE, !.waiting = 0]
           next == Waiting(worker.base)
           reopen == Live.conclusion = "success"
<1>0. completed' \subseteq completed /\ traditionally' \subseteq traditionally
  BY RecallSame DEF CommandSkip
<1>1. /\ Obeying({"skip"}) /\ UNCHANGED outside
      /\ UNCHANGED <<contexts, requested>>
      /\ UNCHANGED gates \/ \E ok \in BOOLEAN : Write(ok, next, reopen)
      /\ UNCHANGED pr \/ \E ok \in BOOLEAN : SetLabel(ok, pr.labels \cup {"skip"})
      /\ s' = Done(out) \/ s' = s \/ s' = reset
      /\ UNCHANGED used \/ Spend("fault")
      /\ Goto("act") \/ Errs
  BY DEF CommandSkip
<1>2. /\ worker.pc # "idle" /\ Owns(s, gates) /\ worker \in Attending
      /\ worker.head \in Commit /\ worker.base \in Base
      /\ Snapshot \in Revision /\ Heard.id \in Nat /\ s \in AgenticState
  BY <1>1, ObeyingFacts
<1>3. RequestStep /\ Histories' /\ GitHub
  BY <1>0, <1>1, <1>2, SoundFacts, RequestRest, HistoriesKept
<1>4. GateStep(worker.head)
  <2>1. next \in Gate(Base) /\ next.summary # "dispatched" /\ reopen \in BOOLEAN
    BY <1>2, CheckFacts
  <2> HIDE DEF next, reopen
  <2> QED BY <1>1, <1>2, <1>3, <2>1, GateRest, WriteStep
<1>5. GitHubTyped
  <2>1. pr.labels \cup {"skip"} \in SUBSET Label
    BY SoundFacts DEF Label
  <2> QED BY <1>1, <2>1, LabelTyped, SamePull
<1>6. used' \in [Moves -> Nat]
  <2>1. "fault" \in Moves
    BY DEF Moves
  <2> QED BY <1>1, <2>1, SpendFacts, SoundFacts
<1>7. Sleeps \/ Goes("act")
  BY <1>1, <1>2, SleepsFacts, GotoFacts, ActFacts
<1>8. Owns(s, gates')
  BY <1>2, <1>4, OwnsKept
<1>9. kept \in BOOLEAN /\ (kept => s.dispatched)
  BY DEF kept
<1>10. Owns(reset, gates')
  <2> HIDE DEF kept
  <2>1. /\ reset \in AgenticState
        /\ reset.known = s.known /\ reset.head = s.head /\ reset.base = s.base
        /\ reset.optOut = s.optOut /\ reset.timedOut = s.timedOut
        /\ reset.traditional = s.traditional /\ reset.ready = s.ready
        /\ reset.waiting = s.waiting /\ reset.published = s.published
        /\ reset.dispatched = kept
    BY <1>2, <1>9 DEF AgenticState
  <2> HIDE DEF reset
  <2> QED BY <1>8, <1>9, <2>1 DEF Owns, Remembers, TraditionalMode
<1>11. Owns(out, gates')
  <2>1. reset \in AgenticState
    BY <1>10 DEF Owns
  <2> HIDE DEF reset
  <2>2. /\ out \in AgenticState
        /\ out.known = reset.known /\ out.head = reset.head /\ out.base = reset.base
        /\ out.optOut
    BY <2>1 DEF AgenticState
  <2> HIDE DEF out
  <2> QED BY <1>10, <2>2 DEF Owns, Remembers, TraditionalMode
<1> HIDE DEF reset, out
<1>12. Owns(s', gates')
  BY <1>1, <1>2, <1>8, <1>10, <1>11, DoneOwns
<1> QED BY <1>1, <1>2, <1>3, <1>4, <1>5, <1>6, <1>7, <1>12, CommandFrame

LEMMA CommandRestoreSound ==
  ASSUME Sound, CommandRestore
  PROVE  Sound'
<1>0. completed' \subseteq completed /\ traditionally' \subseteq traditionally
  BY RecallSame DEF CommandRestore
<1>1. /\ Obeying({"agentic"}) /\ UNCHANGED outside
      /\ UNCHANGED <<contexts, requested>>
      /\ UNCHANGED gates \/ \E ok \in BOOLEAN : Retire(ok)
      /\ \/ UNCHANGED pr
         \/ pr' = [pr EXCEPT !.labels = @ \ {"skip"}]
         \/ SetLabel(FALSE, pr.labels \ {"skip"})
      /\ s' = Done(s) \/ s' = Done(Restored) \/ s' = s
      /\ UNCHANGED used \/ Spend("fault")
      /\ Goto("act") \/ Errs
  BY DEF CommandRestore, Restore
<1>2. /\ worker.pc # "idle" /\ Owns(s, gates) /\ worker \in Attending
      /\ worker.head \in Commit /\ worker.base \in Base
      /\ Snapshot \in Revision /\ Heard.id \in Nat
  BY <1>1, ObeyingFacts
<1>3. RequestStep /\ Histories' /\ GitHub
  BY <1>0, <1>1, <1>2, SoundFacts, RequestRest, HistoriesKept
<1>4. GateStep(worker.head)
  BY <1>1, <1>2, <1>3, GateRest, RetireStep
<1>5. GitHubTyped
  <2>1. pr.labels \ {"skip"} \in SUBSET Label
    BY SoundFacts
  <2>2. CASE pr' = [pr EXCEPT !.labels = @ \ {"skip"}]
    BY <2>1, <2>2, SoundFacts DEF GitHubTyped
  <2> QED BY <1>1, <2>1, <2>2, LabelTyped, SamePull
<1>6. used' \in [Moves -> Nat]
  <2>1. "fault" \in Moves
    BY DEF Moves
  <2> QED BY <1>1, <2>1, SpendFacts, SoundFacts
<1>7. Sleeps \/ Goes("act")
  BY <1>1, <1>2, SleepsFacts, GotoFacts, ActFacts
<1>8. Owns(Restored, gates)
  BY <1>2, RestoredOwns DEF Owns
<1>9. Owns(s, gates') /\ Owns(Restored, gates')
  BY <1>2, <1>4, <1>8, OwnsKept
<1>10. Owns(s', gates')
  BY <1>1, <1>2, <1>9, DoneOwns
<1> QED BY <1>1, <1>2, <1>3, <1>4, <1>5, <1>6, <1>7, <1>10, CommandFrame

LEMMA MarkDeclinedSound ==
  ASSUME Sound, MarkDeclined
  PROVE  Sound'
<1>1. /\ Obeying({"mark"}) /\ UNCHANGED outside /\ UNCHANGED github
      /\ UNCHANGED <<used, completed, traditionally>> /\ Goto("act")
      /\ s' = Done(s) \/ (~TraditionalMode(s) /\ s' = Done(Found))
  BY DEF MarkDeclined
<1>2. /\ worker.pc # "idle" /\ Owns(s, gates) /\ worker \in Attending
      /\ Snapshot \in Revision /\ Heard.id \in Nat
  BY <1>1, ObeyingFacts
<1>3. GateStep(worker.head) /\ RequestStep /\ GitHubTyped
  BY <1>1, UntouchedFacts
<1>4. Histories' /\ used' \in [Moves -> Nat] /\ Goes("act")
  BY <1>1, <1>2, SoundFacts, HistoriesKept, GotoFacts, ActFacts
<1>5. Owns(s', gates)
  BY <1>1, <1>2, FoundOwns, DoneOwns
<1>6. Owns(s', gates')
  BY <1>3, <1>5, OwnsKept
<1> QED BY <1>1, <1>2, <1>3, <1>4, <1>6, CommandFrame

LEMMA MarkTraditionalSound ==
  ASSUME Sound, MarkTraditional
  PROVE  Sound'
<1> DEFINE next == Marked(Live, worker.base, "traditional")
<1>0. completed' \subseteq completed /\ traditionally' \subseteq traditionally
  BY RecallSame DEF MarkTraditional
<1>1. /\ Obeying({"mark"}) /\ TraditionalMode(s) /\ UNCHANGED outside
      /\ UNCHANGED <<pr, contexts, requested>>
      /\ \/ GivesUp /\ UNCHANGED <<gates, used, s>>
         \/ \E ok \in BOOLEAN :
              /\ Costs(ok) /\ Continues(ok, "act") /\ Write(ok, next, FALSE)
              /\ s' = IF ok THEN Done([s EXCEPT !.dispatched = TRUE]) ELSE s
  BY DEF MarkTraditional
<1>2. /\ worker.pc # "idle" /\ Owns(s, gates) /\ worker \in Attending
      /\ worker.head \in Commit /\ worker.base \in Base /\ Live \in Gate(Base)
      /\ Snapshot \in Revision /\ Heard.id \in Nat
  BY <1>1, ObeyingFacts
<1>3. RequestStep /\ Histories' /\ GitHub /\ GitHubTyped
  BY <1>0, <1>1, <1>2, SoundFacts, RequestRest, HistoriesKept, SamePull
<1>4. next \in Gate(Base) /\ next.summary # "dispatched" /\ FALSE \in BOOLEAN
  <2>1. "traditional" \in Title
    BY DEF Title
  <2> QED BY <1>2, <2>1, MarkedFacts
<1> HIDE DEF next
<1>5. CASE GivesUp /\ UNCHANGED <<gates, used, s>>
  <2>1. GateStep(worker.head) /\ used' \in [Moves -> Nat] /\ Sleeps /\ Owns(s', gates')
    BY <1>2, <1>3, <1>5, GateRest, SoundFacts, SleepsFacts
  <2> QED BY <1>1, <1>2, <1>3, <2>1, CommandFrame
<1>6. ASSUME NEW ok \in BOOLEAN, Costs(ok), Continues(ok, "act"), Write(ok, next, FALSE),
             s' = IF ok THEN Done([s EXCEPT !.dispatched = TRUE]) ELSE s
      PROVE  Sound'
  <2>1. used' \in [Moves -> Nat] /\ (Sleeps \/ Goes("act"))
    BY <1>2, <1>6, SoundFacts, CostsFacts, ContinuesFacts, ActFacts
  <2>2. GateStep(worker.head)
    BY <1>2, <1>3, <1>4, <1>6, WriteStep
  <2>3. Owns(s, gates')
    BY <1>2, <2>2, OwnsKept
  <2>4. Owns([s EXCEPT !.dispatched = TRUE], gates')
    BY <1>1, <2>3, DispatchedOwns
  <2>5. Owns(s', gates')
    BY <1>2, <1>6, <2>3, <2>4, DoneOwns
  <2> QED BY <1>1, <1>2, <1>3, <2>1, <2>2, <2>5, CommandFrame
<1> QED BY <1>1, <1>5, <1>6

LEMMA MarkAgenticSound ==
  ASSUME Sound, MarkAgentic
  PROVE  Sound'
<1> DEFINE title == IF Found.title = "" THEN "agentic" ELSE Found.title
           next == Marked(Live, worker.base, title)
           done == CompletedBy(Titled(Live, next))
<1>1. /\ Obeying({"mark"}) /\ ~TraditionalMode(s) /\ UNCHANGED outside
      /\ UNCHANGED <<pr, contexts, requested>>
      /\ \/ GivesUp /\ s' = Found /\ UNCHANGED <<gates, used, completed, traditionally>>
         \/ \E ok \in BOOLEAN :
              /\ Costs(ok) /\ Continues(ok, "act") /\ Write(ok, next, FALSE)
              /\ s' = IF ok THEN Done(done) ELSE Found
              /\ completed' \subseteq completed \cup {Snapshot}
              /\ traditionally' \subseteq traditionally
  <2>1. \A ok \in BOOLEAN : Recall(IF ok \/ gates' # gates THEN {Snapshot} ELSE {}, {}) =>
          /\ completed' \subseteq completed \cup {Snapshot}
          /\ traditionally' \subseteq traditionally
    BY DEF Recall
  <2> QED BY <2>1 DEF MarkAgentic
<1>2. /\ worker.pc # "idle" /\ Owns(s, gates) /\ worker \in Attending
      /\ worker.head \in Commit /\ worker.base \in Base /\ Live \in Gate(Base)
      /\ Snapshot \in Revision /\ Heard.id \in Nat
  BY <1>1, ObeyingFacts
<1>3. RequestStep /\ Histories' /\ GitHub /\ GitHubTyped
  BY <1>1, <1>2, SoundFacts, RequestRest, HistoriesKept, SamePull
<1>4. Owns(Found, gates) /\ ~TraditionalMode(Found)
  BY <1>1, <1>2, FoundOwns
<1>5. title \in Title
  <2>1. Found.title \in Title
    BY <1>4 DEF Owns, AgenticState
  <2> QED BY <2>1 DEF Title
<1> HIDE DEF title
<1>6. next \in Gate(Base) /\ next.summary # "dispatched" /\ FALSE \in BOOLEAN
  BY <1>2, <1>5, MarkedFacts
<1> HIDE DEF next
<1>7. CASE GivesUp /\ s' = Found /\ UNCHANGED <<gates, used, completed, traditionally>>
  <2>1. GateStep(worker.head) /\ used' \in [Moves -> Nat] /\ Sleeps /\ Owns(s', gates')
    BY <1>3, <1>4, <1>7, GateRest, SoundFacts, SleepsFacts
  <2> QED BY <1>1, <1>2, <1>3, <2>1, CommandFrame
<1>8. ASSUME NEW ok \in BOOLEAN, Costs(ok), Continues(ok, "act"), Write(ok, next, FALSE),
             s' = IF ok THEN Done(done) ELSE Found
      PROVE  Sound'
  <2>1. used' \in [Moves -> Nat] /\ (Sleeps \/ Goes("act"))
    BY <1>2, <1>8, SoundFacts, CostsFacts, ContinuesFacts, ActFacts
  <2>2. GateStep(worker.head) /\ (ok => gates'[worker.head].id # 0)
    BY <1>2, <1>3, <1>6, <1>8, WriteStep
  <2>3. Owns(Found, gates')
    BY <1>4, <2>2, OwnsKept
  <2>4. ok => Owns(done, gates')
    <3>1. Titled(Live, next) \in Gate(Base)
      BY <1>2, <1>6, TitledFacts
    <3> QED BY <1>4, <2>2, <3>1, CompletedByOwns
  <2> HIDE DEF done
  <2>5. Owns(s', gates')
    BY <1>2, <1>8, <2>3, <2>4, DoneOwns
  <2> QED BY <1>1, <1>2, <1>3, <2>1, <2>2, <2>5, CommandFrame
<1> QED BY <1>1, <1>7, <1>8

\* After the first step: it knows the revision and whose it is.
LEMMA ActingFacts ==
  ASSUME Sound, worker.pc \notin {"idle", "prepare"}
  PROVE  /\ worker.pc # "idle" /\ Owns(s, gates) /\ worker \in Attending
         /\ worker.head \in Commit /\ worker.base \in Base
         /\ Snapshot \in Revision /\ Snapshot.head = worker.head
         /\ Live \in Gate(Base) /\ Live = gates[worker.head] /\ s \in AgenticState
         /\ GitHub /\ ListedAsked
         /\ worker.pc = "timer" => ~TraditionalMode(s)
         /\ worker.pc \in {"dispatch", "send"} => TraditionalMode(s)
BY WorkingFacts, OwnsFacts, SoundFacts DEF Sound, Mind, Attends

\* A step that only changes what the worker remembers.
LEMMA QuietFrame ==
  ASSUME Sound, worker.pc \notin {"idle", "prepare"}, UNCHANGED outside, UNCHANGED github,
         UNCHANGED <<used, completed, traditionally>>, Owns(s', gates),
         Sleeps \/ \E pc \in Steps :
                     /\ Goes(pc)
                     /\ pc = "timer" => ~TraditionalMode(s')
                     /\ pc \in {"dispatch", "send"} => TraditionalMode(s')
  PROVE  Sound'
<1>1. Snapshot \in Revision /\ worker.pc # "idle"
  BY ActingFacts
<1>2. GateStep(worker.head) /\ RequestStep /\ GitHubTyped
  BY UntouchedFacts
<1>3. Histories' /\ used' \in [Moves -> Nat]
  BY <1>1, SoundFacts, HistoriesKept
<1>4. Owns(s', gates')
  BY <1>2, OwnsKept
<1> QED BY <1>1, <1>2, <1>3, <1>4, OwnsFrame

LEMMA PhaseFacts ==
  /\ Acting => worker.pc \in {"act", "command"}
  /\ Timing => worker.pc \in {"timer", "act", "command"}
  /\ Dispatching => worker.pc \in {"dispatch", "act", "command"}
BY DEF Acting, Timing, Dispatching

LEMMA RestingSound ==
  ASSUME Sound, ActNothing \/ NotDue \/ SendNothing
  PROVE  Sound'
<1>1. /\ UNCHANGED outside /\ UNCHANGED github /\ UNCHANGED <<used, completed, traditionally>>
      /\ s' = s /\ Succeeds /\ worker.pc \notin {"idle", "prepare"}
  BY PhaseFacts DEF ActNothing, NotDue, SendNothing
<1>2. Owns(s', gates) /\ Sleeps
  BY <1>1, ActingFacts, SleepsFacts
<1> QED BY <1>1, <1>2, QuietFrame

LEMMA ActAdoptSound ==
  ASSUME Sound, ActAdopt
  PROVE  Sound'
<1> DEFINE fresh == s.fresh \/ (Live.id # 0 /\ Live.base # worker.base)
<1>1. /\ UNCHANGED outside /\ UNCHANGED github /\ UNCHANGED <<used, completed, traditionally>>
      /\ ~TraditionalMode(s) /\ ~s.ready /\ worker.pc \notin {"idle", "prepare"}
      /\ Goto("timer")
      /\ \/ Adopts /\ s' = Cancelled(Adopted)
         \/ s' = [s EXCEPT !.fresh = fresh]
  BY PhaseFacts DEF ActAdopt
<1>2. Owns(s, gates) /\ worker \in Attending /\ worker.pc # "idle" /\ s \in AgenticState
  BY <1>1, ActingFacts
<1>3. Goes("timer")
  BY <1>1, <1>2, GotoFacts, ActFacts
<1>4. Owns(s', gates) /\ ~TraditionalMode(s')
  <2>1. CASE Adopts /\ s' = Cancelled(Adopted)
    <3>1. Owns(Adopted, gates) /\ ~TraditionalMode(Adopted)
      BY <1>1, <1>2, <2>1, AdoptedOwns
    <3>2. Alike(Adopted, Cancelled(Adopted))
      BY <3>1, StoppedAlike DEF Owns
    <3> QED BY <2>1, <3>1, <3>2, AlikeOwns
  <2>2. CASE s' = [s EXCEPT !.fresh = fresh]
    <3>1. fresh \in BOOLEAN
      BY <1>2 DEF AgenticState
    <3> HIDE DEF fresh
    <3> QED BY <1>1, <1>2, <2>2, <3>1, FreshOwns
  <2> QED BY <1>1, <2>1, <2>2
<1>5. "timer" \notin {"dispatch", "send"} /\ "timer" \in Steps
  BY DEF Steps
<1> QED BY <1>1, <1>3, <1>4, <1>5, QuietFrame

LEMMA ActSignalSound ==
  ASSUME Sound, ActSignal
  PROVE  Sound'
<1>1. PICK ok \in BOOLEAN :
        /\ Costs(ok) /\ Continues(ok, "timer")
        /\ IF ok THEN Signals /\ s' = Signalled ELSE SignalFails
  BY DEF ActSignal
<1>2. /\ UNCHANGED outside /\ UNCHANGED <<pr, contexts, requested>>
      /\ completed' \subseteq completed /\ traditionally' \subseteq traditionally
      /\ ~TraditionalMode(s) /\ ~s.ready /\ worker.pc \notin {"idle", "prepare"}
  BY RecallFacts, PhaseFacts DEF ActSignal
<1>3. /\ Owns(s, gates) /\ worker \in Attending /\ worker.pc # "idle" /\ Snapshot \in Revision
      /\ worker.head \in Commit /\ worker.base \in Base /\ GitHub
  BY <1>2, ActingFacts
<1>4. RequestStep /\ Histories' /\ GitHubTyped /\ used' \in [Moves -> Nat]
  BY <1>1, <1>2, <1>3, SoundFacts, RequestRest, HistoriesKept, SamePull, CostsFacts
<1>5. (ok => Goes("timer")) /\ (~ok => Sleeps)
  BY <1>1, <1>3, ContinuesFacts, ActFacts
<1>6. CASE ok
  <2>1. GateStep(worker.head) /\ gates'[worker.head].id # 0
    BY <1>1, <1>3, <1>6, SignalsStep
  <2>2. Owns(s', gates') /\ ~TraditionalMode(s')
    BY <1>1, <1>2, <1>3, <1>6, <2>1, SignalledOwns
  <2>3. "timer" \notin {"dispatch", "send"} /\ "timer" \in Steps
    BY DEF Steps
  <2> QED BY <1>2, <1>3, <1>4, <1>5, <1>6, <2>1, <2>2, <2>3, OwnsFrame
<1>7. CASE ~ok
  <2>1. GateStep(worker.head)
    BY <1>1, <1>3, <1>7, SignalFailsStep
  <2>2. Owns(s', gates')
    BY <1>1, <1>2, <1>3, <1>7, <2>1, SignalFailsOwns, OwnsKept
  <2> QED BY <1>2, <1>3, <1>4, <1>5, <1>7, <2>1, <2>2, OwnsFrame
<1> QED BY <1>6, <1>7

LEMMA TimerConfirmsSound ==
  ASSUME Sound, TimerConfirms
  PROVE  Sound'
<1>1. /\ UNCHANGED outside /\ UNCHANGED github /\ UNCHANGED <<used, completed, traditionally>>
      /\ worker.pc \notin {"idle", "prepare"} /\ Live.id # 0
      /\ s' = [s EXCEPT !.title = Live.title, !.ready = TRUE, !.dispatched = TRUE,
                        !.fresh = FALSE, !.waiting = 0]
      /\ Succeeds
  BY PhaseFacts DEF TimerConfirms, Confirms, IsFor
<1>2. /\ Owns(s, gates) /\ s \in AgenticState /\ Live = gates[worker.head] /\ Live \in Gate(Base)
  BY <1>1, ActingFacts
<1>3. Live.title \in Title
  BY <1>2 DEF Gate, Title
<1>4. /\ s'.known = s.known /\ s'.head = s.head /\ s'.base = s.base
      /\ s'.ready = TRUE /\ s'.waiting = 0
  BY <1>1, <1>2 DEF AgenticState
<1>5. s' \in AgenticState
  BY <1>1, <1>2, <1>3 DEF AgenticState
<1>6. Owns(s', gates)
  BY <1>1, <1>2, <1>4, <1>5 DEF Owns, Remembers
<1> QED BY <1>1, <1>6, SleepsFacts, QuietFrame

LEMMA TimesOutSound ==
  ASSUME Sound, TimesOut
  PROVE  Sound'
<1>1. /\ UNCHANGED outside /\ UNCHANGED github /\ UNCHANGED <<used, completed, traditionally>>
      /\ worker.pc \notin {"idle", "prepare"}
      /\ s' = [s EXCEPT !.timedOut = TRUE, !.waiting = 0] /\ Goto("dispatch")
  BY PhaseFacts DEF TimesOut
<1>2. Owns(s, gates) /\ s \in AgenticState /\ worker \in Attending
  BY <1>1, ActingFacts
<1>3. /\ s' \in AgenticState
      /\ s'.known = s.known /\ s'.head = s.head /\ s'.base = s.base /\ s'.timedOut
  BY <1>1, <1>2 DEF AgenticState
<1>4. Owns(s', gates) /\ TraditionalMode(s')
  BY <1>2, <1>3 DEF Owns, Remembers, TraditionalMode
<1>5. Goes("dispatch") /\ "dispatch" \in Steps
  BY <1>1, <1>2, GotoFacts, ActFacts
<1> QED BY <1>1, <1>4, <1>5, QuietFrame

LEMMA NothingToDispatchSound ==
  ASSUME Sound, NothingToDispatch
  PROVE  Sound'
<1>1. /\ UNCHANGED outside /\ UNCHANGED github /\ UNCHANGED <<used, completed, traditionally>>
      /\ worker.pc \notin {"idle", "prepare"} /\ s' = [s EXCEPT !.waiting = 0] /\ Succeeds
  BY PhaseFacts DEF NothingToDispatch
<1>2. Owns(s, gates) /\ s \in AgenticState
  BY <1>1, ActingFacts
<1>3. Owns(s', gates)
  BY <1>1, <1>2, StoppedAlike, AlikeOwns
<1> QED BY <1>1, <1>3, SleepsFacts, QuietFrame

LEMMA DispatchPendingSound ==
  ASSUME Sound, DispatchPending
  PROVE  Sound'
<1>1. PICK ok \in BOOLEAN : Costs(ok) /\ Continues(ok, "send") /\ PendingGate(Snapshot, ok)
  BY DEF DispatchPending
<1>2. /\ UNCHANGED outside /\ UNCHANGED <<pr, contexts, requested>>
      /\ completed' \subseteq completed /\ traditionally' \subseteq traditionally
      /\ worker.pc \notin {"idle", "prepare"} /\ (worker.pc = "dispatch" \/ TraditionalMode(s))
      /\ s' = [s EXCEPT !.waiting = 0]
  BY RecallFacts, PhaseFacts DEF DispatchPending, Dispatching
<1>3. /\ Owns(s, gates) /\ worker \in Attending /\ worker.pc # "idle" /\ Snapshot \in Revision
      /\ Snapshot.head = worker.head /\ GitHub /\ TraditionalMode(s) /\ s \in AgenticState
  BY <1>2, ActingFacts
<1>4. RequestStep /\ Histories' /\ GitHubTyped /\ used' \in [Moves -> Nat]
  BY <1>1, <1>2, <1>3, SoundFacts, RequestRest, HistoriesKept, SamePull, CostsFacts
<1>5. GateStep(worker.head)
  BY <1>1, <1>3, PendingGateStep
<1>6. Owns(s', gates) /\ TraditionalMode(s')
  BY <1>2, <1>3, StoppedAlike, AlikeOwns
<1>7. Owns(s', gates')
  BY <1>5, <1>6, OwnsKept
<1>8. Sleeps \/ Goes("send")
  BY <1>1, <1>3, ContinuesFacts, ActFacts
<1>9. "send" # "timer" /\ "send" \in Steps
  BY DEF Steps
<1> QED BY <1>2, <1>3, <1>4, <1>5, <1>6, <1>7, <1>8, <1>9, OwnsFrame

LEMMA SendSound ==
  ASSUME Sound, Send
  PROVE  Sound'
<1>1. PICK ok \in BOOLEAN :
        /\ Costs(ok)
        /\ IF ok THEN Dispatches(Snapshot, "delta", FALSE) ELSE DispatchFails(Snapshot, "delta", FALSE)
        /\ Succeeds \/ Errs
        /\ s' = IF ok THEN [s EXCEPT !.dispatched = TRUE] ELSE s
        /\ completed' \subseteq completed
        /\ traditionally' \subseteq traditionally \cup {Snapshot}
  <2>1. \A ok \in BOOLEAN : Recall({}, IF ok THEN {Snapshot} ELSE {}) =>
          /\ completed' \subseteq completed
          /\ traditionally' \subseteq traditionally \cup {Snapshot}
    BY DEF Recall
  <2> QED BY <2>1 DEF Send
<1>2. /\ UNCHANGED outside /\ UNCHANGED pr /\ worker.pc = "send"
  BY DEF Send
<1>3. /\ Owns(s, gates) /\ worker.pc # "idle" /\ Snapshot \in Revision
      /\ Snapshot.head = worker.head /\ GitHub /\ ListedAsked /\ TraditionalMode(s)
  BY <1>2, ActingFacts
<1>4. Histories' /\ GitHubTyped /\ used' \in [Moves -> Nat]
  BY <1>1, <1>2, <1>3, SoundFacts, HistoriesKept, SamePull, CostsFacts
<1>5. GateStep(worker.head) /\ RequestStep
  BY <1>1, <1>3, DispatchesStep, DispatchFailsStep
<1>6. Owns(s, gates')
  BY <1>3, <1>5, OwnsKept
<1>7. Owns(s', gates')
  BY <1>1, <1>3, <1>6, DispatchedOwns
<1>8. Sleeps
  BY <1>1, SleepsFacts
<1> QED BY <1>2, <1>3, <1>4, <1>5, <1>7, <1>8, OwnsFrame

LEMMA ReadFailsSound ==
  ASSUME Sound, ReadFails
  PROVE  Sound'
<1>1. /\ worker.pc # "idle" /\ UNCHANGED outside /\ UNCHANGED github /\ Spend("fault") /\ Errs
      /\ UNCHANGED <<s, completed, traditionally>>
  BY DEF ReadFails
<1>2. s \in AgenticState /\ Remembers(s, gates) /\ Snapshot \in Revision
  BY <1>1, WorkingFacts
<1>3. GateStep(worker.head) /\ RequestStep /\ GitHubTyped
  BY <1>1, UntouchedFacts
<1>4. "fault" \in Moves
  BY DEF Moves
<1>5. used' \in [Moves -> Nat] /\ Histories'
  BY <1>1, <1>2, <1>4, SoundFacts, SpendFacts, HistoriesKept
<1>6. s' \in AgenticState /\ Remembers(s', gates')
  BY <1>1, <1>2, <1>3, RemembersKept
<1> QED BY <1>1, <1>3, <1>5, <1>6, SleepsFacts, SleepFrame

LEMMA WorkerSound ==
  ASSUME Sound, Worker
  PROVE  Sound'
BY FetchSound, PrepareNewSound, PrepareRestoredSound, PrepareSound, CommandSignalSound,
   CommandDispatchSound, CommandAutoSound, CommandSkipSound, CommandRestoreSound,
   MarkDeclinedSound, MarkTraditionalSound, MarkAgenticSound, RestingSound, ActAdoptSound,
   ActSignalSound, TimerConfirmsSound, TimesOutSound, NothingToDispatchSound,
   DispatchPendingSound, SendSound, ReadFailsSound DEF Worker

-----------------------------------------------------------------------------
(* The theorems.                                                             *)

(* A pull request has a first commit: the order of the naturals is well founded. *)
LEMMA FirstCommit ==
  LET h == CHOOSE h \in Commit : \A k \in Commit : h <= k IN h \in Commit
<1>1. Commit \subseteq Nat /\ Commit # {}
  BY DispatchAssumption
<1>2. PICK R : R = OpToRel(<, Nat)
  BY Zenon
<1>3. IsWellFoundedOn(R, Nat)
  BY <1>2, NatLessThanWellFounded, Zenon
<1>4. PICK h \in Commit : \A k \in Commit : <<k, h>> \notin R
  BY <1>1, <1>3, WFMin
<1>5. \A i, j \in Nat : i < j => <<i, j>> \in R
  BY <1>2, Zenon DEF OpToRel
<1>6. h \in Nat /\ \A k \in Commit : k \in Nat
  BY <1>1
<1>7. \A k \in Commit : h <= k
  <2> TAKE k \in Commit
  <2>1. <<k, h>> \notin R /\ k \in Nat
    BY <1>4, <1>6
  <2>2. ~(k < h)
    BY <2>1, <1>5, <1>6
  <2> QED BY <2>1, <2>2, <1>6
<1> QED BY <1>7

LEMMA InitSound ==
  ASSUME Init
  PROVE  Sound
<1> DEFINE h == CHOOSE h \in Commit : \A k \in Commit : h <= k
           e == [kind |-> "push", rev |-> Current, labels |-> {}]
<1>1. h \in Commit
  BY FirstCommit
<1>2. pr = [head |-> h, base |-> Main, draft |-> FALSE, labels |-> {}] /\ Main \in Base
  BY DispatchAssumption DEF Init
<1> HIDE DEF h
<1>3. pr \in [head : Commit, base : Base, draft : BOOLEAN, labels : SUBSET Label]
      /\ pr.head = h
  BY <1>1, <1>2
<1>4. NoGate \in Gate(Base) /\ ~Succeeded(NoGate)
  BY DEF NoGate, Gate, Succeeded
<1>5. GitHub
  BY <1>3, <1>4 DEF Init, GitHub
<1>6. Current \in Revision /\ Current.head = pr.head /\ 0 <= pr.head /\ pr.head <= pr.head
  BY <1>5, CurrentFacts, HeadFacts
<1>7. e \in Event /\ e.rev = Current /\ events = {e}
  BY <1>6 DEF Init, Event
<1> HIDE DEF e
<1>8. Setting
  BY <1>5, <1>7 DEF Init, Setting
<1>9. Histories /\ Tasked /\ ListedAsked
  BY NothingFacts DEF Init, Histories, Tasked, ListedAsked
<1>10. Pushed
  <2>1. /\ \A r \in Revision : requested[r] = {} /\ ~first[r]
        /\ pjEvents = {} /\ handler.head = 0 /\ reconciler.head = 0 /\ worker.head = 0
    BY NothingFacts, StartFacts DEF Init
  <2> QED BY <1>6, <1>7, <2>1 DEF Pushed
<1>11. Truthful
  BY <1>4 DEF Init, Truthful, SaysDispatched
<1>12. Mind
  BY StartFacts DEF Init, Mind, Attends
<1> QED BY <1>8, <1>9, <1>10, <1>11, <1>12 DEF Sound

LEMMA StutterSound ==
  ASSUME Sound, UNCHANGED vars
  PROVE  Sound'
<1>1. /\ UNCHANGED <<scenario, pr, gates, contexts, requested, listed, first, events, pjEvents>>
      /\ UNCHANGED <<handler, reconciler, cwIds, rIds, closed, now, used>>
      /\ Unheeded
  BY DEF vars, dispatchVars, github, prow, hooks, loop, agenticVars, Unheeded
<1>2. GateStep(pr.head) /\ RequestStep /\ GitHubTyped
  BY <1>1, GateRest, RequestRest, SoundFacts, SamePull
<1>3. Tasked'
  BY <1>1, SoundFacts DEF Tasked, Enrolled
<1> QED BY <1>1, <1>2, <1>3, SoundFacts, HookFrame

LEMMA NextSound ==
  ASSUME Sound, [Next]_vars
  PROVE  Sound'
BY WebhooksSound, RoutesSound, ReconcilerSound, WorkerSound, PeopleSound, AroundSound,
   StutterSound DEF Next

LEMMA AlwaysSound == Spec => []Sound
<1>1. Init => Sound
  BY InitSound
<1>2. Sound /\ [Next]_vars => Sound'
  BY NextSound
<1> QED BY <1>1, <1>2, PTL DEF Spec

LEMMA SoundTyped ==
  ASSUME Sound
  PROVE  TypeOK
<1>1. 0 \notin Commit
  BY DispatchAssumption
<1>2. Tasked /\ Mind
  BY DEF Sound
<1>3. Controller
  <2>1. /\ handler.busy <=> handler.head \in Commit
        /\ reconciler.busy <=> reconciler.head \in Commit
    BY <1>1, <1>2, NothingFacts DEF Tasked
  <2>2. /\ handler.guard => Rev(handler.head, handler.base) \in cwIds
        /\ reconciler.busy => Rev(reconciler.head, reconciler.base) \in rIds \cap pjEvents
    BY <1>2 DEF Tasked
  <2> QED BY <2>1, <2>2 DEF Sound, Setting, Histories, Controller
<1>4. Handoffs
  <2>1. worker.pc # "idle" =>
          /\ worker.head \in Commit /\ Enrolled(worker.base)
          /\ Heard.id # 0 => inbox # <<>> /\ Heard = Head(inbox)
    BY <1>2 DEF Mind, Attends, Heard
  <2>2. worker.pc \notin {"idle", "prepare"} => s.known /\ Snapshot = Rev(s.head, s.base)
    BY <1>2 DEF Mind, Attends, Snapshot
  <2>3. worker.pc \in {"timer"} => ~TraditionalMode(s)
    BY <1>2 DEF Mind, Attends
  <2>4. /\ s.waiting # 0 /\ ~TraditionalMode(s) => s.ready /\ ~s.dispatched /\ s.published # 0
        /\ s.ready /\ ~TraditionalMode(s) => gates[s.head].id # 0
    BY <1>2 DEF Mind, Remembers
  <2> QED BY <2>1, <2>2, <2>3, <2>4 DEF Handoffs
<1> QED BY <1>3, <1>4 DEF Sound, Setting, ListedAsked, TypeOK

LEMMA SoundGreen ==
  ASSUME Sound
  PROVE  GreenMeansDispatched
<1>1. pr.head \in Commit /\ pr.head >= pr.head
  BY SoundFacts, DispatchAssumption
<1>2. SaysDispatched(gates[pr.head]) => Asked(requested, pr.head)
  BY <1>1 DEF Sound, Truthful
<1> QED BY <1>2 DEF GreenMeansDispatched, SaysDispatched, Asked

\* Whatever webhooks, the reconciler, the worker and people do in whatever order, and
\* through failures and restarts: who dispatches knows the revision and keeps it guarded,
\* and what the worker remembers, holds and waits for fits together (main.go, reconciler.go,
\* agentic.go).
THEOREM TypeCorrect == Spec => []TypeOK
BY AlwaysSound, SoundTyped, PTL

\* A gate that the controller made succeed for the head of the pull request says the
\* truth: every second-stage job this pull request needs was asked for at that commit
\* (dispatch_check.go dispatch, helpers.go planDispatchComment).
THEOREM GreenIsDispatched == Spec => []GreenMeansDispatched
BY AlwaysSound, SoundGreen, PTL
===============================================================================
