------------------------ MODULE PipelineOwners_proofs ------------------------
(* A theorem about PipelineController, for any commits, branches, presubmits, *)
(* scenarios and timeout: a revision has one owner, Chai or the controller.   *)
EXTENDS PipelineController_proofs

\* The gate says that the revision of this branch was dispatched without Chai.
Taken(g, b) == IsFor(g, b) /\ TraditionalRevisionOwner(g)

\* A gate that is there has a title.
Named(g) == g.title = "" => g.id = 0

\* What the worker remembers of its revision, in the light of its gate and of what happened to
\* the revisions of the pull request.
Knows(t, gs, done, sent) ==
  t.known =>
    /\ \A r \in sent : r.head = t.head => r.base = t.base
    /\ Rev(t.head, t.base) \in sent => TraditionalMode(t)
    /\ Rev(t.head, t.base) \in done /\ TraditionalMode(t) /\ ~t.optOut => t.dispatched
    /\ ~TraditionalMode(t) /\ t.waiting # 0 => t.title = "agentic" /\ ~Taken(gs[t.head], t.base)

\* The gates say which revisions were completed, and which were dispatched without Chai.
Recorded(gs, done, sent) ==
  /\ \A h \in Commit : Named(gs[h])
  /\ \A r \in done : Enrolled(r.base) /\ IsFor(gs[r.head], r.base) /\ Succeeded(gs[r.head])
  /\ \A r \in sent : Enrolled(r.base) /\ Taken(gs[r.head], r.base)

Exclusive ==
  /\ handler.busy => ~Enrolled(handler.base)
  /\ s.known => Enrolled(s.base)
  /\ Recorded(gates, completed, traditionally)
  /\ Knows(s, gates, completed, traditionally)
  /\ worker.pc = "send" => ~s.dispatched
-----------------------------------------------------------------------------
(* Whose the gate is while it is written.                                    *)

LEMMA CreatedRest ==
  ASSUME NEW g \in Gate(Base), NEW next \in Gate(Base)
  PROVE  LET c == Created(g, next) IN
         /\ c.id # 0 /\ c.title = next.title /\ c.base = next.base
         /\ c.status = next.status /\ c.conclusion = next.conclusion
<1>0. g.id \in Nat
  BY DEF Gate
<1>1. PICK top \in Nat : top = g.id + 1 /\ top # 0
  BY <1>0
<1>2. Created(g, next) = [next EXCEPT !.id = top]
  BY <1>1 DEF Created
<1> QED BY <1>1, <1>2 DEF Gate

LEMMA PatchedRest ==
  ASSUME NEW g \in Gate(Base), NEW next \in Gate(Base)
  PROVE  LET c == Patched(g, next) IN
         /\ c.id = g.id /\ c.title = next.title /\ c.base = next.base /\ c.status = next.status
         /\ next.conclusion # "" => c.conclusion = next.conclusion
BY DEF Patched, Gate

LEMMA RetiredRest ==
  ASSUME NEW g \in Gate(Base), NEW title, NEW summary
  PROVE  LET c == Retired(g, title, summary) IN
         /\ c.id = g.id /\ c.title = title /\ c.base = g.base /\ ~Succeeded(c)
<1> DEFINE u == [g EXCEPT !.status = "completed", !.conclusion = "failure"]
           c == Retired(g, title, summary)
<1>1. u \in Gate(Base) /\ u.id = g.id /\ u.base = g.base
      /\ u.status = "completed" /\ u.conclusion = "failure"
  BY DEF Gate
<1>2. c = [u EXCEPT !.title = title, !.summary = summary]
  BY DEF Retired
<1> HIDE DEF u, c
<1>3. /\ c.id = u.id /\ c.title = title /\ c.base = u.base /\ c.status = u.status
      /\ c.conclusion = u.conclusion
  BY <1>1, <1>2 DEF Gate
<1> QED BY <1>1, <1>3 DEF Succeeded, c

LEMMA TitledRest ==
  ASSUME NEW g \in Gate(Base), NEW next \in Gate(Base)
  PROVE  LET c == Titled(g, next) IN
         /\ c \in Gate(Base) /\ c.status = next.status
         /\ c.conclusion = next.conclusion /\ c.base = next.base
         /\ c.title = IF /\ IsFor(g, next.base) /\ next.title = "traditional"
                         /\ \/ g.title = "rerun"
                            \/ TraditionalRevisionOwner(g) /\ next.status # "completed"
                      THEN "rerun" ELSE next.title
<1> DEFINE again == [next EXCEPT !.title = "rerun"]
           says == /\ IsFor(g, next.base) /\ next.title = "traditional"
                   /\ g.title = "rerun" \/ (TraditionalRevisionOwner(g) /\ next.status # "completed")
<1>1. Titled(g, next) = IF says THEN again ELSE next
  BY DEF Titled
<1>2. again.title = "rerun"
  BY DEF Gate
<1> HIDE DEF again, says
<1>3. Titled(g, next).title = IF says THEN "rerun" ELSE next.title
  BY <1>1, <1>2
<1> QED BY <1>3, TitledFacts DEF says

\* The versions of a check on the way.
LEMMA VersionsRest ==
  ASSUME NEW g \in Gate(Base), NEW next \in Gate(Base), NEW reopen \in BOOLEAN
  PROVE  LET new == Titled(g, next)
             old == IF reopen /\ new.status # "completed"
                    THEN Retired(g, new.title, new.summary) ELSE g
         IN /\ g.id = 0 => /\ Written(g, next, reopen) = Created(g, new)
                           /\ Interrupted(g, next, reopen) = {Created(g, new), g}
            /\ g.id # 0 => /\ Written(g, next, reopen) = Patched(old, new)
                           /\ Interrupted(g, next, reopen) = {Patched(old, new), old, g}
<1> DEFINE new == Titled(g, next)
           old == IF reopen /\ new.status # "completed" THEN Retired(g, new.title, new.summary)
                  ELSE g
<1>1. Versions(g, next, reopen)
        = IF g.id = 0 THEN <<Created(g, new), g>> ELSE <<Patched(old, new), old, g>>
  BY DEF Versions
<1> HIDE DEF new, old
<1>2. CASE g.id = 0
  <2>1. Versions(g, next, reopen) = <<Created(g, new), g>>
    BY <1>1, <1>2
  <2> QED BY <1>2, <2>1 DEF Written, Interrupted, new
<1>3. CASE g.id # 0
  <2>1. Versions(g, next, reopen) = <<Patched(old, new), old, g>>
    BY <1>1, <1>3
  <2>2. /\ Written(g, next, reopen) = Patched(old, new)
        /\ Interrupted(g, next, reopen) = {Patched(old, new), old, g}
    BY <2>1 DEF Written, Interrupted
  <2> QED BY <1>3, <2>2 DEF old, new
<1> QED BY <1>2, <1>3

LEMMA WrittenRest ==
  ASSUME NEW g \in Gate(Base), NEW next \in Gate(Base), NEW reopen \in BOOLEAN
  PROVE  LET w == Written(g, next, reopen) IN
         /\ w \in Interrupted(g, next, reopen) /\ w \in Gate(Base)
         /\ w.id # 0 /\ w.base = next.base /\ w.status = next.status
         /\ w.title = Titled(g, next).title
         /\ next.conclusion # "" => w.conclusion = next.conclusion
<1> DEFINE new == Titled(g, next)
           old == IF reopen /\ new.status # "completed" THEN Retired(g, new.title, new.summary)
                  ELSE g
           w == Written(g, next, reopen)
<1>1. w \in Interrupted(g, next, reopen) /\ w \in Gate(Base) /\ w.id # 0
  BY VersionsFacts
<1>2. /\ new \in Gate(Base) /\ new.status = next.status /\ new.base = next.base
      /\ new.conclusion = next.conclusion
  BY TitledRest
<1>3. g.id = 0 => w = Created(g, new)
  BY VersionsRest
<1>4. g.id # 0 => w = Patched(old, new)
  BY VersionsRest
<1>5. old \in Gate(Base)
  <2>1. PICK title \in Title : title = new.title
    BY <1>2 DEF Gate, Title
  <2>2. PICK summary \in Summary : summary = new.summary
    BY <1>2 DEF Gate, Summary
  <2>3. Retired(g, title, summary) \in Gate(Base)
    BY RetiredFacts
  <2> QED BY <2>1, <2>2, <2>3
<1> HIDE DEF new, old, w
<1>6. /\ w.title = new.title /\ w.base = new.base /\ w.status = new.status
      /\ new.conclusion # "" => w.conclusion = new.conclusion
  <2>1. CASE g.id = 0
    <3>1. LET c == Created(g, new) IN
          /\ c.title = new.title /\ c.base = new.base /\ c.status = new.status
          /\ c.conclusion = new.conclusion
      BY <1>2, CreatedRest
    <3> QED BY <1>3, <2>1, <3>1
  <2>2. CASE g.id # 0
    <3>1. LET c == Patched(old, new) IN
          /\ c.title = new.title /\ c.base = new.base /\ c.status = new.status
          /\ new.conclusion # "" => c.conclusion = new.conclusion
      BY <1>2, <1>5, PatchedRest
    <3> QED BY <1>4, <2>2, <3>1
  <2> QED BY <2>1, <2>2
<1> QED BY <1>1, <1>2, <1>6 DEF new, w

\* Every version keeps a revision that was dispatched without Chai so, unless it is marked
\* as Chai's or fails; and none gives a revision away before it succeeds.
LEMMA Rewritten ==
  ASSUME NEW g \in Gate(Base), NEW next \in Gate(Base), NEW reopen \in BOOLEAN, Named(g),
         next.title # "", next.status # "completed" => next.title = "traditional",
         NEW v \in Interrupted(g, next, reopen)
  PROVE  /\ v \in Gate(Base) /\ Named(v)
         /\ /\ next.title = "traditional" /\ Taken(g, next.base)
            /\ next.status # "completed" \/ next.conclusion = "success" \/ g.title = "rerun"
            => Taken(v, next.base)
         /\ next.title = "agentic" => v = g \/ v.title = "agentic"
         /\ next.status # "completed" /\ ~Taken(g, next.base) => v = g \/ ~TraditionalRevisionOwner(v)
         /\ v = g \/ v.base = next.base \/ ~TraditionalRevisionOwner(v)
<1> DEFINE new == Titled(g, next)
           old == IF reopen /\ new.status # "completed" THEN Retired(g, new.title, new.summary)
                  ELSE g
<1>1. v \in Gate(Base)
  BY VersionsFacts
<1>2. /\ new \in Gate(Base) /\ new.status = next.status /\ new.base = next.base
      /\ new.conclusion = next.conclusion
      /\ new.title = IF /\ IsFor(g, next.base) /\ next.title = "traditional"
                        /\ \/ g.title = "rerun"
                           \/ TraditionalRevisionOwner(g) /\ next.status # "completed"
                     THEN "rerun" ELSE next.title
  BY TitledRest
<1>3. g.id = 0 => v \in {Created(g, new), g}
  BY VersionsRest
<1>4. g.id # 0 => v \in {Patched(old, new), old, g}
  BY VersionsRest
<1>5. \/ old = g
      \/ /\ new.status # "completed" /\ old.id = g.id /\ old.title = new.title
         /\ old.base = g.base /\ ~Succeeded(old)
  <2>1. PICK title, summary :
          title = new.title /\ (old = g \/ (new.status # "completed" /\ old = Retired(g, title, summary)))
    OBVIOUS
  <2>2. LET c == Retired(g, title, summary) IN
        /\ c.id = g.id /\ c.title = title /\ c.base = g.base /\ ~Succeeded(c)
    BY RetiredRest
  <2> HIDE DEF new, old
  <2> QED BY <2>1, <2>2
<1>6. old \in Gate(Base)
  <2>1. PICK title \in Title : title = new.title
    BY <1>2 DEF Gate, Title
  <2>2. PICK summary \in Summary : summary = new.summary
    BY <1>2 DEF Gate, Summary
  <2>3. Retired(g, title, summary) \in Gate(Base)
    BY RetiredFacts
  <2> QED BY <2>1, <2>2, <2>3
<1> HIDE DEF new, old
<1>7. CASE v = g
  BY <1>1, <1>7
<1>8. CASE v = old /\ v # g
  <2>1. /\ v.id = g.id /\ v.title = new.title /\ v.base = g.base /\ ~Succeeded(v)
        /\ new.status # "completed"
    BY <1>5, <1>8
  <2> QED BY <1>1, <1>2, <2>1 DEF Named, Taken, IsFor, TraditionalRevisionOwner
<1>9. CASE v = Created(g, new) /\ g.id = 0
  <2>1. /\ v.id # 0 /\ v.title = new.title /\ v.base = new.base
        /\ v.status = new.status /\ v.conclusion = new.conclusion
    BY <1>2, <1>9, CreatedRest
  <2> QED BY <1>1, <1>2, <1>9, <2>1
          DEF Named, Taken, IsFor, TraditionalRevisionOwner, Succeeded
<1>10. CASE v = Patched(old, new) /\ g.id # 0
  <2>1. /\ v.id = old.id /\ v.title = new.title /\ v.base = new.base /\ v.status = new.status
        /\ new.conclusion # "" => v.conclusion = new.conclusion
    BY <1>2, <1>6, <1>10, PatchedRest
  <2>2. old.id = g.id
    BY <1>5
  <2> QED BY <1>1, <1>2, <1>10, <2>1, <2>2
          DEF Named, Taken, IsFor, TraditionalRevisionOwner, Succeeded
<1> QED BY <1>3, <1>4, <1>7, <1>8, <1>9, <1>10

-----------------------------------------------------------------------------
(* Whose the gate is after a dispatch.                                       *)

\* The gate of a revision becomes v: one of its branch, or nobody's.
Touches(rev, v) ==
  /\ v \in Gate(Base) /\ Named(v) /\ gates' = [gates EXCEPT ![rev.head] = v]
  /\ v = gates[rev.head] \/ v.base = rev.base \/ ~TraditionalRevisionOwner(v)

LEMMA CheckRest ==
  ASSUME NEW base \in Base
  PROVE  /\ LET c == Check(base, "in_progress", "", "dispatching") IN
            c \in Gate(Base) /\ c.title = "traditional" /\ c.base = base /\ c.status = "in_progress"
         /\ LET c == Check(base, "completed", "success", "dispatched") IN
            /\ c \in Gate(Base) /\ c.title = "traditional" /\ c.base = base
            /\ c.status = "completed" /\ c.conclusion = "success"
         /\ LET c == Check(base, "completed", "failure", "failed") IN
            /\ c \in Gate(Base) /\ c.title = "traditional" /\ c.base = base
            /\ c.status = "completed" /\ c.conclusion = "failure"
         /\ LET c == Check(base, "completed", "success", "override") IN
            /\ c \in Gate(Base) /\ c.title = "traditional" /\ c.base = base
            /\ c.status = "completed" /\ c.conclusion = "success"
         /\ LET c == Waiting(base) IN
            c \in Gate(Base) /\ c.title = "traditional" /\ c.base = base /\ c.status = "queued"
<1>1. LET c == Check(base, "in_progress", "", "dispatching") IN
      c.title = "traditional" /\ c.base = base /\ c.status = "in_progress"
  BY DEF Check, NoGate
<1>2. LET c == Check(base, "completed", "success", "dispatched") IN
      /\ c.title = "traditional" /\ c.base = base
      /\ c.status = "completed" /\ c.conclusion = "success"
  BY DEF Check, NoGate
<1>3. LET c == Check(base, "completed", "failure", "failed") IN
      /\ c.title = "traditional" /\ c.base = base
      /\ c.status = "completed" /\ c.conclusion = "failure"
  BY DEF Check, NoGate
<1>4. LET c == Check(base, "completed", "success", "override") IN
      /\ c.title = "traditional" /\ c.base = base
      /\ c.status = "completed" /\ c.conclusion = "success"
  BY DEF Check, NoGate
<1>5. LET c == Waiting(base) IN
      c.title = "traditional" /\ c.base = base /\ c.status = "queued"
  BY DEF Check, NoGate, Waiting
<1> QED BY <1>1, <1>2, <1>3, <1>4, <1>5, CheckFacts

LEMMA PostingRest ==
  ASSUME NEW g \in Gate(Base), Named(g), NEW rev \in Revision, NEW jobs
  PROVE  LET open == Posting(g, rev, jobs) IN
         /\ open \in Gate(Base) /\ Named(open)
         /\ open = g \/ open.base = rev.base \/ ~TraditionalRevisionOwner(open)
         /\ jobs = {} => open = g
         /\ jobs # {} /\ Taken(g, rev.base) => Taken(open, rev.base) /\ open.title = "rerun"
<1> DEFINE next == Check(rev.base, "in_progress", "", "dispatching")
           reopen == g.conclusion = "success"
           open == Posting(g, rev, jobs)
<1>1. rev.base \in Base /\ reopen \in BOOLEAN
  BY DEF Revision
<1>2. next \in Gate(Base) /\ next.title = "traditional" /\ next.base = rev.base
      /\ next.status = "in_progress"
  BY <1>1, CheckRest
<1>3. open = IF jobs = {} THEN g ELSE Written(g, next, reopen)
  BY DEF Posting
<1> HIDE DEF next, reopen
<1>4. LET w == Written(g, next, reopen) IN
      w \in Interrupted(g, next, reopen) /\ w.title = Titled(g, next).title
  BY <1>1, <1>2, WrittenRest
<1>5. Titled(g, next).title =
        IF /\ IsFor(g, next.base) /\ next.title = "traditional"
           /\ g.title = "rerun" \/ (TraditionalRevisionOwner(g) /\ next.status # "completed")
        THEN "rerun" ELSE next.title
  BY <1>2, TitledRest
<1>6. LET w == Written(g, next, reopen) IN
      /\ w \in Gate(Base) /\ Named(w)
      /\ w = g \/ w.base = next.base \/ ~TraditionalRevisionOwner(w)
      /\ Taken(g, next.base) => Taken(w, next.base)
  BY <1>1, <1>2, <1>4, Rewritten
<1> HIDE DEF open
<1>7. CASE jobs = {}
  BY <1>3, <1>7 DEF open
<1>8. CASE jobs # {}
  BY <1>2, <1>3, <1>4, <1>5, <1>6, <1>8 DEF open, Taken
<1> QED BY <1>7, <1>8

LEMMA DispatchesGate ==
  ASSUME GitHub, NEW rev \in Revision, NEW mode, NEW explicit, Named(gates[rev.head]),
         Dispatches(rev, mode, explicit)
  PROVE  \E v : /\ Touches(rev, v)
                /\ IsFor(v, rev.base) /\ v.title # "agentic" => Taken(v, rev.base)
<1> DEFINE g == gates[rev.head]
           jobs == Planned(scenario.changed, mode, Existing(rev))
           open == Posting(g, rev, jobs)
           green == Check(rev.base, "completed", "success", "dispatched")
           to == IF jobs = {} /\ IsFor(g, rev.base) /\ Succeeded(g) THEN g
                 ELSE Written(open, green, FALSE)
<1>1. g \in Gate(Base) /\ Named(g) /\ rev.base \in Base /\ rev.head \in Commit
  BY DEF GitHub, Revision
<1>2. gates' = [gates EXCEPT ![rev.head] = to]
  BY DEF Dispatches, SetGate
<1>3. /\ green \in Gate(Base) /\ green.title = "traditional" /\ green.base = rev.base
      /\ green.status = "completed" /\ green.conclusion = "success"
  BY <1>1, CheckRest
<1>4. /\ open \in Gate(Base) /\ Named(open)
      /\ open = g \/ open.base = rev.base \/ ~TraditionalRevisionOwner(open)
  BY <1>1, PostingRest
<1> HIDE DEF green, open, jobs
<1>5. CASE to = g /\ IsFor(g, rev.base) /\ Succeeded(g)
  <2>1. g.title \in {"", "agentic", "traditional", "rerun"}
    BY <1>1 DEF Gate
  <2>2. g.title # "agentic" => Taken(g, rev.base)
    BY <1>1, <1>5, <2>1 DEF Taken, TraditionalRevisionOwner, Named, IsFor
  <2> QED BY <1>1, <1>2, <1>5, <2>2 DEF Touches
<1>6. CASE to = Written(open, green, FALSE)
  <2>1. /\ to \in Gate(Base) /\ to.id # 0 /\ to.base = green.base /\ to.status = green.status
        /\ to.conclusion = "success" /\ to.title = Titled(open, green).title
    <3>1. FALSE \in BOOLEAN
      OBVIOUS
    <3>2. LET w == Written(open, green, FALSE) IN
          /\ w \in Gate(Base) /\ w.id # 0 /\ w.base = green.base /\ w.status = green.status
          /\ w.title = Titled(open, green).title
          /\ green.conclusion # "" => w.conclusion = green.conclusion
      BY <1>3, <1>4, <3>1, WrittenRest
    <3> QED BY <1>3, <1>6, <3>2
  <2>2. Titled(open, green).title \in {"traditional", "rerun"}
    BY <1>3, <1>4, TitledRest
  <2>3. Named(to) /\ Taken(to, rev.base)
    BY <1>3, <2>1, <2>2 DEF Named, Taken, IsFor, TraditionalRevisionOwner, Succeeded
  <2> QED BY <1>2, <1>3, <2>1, <2>3 DEF Touches
<1> QED BY <1>5, <1>6

LEMMA DispatchFailsGate ==
  ASSUME GitHub, NEW rev \in Revision, NEW mode, NEW explicit, Named(gates[rev.head]),
         DispatchFails(rev, mode, explicit)
  PROVE  \E v : /\ Touches(rev, v)
                /\ Taken(gates[rev.head], rev.base) => Taken(v, rev.base)
<1> DEFINE g == gates[rev.head]
           jobs == Planned(scenario.changed, mode, Existing(rev))
           open == Posting(g, rev, jobs)
           done == IsFor(g, rev.base) /\ Succeeded(g)
           reopen == g.conclusion = "success"
           started == Check(rev.base, "in_progress", "", "dispatching")
           fails == Check(rev.base, "completed", "failure", "failed")
           failed == Written(open, fails, FALSE)
           green == Check(rev.base, "completed", "success", "dispatched")
<1>1. /\ g \in Gate(Base) /\ Named(g) /\ rev.base \in Base /\ rev.head \in Commit
      /\ reopen \in BOOLEAN /\ FALSE \in BOOLEAN
  BY DEF GitHub, Revision
<1>2. /\ started \in Gate(Base) /\ started.title = "traditional" /\ started.base = rev.base
      /\ started.status = "in_progress"
      /\ fails \in Gate(Base) /\ fails.title = "traditional" /\ fails.base = rev.base
      /\ fails.status = "completed" /\ fails.conclusion = "failure"
      /\ green \in Gate(Base) /\ green.title = "traditional" /\ green.base = rev.base
      /\ green.status = "completed" /\ green.conclusion = "success"
  <2>1. /\ started \in Gate(Base) /\ started.title = "traditional" /\ started.base = rev.base
        /\ started.status = "in_progress"
    BY <1>1, CheckRest
  <2>2. /\ fails \in Gate(Base) /\ fails.title = "traditional" /\ fails.base = rev.base
        /\ fails.status = "completed" /\ fails.conclusion = "failure"
    BY <1>1, CheckRest, ZenonT(60)
  <2>3. /\ green \in Gate(Base) /\ green.title = "traditional" /\ green.base = rev.base
        /\ green.status = "completed" /\ green.conclusion = "success"
    BY <1>1, CheckRest, ZenonT(60)
  <2> QED BY <2>1, <2>2, <2>3
<1>3. /\ open \in Gate(Base) /\ Named(open)
      /\ open = g \/ open.base = rev.base \/ ~TraditionalRevisionOwner(open)
      /\ jobs = {} => open = g
      /\ jobs # {} /\ Taken(g, rev.base) => Taken(open, rev.base) /\ open.title = "rerun"
  BY <1>1, PostingRest
<1>4. \E v : /\ gates' = [gates EXCEPT ![rev.head] = v]
             /\ \/ v \in Interrupted(g, started, reopen)
                \/ v \in {open, failed} /\ (jobs # {} \/ ~done)
                \/ v \in Interrupted(open, green, FALSE) /\ (jobs # {} \/ ~done)
  BY DEF DispatchFails, SetGate
<1>5. failed \in Interrupted(open, fails, FALSE)
  <2> HIDE DEF open, fails
  <2> QED BY <1>1, <1>2, <1>3, WrittenRest
<1> HIDE DEF open, jobs, done, reopen, started, fails, failed, green
<1>6. PICK v : /\ gates' = [gates EXCEPT ![rev.head] = v]
               /\ \/ v \in Interrupted(g, started, reopen)
                  \/ v = open /\ (jobs # {} \/ ~done)
                  \/ v \in Interrupted(open, fails, FALSE) /\ (jobs # {} \/ ~done)
                  \/ v \in Interrupted(open, green, FALSE) /\ (jobs # {} \/ ~done)
  BY <1>4, <1>5
\* A dispatch that has nothing to do but the gate is one of a gate that failed before.
<1>7. Taken(g, rev.base) /\ (jobs # {} \/ ~done) => Taken(open, rev.base) /\ open.title = "rerun"
  BY <1>3 DEF Taken, TraditionalRevisionOwner, done
<1>8. CASE v \in Interrupted(g, started, reopen)
  <2>1. /\ v \in Gate(Base) /\ Named(v)
        /\ Taken(g, started.base) => Taken(v, started.base)
        /\ v = g \/ v.base = started.base \/ ~TraditionalRevisionOwner(v)
    BY <1>1, <1>2, <1>8, Rewritten
  <2> QED BY <1>2, <1>6, <2>1 DEF Touches
<1>9. CASE v = open /\ (jobs # {} \/ ~done)
  BY <1>3, <1>6, <1>7, <1>9 DEF Touches
<1>10. ASSUME NEW next \in {fails, green}, v \in Interrupted(open, next, FALSE), jobs # {} \/ ~done
       PROVE  Touches(rev, v) /\ (Taken(g, rev.base) => Taken(v, rev.base))
  <2>1. next \in Gate(Base) /\ next.title = "traditional" /\ next.base = rev.base
        /\ next.status = "completed"
    BY <1>2
  <2>2. /\ v \in Gate(Base) /\ Named(v)
        /\ Taken(open, next.base) /\ open.title = "rerun" => Taken(v, next.base)
        /\ v = open \/ v.base = next.base \/ ~TraditionalRevisionOwner(v)
    BY <1>1, <1>3, <1>10, <2>1, Rewritten
  <2> QED BY <1>3, <1>6, <1>7, <1>10, <2>1, <2>2 DEF Touches
<1> QED BY <1>6, <1>8, <1>9, <1>10

LEMMA PendingGateGate ==
  ASSUME GitHub, NEW rev \in Revision, NEW ok \in BOOLEAN, Named(gates[rev.head]),
         PendingGate(rev, ok)
  PROVE  \E v : /\ Touches(rev, v)
                /\ Taken(gates[rev.head], rev.base) => v = gates[rev.head]
<1> DEFINE g == gates[rev.head]
           reopen == g.conclusion = "success"
           next == Waiting(rev.base)
<1>1. /\ g \in Gate(Base) /\ Named(g) /\ rev.base \in Base /\ rev.head \in Commit
      /\ reopen \in BOOLEAN
  BY DEF GitHub, Revision
<1>2. next \in Gate(Base) /\ next.title = "traditional" /\ next.base = rev.base
      /\ next.status = "queued"
  BY <1>1, CheckRest
<1>3. Written(g, next, reopen) \in Interrupted(g, next, reopen)
  <2> HIDE DEF g, next, reopen
  <2> QED BY <1>1, <1>2, WrittenRest
<1>4. \/ UNCHANGED gates
      \/ /\ ~IsFor(g, rev.base)
         /\ \E v \in Interrupted(g, next, reopen) : gates' = [gates EXCEPT ![rev.head] = v]
  <2> HIDE DEF next, reopen
  <2> QED BY <1>3 DEF PendingGate, SetGate, NeedsReset, next, reopen
<1> HIDE DEF next, reopen
<1>5. CASE UNCHANGED gates
  <2>1. gates' = [gates EXCEPT ![rev.head] = g]
    BY <1>1, <1>5 DEF GitHub
  <2> QED BY <1>1, <2>1 DEF Touches
<1>6. ASSUME ~IsFor(g, rev.base), NEW v \in Interrupted(g, next, reopen),
             gates' = [gates EXCEPT ![rev.head] = v]
      PROVE  Touches(rev, v)
  <2>1. /\ v \in Gate(Base) /\ Named(v)
        /\ v = g \/ v.base = next.base \/ ~TraditionalRevisionOwner(v)
    BY <1>1, <1>2, Rewritten
  <2> QED BY <1>2, <1>6, <2>1 DEF Touches
<1> QED BY <1>4, <1>5, <1>6 DEF Taken

-----------------------------------------------------------------------------
(* Other threads, and what happens around the controller.                    *)

LEMMA KnowsLess ==
  ASSUME NEW t, NEW gs, NEW done, NEW sent, Knows(t, gs, done, sent),
         NEW less \in SUBSET done, NEW fewer \in SUBSET sent
  PROVE  Knows(t, gs, less, fewer)
BY DEF Knows

LEMMA RestFrame ==
  ASSUME Exclusive, UNCHANGED <<scenario, gates, s, worker>>,
         completed' \subseteq completed, traditionally' \subseteq traditionally,
         handler'.busy => ~Enrolled(handler'.base)
  PROVE  Exclusive'
<1>1. Knows(s, gates, completed', traditionally')
  BY KnowsLess DEF Exclusive
<1>2. Knows(s, gates, completed, traditionally)'
  BY <1>1 DEF Knows, TraditionalMode
<1>3. Recorded(gates, completed, traditionally)'
  BY DEF Exclusive, Recorded, Enrolled
<1> QED BY <1>2, <1>3 DEF Exclusive, Enrolled

\* Another thread takes no gate from the revision that the worker knows.
LEMMA ElsewhereFrame ==
  ASSUME Sound, Exclusive, UNCHANGED scenario, Elsewhere,
         handler'.busy => ~Enrolled(handler'.base),
         NEW rev \in Revision, ~Enrolled(rev.base), NEW v, Touches(rev, v)
  PROVE  Exclusive'
<1>1. /\ gates \in [Commit -> Gate(Base)] /\ rev.head \in Commit /\ s' = s /\ worker' = worker
      /\ completed' = {r \in completed : gates'[r.head] = gates[r.head]}
      /\ traditionally' = {r \in traditionally : gates'[r.head] = gates[r.head]}
  BY SoundFacts DEF GitHub, Revision, Elsewhere
<1>2. \A h \in Commit : gates'[h] = IF h = rev.head THEN v ELSE gates[h]
  BY <1>1 DEF Touches
<1>3. Recorded(gates, completed, traditionally)'
  <2>1. \A h \in Commit : Named(gates'[h])
    BY <1>2 DEF Exclusive, Recorded, Touches
  <2>2. /\ \A r \in completed' : r \in completed /\ gates'[r.head] = gates[r.head]
        /\ \A r \in traditionally' : r \in traditionally /\ gates'[r.head] = gates[r.head]
    BY <1>1
  <2> QED BY <2>1, <2>2 DEF Exclusive, Recorded, Enrolled
<1>4. completed' \subseteq completed /\ traditionally' \subseteq traditionally
  BY <1>1
<1>5. Knows(s, gates, completed', traditionally')
  BY <1>4, KnowsLess DEF Exclusive
<1>6. s.known => s.head \in Commit /\ s.base # rev.base
  BY DEF Sound, Mind, Remembers, Exclusive
<1>7. Knows(s, gates', completed', traditionally')
  BY <1>2, <1>5, <1>6 DEF Knows, Taken, IsFor, Touches
<1>8. Knows(s, gates, completed, traditionally)'
  BY <1>1, <1>7 DEF Knows, TraditionalMode
<1> QED BY <1>1, <1>3, <1>8 DEF Exclusive, Enrolled

\* A webhook or the reconciler dispatches revisions of other branches only.
LEMMA Allowed ==
  ASSUME NEW rev, AllowSnapshot(rev)
  PROVE  ~Enrolled(rev.base)
BY DEF AllowSnapshot, Capable, Enrolled

LEMMA ClaimsBase ==
  ASSUME NEW rev, NEW mode, NEW explicit, Claims(rev, mode, explicit)
  PROVE  handler'.base = rev.base
BY DEF Claims, Nothing

LEMMA HandlersExclude ==
  ASSUME Sound, Exclusive, Elsewhere, NEW e \in events,
         HandleLabel(e) \/ HandleRequired(e) \/ HandleRemaining(e) \/ HandleAuto(e) \/ HandleOther(e)
  PROVE  Exclusive'
<1>1. /\ UNCHANGED <<scenario, gates>>
      /\ \/ handler' = handler
         \/ \E rev, mode, explicit : Claims(rev, mode, explicit) /\ ~Enrolled(rev.base)
  <2>1. CASE HandleLabel(e)
    BY <2>1, Allowed DEF HandleLabel, github
  <2>0. Current.base = pr.base
    BY DEF Current, Rev
  <2>2. CASE HandleRequired(e)
    BY <2>0, <2>2 DEF HandleRequired, IsCommand, github
  <2>3. CASE HandleRemaining(e)
    BY <2>0, <2>3 DEF HandleRemaining, IsCommand, Guarded, github
  <2>4. CASE HandleAuto(e)
    BY <2>0, <2>4 DEF HandleAuto, IsCommand, Guarded
  <2>5. CASE HandleOther(e)
    BY <2>5 DEF HandleOther, github
  <2> QED BY <2>1, <2>2, <2>3, <2>4, <2>5
<1>2. handler'.busy => ~Enrolled(handler'.base)
  BY <1>1, ClaimsBase DEF Exclusive
<1>3. /\ UNCHANGED <<s, worker>>
      /\ completed' \subseteq completed /\ traditionally' \subseteq traditionally
  BY DEF Elsewhere
<1> QED BY <1>1, <1>2, <1>3, RestFrame

LEMMA HandlePushExcludes ==
  ASSUME Sound, Exclusive, Elsewhere, NEW e \in events, HandlePush(e)
  PROVE  Exclusive'
<1>1. e.rev \in Revision /\ GitHub /\ Named(gates[e.rev.head])
  BY EventFacts, SoundFacts DEF Exclusive, Recorded, Revision
<1>2. UNCHANGED <<scenario, handler>>
  BY DEF HandlePush
<1>3. \/ UNCHANGED gates
      \/ ~Enrolled(e.rev.base) /\ \E ok \in BOOLEAN : PendingGate(e.rev, ok)
  BY Allowed DEF HandlePush
<1>4. CASE UNCHANGED gates
  BY <1>2, <1>4, RestFrame DEF Elsewhere, Exclusive
<1>5. ASSUME ~Enrolled(e.rev.base), NEW ok \in BOOLEAN, PendingGate(e.rev, ok)
      PROVE  Exclusive'
  <2>1. PICK v : Touches(e.rev, v)
    BY <1>1, <1>5, PendingGateGate
  <2> QED BY <1>1, <1>2, <1>5, <2>1, ElsewhereFrame DEF Exclusive
<1> QED BY <1>3, <1>4, <1>5

LEMMA MarkedRest ==
  ASSUME NEW g \in Gate(Base), NEW base \in Base, NEW title \in Title
  PROVE  LET m == Marked(g, base, title) IN
         /\ m \in Gate(Base) /\ m.base = base /\ m.title # ""
         /\ m.status = "completed" /\ m.conclusion = "success"
<1> DEFINE next == Check(base, "completed", "success", "override")
           named == IF title = "" THEN g.title ELSE title
<1>1. /\ next \in Gate(Base) /\ next.title = "traditional" /\ next.base = base
      /\ next.status = "completed" /\ next.conclusion = "success"
  BY CheckRest
<1>2. Marked(g, base, title) = IF named = "" THEN next ELSE [next EXCEPT !.title = named]
  BY DEF Marked
<1> HIDE DEF next, named
<1>3. LET m == [next EXCEPT !.title = named] IN
      /\ m.title = named /\ m.base = next.base /\ m.status = next.status
      /\ m.conclusion = next.conclusion
  BY <1>1 DEF Gate
<1>4. Marked(g, base, title) \in Gate(Base)
  BY MarkedFacts
<1> QED BY <1>1, <1>2, <1>3, <1>4

LEMMA MarkedTitle ==
  ASSUME NEW g, NEW base \in Base, NEW title \in {"agentic", "traditional", "rerun"}
  PROVE  Marked(g, base, title).title = title
<1> DEFINE next == Check(base, "completed", "success", "override")
<1>1. next \in Gate(Base)
  BY CheckRest
<1>2. Marked(g, base, title) = [next EXCEPT !.title = title]
  BY DEF Marked
<1> HIDE DEF next
<1>3. [next EXCEPT !.title = title].title = title
  BY <1>1 DEF Gate
<1> QED BY <1>2, <1>3

LEMMA HandleMarkExcludes ==
  ASSUME Sound, Exclusive, Elsewhere, NEW e \in events, HandleMark(e)
  PROVE  Exclusive'
<1> DEFINE g == gates[pr.head]
           next == Marked(g, pr.base, "")
<1>1. /\ GitHub /\ Current \in Revision /\ Current.head = pr.head /\ Current.base = pr.base
      /\ pr.base \in Base /\ g \in Gate(Base) /\ Named(g) /\ FALSE \in BOOLEAN /\ "" \in Title
  BY SoundFacts, CurrentFacts DEF Exclusive, Recorded, GitHub, Title
<1>2. UNCHANGED <<scenario, handler>> /\ ~Enrolled(pr.base)
  BY DEF HandleMark, IsCommand
<1>3. /\ next \in Gate(Base) /\ next.base = pr.base /\ next.title # "" /\ next.status = "completed"
  <2>1. PICK gate \in Gate(Base), base \in Base, title \in Title :
          gate = g /\ base = pr.base /\ title = ""
    BY <1>1
  <2>2. LET m == Marked(gate, base, title) IN
        m \in Gate(Base) /\ m.base = base /\ m.title # "" /\ m.status = "completed"
    BY MarkedRest
  <2> QED BY <2>1, <2>2
<1>4. Written(g, next, FALSE) \in Interrupted(g, next, FALSE)
  <2> HIDE DEF g, next
  <2> QED BY <1>1, <1>3, WrittenRest
<1>5. \/ UNCHANGED gates
      \/ \E v \in Interrupted(g, next, FALSE) : gates' = [gates EXCEPT ![pr.head] = v]
  BY <1>1, <1>4 DEF HandleMark, SetGate
<1> HIDE DEF next
<1>6. CASE UNCHANGED gates
  BY <1>2, <1>6, RestFrame DEF Elsewhere, Exclusive
<1>7. ASSUME NEW v \in Interrupted(g, next, FALSE), gates' = [gates EXCEPT ![pr.head] = v]
      PROVE  Exclusive'
  <2>1. /\ v \in Gate(Base) /\ Named(v)
        /\ v = g \/ v.base = next.base \/ ~TraditionalRevisionOwner(v)
    BY <1>1, <1>3, <1>7, Rewritten
  <2>2. Touches(Current, v)
    BY <1>1, <1>3, <1>7, <2>1 DEF Touches
  <2> QED BY <1>1, <1>2, <2>2, ElsewhereFrame DEF Exclusive
<1> QED BY <1>5, <1>6, <1>7

LEMMA HandlerSendsExcludes ==
  ASSUME Sound, Exclusive, Elsewhere, HandlerSends
  PROVE  Exclusive'
<1> DEFINE rev == Rev(handler.head, handler.base)
<1>1. handler.busy /\ handler.head \in Commit /\ handler.base \in Base /\ GitHub
  BY SoundFacts DEF HandlerSends, Idle, Tasked
<1>2. rev \in Revision /\ rev.base = handler.base /\ rev.head \in Commit
  BY <1>1, RevFacts
<1>3. ~Enrolled(rev.base) /\ Named(gates[rev.head])
  BY <1>1, <1>2 DEF Exclusive, Recorded
<1>4. /\ UNCHANGED scenario /\ handler' = Nothing
      /\ \/ Dispatches(rev, handler.mode, handler.explicit)
         \/ DispatchFails(rev, handler.mode, handler.explicit)
  BY DEF HandlerSends
<1> HIDE DEF rev
<1>5. PICK v : Touches(rev, v)
  BY <1>1, <1>2, <1>3, <1>4, DispatchesGate, DispatchFailsGate
<1> QED BY <1>2, <1>3, <1>4, <1>5, NothingFacts, ElsewhereFrame

LEMMA ReconcilerSendsExcludes ==
  ASSUME Sound, Exclusive, Elsewhere, ReconcilerSends
  PROVE  Exclusive'
<1> DEFINE rev == Rev(reconciler.head, reconciler.base)
<1>1. reconciler.busy /\ reconciler.head \in Commit /\ reconciler.base \in Base /\ GitHub
      /\ ~Enrolled(reconciler.base)
  BY SoundFacts, NothingFacts DEF ReconcilerSends, Tasked
<1>2. rev \in Revision /\ rev.base = reconciler.base /\ rev.head \in Commit
  BY <1>1, RevFacts
<1>3. ~Enrolled(rev.base) /\ Named(gates[rev.head])
  BY <1>1, <1>2 DEF Exclusive, Recorded
<1>4. /\ UNCHANGED <<scenario, handler>>
      /\ Dispatches(rev, "delta", FALSE) \/ DispatchFails(rev, "delta", FALSE)
  BY DEF ReconcilerSends, hooks
<1> HIDE DEF rev
<1>5. PICK v : Touches(rev, v)
  BY <1>1, <1>2, <1>3, <1>4, DispatchesGate, DispatchFailsGate
<1> QED BY <1>2, <1>3, <1>4, <1>5, ElsewhereFrame DEF Exclusive

LEMMA WebhooksExclude ==
  ASSUME Sound, Exclusive, Webhooks
  PROVE  Exclusive'
BY HandlersExclude, HandlePushExcludes, HandleMarkExcludes, HandlerSendsExcludes DEF Webhooks

LEMMA ReconcilerExcludes ==
  ASSUME Sound, Exclusive, Reconciler
  PROVE  Exclusive'
<1>1. CASE Elsewhere /\ ReconcilerSends
  BY <1>1, ReconcilerSendsExcludes
<1>2. ASSUME NEW rev \in Revision, Elsewhere /\ (Reconcile(rev) \/ ReconcileFails(rev))
      PROVE  Exclusive'
  BY <1>2, RestFrame DEF Elsewhere, Reconcile, ReconcileFails, hooks, github, Exclusive
<1>3. ASSUME NEW rev \in Revision, ReconcileAgentic(rev)
      PROVE  Exclusive'
  BY <1>3, RestFrame DEF ReconcileAgentic, hooks, github, unaware, Exclusive
<1> QED BY <1>1, <1>2, <1>3 DEF Reconciler

LEMMA AroundExclude ==
  ASSUME Sound, Exclusive, Routes \/ People \/ Around
  PROVE  Exclusive'
<1>1. CASE /\ UNCHANGED <<scenario, gates, s, worker, completed, traditionally>>
           /\ handler' = handler
  BY <1>1, RestFrame DEF Exclusive
<1>2. CASE Restart
  <2>1. /\ UNCHANGED <<scenario, gates, completed, traditionally>>
        /\ ~s'.known /\ worker'.pc # "send" /\ ~handler'.busy
    BY <1>2, NothingFacts DEF Restart, github, NoState, Sleeping
  <2>2. Knows(s, gates, completed, traditionally)'
    BY <2>1 DEF Knows
  <2>3. Recorded(gates, completed, traditionally)'
    BY <2>1 DEF Exclusive, Recorded, Enrolled
  <2> QED BY <2>1, <2>2, <2>3 DEF Exclusive
<1>3. CASE Routes
  BY <1>1, <1>3 DEF Routes, Route, RouteUnsure, github
<1>4. CASE People
  BY <1>1, <1>4 DEF People, Push, Retarget, AddLabel, RemoveLabel, ToggleDraft, Comments, Tests,
                    idle, unaware
<1>5. CASE Around /\ ~Restart
  BY <1>1, <1>5 DEF Around, FirstPasses, FirstReruns, Tick, Day, JobsListed, github, hooks,
                    agenticVars
<1> QED BY <1>2, <1>3, <1>4, <1>5

-----------------------------------------------------------------------------
(* What the worker remembers of its revision.                                *)

\* The same, of the same title.
Like(t, u) == Alike(t, u) /\ u.title = t.title

LEMMA LikeFacts ==
  ASSUME NEW t \in AgenticState
  PROVE  /\ Like(t, t) /\ Like(t, [t EXCEPT !.waiting = 0]) /\ Like(t, Cancelled(t))
         /\ Heard.id \in Nat => Like(t, Done(t))
<1>1. Like(t, t)
  BY DEF Like, Alike
<1>2. Like(t, [t EXCEPT !.waiting = 0])
  BY StoppedAlike DEF Like, AgenticState
<1>3. Like(t, Cancelled(t))
  <2>1. Cancelled(t) = t \/ Cancelled(t) = [t EXCEPT !.waiting = 0, !.answered = TRUE]
    BY DEF Cancelled
  <2>2. [t EXCEPT !.waiting = 0, !.answered = TRUE].title = t.title
    BY DEF AgenticState
  <2>3. Alike(t, Cancelled(t))
    BY StoppedAlike
  <2> QED BY <2>1, <2>2, <2>3 DEF Like
<1>4. Heard.id \in Nat => Done(t).title = t.title
  BY DEF Done, AgenticState
<1> QED BY <1>1, <1>2, <1>3, <1>4, DoneAlike DEF Like

LEMMA KnowsLike ==
  ASSUME NEW t, NEW u, Like(t, u), NEW gs, NEW done, NEW sent, Knows(t, gs, done, sent)
  PROVE  Knows(u, gs, done, sent)
BY DEF Like, Alike, Knows, TraditionalMode

\* What it remembers of the revision that it works on.
Tracks(t) == t.known /\ t.head = worker.head /\ t.base = worker.base

LEMMA LikeTracks ==
  ASSUME NEW t, NEW u, Like(t, u), Tracks(t)
  PROVE  Tracks(u)
BY DEF Like, Alike, Tracks

\* The revision that the worker works on, if it is the one that it knows.
LEMMA KnownFacts ==
  ASSUME Sound, Exclusive, worker.pc # "idle", Tracks(s)
  PROVE  /\ Snapshot = Rev(worker.head, worker.base) /\ Snapshot \in Revision
         /\ Snapshot.head = worker.head /\ Snapshot.base = worker.base /\ Enrolled(worker.base)
         /\ \A r \in traditionally : r.head = worker.head => r = Snapshot
         /\ Snapshot \in traditionally => TraditionalMode(s) /\ Taken(Live, worker.base)
         /\ Snapshot \in completed =>
              /\ IsFor(Live, worker.base) /\ Succeeded(Live)
              /\ TraditionalMode(s) /\ ~s.optOut => s.dispatched
         /\ ~TraditionalMode(s) /\ s.waiting # 0 =>
              s.title = "agentic" /\ ~Taken(Live, worker.base)
<1>1. /\ s.known /\ s.head = worker.head /\ s.base = worker.base /\ Live = gates[worker.head]
      /\ worker.head \in Commit /\ worker.base \in Base
  BY WorkingFacts DEF Tracks
<1>2. Snapshot = Rev(worker.head, worker.base) /\ Snapshot \in Revision
      /\ Snapshot.head = worker.head /\ Snapshot.base = worker.base
  BY <1>1, RevFacts DEF Snapshot
<1>3. Knows(s, gates, completed, traditionally) /\ Recorded(gates, completed, traditionally)
      /\ Enrolled(worker.base)
  BY <1>1 DEF Exclusive
<1>4. \A r \in traditionally : r.head = worker.head => r = Snapshot
  <2> SUFFICES ASSUME NEW r \in traditionally, r.head = worker.head
               PROVE  r = Snapshot
    OBVIOUS
  <2>1. r \in Revision /\ r.base = worker.base
    BY <1>1, <1>3 DEF Knows, Sound, Histories
  <2> QED BY <2>1, <1>2 DEF Revision, Rev
<1>5. Snapshot \in traditionally => TraditionalMode(s) /\ Taken(Live, worker.base)
  BY <1>1, <1>2, <1>3 DEF Knows, Recorded
<1>6. Snapshot \in completed =>
        /\ IsFor(Live, worker.base) /\ Succeeded(Live)
        /\ TraditionalMode(s) /\ ~s.optOut => s.dispatched
  BY <1>1, <1>2, <1>3 DEF Knows, Recorded
<1>7. ~TraditionalMode(s) /\ s.waiting # 0 => s.title = "agentic" /\ ~Taken(Live, worker.base)
  BY <1>1, <1>3 DEF Knows
<1> QED BY <1>1, <1>2, <1>3, <1>4, <1>5, <1>6, <1>7

\* In the step of a command and after it, it is.
LEMMA TracksFacts ==
  ASSUME Sound, Exclusive, worker.pc \notin {"idle", "prepare"}
  PROVE  /\ Tracks(s) /\ Snapshot = Rev(worker.head, worker.base) /\ Snapshot \in Revision
         /\ Snapshot.head = worker.head /\ Snapshot.base = worker.base /\ Enrolled(worker.base)
         /\ \A r \in traditionally : r.head = worker.head => r = Snapshot
         /\ Snapshot \in traditionally => TraditionalMode(s) /\ Taken(Live, worker.base)
         /\ Snapshot \in completed =>
              /\ IsFor(Live, worker.base) /\ Succeeded(Live)
              /\ TraditionalMode(s) /\ ~s.optOut => s.dispatched
         /\ ~TraditionalMode(s) /\ s.waiting # 0 =>
              s.title = "agentic" /\ ~Taken(Live, worker.base)
BY WorkingFacts, KnownFacts DEF Tracks

\* A revision of Chai's was not dispatched without it.
LEMMA KnowsChai ==
  ASSUME NEW t, Tracks(t), ~TraditionalMode(t), NEW gs, NEW done, NEW sent,
         Snapshot \notin sent, \A r \in sent : r.head = worker.head => r = Snapshot,
         t.waiting # 0 => t.title = "agentic" /\ ~Taken(gs[worker.head], worker.base)
  PROVE  Knows(t, gs, done, sent)
BY DEF Knows, Tracks, Snapshot

\* One that is not Chai's is not dispatched again by itself.
LEMMA KnowsOwn ==
  ASSUME NEW t, Tracks(t), TraditionalMode(t), NEW gs, NEW done, NEW sent,
         \A r \in sent : r.head = worker.head => r = Snapshot, worker.pc # "idle",
         Snapshot.base = worker.base, Snapshot \in done /\ ~t.optOut => t.dispatched
  PROVE  Knows(t, gs, done, sent)
BY DEF Knows, Tracks, Snapshot
-----------------------------------------------------------------------------
(* How a step of the worker leaves it.                                       *)

LEMMA WriteFrame ==
  ASSUME Sound, Exclusive, worker.pc # "idle", UNCHANGED outside,
         NEW done \in SUBSET {Snapshot}, NEW sent \in SUBSET {Snapshot}, Recall(done, sent),
         NEW v \in Gate(Base), Named(v), gates' = [gates EXCEPT ![worker.head] = v],
         \A r \in traditionally \cup sent :
           r.head = worker.head /\ IsFor(v, r.base) /\ v.title # "agentic" => Taken(v, r.base),
         s'.known => Enrolled(s'.base), Knows(s', gates', completed', traditionally'),
         worker'.pc = "send" => ~s'.dispatched
  PROVE  Exclusive'
<1>1. /\ gates \in [Commit -> Gate(Base)] /\ worker.head \in Commit /\ worker.base \in Base
      /\ Snapshot.head = worker.head /\ Snapshot.base = worker.base /\ Enrolled(worker.base)
      /\ completed \subseteq Revision /\ traditionally \subseteq Revision /\ Snapshot \in Revision
  <2>1. worker.head \in Commit /\ worker.base \in Base
    BY WorkingFacts
  <2> QED BY <2>1, SoundFacts, RevFacts
          DEF GitHub, Sound, Mind, Attends, Histories, Snapshot
<1>2. \A h \in Commit : gates'[h] = IF h = worker.head THEN v ELSE gates[h]
  BY <1>1
<1>3. \A h \in Commit : Named(gates'[h])
  BY <1>2 DEF Exclusive, Recorded
<1>4. \A r \in completed' :
        Enrolled(r.base) /\ IsFor(gates'[r.head], r.base) /\ Succeeded(gates'[r.head])
  BY <1>1 DEF Recall, Exclusive, Recorded
<1>5. \A r \in traditionally' : Enrolled(r.base) /\ Taken(gates'[r.head], r.base)
  <2> SUFFICES ASSUME NEW r \in traditionally'
               PROVE  Enrolled(r.base) /\ Taken(gates'[r.head], r.base)
    OBVIOUS
  <2>1. /\ r \in traditionally \cup sent /\ IsFor(gates'[r.head], r.base)
        /\ gates'[r.head].title # "agentic"
    BY DEF Recall
  <2>2. r \in Revision /\ r.head \in Commit /\ Enrolled(r.base)
    BY <1>1, <2>1 DEF Revision, Exclusive, Recorded
  <2>3. CASE r.head = worker.head
    BY <1>2, <2>1, <2>2, <2>3
  <2>4. CASE r.head # worker.head
    <3>1. r \in traditionally /\ gates'[r.head] = gates[r.head]
      BY <1>1, <1>2, <2>1, <2>2, <2>4
    <3> QED BY <2>2, <3>1 DEF Exclusive, Recorded
  <2> QED BY <2>3, <2>4
<1>6. scenario' = scenario /\ handler' = handler
  BY DEF outside, hooks
<1>7. Recorded(gates, completed, traditionally)'
  BY <1>3, <1>4, <1>5, <1>6 DEF Recorded, Enrolled
<1>8. Knows(s, gates, completed, traditionally)'
  BY DEF Knows, TraditionalMode
<1> QED BY <1>6, <1>7, <1>8 DEF Exclusive, Enrolled

\* After the first step, it knows the revision whose gate it writes.
LEMMA ActFrame ==
  ASSUME Sound, Exclusive, worker.pc \notin {"idle", "prepare"}, UNCHANGED outside,
         NEW done \in SUBSET {Snapshot}, NEW sent \in SUBSET {Snapshot}, Recall(done, sent),
         NEW v \in Gate(Base), Named(v), gates' = [gates EXCEPT ![worker.head] = v],
         Snapshot \in traditionally \cup sent /\ IsFor(v, worker.base) /\ v.title # "agentic"
           => Taken(v, worker.base),
         Tracks(s'), Knows(s', gates', completed', traditionally'),
         worker'.pc = "send" => ~s'.dispatched
  PROVE  Exclusive'
<1>1. /\ Snapshot.head = worker.head /\ Snapshot.base = worker.base /\ Enrolled(worker.base)
      /\ \A r \in traditionally : r.head = worker.head => r = Snapshot
  BY TracksFacts
<1>2. \A r \in traditionally \cup sent :
        r.head = worker.head /\ IsFor(v, r.base) /\ v.title # "agentic" => Taken(v, r.base)
  BY <1>1
<1>3. s'.known => Enrolled(s'.base)
  BY <1>1 DEF Tracks
<1> QED BY <1>2, <1>3, WriteFrame

\* It only thinks.
LEMMA ThinkFrame ==
  ASSUME Sound, Exclusive, worker.pc \notin {"idle", "prepare"}, UNCHANGED outside,
         UNCHANGED <<gates, completed, traditionally>>,
         Tracks(s'), Knows(s', gates, completed, traditionally),
         worker'.pc = "send" => ~s'.dispatched
  PROVE  Exclusive'
<1>1. scenario' = scenario /\ handler' = handler
  BY DEF outside, hooks
<1>2. Enrolled(worker.base)
  BY TracksFacts
<1>3. Knows(s, gates, completed, traditionally)'
  BY DEF Knows, TraditionalMode
<1>4. Recorded(gates, completed, traditionally)'
  BY <1>1 DEF Exclusive, Recorded, Enrolled
<1> QED BY <1>1, <1>2, <1>3, <1>4 DEF Exclusive, Enrolled, Tracks

\* Only one step goes on to send.
LEMMA StopsFacts ==
  ASSUME Sleeps
  PROVE  worker'.pc # "send"
BY DEF Sleeps, Sleeping

LEMMA GoesFacts ==
  ASSUME worker \in Attending, NEW pc \in {"command", "act", "timer", "dispatch"}
  PROVE  /\ Goto(pc) => worker'.pc # "send"
         /\ \A ok \in BOOLEAN : Continues(ok, pc) => worker'.pc # "send"
<1>1. pc \in Steps /\ pc # "send"
  BY DEF Steps
<1>2. Goto(pc) => worker'.pc # "send"
  BY <1>1, GotoFacts DEF Goes
<1> QED BY <1>1, <1>2, StopsFacts, SleepsFacts DEF Continues

\* It remembers the same of its revision, which keeps its gate.
LEMMA LikeFrame ==
  ASSUME Sound, Exclusive, worker.pc \notin {"idle", "prepare"}, UNCHANGED outside,
         UNCHANGED <<gates, completed, traditionally>>, Like(s, s'), worker'.pc # "send"
  PROVE  Exclusive'
<1>1. Tracks(s) /\ Knows(s, gates, completed, traditionally)
  BY TracksFacts DEF Exclusive
<1>2. Tracks(s') /\ Knows(s', gates, completed, traditionally)
  BY <1>1, LikeTracks, KnowsLike
<1> QED BY <1>2, ThinkFrame

LEMMA RestingExcludes ==
  ASSUME Sound, Exclusive, ActNothing \/ NotDue \/ SendNothing
  PROVE  Exclusive'
<1>1. /\ UNCHANGED outside /\ UNCHANGED <<gates, completed, traditionally>>
      /\ s' = s /\ Succeeds /\ worker.pc \notin {"idle", "prepare"}
  BY PhaseFacts DEF ActNothing, NotDue, SendNothing, github
<1>2. Like(s, s') /\ worker'.pc # "send"
  BY <1>1, ActingFacts, LikeFacts, SleepsFacts, StopsFacts
<1> QED BY <1>1, <1>2, LikeFrame

LEMMA NothingToDispatchExcludes ==
  ASSUME Sound, Exclusive, NothingToDispatch
  PROVE  Exclusive'
<1>1. /\ UNCHANGED outside /\ UNCHANGED <<gates, completed, traditionally>>
      /\ s' = [s EXCEPT !.waiting = 0] /\ Succeeds /\ worker.pc \notin {"idle", "prepare"}
  BY PhaseFacts DEF NothingToDispatch, github
<1>2. Like(s, s') /\ worker'.pc # "send"
  BY <1>1, ActingFacts, LikeFacts, SleepsFacts, StopsFacts
<1> QED BY <1>1, <1>2, LikeFrame

LEMMA ReadFailsExcludes ==
  ASSUME Sound, Exclusive, ReadFails
  PROVE  Exclusive'
<1>1. /\ UNCHANGED outside /\ UNCHANGED <<gates, s, completed, traditionally>>
      /\ Errs /\ worker.pc # "idle"
  BY DEF ReadFails, github
<1>2. worker'.pc # "send" /\ scenario' = scenario /\ handler' = handler
  BY <1>1, SleepsFacts, StopsFacts DEF outside, hooks
<1>3. Recorded(gates, completed, traditionally)'
  BY <1>1, <1>2 DEF Exclusive, Recorded, Enrolled
<1>4. Knows(s, gates, completed, traditionally)'
  BY <1>1 DEF Exclusive, Knows, TraditionalMode
<1> QED BY <1>1, <1>2, <1>3, <1>4 DEF Exclusive, Enrolled

LEMMA FetchExcludes ==
  ASSUME Sound, Exclusive, Fetch
  PROVE  Exclusive'
<1>1. /\ UNCHANGED outside /\ UNCHANGED <<gates, completed, traditionally>>
      /\ \/ s' = NoState /\ worker' = worker /\ worker.pc = "idle"
         \/ s' = s /\ worker'.pc = "prepare"
  BY DEF Fetch, github
<1>2. worker'.pc # "send" /\ scenario' = scenario /\ handler' = handler
  BY <1>1 DEF outside, hooks
<1>3. Recorded(gates, completed, traditionally)'
  BY <1>1, <1>2 DEF Exclusive, Recorded, Enrolled
<1>4. Knows(s, gates, completed, traditionally)' /\ (s'.known => Enrolled(s'.base))
  <2>1. ~NoState.known
    BY DEF NoState
  <2> QED BY <1>1, <2>1 DEF Exclusive, Knows, TraditionalMode
<1> QED BY <1>1, <1>2, <1>3, <1>4 DEF Exclusive, Enrolled

LEMMA CommandAutoExcludes ==
  ASSUME Sound, Exclusive, CommandAuto
  PROVE  Exclusive'
<1>1. /\ UNCHANGED outside /\ UNCHANGED <<gates, completed, traditionally>>
      /\ Obeying({"auto"}) /\ (s' = Done(s) \/ s' = s)
      /\ Goto("act") \/ worker' = [worker EXCEPT !.pc = "act", !.labels = @ \cup {"auto"}] \/ Errs
  BY DEF CommandAuto
<1>2. /\ worker.pc \notin {"idle", "prepare"} /\ worker \in Attending /\ s \in AgenticState
      /\ Heard.id \in Nat
  BY <1>1, ObeyingFacts
<1>3. worker'.pc # "send"
  BY <1>1, <1>2, SleepsFacts, StopsFacts, GoesFacts DEF Attending
<1>4. Like(s, s')
  BY <1>1, <1>2, LikeFacts
<1> QED BY <1>1, <1>2, <1>3, <1>4, LikeFrame

-----------------------------------------------------------------------------
(* Steps that do not write the gate.                                         *)

\* Chai owns the revision before and after, and the gate says so as long as it is waited for.
LEMMA OwnedKnows ==
  ASSUME Sound, Exclusive, worker.pc \notin {"idle", "prepare"}, ~TraditionalMode(s),
         NEW t, Tracks(t), ~TraditionalMode(t),
         t.waiting # 0 => t.title = "agentic" /\ ~Taken(Live, worker.base)
  PROVE  Knows(t, gates, completed, traditionally)
<1>1. /\ Snapshot \notin traditionally
      /\ \A r \in traditionally : r.head = worker.head => r = Snapshot
  BY TracksFacts
<1>2. Live = gates[worker.head]
  BY DEF Live
<1> QED BY <1>1, <1>2, KnowsChai

LEMMA AdoptedRest ==
  ASSUME Sound, worker.pc # "idle", Owns(s, gates), ~TraditionalMode(s), ~s.ready, Adopts
  PROVE  /\ Adopted \in AgenticState /\ Tracks(Adopted) /\ ~TraditionalMode(Adopted)
         /\ Adopted.waiting # 0 => Adopted.title = "agentic" /\ ~Taken(Live, worker.base)
<1>1. Owns(Adopted, gates) /\ ~TraditionalMode(Adopted)
  BY AdoptedOwns
<1>2. s \in AgenticState /\ s.waiting = 0
  BY NotReady DEF Owns
<1>3. Adopted.title = Live.title /\ (Succeeded(Live) => Adopted.waiting = 0)
  BY <1>2 DEF Adopted, AgenticState
<1>4. ~Succeeded(Live) => Live.title = "agentic" /\ ~Taken(Live, worker.base)
  BY DEF Adopts, NativeAgenticReadiness, Taken, TraditionalRevisionOwner
<1> QED BY <1>1, <1>3, <1>4 DEF Owns, Tracks

LEMMA FoundRest ==
  ASSUME Sound, worker.pc # "idle", Owns(s, gates), ~TraditionalMode(s)
  PROVE  /\ Found \in AgenticState /\ Tracks(Found) /\ ~TraditionalMode(Found)
         /\ Found.waiting # 0 => Found = s
<1>1. Owns(Found, gates) /\ ~TraditionalMode(Found)
  BY FoundOwns
<1>2. ~s.ready => s.waiting = 0
  BY NotReady
<1>3. Found = s \/ (~s.ready /\ Found.waiting = s.waiting)
  BY DEF Found, Owns, AgenticState
<1> QED BY <1>1, <1>2, <1>3 DEF Owns, Tracks

LEMMA MarkDeclinedExcludes ==
  ASSUME Sound, Exclusive, MarkDeclined
  PROVE  Exclusive'
<1>1. /\ UNCHANGED outside /\ UNCHANGED <<gates, completed, traditionally>>
      /\ Obeying({"mark"}) /\ Goto("act")
      /\ s' = Done(s) \/ (~TraditionalMode(s) /\ s' = Done(Found))
  BY DEF MarkDeclined, github
<1>2. /\ worker.pc \notin {"idle", "prepare"} /\ worker \in Attending /\ s \in AgenticState
      /\ Heard.id \in Nat /\ worker.pc # "idle" /\ Owns(s, gates)
  BY <1>1, ObeyingFacts
<1>3. worker'.pc # "send"
  BY <1>1, <1>2, GoesFacts
<1>4. CASE s' = Done(s)
  BY <1>1, <1>2, <1>3, <1>4, LikeFacts, LikeFrame
<1>5. CASE ~TraditionalMode(s) /\ s' = Done(Found)
  <2>1. /\ Found \in AgenticState /\ Tracks(Found) /\ ~TraditionalMode(Found)
        /\ Found.waiting # 0 => Found = s
    BY <1>2, <1>5, FoundRest
  <2>2. Knows(Found, gates, completed, traditionally)
    <3>1. s.waiting # 0 => s.title = "agentic" /\ ~Taken(Live, worker.base)
      BY <1>2, <1>5, TracksFacts
    <3> QED BY <1>2, <1>5, <2>1, <3>1, OwnedKnows
  <2>3. Like(Found, s')
    BY <1>2, <1>5, <2>1, LikeFacts
  <2>4. Tracks(s') /\ Knows(s', gates, completed, traditionally)
    BY <2>1, <2>2, <2>3, LikeTracks, KnowsLike
  <2> QED BY <1>1, <1>2, <1>3, <2>4, ThinkFrame
<1> QED BY <1>1, <1>4, <1>5

LEMMA ActAdoptExcludes ==
  ASSUME Sound, Exclusive, ActAdopt
  PROVE  Exclusive'
<1> DEFINE fresh == s.fresh \/ (Live.id # 0 /\ Live.base # worker.base)
<1>1. /\ UNCHANGED outside /\ UNCHANGED <<gates, completed, traditionally>>
      /\ ~TraditionalMode(s) /\ ~s.ready /\ worker.pc \notin {"idle", "prepare"}
      /\ Goto("timer")
      /\ \/ Adopts /\ s' = Cancelled(Adopted)
         \/ s' = [s EXCEPT !.fresh = fresh]
  BY PhaseFacts DEF ActAdopt, github
<1>2. Owns(s, gates) /\ worker \in Attending /\ worker.pc # "idle" /\ s \in AgenticState
  BY <1>1, ActingFacts
<1>3. worker'.pc # "send"
  BY <1>1, <1>2, GoesFacts
<1>4. CASE Adopts /\ s' = Cancelled(Adopted)
  <2>1. /\ Adopted \in AgenticState /\ Tracks(Adopted) /\ ~TraditionalMode(Adopted)
        /\ Adopted.waiting # 0 => Adopted.title = "agentic" /\ ~Taken(Live, worker.base)
    BY <1>1, <1>2, <1>4, AdoptedRest
  <2>2. Knows(Adopted, gates, completed, traditionally)
    BY <1>1, <2>1, OwnedKnows
  <2>3. Like(Adopted, s')
    BY <1>4, <2>1, LikeFacts
  <2>4. Tracks(s') /\ Knows(s', gates, completed, traditionally)
    BY <2>1, <2>2, <2>3, LikeTracks, KnowsLike
  <2> QED BY <1>1, <1>3, <2>4, ThinkFrame
<1>5. CASE s' = [s EXCEPT !.fresh = fresh]
  <2>1. fresh \in BOOLEAN
    BY <1>2 DEF AgenticState
  <2> HIDE DEF fresh
  <2>2. Like(s, s')
    BY <1>2, <1>5, <2>1 DEF Like, Alike, AgenticState
  <2> QED BY <1>1, <1>3, <2>2, LikeFrame
<1> QED BY <1>1, <1>4, <1>5

LEMMA TimerConfirmsExcludes ==
  ASSUME Sound, Exclusive, TimerConfirms
  PROVE  Exclusive'
<1>1. /\ UNCHANGED outside /\ UNCHANGED <<gates, completed, traditionally>>
      /\ worker.pc \notin {"idle", "prepare"} /\ Timing
      /\ s' = [s EXCEPT !.title = Live.title, !.ready = TRUE, !.dispatched = TRUE,
                        !.fresh = FALSE, !.waiting = 0]
      /\ Succeeds
  BY PhaseFacts DEF TimerConfirms, github
<1>2. s \in AgenticState /\ worker'.pc # "send" /\ ~TraditionalMode(s)
  BY <1>1, ActingFacts, SleepsFacts, StopsFacts DEF Timing
<1>3. /\ s'.known = s.known /\ s'.head = s.head /\ s'.base = s.base /\ s'.waiting = 0
      /\ s'.optOut = s.optOut /\ s'.timedOut = s.timedOut /\ s'.traditional = s.traditional
  BY <1>1, <1>2 DEF AgenticState
<1>4. Tracks(s') /\ ~TraditionalMode(s')
  BY <1>1, <1>2, <1>3, TracksFacts DEF Tracks, TraditionalMode
<1>5. Knows(s', gates, completed, traditionally)
  BY <1>1, <1>2, <1>3, <1>4, OwnedKnows
<1> QED BY <1>1, <1>2, <1>4, <1>5, ThinkFrame

LEMMA TimesOutExcludes ==
  ASSUME Sound, Exclusive, TimesOut
  PROVE  Exclusive'
<1>1. /\ UNCHANGED outside /\ UNCHANGED <<gates, completed, traditionally>>
      /\ worker.pc \notin {"idle", "prepare"} /\ Timing /\ s.waiting # 0 /\ ~Confirms(Live)
      /\ s' = [s EXCEPT !.timedOut = TRUE, !.waiting = 0] /\ Goto("dispatch")
  BY PhaseFacts DEF TimesOut, Due, github
<1>2. s \in AgenticState /\ ~TraditionalMode(s) /\ worker \in Attending /\ worker.pc # "idle"
  BY <1>1, ActingFacts DEF Timing
<1>3. /\ s'.known = s.known /\ s'.head = s.head /\ s'.base = s.base /\ s'.timedOut
  BY <1>1, <1>2 DEF AgenticState
<1>4. /\ Tracks(s) /\ ~Taken(Live, worker.base) /\ Snapshot.base = worker.base
      /\ \A r \in traditionally : r.head = worker.head => r = Snapshot
      /\ Snapshot \in completed => IsFor(Live, worker.base) /\ Succeeded(Live)
  BY <1>1, <1>2, TracksFacts
<1>5. Snapshot \notin completed
  BY <1>1, <1>4 DEF Confirms, Taken
<1>6. Tracks(s') /\ TraditionalMode(s')
  BY <1>3, <1>4 DEF Tracks, TraditionalMode
<1>7. Knows(s', gates, completed, traditionally)
  BY <1>2, <1>4, <1>5, <1>6, KnowsOwn
<1>8. worker'.pc # "send"
  BY <1>1, <1>2, GoesFacts
<1> QED BY <1>1, <1>6, <1>7, <1>8, ThinkFrame

-----------------------------------------------------------------------------
(* Steps that write the gate of a revision that Chai does not own.           *)

LEMMA OwnFrame ==
  ASSUME Sound, Exclusive, worker.pc \notin {"idle", "prepare"}, UNCHANGED outside,
         NEW sent \in SUBSET {Snapshot}, Recall({}, sent), NEW v, Touches(Snapshot, v),
         Snapshot \in traditionally \cup sent /\ IsFor(v, worker.base) /\ v.title # "agentic"
           => Taken(v, worker.base),
         Tracks(s'), TraditionalMode(s), TraditionalMode(s'), s'.optOut = s.optOut,
         s.dispatched => s'.dispatched, worker'.pc = "send" => ~s'.dispatched
  PROVE  Exclusive'
<1>1. /\ Snapshot.head = worker.head /\ Snapshot.base = worker.base
      /\ \A r \in traditionally : r.head = worker.head => r = Snapshot
      /\ Snapshot \in completed /\ ~s.optOut => s.dispatched
  BY TracksFacts
<1>2. completed' \subseteq completed /\ traditionally' \subseteq traditionally \cup sent
  BY DEF Recall
<1>3. Snapshot \in completed' /\ ~s'.optOut => s'.dispatched
  BY <1>1, <1>2
<1>4. \A r \in traditionally' : r.head = worker.head => r = Snapshot
  BY <1>1, <1>2
<1>5. worker.pc # "idle"
  OBVIOUS
<1>6. Knows(s', gates', completed', traditionally')
  BY <1>1, <1>3, <1>4, <1>5, KnowsOwn
<1>7. v \in Gate(Base) /\ Named(v) /\ gates' = [gates EXCEPT ![worker.head] = v]
  BY <1>1 DEF Touches
<1>8. {} \in SUBSET {Snapshot}
  OBVIOUS
<1> QED BY <1>6, <1>7, <1>8, ActFrame

\* What it remembers after a dispatch.
LEMMA DispatchedRest ==
  ASSUME NEW t \in AgenticState, Tracks(t), TraditionalMode(t)
  PROVE  LET u == [t EXCEPT !.dispatched = TRUE] IN
         u \in AgenticState /\ Tracks(u) /\ TraditionalMode(u) /\ u.optOut = t.optOut /\ u.dispatched
<1> DEFINE u == [t EXCEPT !.dispatched = TRUE]
<1>1. /\ u \in AgenticState /\ u.known = t.known /\ u.head = t.head /\ u.base = t.base
      /\ u.optOut = t.optOut /\ u.timedOut = t.timedOut /\ u.traditional = t.traditional
      /\ u.dispatched
  BY DEF AgenticState
<1> HIDE DEF u
<1>2. Tracks(u) /\ TraditionalMode(u)
  BY <1>1 DEF Tracks, TraditionalMode
<1> QED BY <1>1, <1>2 DEF u

\* A dispatch leaves a gate of its own, and a failed one does not take it away.
LEMMA SendsGate ==
  ASSUME Sound, Exclusive, worker.pc \notin {"idle", "prepare"}, NEW ok \in BOOLEAN,
         NEW mode, NEW explicit,
         IF ok THEN Dispatches(Snapshot, mode, explicit) ELSE DispatchFails(Snapshot, mode, explicit)
  PROVE  \E v : /\ Touches(Snapshot, v)
                /\ /\ Snapshot \in traditionally \cup (IF ok THEN {Snapshot} ELSE {})
                   /\ IsFor(v, worker.base) /\ v.title # "agentic"
                   => Taken(v, worker.base)
<1>1. /\ GitHub /\ Snapshot \in Revision /\ Snapshot.head = worker.head
      /\ Snapshot.base = worker.base /\ worker.head \in Commit
      /\ Live = gates[worker.head]
      /\ Snapshot \in traditionally => Taken(Live, worker.base)
  BY SoundFacts, TracksFacts, WorkingFacts
<1>2. Named(gates[Snapshot.head])
  BY <1>1 DEF Exclusive, Recorded
<1>3. CASE ok
  <2>1. \E v : /\ Touches(Snapshot, v)
               /\ IsFor(v, Snapshot.base) /\ v.title # "agentic" => Taken(v, Snapshot.base)
    BY <1>1, <1>2, <1>3, DispatchesGate
  <2> QED BY <1>1, <2>1
<1>4. CASE ~ok
  <2>1. PICK v : Touches(Snapshot, v) /\ (Taken(gates[Snapshot.head], Snapshot.base)
                                            => Taken(v, Snapshot.base))
    BY <1>1, <1>2, <1>4, DispatchFailsGate
  <2> QED BY <1>1, <1>4, <2>1
<1> QED BY <1>3, <1>4

LEMMA CommandDispatchExcludes ==
  ASSUME Sound, Exclusive, CommandDispatch
  PROVE  Exclusive'
<1>1. /\ UNCHANGED outside /\ Obeying({"required", "remaining"}) /\ TraditionalMode(s)
      /\ \/ s' = Done(s) /\ Goto("act") /\ UNCHANGED <<gates, completed, traditionally>>
         \/ \E ok \in BOOLEAN, mode \in {"force", "delta"} :
              /\ Continues(ok, "act")
              /\ IF ok THEN Dispatches(Snapshot, mode, TRUE) ELSE DispatchFails(Snapshot, mode, TRUE)
              /\ s' = IF ok THEN Done([s EXCEPT !.dispatched = TRUE]) ELSE s
              /\ Recall({}, IF ok THEN {Snapshot} ELSE {})
  BY DEF CommandDispatch
<1>2. /\ worker.pc \notin {"idle", "prepare"} /\ worker \in Attending /\ s \in AgenticState
      /\ Heard.id \in Nat /\ worker.pc # "idle"
  BY <1>1, ObeyingFacts
<1>3. Tracks(s)
  BY <1>2, TracksFacts
<1>4. CASE s' = Done(s) /\ Goto("act") /\ UNCHANGED <<gates, completed, traditionally>>
  <2>1. worker'.pc # "send"
    BY <1>2, <1>4, GoesFacts
  <2> QED BY <1>1, <1>2, <1>4, <2>1, LikeFacts, LikeFrame
<1>5. ASSUME NEW ok \in BOOLEAN, NEW mode \in {"force", "delta"}, Continues(ok, "act"),
             IF ok THEN Dispatches(Snapshot, mode, TRUE) ELSE DispatchFails(Snapshot, mode, TRUE),
             s' = IF ok THEN Done([s EXCEPT !.dispatched = TRUE]) ELSE s,
             Recall({}, IF ok THEN {Snapshot} ELSE {})
      PROVE  Exclusive'
  <2> DEFINE sent == IF ok THEN {Snapshot} ELSE {}
  <2>1. PICK v : /\ Touches(Snapshot, v)
                 /\ Snapshot \in traditionally \cup sent /\ IsFor(v, worker.base) /\ v.title # "agentic"
                    => Taken(v, worker.base)
    BY <1>2, <1>5, SendsGate
  <2>2. worker'.pc # "send"
    BY <1>2, <1>5, GoesFacts
  <2>3. Tracks(s') /\ TraditionalMode(s') /\ s'.optOut = s.optOut /\ (s.dispatched => s'.dispatched)
    <3> DEFINE u == [s EXCEPT !.dispatched = TRUE]
    <3>1. u \in AgenticState /\ Tracks(u) /\ TraditionalMode(u) /\ u.optOut = s.optOut /\ u.dispatched
      BY <1>1, <1>2, <1>3, DispatchedRest
    <3> HIDE DEF u
    <3>2. Like(u, Done(u))
      BY <1>2, <3>1, LikeFacts
    <3>3. Tracks(Done(u)) /\ TraditionalMode(Done(u)) /\ Done(u).optOut = s.optOut /\ Done(u).dispatched
      BY <3>1, <3>2, LikeTracks DEF Like, Alike, TraditionalMode
    <3> QED BY <1>1, <1>3, <1>5, <3>3 DEF u
  <2>4. sent \in SUBSET {Snapshot} /\ Recall({}, sent)
    BY <1>5
  <2> HIDE DEF sent
  <2> QED BY <1>1, <1>2, <2>1, <2>2, <2>3, <2>4, OwnFrame
<1> QED BY <1>1, <1>4, <1>5

LEMMA SendExcludes ==
  ASSUME Sound, Exclusive, Send
  PROVE  Exclusive'
<1>1. PICK ok \in BOOLEAN :
        /\ IF ok THEN Dispatches(Snapshot, "delta", FALSE) ELSE DispatchFails(Snapshot, "delta", FALSE)
        /\ Succeeds \/ Errs
        /\ s' = IF ok THEN [s EXCEPT !.dispatched = TRUE] ELSE s
        /\ Recall({}, IF ok THEN {Snapshot} ELSE {})
  BY DEF Send
<1>2. /\ UNCHANGED outside /\ worker.pc \notin {"idle", "prepare"} /\ worker.pc = "send"
  BY DEF Send
<1>3. Tracks(s) /\ s \in AgenticState /\ TraditionalMode(s)
  BY <1>2, TracksFacts, ActingFacts
<1> DEFINE sent == IF ok THEN {Snapshot} ELSE {}
<1>4. PICK v : /\ Touches(Snapshot, v)
               /\ Snapshot \in traditionally \cup sent /\ IsFor(v, worker.base) /\ v.title # "agentic"
                  => Taken(v, worker.base)
  BY <1>1, <1>2, SendsGate
<1>5. worker'.pc # "send"
  BY <1>1, SleepsFacts, StopsFacts
<1>6. Tracks(s') /\ TraditionalMode(s') /\ s'.optOut = s.optOut /\ (s.dispatched => s'.dispatched)
  BY <1>1, <1>3, DispatchedRest
<1>7. sent \in SUBSET {Snapshot} /\ Recall({}, sent)
  BY <1>1
<1> HIDE DEF sent
<1> QED BY <1>2, <1>3, <1>4, <1>5, <1>6, <1>7, OwnFrame

LEMMA DispatchPendingExcludes ==
  ASSUME Sound, Exclusive, DispatchPending
  PROVE  Exclusive'
<1>1. PICK ok \in BOOLEAN : PendingGate(Snapshot, ok)
  BY DEF DispatchPending
<1>2. /\ UNCHANGED outside /\ worker.pc \notin {"idle", "prepare"} /\ ~s.dispatched
      /\ worker.pc = "dispatch" \/ TraditionalMode(s)
      /\ s' = [s EXCEPT !.waiting = 0] /\ Recall({}, {})
  BY PhaseFacts DEF DispatchPending, Dispatching
<1>3. Tracks(s) /\ s \in AgenticState /\ TraditionalMode(s)
  BY <1>2, TracksFacts, ActingFacts
<1>4. /\ GitHub /\ Snapshot \in Revision /\ Snapshot.head = worker.head
      /\ Snapshot.base = worker.base /\ worker.head \in Commit
      /\ Live = gates[worker.head]
      /\ Snapshot \in traditionally => Taken(Live, worker.base)
  BY <1>2, SoundFacts, TracksFacts, WorkingFacts
<1>5. Named(gates[Snapshot.head])
  BY <1>4 DEF Exclusive, Recorded
<1>6. PICK v : Touches(Snapshot, v) /\ (Taken(gates[Snapshot.head], Snapshot.base)
                                          => v = gates[Snapshot.head])
  BY <1>1, <1>4, <1>5, PendingGateGate
<1>7. Like(s, s')
  BY <1>2, <1>3, LikeFacts
<1>8. Tracks(s') /\ TraditionalMode(s') /\ s'.optOut = s.optOut /\ s'.dispatched = s.dispatched
  BY <1>3, <1>7, LikeTracks DEF Like, Alike, TraditionalMode
<1>9. Snapshot \in traditionally \cup {} /\ IsFor(v, worker.base) /\ v.title # "agentic"
        => Taken(v, worker.base)
  BY <1>4, <1>6
<1>10. {} \in SUBSET {Snapshot}
  OBVIOUS
<1> QED BY <1>2, <1>3, <1>6, <1>8, <1>9, <1>10, OwnFrame

LEMMA MarkTraditionalExcludes ==
  ASSUME Sound, Exclusive, MarkTraditional
  PROVE  Exclusive'
<1> DEFINE next == Marked(Live, worker.base, "traditional")
<1>1. /\ UNCHANGED outside /\ Obeying({"mark"}) /\ TraditionalMode(s) /\ Recall({}, {})
      /\ \/ GivesUp /\ UNCHANGED <<gates, s>>
         \/ \E ok \in BOOLEAN :
              /\ Continues(ok, "act") /\ Write(ok, next, FALSE)
              /\ s' = IF ok THEN Done([s EXCEPT !.dispatched = TRUE]) ELSE s
  BY DEF MarkTraditional
<1>2. /\ worker.pc \notin {"idle", "prepare"} /\ worker \in Attending /\ s \in AgenticState
      /\ Heard.id \in Nat /\ worker.head \in Commit /\ worker.base \in Base
      /\ Live \in Gate(Base) /\ Live = gates[worker.head] /\ worker.pc # "idle" /\ GitHub
  BY <1>1, ObeyingFacts, SoundFacts
<1>3. /\ Tracks(s) /\ Snapshot.head = worker.head /\ Snapshot.base = worker.base /\ Named(Live)
      /\ Snapshot \in traditionally => Taken(Live, worker.base)
  BY <1>2, TracksFacts DEF Exclusive, Recorded
<1>4. /\ next \in Gate(Base) /\ next.title = "traditional" /\ next.base = worker.base
      /\ next.status = "completed" /\ next.conclusion = "success"
  <2>1. PICK gate \in Gate(Base), base \in Base, title \in Title :
          gate = Live /\ base = worker.base /\ title = "traditional"
    BY <1>2 DEF Title
  <2>2. LET m == Marked(gate, base, title) IN
        m \in Gate(Base) /\ m.base = base /\ m.status = "completed" /\ m.conclusion = "success"
    BY MarkedRest, ZenonT(60)
  <2>3. Marked(gate, base, title).title = title
    BY <2>1, MarkedTitle
  <2> QED BY <2>1, <2>2, <2>3
<1>5. FALSE \in BOOLEAN /\ {} \in SUBSET {Snapshot}
  OBVIOUS
<1> HIDE DEF next
<1>6. Written(Live, next, FALSE) \in Interrupted(Live, next, FALSE)
  BY <1>2, <1>4, <1>5, WrittenRest
<1>7. worker'.pc # "send" /\ (s' = s \/ s' = Done([s EXCEPT !.dispatched = TRUE]))
  BY <1>1, <1>2, SleepsFacts, StopsFacts, GoesFacts
<1>8. PICK v : /\ v = Live \/ v \in Interrupted(Live, next, FALSE)
               /\ gates' = [gates EXCEPT ![worker.head] = v]
  <2>1. CASE UNCHANGED gates
    BY <1>2, <2>1 DEF GitHub
  <2>2. CASE \E ok \in BOOLEAN : Write(ok, next, FALSE)
    BY <1>3, <1>6, <2>2 DEF Write, SetGate
  <2> QED BY <1>1, <2>1, <2>2
<1>9. /\ v \in Gate(Base) /\ Named(v)
      /\ v = Live \/ v.base = worker.base \/ ~TraditionalRevisionOwner(v)
      /\ Taken(Live, worker.base) => Taken(v, worker.base)
  <2>1. CASE v = Live
    BY <1>2, <1>3, <2>1
  <2>2. CASE v \in Interrupted(Live, next, FALSE)
    BY <1>2, <1>3, <1>4, <1>5, <2>2, Rewritten
  <2> QED BY <1>8, <2>1, <2>2
<1>10. Touches(Snapshot, v)
  BY <1>2, <1>3, <1>8, <1>9 DEF Touches
<1>11. Tracks(s') /\ TraditionalMode(s') /\ s'.optOut = s.optOut /\ (s.dispatched => s'.dispatched)
  <2> DEFINE u == [s EXCEPT !.dispatched = TRUE]
  <2>1. u \in AgenticState /\ Tracks(u) /\ TraditionalMode(u) /\ u.optOut = s.optOut /\ u.dispatched
    BY <1>1, <1>2, <1>3, DispatchedRest
  <2> HIDE DEF u
  <2>2. Like(u, Done(u))
    BY <1>2, <2>1, LikeFacts
  <2>3. Tracks(Done(u)) /\ TraditionalMode(Done(u)) /\ Done(u).optOut = s.optOut /\ Done(u).dispatched
    BY <2>1, <2>2, LikeTracks DEF Like, Alike, TraditionalMode
  <2> QED BY <1>1, <1>3, <1>7, <2>3 DEF u
<1>12. Snapshot \in traditionally \cup {} /\ IsFor(v, worker.base) /\ v.title # "agentic"
         => Taken(v, worker.base)
  BY <1>3, <1>9
<1> QED BY <1>1, <1>2, <1>5, <1>7, <1>10, <1>11, <1>12, OwnFrame

-----------------------------------------------------------------------------
(* Steps that write the gate of a revision that Chai owns.                   *)

LEMMA ChaiFrame ==
  ASSUME Sound, Exclusive, worker.pc \notin {"idle", "prepare"}, UNCHANGED outside,
         ~TraditionalMode(s), NEW done \in SUBSET {Snapshot}, Recall(done, {}),
         NEW v \in Gate(Base), Named(v), gates' = [gates EXCEPT ![worker.head] = v],
         Tracks(s'), ~TraditionalMode(s'),
         s'.waiting # 0 => s'.title = "agentic" /\ ~Taken(v, worker.base),
         worker'.pc # "send"
  PROVE  Exclusive'
<1>1. /\ Snapshot \notin traditionally
      /\ \A r \in traditionally : r.head = worker.head => r = Snapshot
      /\ worker.head \in Commit /\ gates \in [Commit -> Gate(Base)]
  BY TracksFacts, WorkingFacts, SoundFacts DEF GitHub
<1>2. traditionally' \subseteq traditionally
  BY DEF Recall
<1>3. gates'[worker.head] = v
  BY <1>1
<1>4. /\ Snapshot \notin traditionally'
      /\ \A r \in traditionally' : r.head = worker.head => r = Snapshot
  BY <1>1, <1>2
<1>5. Knows(s', gates', completed', traditionally')
  BY <1>3, <1>4, KnowsChai
<1>6. {} \in SUBSET {Snapshot} /\ ~(Snapshot \in traditionally \cup {})
  BY <1>1
<1> QED BY <1>5, <1>6, ActFrame

\* The gate that Chai acts upon, and the one that is retired before.
LEMMA HandoffRest ==
  ASSUME worker.base \in Base, NEW g \in Gate(Base)
  PROVE  /\ Handoff \in Gate(Base) /\ Created(g, Handoff) \in Gate(Base)
         /\ Created(g, Handoff).title = "agentic"
         /\ Retired(g, "agentic", "retired") \in Gate(Base)
         /\ Retired(g, "agentic", "retired").title = "agentic"
<1> DEFINE c == Check(worker.base, "queued", "", "handoff")
<1>1. c \in Gate(Base) /\ c.status = "queued"
  BY CheckFacts
<1>2. Handoff = [c EXCEPT !.title = "agentic"]
  BY DEF Handoff
<1> HIDE DEF c
<1>3. Handoff \in Gate(Base) /\ Handoff.title = "agentic"
  BY <1>1, <1>2 DEF Gate
<1>4. Created(g, Handoff) \in Gate(Base) /\ Created(g, Handoff).title = "agentic"
  BY <1>3, CreatedFacts, CreatedRest
<1>5. "agentic" \in Title /\ "retired" \in Summary
  BY DEF Title, Summary
<1>6. /\ Retired(g, "agentic", "retired") \in Gate(Base)
      /\ Retired(g, "agentic", "retired").title = "agentic"
  BY <1>5, RetiredFacts, RetiredRest
<1> QED BY <1>3, <1>4, <1>6

\* A gate that is Chai's, or was nothing.
Cleared(v) == v \in Gate(Base) /\ (v.title = "agentic" \/ v.id = 0)

LEMMA ClearedFacts ==
  ASSUME NEW v, Cleared(v)
  PROVE  /\ v \in Gate(Base) /\ Named(v) /\ ~TraditionalRevisionOwner(v)
         /\ \A base : ~Taken(v, base)
BY DEF Cleared, Named, Taken, TraditionalRevisionOwner

LEMMA RetireGate ==
  ASSUME Sound, worker.pc # "idle", NEW ok \in BOOLEAN, Retire(ok)
  PROVE  \E v : /\ gates' = [gates EXCEPT ![worker.head] = v]
                /\ ok => Cleared(v)
                /\ Cleared(v) \/ v = Live
<1>1. Live \in Gate(Base) /\ worker.base \in Base /\ Snapshot.head = worker.head
  BY WorkingFacts
<1>2. LET r == Retired(Live, "agentic", "retired") IN r \in Gate(Base) /\ r.title = "agentic"
  BY <1>1, HandoffRest
<1> QED BY <1>1, <1>2 DEF Retire, SetGate, Cleared

LEMMA SignalGate ==
  ASSUME Sound, worker.pc # "idle", Signals \/ SignalFails
  PROVE  \E v : /\ gates' = [gates EXCEPT ![worker.head] = v]
                /\ Signals => Cleared(v)
                /\ Cleared(v) \/ v = Live
<1>1. Live \in Gate(Base) /\ worker.base \in Base /\ Snapshot.head = worker.head
  BY WorkingFacts
<1>2. LET r == Retired(Live, "agentic", "retired") IN Cleared(r)
  BY <1>1, HandoffRest DEF Cleared
<1>3. Cleared(Created(Live, Handoff))
  BY <1>1, HandoffRest DEF Cleared
<1>4. CASE Signals
  BY <1>1, <1>3, <1>4 DEF Signals, SetGate
<1>5. CASE Retire(FALSE) /\ ~Signals
  <2>1. FALSE \in BOOLEAN
    OBVIOUS
  <2> QED BY <1>5, <2>1, RetireGate
<1>6. CASE /\ ~Signals
           /\ SetGate(Snapshot, {IF Live.id = 0 THEN Live ELSE Retired(Live, "agentic", "retired"),
                                 Created(Live, Handoff)})
  BY <1>1, <1>2, <1>3, <1>6 DEF SetGate
<1> QED BY <1>4, <1>5, <1>6 DEF SignalFails

\* What it remembers of a revision that Chai is told about.
LEMMA SignalledRest ==
  ASSUME s \in AgenticState, Tracks(s), ~TraditionalMode(s)
  PROVE  Tracks(Signalled) /\ ~TraditionalMode(Signalled) /\ Signalled.title = "agentic"
<1>1. /\ Signalled.known = s.known /\ Signalled.head = s.head /\ Signalled.base = s.base
      /\ Signalled.optOut = s.optOut /\ Signalled.timedOut = s.timedOut
      /\ Signalled.traditional = s.traditional /\ Signalled.title = "agentic"
  BY DEF Signalled, AgenticState
<1> QED BY <1>1 DEF Tracks, TraditionalMode

LEMMA SignalFailsRest ==
  ASSUME s \in AgenticState, Tracks(s), ~TraditionalMode(s), s.waiting = 0, SignalFails
  PROVE  Tracks(s') /\ ~TraditionalMode(s') /\ s'.waiting = 0
<1>1. /\ s'.known = s.known /\ s'.head = s.head /\ s'.base = s.base
      /\ s'.optOut = s.optOut /\ s'.timedOut = s.timedOut
      /\ s'.traditional = s.traditional /\ s'.waiting = 0
  BY DEF SignalFails, AgenticState
<1> QED BY <1>1 DEF Tracks, TraditionalMode

LEMMA SignalExcludes ==
  ASSUME Sound, Exclusive, worker.pc \notin {"idle", "prepare"}, UNCHANGED outside,
         ~TraditionalMode(s), ~s.ready, Recall({}, {}), worker'.pc # "send",
         \/ Signals /\ (s' = Signalled \/ s' = Done(Signalled))
         \/ SignalFails
  PROVE  Exclusive'
<1>1. /\ Owns(s, gates) /\ s \in AgenticState /\ Live \in Gate(Base) /\ worker.pc # "idle"
      /\ Live = gates[worker.head] /\ worker.head \in Commit /\ Tracks(s) /\ Named(Live)
  BY ActingFacts, TracksFacts DEF Exclusive, Recorded
<1>2. s.waiting = 0
  BY <1>1, NotReady
<1>3. PICK v : /\ gates' = [gates EXCEPT ![worker.head] = v]
               /\ Signals => Cleared(v)
               /\ Cleared(v) \/ v = Live
  BY <1>1, SignalGate
<1>4. v \in Gate(Base) /\ Named(v) /\ (Cleared(v) => ~Taken(v, worker.base))
  BY <1>1, <1>3, ClearedFacts
<1>5. /\ Tracks(s') /\ ~TraditionalMode(s')
      /\ s'.waiting # 0 => s'.title = "agentic" /\ Cleared(v)
  <2>1. CASE SignalFails
    BY <1>1, <1>2, <2>1, SignalFailsRest
  <2>2. CASE Signals /\ (s' = Signalled \/ s' = Done(Signalled))
    <3>1. Tracks(Signalled) /\ ~TraditionalMode(Signalled) /\ Signalled.title = "agentic"
      BY <1>1, SignalledRest
    <3>2. /\ Done(Signalled).known = Signalled.known /\ Done(Signalled).head = Signalled.head
          /\ Done(Signalled).base = Signalled.base /\ Done(Signalled).optOut = Signalled.optOut
          /\ Done(Signalled).timedOut = Signalled.timedOut
          /\ Done(Signalled).traditional = Signalled.traditional
          /\ Done(Signalled).title = Signalled.title
      BY <1>1 DEF Done, Signalled, AgenticState
    <3> QED BY <1>3, <2>2, <3>1, <3>2 DEF Tracks, TraditionalMode
  <2> QED BY <2>1, <2>2
<1>6. {} \in SUBSET {Snapshot}
  OBVIOUS
<1> QED BY <1>3, <1>4, <1>5, <1>6, ChaiFrame

LEMMA CommandSignalExcludes ==
  ASSUME Sound, Exclusive, CommandSignal
  PROVE  Exclusive'
<1>1. /\ UNCHANGED outside /\ Obeying({"required", "remaining"}) /\ ~TraditionalMode(s)
      /\ Recall({}, {})
      /\ \/ /\ s.ready \/ Adopts
            /\ s' = Done(IF s.ready THEN s ELSE Adopted) /\ Goto("act") /\ UNCHANGED gates
         \/ /\ ~s.ready
            /\ \E ok \in BOOLEAN :
                 /\ Continues(ok, "act")
                 /\ IF ok THEN Signals /\ s' = Done(Signalled) ELSE SignalFails
  BY DEF CommandSignal
<1>2. /\ worker.pc \notin {"idle", "prepare"} /\ worker \in Attending /\ s \in AgenticState
      /\ Heard.id \in Nat /\ worker.pc # "idle" /\ Owns(s, gates)
      /\ Live \in Gate(Base) /\ Live = gates[worker.head] /\ worker.head \in Commit /\ GitHub
  BY <1>1, ObeyingFacts, SoundFacts
<1>3. worker'.pc # "send"
  BY <1>1, <1>2, GoesFacts
<1>4. CASE /\ s.ready \/ Adopts
           /\ s' = Done(IF s.ready THEN s ELSE Adopted) /\ Goto("act") /\ UNCHANGED gates
  <2> DEFINE t == IF s.ready THEN s ELSE Adopted
  <2>1. t \in AgenticState /\ Tracks(t) /\ ~TraditionalMode(t)
        /\ (t.waiting # 0 => t.title = "agentic" /\ ~Taken(Live, worker.base))
    BY <1>1, <1>2, <1>4, TracksFacts, AdoptedRest
  <2>2. s' = Done(t)
    BY <1>4
  <2> HIDE DEF t
  <2>3. Like(t, s')
    BY <1>2, <2>1, <2>2, LikeFacts
  <2>4. /\ Tracks(s') /\ ~TraditionalMode(s')
        /\ s'.waiting # 0 => s'.title = "agentic" /\ ~Taken(Live, worker.base)
    BY <2>1, <2>3, LikeTracks DEF Like, Alike, TraditionalMode
  <2>5. gates' = [gates EXCEPT ![worker.head] = Live] /\ Named(Live)
    BY <1>2, <1>4 DEF GitHub, Exclusive, Recorded
  <2>6. {} \in SUBSET {Snapshot}
    OBVIOUS
  <2> QED BY <1>1, <1>2, <1>3, <2>4, <2>5, <2>6, ChaiFrame
<1>5. CASE ~s.ready /\ (SignalFails \/ (Signals /\ s' = Done(Signalled)))
  BY <1>1, <1>2, <1>3, <1>5, SignalExcludes
<1> QED BY <1>1, <1>4, <1>5

LEMMA ActSignalExcludes ==
  ASSUME Sound, Exclusive, ActSignal
  PROVE  Exclusive'
<1>1. PICK ok \in BOOLEAN :
        /\ Continues(ok, "timer")
        /\ IF ok THEN Signals /\ s' = Signalled ELSE SignalFails
  BY DEF ActSignal
<1>2. /\ UNCHANGED outside /\ ~TraditionalMode(s) /\ ~s.ready /\ Recall({}, {})
      /\ worker.pc \notin {"idle", "prepare"}
  BY PhaseFacts DEF ActSignal
<1>3. worker'.pc # "send"
  BY <1>1, <1>2, ActingFacts, GoesFacts
<1> QED BY <1>1, <1>2, <1>3, SignalExcludes

LEMMA MarkAgenticExcludes ==
  ASSUME Sound, Exclusive, MarkAgentic
  PROVE  Exclusive'
<1> DEFINE title == IF Found.title = "" THEN "agentic" ELSE Found.title
           next == Marked(Live, worker.base, title)
           t == CompletedBy(Titled(Live, next))
<1>1. /\ UNCHANGED outside /\ Obeying({"mark"}) /\ ~TraditionalMode(s)
      /\ \/ GivesUp /\ s' = Found /\ UNCHANGED <<gates, completed, traditionally>>
         \/ \E ok \in BOOLEAN, done \in SUBSET {Snapshot} :
              /\ Continues(ok, "act") /\ Write(ok, next, FALSE)
              /\ s' = IF ok THEN Done(t) ELSE Found
              /\ Recall(done, {})
  BY DEF MarkAgentic
<1>2. /\ worker.pc \notin {"idle", "prepare"} /\ worker \in Attending /\ s \in AgenticState
      /\ Heard.id \in Nat /\ worker.pc # "idle" /\ Owns(s, gates) /\ worker.base \in Base
      /\ Live \in Gate(Base) /\ Live = gates[worker.head] /\ worker.head \in Commit
      /\ Snapshot.head = worker.head
  BY <1>1, ObeyingFacts
<1>3. /\ Named(Live)
      /\ s.waiting # 0 => s.title = "agentic" /\ ~Taken(Live, worker.base)
  BY <1>1, <1>2, TracksFacts DEF Exclusive, Recorded
<1>4. /\ Found \in AgenticState /\ Tracks(Found) /\ ~TraditionalMode(Found)
      /\ Found.waiting # 0 => Found = s
  BY <1>1, <1>2, FoundRest
<1>5. title \in Title /\ title \in {"agentic", "traditional", "rerun"}
      /\ (Found.waiting # 0 => title = "agentic")
  BY <1>3, <1>4 DEF AgenticState, Title
<1>6. /\ next \in Gate(Base) /\ next.base = worker.base /\ next.status = "completed"
      /\ next.title = title
  <2>1. PICK gate \in Gate(Base), base \in Base, name \in Title :
          gate = Live /\ base = worker.base /\ name = title
    BY <1>2, <1>5
  <2>2. LET m == Marked(gate, base, name) IN
        m \in Gate(Base) /\ m.base = base /\ m.status = "completed"
    BY MarkedRest
  <2>3. Marked(gate, base, name).title = name
    BY <1>5, <2>1, MarkedTitle
  <2> QED BY <2>1, <2>2, <2>3
<1>7. worker'.pc # "send"
  BY <1>1, <1>2, SleepsFacts, StopsFacts, GoesFacts
<1>8. CASE GivesUp /\ s' = Found /\ UNCHANGED <<gates, completed, traditionally>>
  <2>1. Knows(Found, gates, completed, traditionally)
    BY <1>1, <1>2, <1>3, <1>4, OwnedKnows
  <2> QED BY <1>1, <1>2, <1>4, <1>7, <1>8, <2>1, ThinkFrame
<1>9. ASSUME NEW ok \in BOOLEAN, NEW done \in SUBSET {Snapshot}, Write(ok, next, FALSE),
             s' = IF ok THEN Done(t) ELSE Found, Recall(done, {})
      PROVE  Exclusive'
  <2>1. FALSE \in BOOLEAN
    OBVIOUS
  <2>2. Titled(Live, next) \in Gate(Base)
    BY <1>2, <1>6, TitledRest
  <2>3. next.title # ""
    BY <1>5, <1>6
  <2> HIDE DEF next
  <2>4. Written(Live, next, FALSE) \in Interrupted(Live, next, FALSE)
    BY <1>2, <1>6, <2>1, WrittenRest
  <2>5. PICK v \in Interrupted(Live, next, FALSE) : gates' = [gates EXCEPT ![worker.head] = v]
    BY <1>2, <1>9, <2>4 DEF Write, SetGate
  <2>6. /\ v \in Gate(Base) /\ Named(v)
        /\ next.title = "agentic" => v = Live \/ v.title = "agentic"
    BY <1>2, <1>3, <1>6, <2>1, <2>3, Rewritten, ZenonT(60)
  <2>7. /\ Tracks(s') /\ ~TraditionalMode(s')
        /\ s'.waiting # 0 => s'.title = "agentic" /\ ~Taken(v, worker.base)
    <3>1. CASE ~ok
      BY <1>3, <1>4, <1>5, <1>6, <1>9, <2>6, <3>1 DEF Taken, TraditionalRevisionOwner
    <3>2. CASE ok
      <4>1. /\ t.known = Found.known /\ t.head = Found.head /\ t.base = Found.base
            /\ t.optOut = Found.optOut /\ t.timedOut = Found.timedOut
            /\ t.traditional = Found.traditional /\ t.waiting = 0
        BY <1>4 DEF CompletedBy, AgenticState
      <4>2. t \in AgenticState
        BY <1>4, <2>2 DEF CompletedBy, AgenticState, Gate, Title
      <4> HIDE DEF t
      <4>3. Tracks(t) /\ ~TraditionalMode(t)
        BY <1>4, <4>1 DEF Tracks, TraditionalMode
      <4>4. Like(t, Done(t))
        BY <1>2, <4>2, LikeFacts
      <4> QED BY <1>9, <3>2, <4>1, <4>3, <4>4, LikeTracks DEF Like, Alike, TraditionalMode
    <3> QED BY <3>1, <3>2
  <2> QED BY <1>1, <1>2, <1>7, <1>9, <2>5, <2>6, <2>7, ChaiFrame
<1> QED BY <1>1, <1>8, <1>9

-----------------------------------------------------------------------------
(* Steps that change the owner of a revision.                                *)

\* A person takes the revision from Chai; what Chai completed is void first.
LEMMA CommandSkipExcludes ==
  ASSUME Sound, Exclusive, CommandSkip
  PROVE  Exclusive'
<1> DEFINE kept == s.dispatched /\ TraditionalMode(s)
           reset == [s EXCEPT !.dispatched = kept]
           out == [reset EXCEPT !.optOut = TRUE, !.waiting = 0]
           next == Waiting(worker.base)
           reopen == Live.conclusion = "success"
<1>1. /\ UNCHANGED outside /\ Obeying({"skip"}) /\ Recall({}, {})
      /\ \/ UNCHANGED gates
         \/ ~TraditionalMode(s) /\ \E ok \in BOOLEAN : Write(ok, next, reopen)
      /\ s' = Done(out) \/ s' = s \/ s' = reset
      /\ Goto("act") \/ Errs
  BY DEF CommandSkip
<1>2. /\ worker.pc \notin {"idle", "prepare"} /\ worker \in Attending /\ s \in AgenticState
      /\ Heard.id \in Nat /\ worker.pc # "idle" /\ worker.base \in Base
      /\ Live \in Gate(Base) /\ Live = gates[worker.head] /\ worker.head \in Commit /\ GitHub
  BY <1>1, ObeyingFacts, SoundFacts
<1>3. /\ Tracks(s) /\ Named(Live) /\ Snapshot.head = worker.head /\ Snapshot.base = worker.base
      /\ \A r \in traditionally : r.head = worker.head => r = Snapshot
      /\ Snapshot \in traditionally => TraditionalMode(s) /\ Taken(Live, worker.base)
      /\ Snapshot \in completed /\ TraditionalMode(s) /\ ~s.optOut => s.dispatched
      /\ ~TraditionalMode(s) /\ s.waiting # 0 => s.title = "agentic" /\ ~Taken(Live, worker.base)
  BY <1>2, TracksFacts DEF Exclusive, Recorded
<1>4. worker'.pc # "send"
  BY <1>1, <1>2, SleepsFacts, StopsFacts, GoesFacts
<1>5. /\ next \in Gate(Base) /\ next.title = "traditional" /\ next.base = worker.base
      /\ next.status = "queued" /\ reopen \in BOOLEAN
  BY <1>2, CheckRest, ZenonT(60)
<1> HIDE DEF next, reopen
<1>6. Written(Live, next, reopen) \in Interrupted(Live, next, reopen)
  BY <1>2, <1>5, WrittenRest
<1>7. PICK v : /\ gates' = [gates EXCEPT ![worker.head] = v]
               /\ v = Live \/ (~TraditionalMode(s) /\ v \in Interrupted(Live, next, reopen))
  <2>1. CASE UNCHANGED gates
    BY <1>2, <2>1 DEF GitHub
  <2>2. CASE ~TraditionalMode(s) /\ \E ok \in BOOLEAN : Write(ok, next, reopen)
    BY <1>3, <1>6, <2>2 DEF Write, SetGate
  <2> QED BY <1>1, <2>1, <2>2
<1>8. /\ v \in Gate(Base) /\ Named(v)
      /\ ~TraditionalMode(s) /\ s.waiting # 0 => ~Taken(v, worker.base)
      /\ Snapshot \in traditionally => Taken(v, worker.base)
  <2>1. CASE v = Live
    BY <1>2, <1>3, <2>1
  <2>2. CASE ~TraditionalMode(s) /\ v \in Interrupted(Live, next, reopen)
    <3>1. /\ v \in Gate(Base) /\ Named(v)
          /\ ~Taken(Live, next.base) => v = Live \/ ~TraditionalRevisionOwner(v)
      BY <1>2, <1>3, <1>5, <2>2, Rewritten
    <3> QED BY <1>3, <1>5, <2>2, <3>1 DEF Taken
  <2> QED BY <1>7, <2>1, <2>2
<1>9. {} \in SUBSET {Snapshot} /\ worker.pc # "idle" /\ kept \in BOOLEAN
      /\ (TraditionalMode(s) => kept = s.dispatched)
      /\ completed' \subseteq completed /\ traditionally' \subseteq traditionally
      /\ gates'[worker.head] = v
  BY <1>1, <1>2, <1>7 DEF Recall, GitHub, AgenticState
<1> HIDE DEF kept
<1>10. /\ reset \in AgenticState /\ reset.known = s.known /\ reset.head = s.head
       /\ reset.base = s.base /\ reset.optOut = s.optOut /\ reset.timedOut = s.timedOut
       /\ reset.traditional = s.traditional /\ reset.title = s.title
       /\ reset.waiting = s.waiting /\ reset.dispatched = kept
  BY <1>2, <1>9 DEF AgenticState
<1> HIDE DEF reset
<1>11. /\ out \in AgenticState /\ out.known = s.known /\ out.head = s.head /\ out.base = s.base
       /\ out.optOut
  BY <1>10 DEF AgenticState
<1> HIDE DEF out
<1>12. Tracks(s') /\ Knows(s', gates', completed', traditionally')
  <2>1. CASE s' = Done(out)
    <3>1. Like(out, s')
      BY <1>2, <1>11, <2>1, LikeFacts
    <3>2. Tracks(s') /\ TraditionalMode(s') /\ s'.optOut
      BY <1>3, <1>11, <3>1 DEF Like, Alike, Tracks, TraditionalMode
    <3> QED BY <1>3, <1>9, <3>2, KnowsOwn
  <2>2. ASSUME NEW t \in {s, reset}, s' = t
        PROVE  Tracks(s') /\ Knows(s', gates', completed', traditionally')
    <3>1. /\ Tracks(t) /\ (TraditionalMode(t) <=> TraditionalMode(s))
          /\ t.optOut = s.optOut /\ t.title = s.title /\ t.waiting = s.waiting
          /\ TraditionalMode(s) => t.dispatched = s.dispatched
      BY <1>3, <1>9, <1>10, <2>2 DEF Tracks, TraditionalMode
    <3>2. CASE TraditionalMode(s)
      BY <1>3, <1>9, <2>2, <3>1, <3>2, KnowsOwn
    <3>3. CASE ~TraditionalMode(s)
      BY <1>3, <1>8, <1>9, <2>2, <3>1, <3>3, KnowsChai
    <3> QED BY <3>2, <3>3, <2>2, <3>1
  <2> QED BY <1>1, <2>1, <2>2
<1> QED BY <1>1, <1>2, <1>4, <1>7, <1>8, <1>9, <1>12, ActFrame

\* Whose the revision is, the gate says.
LEMMA RestoredRest ==
  ASSUME Sound, worker.pc # "idle", Tracks(s)
  PROVE  /\ Restored \in AgenticState /\ Tracks(Restored) /\ Restored.waiting = 0
         /\ TraditionalMode(Restored) <=> Taken(Live, worker.base)
         /\ Restored.dispatched <=> IsFor(Live, worker.base) /\ Succeeded(Live)
         /\ Restored.fresh => ~TraditionalMode(Restored)
<1> DEFINE g == Live
           current == IsFor(g, worker.base)
           complete == current /\ Succeeded(g)
           traditional == current /\ TraditionalRevisionOwner(g)
           deferred == complete \/ traditional
           title == IF deferred THEN g.title ELSE s.title
           published == IF deferred THEN 0 ELSE s.published
           fresh == ~deferred
<1>1. s \in AgenticState /\ Owns(Restored, gates)
  BY WorkingFacts, RestoredOwns DEF Tracks
<1>2. Restored = [s EXCEPT !.optOut = FALSE, !.timedOut = FALSE, !.dispatched = complete,
               !.traditional = traditional, !.ready = complete, !.fresh = fresh, !.waiting = 0,
               !.answered = FALSE, !.title = title, !.published = published]
  BY DEF Restored
<1>3. (traditional <=> Taken(Live, worker.base)) /\ (fresh => ~traditional)
  BY DEF Taken
<1>4. complete <=> IsFor(Live, worker.base) /\ Succeeded(Live)
  OBVIOUS
<1> HIDE DEF complete, traditional, fresh, title, published
<1>5. /\ ~Restored.optOut /\ ~Restored.timedOut /\ Restored.traditional = traditional
      /\ Restored.dispatched = complete /\ Restored.fresh = fresh /\ Restored.waiting = 0
  BY <1>1, <1>2 DEF AgenticState
<1> QED BY <1>1, <1>3, <1>4, <1>5 DEF Owns, Tracks, TraditionalMode

LEMMA RestoreKnows ==
  ASSUME Sound, Exclusive, worker.pc # "idle", Tracks(s), Restore(TRUE), Recall({}, {})
  PROVE  Knows(Restored, gates', completed', traditionally')
<1>1. /\ Tracks(Restored) /\ Restored.waiting = 0
      /\ TraditionalMode(Restored) <=> Taken(Live, worker.base)
      /\ Restored.dispatched <=> IsFor(Live, worker.base) /\ Succeeded(Live)
      /\ Restored.fresh => ~TraditionalMode(Restored)
  BY RestoredRest
<1>2. /\ Snapshot.head = worker.head /\ Snapshot.base = worker.base /\ worker.head \in Commit
      /\ \A r \in traditionally : r.head = worker.head => r = Snapshot
      /\ Snapshot \in traditionally => Taken(Live, worker.base)
      /\ Snapshot \in completed => IsFor(Live, worker.base) /\ Succeeded(Live)
      /\ gates \in [Commit -> Gate(Base)]
  BY KnownFacts, WorkingFacts, SoundFacts DEF GitHub
<1>3. completed' \subseteq completed /\ traditionally' \subseteq traditionally
  BY DEF Recall
<1>4. CASE TraditionalMode(Restored)
  BY <1>1, <1>2, <1>3, <1>4, KnowsOwn
<1>5. CASE ~TraditionalMode(Restored)
  <2>1. Snapshot \notin traditionally'
    BY <1>1, <1>2, <1>3, <1>5
  <2> QED BY <1>1, <1>2, <1>3, <1>5, <2>1, KnowsChai
<1> QED BY <1>4, <1>5

LEMMA RestoreGate ==
  ASSUME Sound, worker.pc # "idle", NEW ok \in BOOLEAN, Restore(ok) \/ Retire(ok) \/ UNCHANGED gates
  PROVE  \E v : gates' = [gates EXCEPT ![worker.head] = v] /\ (Cleared(v) \/ v = Live)
<1>1. Live = gates[worker.head] /\ worker.head \in Commit /\ gates \in [Commit -> Gate(Base)]
  BY WorkingFacts, SoundFacts DEF GitHub
<1>2. CASE UNCHANGED gates
  <2>1. gates' = [gates EXCEPT ![worker.head] = Live]
    BY <1>1, <1>2
  <2> QED BY <2>1
<1>3. CASE Retire(ok)
  BY <1>3, RetireGate
<1> QED BY <1>2, <1>3 DEF Restore

\* What it knows stays true of a gate that became Chai's, or did not change.
LEMMA StillKnows ==
  ASSUME Sound, Exclusive, worker.pc # "idle", NEW v, Cleared(v) \/ v = Live,
         gates' = [gates EXCEPT ![worker.head] = v], Recall({}, {})
  PROVE  Knows(s, gates', completed', traditionally')
<1>1. /\ completed' \subseteq completed /\ traditionally' \subseteq traditionally
      /\ gates \in [Commit -> Gate(Base)] /\ worker.head \in Commit /\ Live = gates[worker.head]
      /\ s.known => s.head \in Commit
  BY WorkingFacts, SoundFacts DEF Recall, GitHub, Sound, Mind, Remembers
<1>2. Knows(s, gates, completed', traditionally')
  BY <1>1, KnowsLess DEF Exclusive
<1>3. \A base : ~Taken(gates[worker.head], base) => ~Taken(v, base)
  BY <1>1, ClearedFacts
<1> QED BY <1>1, <1>2, <1>3 DEF Knows

\* A dispatch of the branch of its gate is one that the gate tells.
LEMMA StillTaken ==
  ASSUME Sound, Exclusive, worker.pc # "idle", NEW v, Cleared(v) \/ v = Live
  PROVE  /\ v \in Gate(Base) /\ Named(v)
         /\ \A r \in traditionally \cup {} :
              r.head = worker.head /\ IsFor(v, r.base) /\ v.title # "agentic" => Taken(v, r.base)
<1>1. /\ Live = gates[worker.head] /\ worker.head \in Commit /\ Live \in Gate(Base)
      /\ Recorded(gates, completed, traditionally)
  BY WorkingFacts DEF Exclusive
<1>2. CASE Cleared(v)
  BY <1>2, ClearedFacts DEF Cleared, IsFor
<1>3. CASE v = Live
  BY <1>1, <1>3 DEF Recorded
<1> QED BY <1>2, <1>3

LEMMA RestoreFrame ==
  ASSUME Sound, Exclusive, worker.pc # "idle", UNCHANGED outside, Recall({}, {}),
         NEW v, Cleared(v) \/ v = Live, gates' = [gates EXCEPT ![worker.head] = v],
         s'.known => Enrolled(s'.base), Knows(s', gates', completed', traditionally'),
         worker'.pc # "send"
  PROVE  Exclusive'
<1>1. /\ v \in Gate(Base) /\ Named(v)
      /\ \A r \in traditionally \cup {} :
           r.head = worker.head /\ IsFor(v, r.base) /\ v.title # "agentic" => Taken(v, r.base)
  BY StillTaken
<1>2. {} \in SUBSET {Snapshot}
  OBVIOUS
<1> QED BY <1>1, <1>2, WriteFrame

LEMMA CommandRestoreExcludes ==
  ASSUME Sound, Exclusive, CommandRestore
  PROVE  Exclusive'
<1>1. /\ UNCHANGED outside /\ Obeying({"agentic"}) /\ Recall({}, {})
      /\ \/ s' = Done(s) /\ UNCHANGED gates
         \/ s' = Done(Restored) /\ Restore(TRUE)
         \/ s' = s /\ (Restore(TRUE) \/ Restore(FALSE))
      /\ Goto("act") \/ Errs
  BY DEF CommandRestore
<1>2. /\ worker.pc \notin {"idle", "prepare"} /\ worker \in Attending /\ s \in AgenticState
      /\ Heard.id \in Nat /\ worker.pc # "idle"
  BY <1>1, ObeyingFacts
<1>3. Tracks(s) /\ Enrolled(worker.base) /\ TRUE \in BOOLEAN /\ FALSE \in BOOLEAN
  BY <1>2, TracksFacts
<1>4. worker'.pc # "send"
  BY <1>1, <1>2, SleepsFacts, StopsFacts, GoesFacts
<1>5. PICK v : gates' = [gates EXCEPT ![worker.head] = v] /\ (Cleared(v) \/ v = Live)
  BY <1>1, <1>2, <1>3, RestoreGate
<1>6. Knows(s, gates', completed', traditionally')
  BY <1>1, <1>2, <1>5, StillKnows
<1>7. Like(s, s) /\ Like(s, Done(s))
  BY <1>2, LikeFacts
<1>8. Tracks(s') /\ Knows(s', gates', completed', traditionally')
  <2>1. CASE s' = Done(s) \/ s' = s
    BY <1>3, <1>6, <1>7, <2>1, LikeTracks, KnowsLike
  <2>2. CASE s' = Done(Restored) /\ Restore(TRUE)
    <3>1. Restored \in AgenticState /\ Tracks(Restored)
      BY <1>2, <1>3, RestoredRest
    <3>2. Knows(Restored, gates', completed', traditionally')
      BY <1>1, <1>2, <1>3, <2>2, RestoreKnows
    <3>3. Like(Restored, s')
      BY <1>2, <2>2, <3>1, LikeFacts
    <3> QED BY <3>1, <3>2, <3>3, LikeTracks, KnowsLike
  <2> QED BY <1>1, <2>1, <2>2
<1>9. s'.known => Enrolled(s'.base)
  BY <1>3, <1>8 DEF Tracks
<1> QED BY <1>1, <1>2, <1>4, <1>5, <1>8, <1>9, RestoreFrame

LEMMA PrepareRestoredExcludes ==
  ASSUME Sound, Exclusive, PrepareRestored
  PROVE  Exclusive'
<1>1. PICK ok \in BOOLEAN :
        /\ Restore(ok) /\ s' = (IF ok THEN Cancelled(Restored) ELSE s) /\ Continues(ok, "command")
  BY DEF PrepareRestored
<1>2. /\ UNCHANGED outside /\ Recall({}, {}) /\ worker.pc # "idle" /\ Tracks(s)
  BY DEF PrepareRestored, Stale, Tracks
<1>3. worker \in Attending /\ s \in AgenticState
  BY <1>2, WorkingFacts
<1>4. worker'.pc # "send"
  BY <1>1, <1>3, GoesFacts
<1>5. PICK v : gates' = [gates EXCEPT ![worker.head] = v] /\ (Cleared(v) \/ v = Live)
  BY <1>1, <1>2, RestoreGate
<1>6. Knows(s, gates', completed', traditionally')
  BY <1>2, <1>5, StillKnows
<1>7. Tracks(s') /\ Knows(s', gates', completed', traditionally')
  <2>1. CASE ~ok
    BY <1>1, <1>2, <1>6, <2>1
  <2>2. CASE ok
    <3>1. Restored \in AgenticState /\ Tracks(Restored)
      BY <1>2, RestoredRest
    <3>2. Restore(TRUE)
      BY <1>1, <2>2
    <3>3. Knows(Restored, gates', completed', traditionally')
      BY <1>2, <3>2, RestoreKnows
    <3>4. Like(Restored, s')
      BY <1>1, <2>2, <3>1, LikeFacts
    <3> QED BY <3>1, <3>3, <3>4, LikeTracks, KnowsLike
  <2> QED BY <2>1, <2>2
<1>8. s'.known => Enrolled(s'.base)
  BY <1>2, <1>7, KnownFacts DEF Tracks
<1> QED BY <1>2, <1>4, <1>5, <1>7, <1>8, RestoreFrame

LEMMA PrepareExcludes ==
  ASSUME Sound, Exclusive, Prepare
  PROVE  Exclusive'
<1> DEFINE out == "skip" \in worker.labels
           t == [s EXCEPT !.optOut = out]
<1>1. /\ UNCHANGED outside /\ UNCHANGED <<gates, completed, traditionally>>
      /\ worker.pc # "idle" /\ Tracks(s) /\ (s.optOut => out)
      /\ s' = Cancelled(t) /\ Goto("command")
  BY DEF Prepare, Stale, Tracks, github
<1>2. worker \in Attending /\ s \in AgenticState
  BY <1>1, WorkingFacts
<1>3. worker'.pc # "send" /\ scenario' = scenario /\ handler' = handler
  BY <1>1, <1>2, GoesFacts DEF outside, hooks
<1>4. out \in BOOLEAN
  OBVIOUS
<1> HIDE DEF out
<1>5. /\ t \in AgenticState
      /\ t.known = s.known /\ t.head = s.head /\ t.base = s.base /\ t.optOut = out
      /\ t.timedOut = s.timedOut /\ t.traditional = s.traditional /\ t.title = s.title
      /\ t.dispatched = s.dispatched /\ t.waiting = s.waiting
  BY <1>2, <1>4 DEF AgenticState
<1> HIDE DEF t
<1>6. Tracks(t) /\ Knows(t, gates, completed, traditionally)
  BY <1>1, <1>5 DEF Exclusive, Knows, TraditionalMode, Tracks
<1>7. Like(t, s')
  BY <1>1, <1>5, LikeFacts
<1>8. Tracks(s') /\ Knows(s', gates, completed, traditionally)
  BY <1>6, <1>7, LikeTracks, KnowsLike
<1>9. s'.known => Enrolled(s'.base)
  BY <1>1, <1>8, KnownFacts DEF Tracks
<1>10. Recorded(gates, completed, traditionally)'
  BY <1>1, <1>3 DEF Exclusive, Recorded, Enrolled
<1>11. Knows(s, gates, completed, traditionally)'
  BY <1>1, <1>8 DEF Knows, TraditionalMode
<1> QED BY <1>1, <1>3, <1>9, <1>10, <1>11 DEF Exclusive, Enrolled

\* The state of a revision that is new to the worker.
LEMMA NewStateRest ==
  ASSUME Sound, worker.pc # "idle", NEW out \in BOOLEAN
  PROVE  LET t == [NewState EXCEPT !.optOut = out]
             here == ~NewState.fresh /\ Live.id # 0 IN
         /\ t \in AgenticState /\ Tracks(t) /\ t.waiting = 0
         /\ TraditionalMode(t) <=> (out \/ (here /\ TraditionalRevisionOwner(Live)))
         /\ t.optOut = out /\ (t.dispatched <=> here /\ Succeeded(Live))
         /\ NewState.fresh <=> s.known \/ (Live.id # 0 /\ Live.base # worker.base)
<1> DEFINE g == Live
           fresh == s.known \/ (g.id # 0 /\ g.base # worker.base)
           here == ~fresh /\ g.id # 0
           traditional == here /\ TraditionalRevisionOwner(g)
           ready == here /\ NativeAgenticReadiness(g)
           dispatched == here /\ Succeeded(g)
           t == [NewState EXCEPT !.optOut = out]
<1>1. Owns(t, gates)
  BY NewStateOwns
<1>2. NewState = [NoState EXCEPT
        !.known = TRUE, !.head = worker.head, !.base = worker.base, !.title = g.title,
        !.fresh = fresh, !.last = s.last, !.traditional = traditional, !.ready = ready,
        !.dispatched = dispatched]
  BY DEF NewState
<1>3. /\ fresh <=> s.known \/ (Live.id # 0 /\ Live.base # worker.base)
      /\ traditional <=> ~fresh /\ Live.id # 0 /\ TraditionalRevisionOwner(Live)
      /\ dispatched <=> ~fresh /\ Live.id # 0 /\ Succeeded(Live)
  OBVIOUS
<1> HIDE DEF g, fresh, traditional, ready, dispatched
<1>4. /\ NewState.fresh = fresh /\ t.traditional = traditional /\ t.dispatched = dispatched
      /\ t.optOut = out /\ t.timedOut = FALSE /\ t.waiting = 0
  <2> DEFINE u == [NoState EXCEPT !.known = TRUE, !.head = worker.head, !.base = worker.base,
                                  !.title = g.title, !.fresh = fresh]
  <2>1. u.fresh = fresh /\ u.timedOut = FALSE /\ u.waiting = 0
    BY DEF NoState
  <2>2. NewState = [u EXCEPT !.last = s.last, !.traditional = traditional, !.ready = ready,
                             !.dispatched = dispatched]
    BY <1>2
  <2> QED BY <2>1, <2>2 DEF NoState
<1> HIDE DEF t
<1> QED BY <1>1, <1>3, <1>4 DEF Owns, Tracks, TraditionalMode, t

LEMMA PrepareNewExcludes ==
  ASSUME Sound, Exclusive, PrepareNew
  PROVE  Exclusive'
<1> DEFINE out == "skip" \in worker.labels
           t == [NewState EXCEPT !.optOut = out]
           here == ~NewState.fresh /\ Live.id # 0
<1>1. PICK ok \in BOOLEAN :
        /\ IF NewState.fresh THEN Retire(ok) ELSE UNCHANGED gates
        /\ s' = IF ok THEN Cancelled(t) ELSE s
        /\ Continues(ok, "command")
        /\ Recall({}, {})
  BY DEF PrepareNew
<1>2. UNCHANGED outside /\ worker.pc # "idle" /\ worker.pc = "prepare"
  BY DEF PrepareNew
<1>3. /\ worker \in Attending /\ s \in AgenticState /\ Live = gates[worker.head]
      /\ worker.head \in Commit /\ worker.base \in Base /\ gates \in [Commit -> Gate(Base)]
      /\ Snapshot = Rev(worker.head, worker.base) /\ Snapshot.head = worker.head
      /\ Snapshot.base = worker.base /\ Enrolled(worker.base)
  <2>1. Snapshot.head = worker.head /\ Snapshot.base = worker.base
    BY DEF Snapshot, Rev
  <2> QED BY <1>2, <2>1, WorkingFacts, SoundFacts DEF GitHub, Snapshot, Sound, Mind, Attends
<1>4. worker'.pc # "send"
  BY <1>1, <1>3, GoesFacts
<1>5. PICK v : /\ gates' = [gates EXCEPT ![worker.head] = v] /\ (Cleared(v) \/ v = Live)
               /\ ok /\ NewState.fresh => Cleared(v)
               /\ ~NewState.fresh => v = Live
  <2>1. CASE NewState.fresh
    BY <1>1, <1>2, <2>1, RetireGate
  <2>2. CASE ~NewState.fresh
    BY <1>1, <1>3, <2>2
  <2> QED BY <2>1, <2>2
<1>6. Knows(s, gates', completed', traditionally')
  BY <1>1, <1>2, <1>5, StillKnows
<1>7. /\ t \in AgenticState /\ Tracks(t) /\ t.waiting = 0
      /\ TraditionalMode(t) <=> (out \/ (here /\ TraditionalRevisionOwner(Live)))
      /\ t.optOut = out /\ (t.dispatched <=> here /\ Succeeded(Live))
      /\ NewState.fresh <=> s.known \/ (Live.id # 0 /\ Live.base # worker.base)
  <2>1. out \in BOOLEAN
    OBVIOUS
  <2> HIDE DEF out
  <2> QED BY <1>2, <2>1, NewStateRest
<1> HIDE DEF out, t, here
<1>8. ok => Knows(t, gates', completed', traditionally')
  <2> SUFFICES ASSUME ok
               PROVE  Knows(t, gates', completed', traditionally')
    OBVIOUS
  <2>1. gates'[worker.head] = v
    BY <1>3, <1>5
  <2>2. /\ \A r \in traditionally' : r \in traditionally /\ IsFor(gates'[r.head], r.base)
                                     /\ gates'[r.head].title # "agentic"
        /\ completed' \subseteq completed
    BY <1>1 DEF Recall
  <2>3. ASSUME NEW r \in traditionally', r.head = worker.head
        PROVE  /\ ~NewState.fresh /\ Taken(Live, r.base) /\ r.base = worker.base
               /\ TraditionalMode(t)
    <3>1. IsFor(v, r.base) /\ v.title # "agentic" /\ r \in traditionally
      BY <2>1, <2>2, <2>3
    <3>2. ~Cleared(v)
      BY <3>1 DEF Cleared, IsFor
    <3>3. v = Live /\ ~NewState.fresh
      BY <1>5, <3>2
    <3>4. Taken(Live, r.base)
      BY <1>3, <2>3, <3>1 DEF Exclusive, Recorded
    <3> QED BY <1>7, <3>3, <3>4 DEF Taken, IsFor, here
  <2>4. Snapshot \in completed' /\ TraditionalMode(t) /\ ~t.optOut => t.dispatched
    <3>1. Snapshot \in completed => Succeeded(Live)
      BY <1>3 DEF Exclusive, Recorded
    <3> QED BY <1>7, <2>2, <3>1
  <2>5. /\ t.head = worker.head /\ t.base = worker.base
        /\ Rev(t.head, t.base) = Snapshot
    BY <1>3, <1>7 DEF Tracks
  <2>6. Rev(t.head, t.base) \in traditionally' => TraditionalMode(t)
    BY <1>3, <2>3, <2>5
  <2> QED BY <1>7, <2>3, <2>4, <2>5, <2>6 DEF Knows
<1>9. Knows(s', gates', completed', traditionally') /\ (s'.known => Enrolled(s'.base))
  <2>1. CASE ~ok
    BY <1>1, <1>6, <2>1 DEF Exclusive
  <2>2. CASE ok
    <3>1. Like(t, s')
      BY <1>1, <1>7, <2>2, LikeFacts
    <3>2. Tracks(s') /\ Knows(s', gates', completed', traditionally')
      BY <1>7, <1>8, <2>2, <3>1, LikeTracks, KnowsLike
    <3> QED BY <1>3, <3>2 DEF Tracks
  <2> QED BY <2>1, <2>2
<1> QED BY <1>1, <1>2, <1>4, <1>5, <1>9, RestoreFrame

LEMMA WorkerExcludes ==
  ASSUME Sound, Exclusive, Worker
  PROVE  Exclusive'
BY FetchExcludes, PrepareNewExcludes, PrepareRestoredExcludes, PrepareExcludes,
   CommandSignalExcludes, CommandDispatchExcludes, CommandAutoExcludes, CommandSkipExcludes,
   CommandRestoreExcludes, MarkDeclinedExcludes, MarkTraditionalExcludes, MarkAgenticExcludes,
   RestingExcludes, ActAdoptExcludes, ActSignalExcludes, TimerConfirmsExcludes, TimesOutExcludes,
   NothingToDispatchExcludes, DispatchPendingExcludes, SendExcludes, ReadFailsExcludes DEF Worker

-----------------------------------------------------------------------------
(* The theorem.                                                              *)

LEMMA InitExcludes ==
  ASSUME Init
  PROVE  Exclusive
<1>1. /\ ~handler.busy /\ ~s.known /\ worker.pc = "idle"
      /\ completed = {} /\ traditionally = {}
  BY NothingFacts DEF Init, NoState, Sleeping
<1>2. \A h \in Commit : Named(gates[h])
  BY DEF Init, Named, NoGate
<1> QED BY <1>1, <1>2 DEF Exclusive, Recorded, Knows

LEMMA StutterExcludes ==
  ASSUME Exclusive, UNCHANGED vars
  PROVE  Exclusive'
<1>1. /\ UNCHANGED <<scenario, gates, s, worker, completed, traditionally>>
      /\ handler' = handler
  BY DEF vars, dispatchVars, github, hooks, agenticVars
<1> QED BY <1>1, RestFrame DEF Exclusive

LEMMA NextExcludes ==
  ASSUME Sound, Exclusive, [Next]_vars
  PROVE  Exclusive'
BY WebhooksExclude, ReconcilerExcludes, AroundExclude, WorkerExcludes, StutterExcludes DEF Next

LEMMA AlwaysExclusive == Spec => [](Sound /\ Exclusive)
<1>1. Init => Sound /\ Exclusive
  BY InitSound, InitExcludes
<1>2. Sound /\ Exclusive /\ [Next]_vars => (Sound /\ Exclusive)'
  BY NextSound, NextExcludes
<1> QED BY <1>1, <1>2, PTL DEF Spec

\* What the worker is about to request was not completed while Chai owned it.
LEMMA SendsNothingCompleted ==
  ASSUME Sound, Exclusive, worker.pc = "send", Snapshot \in completed
  PROVE  s.optOut
BY TracksFacts, ActingFacts DEF Exclusive

\* A comment of Chai moves no gate of a revision that was dispatched without it.
LEMMA ChaiMovesNothing ==
  ASSUME Sound, Exclusive, Worker, worker.pc = "command", Heard.by = "chai",
         Snapshot \in traditionally
  PROVE  UNCHANGED gates
<1>1. TraditionalMode(s) /\ IsFor(Live, worker.base)
  BY TracksFacts DEF Taken
<1>2. /\ Live = gates[worker.head] /\ Snapshot.head = worker.head /\ Snapshot.base = worker.base
  BY TracksFacts DEF Live
<1>3. CASE DispatchPending
  <2>1. ~NeedsReset(gates[Snapshot.head], Snapshot.base, FALSE)
    BY <1>1, <1>2 DEF NeedsReset
  <2> QED BY <1>3, <2>1 DEF DispatchPending, PendingGate
<1>4. \A names : Obeying(names) => "mark" \in names
  BY DEF Obeying, Obeys
<1>5. CASE CommandSignal \/ CommandDispatch \/ CommandAuto \/ CommandSkip \/ CommandRestore
  <2>1. /\ ~Obeying({"required", "remaining"}) /\ ~Obeying({"auto"}) /\ ~Obeying({"skip"})
        /\ ~Obeying({"agentic"})
    BY <1>4
  <2> QED BY <1>5, <2>1
          DEF CommandSignal, CommandDispatch, CommandAuto, CommandSkip, CommandRestore
<1>6. CASE MarkTraditional \/ MarkAgentic
  BY <1>1, <1>6 DEF MarkTraditional, MarkAgentic, Declined
<1>7. CASE Fetch \/ PrepareNew \/ PrepareRestored \/ Prepare \/ Send \/ SendNothing
  BY <1>7 DEF Fetch, PrepareNew, PrepareRestored, Prepare, Send, SendNothing
<1>8. CASE ActNothing \/ ActAdopt \/ ActSignal
  BY <1>1, <1>8 DEF ActNothing, ActAdopt, ActSignal
<1>9. CASE MarkDeclined \/ NotDue \/ TimerConfirms \/ TimesOut \/ NothingToDispatch \/ ReadFails
  BY <1>9 DEF MarkDeclined, NotDue, TimerConfirms, TimesOut, NothingToDispatch, ReadFails, github
<1> QED BY <1>3, <1>5, <1>6, <1>7, <1>8, <1>9 DEF Worker

LEMMA OthersWait ==
  ASSUME Webhooks \/ Routes \/ Reconciler \/ People \/ Around
  PROVE  worker' = worker \/ UNCHANGED gates
<1>1. CASE Webhooks
  BY <1>1 DEF Webhooks, Elsewhere
<1>2. CASE Routes
  BY <1>2 DEF Routes, Route, RouteUnsure
<1>3. CASE Reconciler
  BY <1>3 DEF Reconciler, Elsewhere, ReconcileAgentic, unaware
<1>4. CASE People
  BY <1>4 DEF People, Push, Retarget, AddLabel, RemoveLabel, ToggleDraft, Comments, Tests, unaware
<1>5. CASE Around
  BY <1>5 DEF Around, FirstPasses, FirstReruns, Tick, Day, Restart, JobsListed, github, agenticVars
<1> QED BY <1>1, <1>2, <1>3, <1>4, <1>5

\* One owner of the second stage of a revision, whatever was pushed, retargeted, said and
\* lost, in whatever order, before and after a restart: what Chai says moves no gate of a
\* revision that was dispatched without it, and the worker requests nothing of a revision
\* that was completed while Chai owned it, unless people opted out (agentic_events.go
\* applyCommand, agentic.go reconcilePull).
THEOREM OwnersExcluded == Spec => OwnersExclude
<1>1. Sound /\ Exclusive /\ [Next]_vars =>
        [worker' # worker =>
           /\ worker.pc = "command" /\ Heard.by = "chai" /\ gates' # gates
                => Snapshot \notin traditionally
           /\ worker.pc = "send" /\ requested' # requested /\ Snapshot \in completed
                => s.optOut]_vars
  BY ChaiMovesNothing, OthersWait, SendsNothingCompleted DEF Next
<1> QED BY <1>1, AlwaysExclusive, PTL DEF Spec, OwnersExclude
===============================================================================
