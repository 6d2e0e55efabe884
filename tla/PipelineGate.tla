---------------------------- MODULE PipelineGate ----------------------------
(***************************************************************************)
(* cmd/pipeline-controller: the check run ci/pipeline-gate of a commit, and *)
(* how the controller writes it (dispatch_check.go, agentic.go).  GitHub    *)
(* keeps it; it is all that survives a restart.  Of the check runs of a     *)
(* commit the newest counts, so there is one for each commit here, and a    *)
(* larger id when it is created anew.  Its external ID names the pull       *)
(* request, of which there is one, and the base branch.                     *)
(***************************************************************************)
EXTENDS Naturals

NoGate == [id |-> 0, status |-> "", conclusion |-> "", title |-> "", base |-> "", summary |-> ""]

Gate(bases) ==
  [id : Nat, status : {"", "queued", "in_progress", "completed"},
   conclusion : {"", "success", "failure"}, title : {"", "agentic", "traditional", "rerun"},
   base : bases \cup {""},
   summary : {"", "waiting", "dispatching", "dispatched", "failed", "override", "handoff", "retired"}]

Succeeded(g) == g.status = "completed" /\ g.conclusion = "success"

\* traditionalRevisionOwner: a rerun that failed keeps the ownership of its revision.
TraditionalRevisionOwner(g) ==
  g.id # 0 /\ (g.title = "rerun" \/ (g.title = "traditional" /\ Succeeded(g)))

\* nativeAgenticReadiness
NativeAgenticReadiness(g) ==
  g.id # 0 /\ ((g.status = "queued" /\ g.title = "agentic") \/ Succeeded(g))

\* The gate exists for this base branch.
IsFor(g, base) == g.id # 0 /\ g.base = base

Check(base, status, conclusion, summary) ==
  [NoGate EXCEPT !.status = status, !.conclusion = conclusion, !.summary = summary,
                 !.title = "traditional", !.base = base]

\* retireCheck
Retired(g, title, summary) ==
  [g EXCEPT !.status = "completed", !.conclusion = "failure", !.title = title, !.summary = summary]

Created(g, next) == [next EXCEPT !.id = g.id + 1]

\* GitHub keeps the conclusion when an update names none.
Patched(g, next) ==
  [next EXCEPT !.id = g.id, !.conclusion = IF @ = "" THEN g.conclusion ELSE @]

\* The title of a check that succeeded before, or is a rerun already, says so.
Titled(g, next) ==
  IF /\ IsFor(g, next.base) /\ next.title = "traditional"
     /\ g.title = "rerun" \/ (TraditionalRevisionOwner(g) /\ next.status # "completed")
  THEN [next EXCEPT !.title = "rerun"] ELSE next

\* writePipelineCheck: every version of the check on the way, the last one first.  A
\* success is taken back before the check is reopened.
Versions(g, next, reopen) ==
  LET new == Titled(g, next)
      old == IF reopen /\ new.status # "completed" THEN Retired(g, new.title, new.summary) ELSE g
  IN IF g.id = 0 THEN <<Created(g, new), g>> ELSE <<Patched(old, new), old, g>>

Written(g, next, reopen) == Versions(g, next, reopen)[1]

\* A request fails, or only its answer is lost.
Interrupted(g, next, reopen) ==
  {Versions(g, next, reopen)[i] : i \in DOMAIN Versions(g, next, reopen)}

Waiting(base) == Check(base, "queued", "", "waiting")

\* pendingWithReset: whether there is anything to do.
NeedsReset(g, base, reset) == IF reset THEN g.id # 0 ELSE ~IsFor(g, base)

\* markGateCheck
MayMark(g, base, allowCreate) ==
  /\ allowCreate \/ (NativeAgenticReadiness(g) /\ ~TraditionalRevisionOwner(g))
  /\ g.id = 0 \/ g.base = base

Marked(g, base, title) ==
  LET named == IF title = "" THEN g.title ELSE title
      next == Check(base, "completed", "success", "override")
  IN IF named = "" THEN next ELSE [next EXCEPT !.title = named]
=============================================================================
