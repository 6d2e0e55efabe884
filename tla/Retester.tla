------------------------------ MODULE Retester ------------------------------
(***************************************************************************)
(* cmd/retester, internal/retester: every hour a run asks Tide's queries for *)
(* pull requests whose tests fail, keeps those of an enabled repository that *)
(* fail a required job, and comments "/retest-required" on each of them, or  *)
(* "/hold" when its revision had all its retests.  Retests are counted in    *)
(* memory and saved in S3 at the end of the run; a restart, which also is    *)
(* how a new configuration comes into force, loads them.                     *)
(*                                                                         *)
(* Pull requests are of one branch of one repository.  Prow acts on a        *)
(* comment at once, on whatever is then the head.  A record that is deleted  *)
(* for its age is one of a pull request that was no candidate for a week.    *)
(***************************************************************************)
EXTENDS RetesterPolicy, FiniteSets

CONSTANTS
  PR,         \* pull requests
  Configs,    \* configuration files
  MaxHead,    \* revisions of a pull request
  Scenarios   \* bounds: how often each thing may happen

Moves == {"fault", "comment", "save", "load", "restart", "age", "push", "base", "unhold"}

ASSUME RetesterAssumption ==
  /\ PR # {}
  /\ Configs \subseteq Config
  /\ MaxHead \in Nat \ {0}
  /\ Scenarios \subseteq [Moves -> Nat]

VARIABLES
  pr,       \* external: head, required contexts and hold label of each pull request
  base,     \* external: HEAD of the branch
  cache,    \* the backoff cache
  stored,   \* external: the object in S3
  config,   \* the configuration, read when the process starts
  run,      \* the run that is under way
  asked,    \* history: retests of a head since it was held last, and against this base
  lost,     \* history: those of them that no record counts any more
  tried,    \* history: how often a retest of a revision was to be asked for
  lowered,  \* history: a record was already past the limits when it was loaded
  used      \* how often each thing happened so far

github == <<pr, base>>
history == <<asked, lost, tried, lowered>>
vars == <<github, cache, stored, config, run, history, used>>

Policy == GetRetesterPolicy(config)

Idle == [at |-> "idle", todo |-> {}, found |-> {}, heads |-> [p \in PR |-> 0],
         p |-> CHOOSE p \in PR : TRUE, cmd |-> "none"]

None == [sha |-> 0, both |-> 0]

Spend(m) ==
  /\ used' = [used EXCEPT ![m] = @ + 1]
  /\ \E limits \in Scenarios : \A x \in Moves : used'[x] <= limits[x]
-----------------------------------------------------------------------------
(* A run.                                                                    *)

\* Tide's queries want a failing status and no hold.
Candidates == {p \in PR : pr[p].status \in {"required", "optional"} /\ ~pr[p].held}

\* The filter of enabledPRs: an invalid policy is only complained about.
EnabledPRs(found) == IF IsEnabled(Policy) THEN found ELSE {}

\* Run, findCandidates: a search that fails after its first page leaves what was found;
\* one that fails before ends the run.
Query ==
  /\ run.at = "idle"
  /\ \E found \in SUBSET Candidates :
       /\ IF found = Candidates THEN UNCHANGED used ELSE Spend("fault")
       /\ run' = IF found = {} /\ Candidates # {} THEN Idle
                 ELSE [Idle EXCEPT !.at = "examine", !.todo = EnabledPRs(found),
                                   !.heads = [p \in PR |-> IF p \in EnabledPRs(found)
                                                           THEN pr[p].head ELSE 0]]
  /\ UNCHANGED <<github, cache, stored, config, history>>

\* Slip: the states of contexts are compared in lower case.
Fails_LowerCase(status) == FALSE

\* headContexts, presubmitsForPRByContext: a context of a required job failed.
Fails(status) == status = "required"

\* The contexts of a head that has been replaced are whatever they were.
Contexts(p) ==
  IF pr[p].head = run.heads[p] THEN {pr[p].status} ELSE {"required", "optional"}

Examine(p) ==
  /\ run.at = "examine" /\ p \in run.todo
  /\ \E status \in Contexts(p) :
       run' = IF Fails(status)
              THEN [run EXCEPT !.todo = @ \ {p}, !.found = @ \cup {p}]
              ELSE [run EXCEPT !.todo = @ \ {p}, !.heads[p] = 0]
  /\ UNCHANGED <<github, cache, stored, config, history, used>>

\* One request for the contexts fails: nobody is retested in this run, and nothing saved.
ExamineFails ==
  /\ run.at = "examine" /\ run.todo # {} /\ Spend("fault")
  /\ run' = Idle
  /\ UNCHANGED <<github, cache, stored, config, history>>

Examined ==
  /\ run.at = "examine" /\ run.todo = {}
  /\ run' = [run EXCEPT !.at = "consider"]
  /\ UNCHANGED <<github, cache, stored, config, history, used>>

Considered(p) ==
  [run EXCEPT !.at = "consider", !.found = @ \ {p}, !.heads[p] = 0,
              !.p = Idle.p, !.cmd = "none"]

\* retestOrBackoff, check: what to do about the revision that was found.
Check(p) ==
  LET r == Current(cache[p], run.heads[p], base)
      verdict == Verdict(r, Policy)
  IN
  /\ run.at = "consider" /\ p \in run.found /\ Valid(Policy)
  /\ cache' = [cache EXCEPT ![p] = Counted(r, verdict)]
  /\ run' = IF verdict = "pause" THEN Considered(p)
            ELSE [run EXCEPT !.at = "comment", !.p = p, !.cmd = verdict]
  /\ tried' = IF verdict = "retest" THEN [tried EXCEPT ![p][run.heads[p]] = @ + 1] ELSE tried
  /\ UNCHANGED <<github, stored, config, asked, lost, lowered, used>>

\* No base, or no valid policy: this one is left out.
Skip(p) ==
  /\ run.at = "consider" /\ p \in run.found
  /\ IF Valid(Policy) THEN Spend("fault") ELSE UNCHANGED used
  /\ run' = Considered(p)
  /\ UNCHANGED <<github, cache, stored, config, history>>

\* createComment: Prow retests what fails, or holds.
Comment ==
  LET p == run.p
      sameHead == pr[p].head = cache[p].head
      sameBase == sameHead /\ base = cache[p].base
      uncounted == [sha |-> IF sameHead THEN 0 ELSE 1, both |-> IF sameBase THEN 0 ELSE 1]
  IN
  /\ run.at = "comment"
  /\ \/ /\ run.cmd = "retest"
        /\ pr' = [pr EXCEPT ![p].status = IF Fails(@) THEN "pending" ELSE @]
        /\ asked' = [asked EXCEPT ![p] = [sha |-> @.sha + 1, both |-> @.both + 1]]
        /\ lost' = [lost EXCEPT ![p] = [sha |-> @.sha + uncounted.sha,
                                        both |-> @.both + uncounted.both]]
     \/ /\ run.cmd = "hold"
        /\ pr' = [pr EXCEPT ![p].held = TRUE]
        /\ asked' = [asked EXCEPT ![p] = None] /\ lost' = [lost EXCEPT ![p] = None]
  /\ run' = Considered(p)
  /\ UNCHANGED <<base, cache, stored, config, tried, lowered, used>>

\* A comment that fails is not made again, but counts.
CommentFails ==
  /\ run.at = "comment" /\ Spend("comment")
  /\ lost' = IF run.cmd = "hold" THEN [lost EXCEPT ![run.p] = asked[run.p]] ELSE lost
  /\ run' = Considered(run.p)
  /\ UNCHANGED <<github, cache, stored, config, asked, tried, lowered>>

Save ==
  /\ run.at = "consider" /\ run.found = {}
  /\ stored' = cache /\ run' = Idle
  /\ UNCHANGED <<github, cache, config, history, used>>

SaveFails ==
  /\ run.at = "consider" /\ run.found = {} /\ Spend("save")
  /\ run' = Idle
  /\ UNCHANGED <<github, cache, stored, config, history>>

\* What a record counts of a pull request as it is now.
Counts(r, p) == LET now == Current(r, pr[p].head, base) IN [sha |-> now.sha, both |-> now.both]

Beyond(counts, limits) ==
  [sha |-> IF counts.sha > limits.sha THEN counts.sha - limits.sha ELSE 0,
   both |-> IF counts.both > limits.both THEN counts.both - limits.both ELSE 0]

\* The process ends anywhere, and another begins.
Begins(loaded) ==
  /\ cache' = loaded /\ config' \in Configs /\ run' = Idle
  /\ lost' = [p \in PR |-> Beyond(asked[p], Counts(loaded[p], p))]
  /\ lowered' = [p \in PR |-> Beyond(Counts(loaded[p], p), Limits(config')) # None]
  /\ UNCHANGED <<github, stored, asked, tried>>

\* loadAndDelete: the record may be a week old.
Old(p) == stored[p].known /\ ~Fails(pr[p].status)

\* load: old records are forgotten; when the object cannot be read, all are.
Restart ==
  \/ Spend("restart") /\ Begins(stored)
  \/ /\ Spend("age")
     /\ \E p \in PR : Old(p) /\ Begins([stored EXCEPT ![p] = NoRecord])
  \/ Spend("load") /\ Begins([p \in PR |-> NoRecord])
-----------------------------------------------------------------------------
(* The repository.                                                           *)

JobsEnd(p) ==
  /\ pr[p].status = "pending"
  /\ \E status \in {"success", "optional", "required"} :
       pr' = [pr EXCEPT ![p].status = status]
  /\ UNCHANGED <<base, cache, stored, config, run, history, used>>

Push(p) ==
  /\ pr[p].head < MaxHead /\ Spend("push")
  /\ pr' = [pr EXCEPT ![p].head = @ + 1, ![p].status = "pending"]
  /\ asked' = [asked EXCEPT ![p] = None] /\ lost' = [lost EXCEPT ![p] = None]
  /\ lowered' = [lowered EXCEPT ![p] = FALSE]
  /\ UNCHANGED <<base, cache, stored, config, run, tried>>

\* Another pull request is merged.
BaseMoves ==
  /\ Spend("base") /\ base' = base + 1
  /\ asked' = [p \in PR |-> [asked[p] EXCEPT !.both = 0]]
  /\ lost' = [p \in PR |-> [lost[p] EXCEPT !.both = 0]]
  /\ UNCHANGED <<pr, cache, stored, config, run, tried, lowered>>

Unhold(p) ==
  /\ pr[p].held /\ Spend("unhold")
  /\ pr' = [pr EXCEPT ![p].held = FALSE]
  /\ UNCHANGED <<base, cache, stored, config, run, history>>
-----------------------------------------------------------------------------
Init ==
  /\ pr = [p \in PR |-> [head |-> 1, status |-> "pending", held |-> FALSE]] /\ base = 1
  /\ cache = [p \in PR |-> NoRecord] /\ stored = cache
  /\ config \in Configs /\ run = Idle
  /\ asked = [p \in PR |-> None] /\ lost = asked
  /\ tried = [p \in PR |-> [h \in 1..MaxHead |-> 0]] /\ lowered = [p \in PR |-> FALSE]
  /\ used = [m \in Moves |-> 0]

Step ==
  \/ Query \/ Examined \/ Comment \/ Save
  \/ \E p \in PR : Examine(p) \/ Check(p) \/ Skip(p)

Repository == BaseMoves \/ \E p \in PR : JobsEnd(p) \/ Push(p) \/ Unhold(p)

Next == Step \/ ExamineFails \/ CommentFails \/ SaveFails \/ Restart \/ Repository

Spec == Init /\ [][Next]_vars

\* There is a run every hour, and it comes to its end.
FairSpec == Spec /\ WF_vars(Step)
-----------------------------------------------------------------------------
(* Properties.                                                               *)

RecordType == [known : BOOLEAN, head : 0..MaxHead, base : Nat, sha : Nat, both : Nat]

CountType == [sha : Nat, both : Nat]

\* The state keeps its types; a retest that counts against a base counts against its
\* revision, and what is about to be said is about a revision that has a record.
TypeOK ==
  /\ pr \in [PR -> [head : 1..MaxHead, held : BOOLEAN,
                    status : {"pending", "success", "optional", "required"}]]
  /\ base \in Nat /\ config \in Configs
  /\ cache \in [PR -> RecordType] /\ stored \in [PR -> RecordType]
  /\ \A p \in PR : cache[p].both <= cache[p].sha
  /\ run \in [at : {"idle", "examine", "consider", "comment"}, todo : SUBSET PR,
              found : SUBSET PR, heads : [PR -> 0..MaxHead], p : PR,
              cmd : {"none", "hold", "retest"}]
  /\ run.at = "comment" <=> run.cmd # "none"
  /\ run.at = "comment" => run.p \in run.found /\ cache[run.p].known
  /\ asked \in [PR -> CountType] /\ lost \in [PR -> CountType]
  /\ tried \in [PR -> [1..MaxHead -> Nat]] /\ lowered \in [PR -> BOOLEAN]

\* However often bases move, comments and saves fail and the process restarts, a revision
\* is retested as often as its repository's policy promises, if it is valid, in all and
\* against one base, and beyond that only as often as retests were lost count of; unless
\* the limit was lowered below a count, which is compared for equality only.
RetestsBounded ==
  \A p \in PR :
    ~lowered[p] => /\ asked[p].sha <= Limits(config).sha + lost[p].sha
                   /\ asked[p].both <= Limits(config).both + lost[p].both

\* "Revision X was retested N times: holding": it was tried that often, for that revision,
\* whatever was pushed and counted before.
HoldIsEarned ==
  run.cmd = "hold" => tried[run.p][cache[run.p].head] >= Policy.sha

Paused(p) == Verdict(Current(cache[p], pr[p].head, base), Policy) = "pause"

Waiting(p) ==
  /\ pr[p].status = "required" /\ ~pr[p].held /\ ~Paused(p)
  /\ IsEnabled(Policy) /\ Valid(Policy)

\* A failing pull request of an enabled repository is not left alone: it is retested or
\* held, or waits for the base to move.
FailingIsAnswered == \A p \in PR : Waiting(p) ~> ~Waiting(p)
=============================================================================
