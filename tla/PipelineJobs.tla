---------------------------- MODULE PipelineJobs ----------------------------
(***************************************************************************)
(* cmd/pipeline-controller: which presubmits belong to which stage          *)
(* (config_data_provider.go) and which of the second stage a pull request   *)
(* needs (helpers.go, main.go).  A pattern is the set of files it matches;  *)
(* {} stands for an annotation that is not there.  Only presubmits of the   *)
(* base branch are considered, so the name of a branch plays no part.       *)
(***************************************************************************)
EXTENDS FiniteSets

CONSTANTS
  File,       \* changed files
  Presubmit   \* the presubmits of the repository, by name

ASSUME PresubmitAssumption ==
  \A j \in DOMAIN Presubmit :
    /\ Presubmit[j].always \in BOOLEAN /\ Presubmit[j].optional \in BOOLEAN
    /\ Presubmit[j].changes \in BOOLEAN   \* run_if_changed or skip_if_only_changed
    /\ Presubmit[j].run \subseteq File    \* pipeline_run_if_changed
    /\ Presubmit[j].skip \subseteq File   \* pipeline_skip_if_only_changed

Job == DOMAIN Presubmit

\* gatherDataForRepos
Kind(j) ==
  LET p == Presubmit[j] IN
  CASE ~p.always /\ ~p.changes /\ p.run # {} -> "conditional"
    [] ~p.always /\ ~p.changes /\ p.run = {} /\ p.skip # {} -> "skip"
    [] ~p.always /\ ~p.changes /\ p.run = {} /\ p.skip = {} /\ ~p.optional -> "protected"
    [] p.always /\ ~p.optional -> "first"
    [] ~p.always /\ p.changes /\ ~p.optional -> "first"
    [] OTHER -> "none"

SecondStage == {j \in Job : Kind(j) \in {"conditional", "skip", "protected"}}

\* matchesPattern and allFilesMatchPattern, for the contexts of a new commit: a commit
\* that changes no file is not one that only changes files to skip.
Expected(changed) ==
  {j \in SecondStage :
    CASE Kind(j) = "conditional" -> changed \cap Presubmit[j].run # {}
      [] Kind(j) = "skip" -> changed = {} \/ ~(changed \subseteq Presubmit[j].skip)
      [] OTHER -> TRUE}

\* pipelineAnnotationMatches, for the dispatch.
Applicable(changed) ==
  {j \in SecondStage :
    CASE Kind(j) = "conditional" -> changed \cap Presubmit[j].run # {}
      [] Kind(j) = "skip" -> changed \ Presubmit[j].skip # {}
      [] OTHER -> TRUE}

\* planDispatchComment and selectConditionalJobs: unless everything is asked for, the jobs
\* that have a run at the commit already are left out.
Planned(changed, mode, existing) ==
  {j \in Applicable(changed) : mode = "force" \/ j \notin existing}
=============================================================================
