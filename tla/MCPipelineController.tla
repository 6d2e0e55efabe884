------------------------ MODULE MCPipelineController ------------------------
(* The instances of PipelineController that TLC checks.                      *)
EXTENDS PipelineController

Presubmits ==
  LET p == [always |-> FALSE, optional |-> FALSE, changes |-> FALSE, run |-> {}, skip |-> {}] IN
  [unit |-> [p EXCEPT !.always = TRUE], e2e |-> p, ui |-> [p EXCEPT !.run = {"web"}],
   docs |-> [p EXCEPT !.skip = {"text"}]]

Scenario(trigger, enrolled, changed, labels, talk, limits) ==
  [trigger |-> trigger, enrolled |-> enrolled, changed |-> changed, labels |-> labels, talk |-> talk,
   limits |-> [m \in Moves |-> IF m \in DOMAIN limits THEN limits[m] ELSE 0]]

Say(by, command) == <<by, command, FALSE>>

Named(by, command) == <<by, command, TRUE>>

PipelineScenarios == {
  \* Without Chai: pushes, requests by people, failures, what memory forgets.
  Scenario("auto", {}, {"web"}, {}, {}, [push |-> 1, fault |-> 1]),
  Scenario("auto", {}, {"web"}, {}, {}, [push |-> 1, test |-> 1]),
  Scenario("lgtm", {}, {"web"}, {"lgtm"}, {Say("user", "auto")}, [label |-> 1, comment |-> 1, push |-> 1]),
  Scenario("lgtm", {}, {"text"}, {"lgtm", "auto"}, {Say("user", "auto")},
           [label |-> 1, comment |-> 1, fault |-> 1]),
  Scenario("auto", {}, {"web"}, {},
           {Say("stranger", "mark"), Named("user", "mark"), Say("user", "required"), Say("user", "remaining")},
           [comment |-> 1, rerun |-> 1, restart |-> 1]),
  Scenario("manual", {}, {}, {}, {Say("user", "remaining"), Say("user", "skip"), Say("user", "auto")},
           [comment |-> 1, day |-> 1, draft |-> 1]),
  \* One branch is agentic, the other is not.
  Scenario("auto", {}, {"text"}, {}, {}, [retarget |-> 2]),
  Scenario("auto", {"main"}, {"text"}, {}, {}, [retarget |-> 2]),
  Scenario("auto", {"main"}, {"text"}, {}, {}, [retarget |-> 1, draft |-> 1]),
  Scenario("manual", {"main", "dev"}, {"web"}, {}, {Say("user", "required"), Say("user", "mark")},
           [retarget |-> 1, comment |-> 1]),
  Scenario("auto", {"dev"}, {"web"}, {}, {}, [retarget |-> 1, restart |-> 1]),
  Scenario("auto", {"main"}, {"web"}, {}, {Say("chai", "chat")}, [retarget |-> 2, comment |-> 1]),
  Scenario("manual", {"dev"}, {"web"}, {}, {Say("user", "remaining")}, [retarget |-> 1, comment |-> 1, fault |-> 1]),
  \* Chai answers, or people decide, in time or late, before or after an opt-out.
  Scenario("auto", {"main"}, {"web"}, {}, {Named("chai", "mark"), Say("user", "skip")}, [comment |-> 2]),
  Scenario("auto", {"main"}, {"web"}, {}, {Say("chai", "mark")}, [comment |-> 1, tick |-> 1]),
  Scenario("auto", {"main"}, {"web"}, {"skip"}, {Say("user", "agentic"), Say("chai", "mark")},
           [label |-> 1, unlabel |-> 1, comment |-> 1]),
  Scenario("lgtm", {"main"}, {"web"}, {"lgtm"}, {Say("user", "auto"), Say("chai", "chat")},
           [comment |-> 1, label |-> 1]),
  Scenario("manual", {"main"}, {"web"}, {}, {Say("chai", "mark"), Say("user", "required")}, [comment |-> 2]),
  \* A push, a restart or a failure in between.
  Scenario("auto", {"main"}, {"web"}, {}, {Say("chai", "mark")}, [push |-> 1, comment |-> 1]),
  Scenario("auto", {"main"}, {"web"}, {}, {Named("chai", "mark")}, [comment |-> 1, restart |-> 1]),
  Scenario("auto", {"main"}, {"web"}, {}, {Say("user", "mark"), Say("user", "skip")}, [comment |-> 1, fault |-> 1]),
  Scenario("auto", {"main"}, {"web"}, {}, {}, [fault |-> 2]),
  Scenario("auto", {"main"}, {"web"}, {}, {Say("chai", "chat")}, [draft |-> 2, comment |-> 1]),
  Scenario("lgtm", {"main"}, {"web"}, {"skip"},
           {Say("user", "agentic"), Say("user", "mark"), Say("user", "required"), Say("user", "remaining")},
           [label |-> 1, comment |-> 1, fault |-> 1]),
  Scenario("lgtm", {"main"}, {"text"}, {}, {Say("user", "auto"), Say("user", "skip")},
           [comment |-> 1, fault |-> 1]),
  Scenario("auto", {"main"}, {"web"}, {"skip"}, {}, [label |-> 1, unlabel |-> 1, fault |-> 1]),
  Scenario("manual", {"main"}, {"web"}, {"skip"}, {Say("user", "remaining")}, [label |-> 1, comment |-> 2]),
  Scenario("lgtm", {}, {"text"}, {}, {Say("user", "auto"), Say("user", "remaining")}, [comment |-> 2])
}

\* Chai was told, and the pull request is a draft for a while.
DraftScenarios == {Scenario("auto", {"main"}, {"web"}, {}, {}, [draft |-> 2])}
=============================================================================
