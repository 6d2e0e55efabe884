----------------------------- MODULE MCOpsAlerts -----------------------------
(***************************************************************************)
(* Instances of OpsAlerts for TLC.  A scenario bounds what the environment  *)
(* may do; every combination that matters has one.                          *)
(***************************************************************************)
EXTENDS OpsAlerts, TLC

Scenario(forms, limits) ==
  [forms |-> forms,
   limits |-> [m \in Moves |-> IF m \in DOMAIN limits THEN limits[m] ELSE 0]]

One == "occurrence"
Family == "regex"

OpsScenarios ==
  {Scenario({<<"acknowledge", Family>>, <<"unacknowledge", Family>>}, [ask |-> 3, fault |-> 1]),
   Scenario({<<"snooze", Family>>, <<"unsnooze", One>>}, [ask |-> 3, fault |-> 1]),
   Scenario({<<"investigate", One>>, <<"close", One>>}, [ask |-> 2, fault |-> 1, chai |-> 1]),
   Scenario({<<"close", One>>, <<"reopen", One>>}, [ask |-> 2, fault |-> 1, icon |-> 1, crash |-> 1]),
   Scenario({<<"close", One>>, <<"reopen", One>>}, [ask |-> 2, scope |-> 1, crash |-> 1]),
   Scenario({<<"close", One>>}, [ask |-> 1, garble |-> 1]),
   Scenario({}, [chat |-> 2, fault |-> 1, garble |-> 1]),
   Scenario({<<"acknowledge", One>>}, [ask |-> 1, chat |-> 1, fault |-> 1, lost |-> 1, crash |-> 1]),
   Scenario({<<"acknowledge", Family>>, <<"unacknowledge", Family>>, <<"unacknowledge", One>>},
            [ask |-> 3, day |-> 1]),
   Scenario({<<"acknowledge", Family>>, <<"unacknowledge", One>>},
            [ask |-> 2, day |-> 1, age |-> 2]),
   Scenario({<<"snooze", One>>, <<"snooze", Family>>, <<"unsnooze", One>>},
            [ask |-> 2, day |-> 1, age |-> 2])}
=============================================================================
