--------------------------- MODULE RetesterPolicy ---------------------------
(***************************************************************************)
(* internal/retester: the policy of a repository, merged from three levels   *)
(* of the configuration file, and what a revision has coming (retester.go,   *)
(* fileBackOffCache.go).                                                     *)
(***************************************************************************)
EXTENDS Integers

\* The field Enabled of a level is a pointer to a boolean.
Flag == {"unset", "yes", "no"}

RetesterPolicyType == [enabled : Flag, sha : Int, both : Int]

\* One organization with one repository.
Config == [global : RetesterPolicyType, org : RetesterPolicyType, repo : RetesterPolicyType]

NoPolicy == [enabled |-> "unset", sha |-> 0, both |-> 0]

\* Zero inherits.
Or(m, n) == IF m # 0 THEN m ELSE n

Inherits(policy, level) ==
  [enabled |-> policy.enabled, sha |-> Or(policy.sha, level.sha),
   both |-> Or(policy.both, level.both)]

\* The flag of a repository counts only beneath an organization that has one.  Without
\* it nothing is enabled, the global flag notwithstanding.
GetRetesterPolicy(c) ==
  LET own == c.repo.enabled # "unset"
      enabled == IF own THEN c.repo.enabled ELSE c.org.enabled
      atRepo == IF own THEN Inherits([NoPolicy EXCEPT !.enabled = enabled], c.repo)
                ELSE [NoPolicy EXCEPT !.enabled = enabled]
      atOrg == IF c.org.enabled = "yes" THEN Inherits(atRepo, c.org) ELSE atRepo
      off == \/ own /\ enabled = "no"
             \/ enabled # "yes" /\ c.global.enabled # "yes"
  IN
  IF c.org.enabled = "unset"
  THEN IF c.global.enabled = "yes" THEN Inherits(NoPolicy, c.global) ELSE NoPolicy
  ELSE IF off THEN NoPolicy ELSE Inherits(atOrg, c.global)

IsEnabled(policy) == policy.enabled = "yes"

\* validatePolicies
Valid(policy) ==
  IsEnabled(policy) => policy.sha >= 0 /\ policy.both >= 0 /\ policy.sha >= policy.both
-----------------------------------------------------------------------------
(* A record of the backoff cache.                                            *)

NoRecord == [known |-> FALSE, head |-> 0, base |-> 0, sha |-> 0, both |-> 0]

\* Slip: the count of a revision is kept for the next one.
Current_SameCount(r, head, base) ==
  [known |-> TRUE, head |-> head, base |-> base, sha |-> r.sha,
   both |-> IF r.base = base THEN r.both ELSE 0]

\* Slip: both counts begin again when the base moves.
Current_OneCount(r, head, base) ==
  LET same == r.head = head /\ r.base = base
  IN [known |-> TRUE, head |-> head, base |-> base,
      sha |-> IF same THEN r.sha ELSE 0, both |-> IF same THEN r.both ELSE 0]

\* The first part of check: counts are of one revision, and of one revision and base.
Current(r, head, base) ==
  [known |-> TRUE, head |-> head, base |-> base,
   sha |-> IF r.head = head THEN r.sha ELSE 0,
   both |-> IF r.head = head /\ r.base = base THEN r.both ELSE 0]

\* The second part: a limit is met, not passed.
Verdict(r, policy) ==
  IF r.sha = policy.sha THEN "hold"
  ELSE IF r.both = policy.both THEN "pause" ELSE "retest"

\* Slip: a hold leaves the count against the base.
Counted_BothKept(r, verdict) ==
  CASE verdict = "hold" -> [r EXCEPT !.sha = 0]
    [] verdict = "retest" -> [r EXCEPT !.sha = @ + 1, !.both = @ + 1]
    [] OTHER -> r

Counted(r, verdict) ==
  CASE verdict = "hold" -> [r EXCEPT !.sha = 0, !.both = 0]
    [] verdict = "retest" -> [r EXCEPT !.sha = @ + 1, !.both = @ + 1]
    [] OTHER -> r
-----------------------------------------------------------------------------
(* Reference: the comment of the type RetesterPolicy.  "When merging policies, a *)
(* 0 value results in inheriting the parent policy.  False in level repo means   *)
(* disabled repo.  Nothing can change that.  True/False in level org means       *)
(* enabled/disabled org.  But repo can be disabled/enabled."                     *)

Promised(c) ==
  LET enabled == IF c.repo.enabled # "unset" THEN c.repo.enabled
                 ELSE IF c.org.enabled # "unset" THEN c.org.enabled ELSE c.global.enabled
      First(m, n, k) == Or(IF c.repo.enabled = "yes" THEN m ELSE 0,
                           Or(IF c.org.enabled = "yes" THEN n ELSE 0, k))
  IN
  IF enabled # "yes" THEN NoPolicy
  ELSE [enabled |-> "yes",
        sha |-> First(c.repo.sha, c.org.sha, c.global.sha),
        both |-> First(c.repo.both, c.org.both, c.global.both)]

\* An invalid policy retests nothing.
Limits(c) == IF Valid(Promised(c)) THEN Promised(c) ELSE NoPolicy
=============================================================================
