--------------------------- MODULE Retester_proofs ---------------------------
(* Theorems about Retester, for any pull requests, configurations and        *)
(* scenarios.                                                                *)
EXTENDS Retester, TLAPS

\* An enabled repository gets the policy that the documentation of RetesterPolicy
\* promises: GetRetesterPolicy merges the three levels as it says.
THEOREM PolicyKept ==
  ASSUME NEW c \in Config, IsEnabled(GetRetesterPolicy(c))
  PROVE  GetRetesterPolicy(c) = Promised(c)
<1>1. /\ c.repo \in RetesterPolicyType /\ c.org \in RetesterPolicyType
      /\ c.global \in RetesterPolicyType
  BY DEF Config
<1>2. /\ c.repo.enabled \in Flag /\ c.org.enabled \in Flag /\ c.global.enabled \in Flag
      /\ c.repo.sha \in Int /\ c.org.sha \in Int /\ c.global.sha \in Int
      /\ c.repo.both \in Int /\ c.org.both \in Int /\ c.global.both \in Int
  BY <1>1 DEF RetesterPolicyType
<1>3. c.org.enabled # "unset"
  BY <1>2 DEF GetRetesterPolicy, IsEnabled, NoPolicy, Inherits
<1>5. CASE c.repo.enabled = "unset"
  BY <1>2, <1>3, <1>5 DEF GetRetesterPolicy, Promised, IsEnabled, NoPolicy, Inherits, Or, Flag
<1>6. CASE c.repo.enabled = "yes"
  BY <1>2, <1>3, <1>6 DEF GetRetesterPolicy, Promised, IsEnabled, NoPolicy, Inherits, Or, Flag
<1>7. CASE c.repo.enabled = "no"
  BY <1>2, <1>3, <1>7 DEF GetRetesterPolicy, Promised, IsEnabled, NoPolicy, Inherits, Or, Flag
<1> QED BY <1>2, <1>5, <1>6, <1>7 DEF Flag

LEMMA PolicyFacts ==
  ASSUME NEW c \in Config
  PROVE  /\ GetRetesterPolicy(c) \in RetesterPolicyType
         /\ Promised(c) \in RetesterPolicyType
         /\ Limits(c).sha \in Nat /\ Limits(c).both \in Nat
         /\ IsEnabled(GetRetesterPolicy(c)) /\ Valid(GetRetesterPolicy(c))
              => Limits(c) = GetRetesterPolicy(c)
<1>1. GetRetesterPolicy(c) \in RetesterPolicyType
  BY DEF Config, RetesterPolicyType, Flag, NoPolicy, Inherits, Or, GetRetesterPolicy
<1>2. Promised(c) \in RetesterPolicyType
  BY DEF Config, RetesterPolicyType, Flag, NoPolicy, Or, Promised
<1>3. Promised(c).enabled = "yes" \/ Promised(c) = NoPolicy
  BY DEF Promised
<1>4. Limits(c).sha \in Nat /\ Limits(c).both \in Nat
  BY <1>2, <1>3 DEF Limits, Valid, IsEnabled, NoPolicy, RetesterPolicyType
<1>5. IsEnabled(GetRetesterPolicy(c)) /\ Valid(GetRetesterPolicy(c))
        => Limits(c) = GetRetesterPolicy(c)
  BY PolicyKept DEF Limits
<1> QED BY <1>1, <1>2, <1>4, <1>5

\* What is counted: a retest on both sides, a hold resets them.
CountedIs(r, v) ==
  /\ Counted(r, v) \in RecordType
  /\ Counted(r, v).head = r.head /\ Counted(r, v).base = r.base
  /\ Counted(r, v).known = r.known
  /\ v = "hold" => Counted(r, v).sha = 0 /\ Counted(r, v).both = 0
  /\ v = "retest" => Counted(r, v).sha = r.sha + 1 /\ Counted(r, v).both = r.both + 1
  /\ v \notin {"hold", "retest"} => Counted(r, v) = r

LEMMA CountedFacts ==
  ASSUME NEW r \in RecordType, NEW v
  PROVE  CountedIs(r, v)
<1>1. CASE v = "hold"
  <2> DEFINE y == [r EXCEPT !.sha = 0, !.both = 0]
  <2>1. Counted(r, v) = y
    BY <1>1 DEF Counted
  <2>2. y \in RecordType
    BY DEF RecordType
  <2>3. y.sha = 0 /\ y.both = 0
    BY DEF RecordType
  <2>4. y.head = r.head /\ y.base = r.base /\ y.known = r.known
    BY DEF RecordType
  <2> HIDE DEF y
  <2> QED BY <1>1, <2>1, <2>2, <2>3, <2>4 DEF CountedIs
<1>2. CASE v = "retest"
  <2> DEFINE y == [r EXCEPT !.sha = @ + 1, !.both = @ + 1]
  <2>1. Counted(r, v) = y
    BY <1>2 DEF Counted
  <2>2. y \in RecordType
    <3>1. r.sha + 1 \in Nat /\ r.both + 1 \in Nat
      BY DEF RecordType
    <3> QED BY <3>1 DEF RecordType
  <2>3. y.sha = r.sha + 1 /\ y.both = r.both + 1
    BY DEF RecordType
  <2>4. y.head = r.head /\ y.base = r.base /\ y.known = r.known
    BY DEF RecordType
  <2> HIDE DEF y
  <2> QED BY <1>2, <2>1, <2>2, <2>3, <2>4 DEF CountedIs
<1>3. CASE v \notin {"hold", "retest"}
  BY <1>3 DEF Counted, CountedIs
<1> QED BY <1>1, <1>2, <1>3

\* Records of the cache stay records, with fewer retests against a base than in all.
LEMMA RecordFacts ==
  ASSUME NEW r \in RecordType, r.both <= r.sha, NEW h \in 0..MaxHead, NEW b \in Nat, NEW v
  PROVE  /\ Current(r, h, b) \in RecordType
         /\ Current(r, h, b).both <= Current(r, h, b).sha
         /\ Counted(Current(r, h, b), v) \in RecordType
         /\ Counted(Current(r, h, b), v).both <= Counted(Current(r, h, b), v).sha
         /\ Counted(Current(r, h, b), v).head = h
         /\ Counted(Current(r, h, b), v).base = b
         /\ Counted(Current(r, h, b), v).known
<1> DEFINE x == Current(r, h, b)
<1>1. x \in RecordType /\ x.both <= x.sha
  BY RetesterAssumption DEF Current, RecordType
<1>2. x.head = h /\ x.base = b /\ x.known
  BY DEF Current
<1>3. x.sha \in Nat /\ x.both \in Nat
  BY <1>1 DEF RecordType
<1> HIDE DEF x
<1>4. CountedIs(x, v)
  BY <1>1, CountedFacts
<1>5. x.both <= x.sha => Counted(x, v).both <= Counted(x, v).sha
  BY <1>3, <1>4 DEF CountedIs
<1> QED BY <1>1, <1>2, <1>4, <1>5 DEF CountedIs, x
-----------------------------------------------------------------------------
(* Types.  What is saved was cached, and so has its counts in order, too.    *)

SavedInOrder == \A p \in PR : stored[p].both <= stored[p].sha

TypeInv == TypeOK /\ SavedInOrder

PRType == [PR -> [head : 1..MaxHead, held : BOOLEAN,
                  status : {"pending", "success", "optional", "required"}]]

RunType ==
  [at : {"idle", "examine", "consider", "comment"}, todo : SUBSET PR, found : SUBSET PR,
   heads : [PR -> 0..MaxHead], p : PR, cmd : {"none", "hold", "retest"}]

LEMMA IdleFacts ==
  /\ Idle \in RunType /\ Idle.cmd = "none" /\ Idle.at = "idle"
  /\ Idle.todo = {} /\ Idle.found = {} /\ Idle.heads = [p \in PR |-> 0]
BY RetesterAssumption DEF Idle, RunType

LEMMA ConsideredFacts ==
  ASSUME run \in RunType, NEW p \in PR
  PROVE  /\ Considered(p) \in RunType
         /\ Considered(p).at = "consider" /\ Considered(p).cmd = "none"
         /\ Considered(p).found = run.found \ {p} /\ Considered(p).todo = run.todo
         /\ Considered(p).heads = [run.heads EXCEPT ![p] = 0]
BY RetesterAssumption, IdleFacts DEF Considered, RunType

LEMMA TypeInit == Init => TypeInv
<1> SUFFICES ASSUME Init PROVE TypeInv
  OBVIOUS
<1>1. NoRecord \in RecordType /\ None \in CountType
  BY RetesterAssumption DEF NoRecord, RecordType, None, CountType
<1>2. NoRecord.both <= NoRecord.sha
  BY DEF NoRecord
<1>3. pr \in PRType
  BY RetesterAssumption DEF Init, PRType
<1>4. cache \in [PR -> RecordType] /\ stored \in [PR -> RecordType]
  BY <1>1 DEF Init
<1>5. asked \in [PR -> CountType] /\ lost \in [PR -> CountType]
  BY <1>1 DEF Init
<1>6. tried \in [PR -> [1..MaxHead -> Nat]] /\ lowered \in [PR -> BOOLEAN]
  BY DEF Init
<1>7. \A p \in PR : cache[p].both <= cache[p].sha /\ stored[p].both <= stored[p].sha
  BY <1>2 DEF Init
<1> QED BY <1>3, <1>4, <1>5, <1>6, <1>7, IdleFacts DEF Init, TypeInv, TypeOK, SavedInOrder, PRType, RunType

\* The types without the variable used, of which nothing depends on its type.
LEMMA TypeFacts ==
  ASSUME TypeInv
  PROVE  /\ pr \in PRType /\ base \in Nat /\ config \in Configs /\ config \in Config
         /\ cache \in [PR -> RecordType] /\ stored \in [PR -> RecordType]
         /\ \A p \in PR : cache[p].both <= cache[p].sha /\ stored[p].both <= stored[p].sha
         /\ run \in RunType
         /\ (run.at = "comment" <=> run.cmd # "none")
         /\ (run.at = "comment" => run.p \in run.found /\ cache[run.p].known)
         /\ asked \in [PR -> CountType] /\ lost \in [PR -> CountType]
         /\ tried \in [PR -> [1..MaxHead -> Nat]] /\ lowered \in [PR -> BOOLEAN]
BY RetesterAssumption DEF TypeInv, TypeOK, SavedInOrder, PRType, RunType

\* A run that is none, or not about to comment, is in order.
LEMMA RunTyped ==
  ASSUME TypeInv, UNCHANGED <<github, cache, stored, config, history>>,
         run' \in RunType, run'.at # "comment", run'.cmd = "none"
  PROVE  TypeInv'
BY DEF TypeInv, TypeOK, SavedInOrder, RunType, github, history

\* What a restart begins with: what was saved, or nothing in its place.
LEMMA LoadedFacts ==
  ASSUME TypeInv, Restart
  PROVE  \E loaded \in [PR -> RecordType] :
           Begins(loaded) /\ \A p \in PR : loaded[p] = stored[p] \/ loaded[p] = NoRecord
<1>1. NoRecord \in RecordType /\ stored \in [PR -> RecordType]
  BY RetesterAssumption, TypeFacts DEF NoRecord, RecordType
<1>2. ASSUME NEW p \in PR, Begins([stored EXCEPT ![p] = NoRecord])
      PROVE  \E loaded \in [PR -> RecordType] :
               Begins(loaded) /\ \A q \in PR : loaded[q] = stored[q] \/ loaded[q] = NoRecord
  <2>1. /\ [stored EXCEPT ![p] = NoRecord] \in [PR -> RecordType]
        /\ \A q \in PR : \/ [stored EXCEPT ![p] = NoRecord][q] = stored[q]
                        \/ [stored EXCEPT ![p] = NoRecord][q] = NoRecord
    BY <1>1
  <2> QED BY <1>2, <2>1
<1>3. [p \in PR |-> NoRecord] \in [PR -> RecordType]
  BY <1>1
<1> QED BY <1>1, <1>2, <1>3 DEF Restart

LEMMA TypeNext == TypeInv /\ [Next]_vars => TypeInv'
<1> SUFFICES ASSUME TypeInv, [Next]_vars PROVE TypeInv'
  OBVIOUS
<1> USE TypeFacts
<1>1. CASE Query
  <2>1. PICK found \in SUBSET Candidates :
          run' = IF found = {} /\ Candidates # {} THEN Idle
                 ELSE [Idle EXCEPT !.at = "examine", !.todo = EnabledPRs(found),
                                   !.heads = [p \in PR |-> IF p \in EnabledPRs(found)
                                                           THEN pr[p].head ELSE 0]]
    BY <1>1 DEF Query
  <2>2. EnabledPRs(found) \subseteq PR
    BY DEF EnabledPRs, Candidates
  <2>3. [p \in PR |-> IF p \in EnabledPRs(found) THEN pr[p].head ELSE 0] \in [PR -> 0..MaxHead]
    BY RetesterAssumption DEF PRType
  <2>4. run' \in RunType /\ run'.at # "comment" /\ run'.cmd = "none"
    BY <2>1, <2>2, <2>3, IdleFacts DEF RunType
  <2> QED BY <1>1, <2>4, RunTyped DEF Query
<1>2. CASE Examined
  <2>1. run' \in RunType /\ run'.at # "comment" /\ run'.cmd = "none"
    BY <1>2 DEF Examined, RunType
  <2> QED BY <1>2, <2>1, RunTyped DEF Examined
<1>3. ASSUME NEW p \in PR, Examine(p) PROVE TypeInv'
  <2>1. run' \in RunType /\ run'.at # "comment" /\ run'.cmd = "none"
    <3>1. PICK status \in Contexts(p) :
            run' = IF Fails(status)
                   THEN [run EXCEPT !.todo = @ \ {p}, !.found = @ \cup {p}]
                   ELSE [run EXCEPT !.todo = @ \ {p}, !.heads[p] = 0]
      BY <1>3 DEF Examine
    <3>2. [run.heads EXCEPT ![p] = 0] \in [PR -> 0..MaxHead]
      BY RetesterAssumption DEF RunType
    <3>3. run.at = "examine" /\ run.cmd = "none"
      BY <1>3 DEF Examine
    <3>4. CASE Fails(status)
      BY <3>1, <3>3, <3>4 DEF RunType
    <3>5. CASE ~Fails(status)
      <4>1. run' = [run EXCEPT !.todo = @ \ {p}, !.heads = [run.heads EXCEPT ![p] = 0]]
        BY <3>1, <3>5
      <4> QED BY <3>2, <3>3, <4>1 DEF RunType
    <3> QED BY <3>4, <3>5
  <2> QED BY <1>3, <2>1, RunTyped DEF Examine
<1>4. CASE ExamineFails \/ SaveFails
  BY <1>4, IdleFacts, RunTyped DEF ExamineFails, SaveFails
<1>5. ASSUME NEW p \in PR, Skip(p) PROVE TypeInv'
  BY <1>5, ConsideredFacts, RunTyped DEF Skip
<1>6. ASSUME NEW p \in PR, Check(p) PROVE TypeInv'
  <2> DEFINE r == Current(cache[p], run.heads[p], base)
             v == Verdict(r, Policy)
  <2>1. /\ run.heads[p] \in 0..MaxHead /\ cache[p] \in RecordType
        /\ cache[p].both <= cache[p].sha /\ base \in Nat
    BY DEF RunType
  <2>2. /\ Counted(r, v) \in RecordType /\ Counted(r, v).both <= Counted(r, v).sha
        /\ Counted(r, v).known
    BY <2>1, RecordFacts
  <2>3. cache' = [cache EXCEPT ![p] = Counted(r, v)]
    BY <1>6 DEF Check
  <2>4. /\ run.at = "consider" /\ p \in run.found
        /\ run' = IF v = "pause" THEN Considered(p)
                  ELSE [run EXCEPT !.at = "comment", !.p = p, !.cmd = v]
        /\ tried' = IF v = "retest" THEN [tried EXCEPT ![p][run.heads[p]] = @ + 1] ELSE tried
        /\ UNCHANGED <<pr, base, stored, config, asked, lost, lowered>>
    BY <1>6 DEF Check, github
  <2>5. v \in {"hold", "pause", "retest"}
    BY DEF Verdict
  <2> HIDE DEF r, v
  <2>6. tried' \in [PR -> [1..MaxHead -> Nat]]
    <3>1. [tried[p] EXCEPT ![run.heads[p]] = @ + 1] \in [1..MaxHead -> Nat]
      <4>1. tried[p] \in [1..MaxHead -> Nat]
        OBVIOUS
      <4>2. \A h \in 1..MaxHead : tried[p][h] + 1 \in Nat
        BY <4>1
      <4> QED BY <4>1, <4>2
    <3> QED BY <2>4, <3>1
  <2>7. /\ cache' \in [PR -> RecordType] /\ cache'[p].known
        /\ \A q \in PR : cache'[q].both <= cache'[q].sha
    BY <2>2, <2>3
  <2>8. /\ run' \in RunType /\ (run'.at = "comment" <=> run'.cmd # "none")
        /\ run'.at = "comment" => run'.p \in run'.found /\ run'.p = p
    <3>1. CASE v = "pause"
      BY <3>1, <2>4, ConsideredFacts
    <3>2. CASE v # "pause"
      BY <3>2, <2>4, <2>5 DEF RunType
    <3> QED BY <3>1, <3>2
  <2> QED BY <2>4, <2>6, <2>7, <2>8 DEF TypeInv, TypeOK, SavedInOrder, PRType, RunType
<1>7. CASE Comment
  <2>1. run.p \in PR /\ Considered(run.p) \in RunType
    BY ConsideredFacts DEF RunType
  <2>2. run' \in RunType /\ run'.at = "consider" /\ run'.cmd = "none"
    BY <1>7, <2>1, ConsideredFacts DEF Comment
  <2>3. pr' \in PRType
    <3>1. /\ [pr[run.p] EXCEPT !.status = IF Fails(@) THEN "pending" ELSE @]
                \in [head : 1..MaxHead, held : BOOLEAN,
                    status : {"pending", "success", "optional", "required"}]
          /\ [pr[run.p] EXCEPT !.held = TRUE]
                \in [head : 1..MaxHead, held : BOOLEAN,
                    status : {"pending", "success", "optional", "required"}]
      BY <2>1 DEF PRType
    <3> QED BY <1>7, <2>1, <3>1 DEF Comment, PRType
  <2>4. None \in CountType
    BY DEF None, CountType
  <2>5. asked' \in [PR -> CountType]
    <3>1. [sha |-> asked[run.p].sha + 1, both |-> asked[run.p].both + 1] \in CountType
      BY <2>1 DEF CountType
    <3> QED BY <1>7, <2>1, <2>4, <3>1 DEF Comment
  <2>6. lost' \in [PR -> CountType]
    <3>1. \A m, n \in {0, 1} : [sha |-> lost[run.p].sha + m, both |-> lost[run.p].both + n] \in CountType
      BY <2>1 DEF CountType
    <3> QED BY <1>7, <2>1, <2>4, <3>1 DEF Comment
  <2>7. UNCHANGED <<base, cache, stored, config, tried, lowered>>
    BY <1>7 DEF Comment
  <2> QED BY <2>2, <2>3, <2>5, <2>6, <2>7 DEF TypeInv, TypeOK, SavedInOrder, PRType, RunType
<1>8. CASE CommentFails
  <2>1. run.p \in PR /\ asked[run.p] \in CountType
    BY DEF RunType
  <2>2. run' \in RunType /\ run'.at = "consider" /\ run'.cmd = "none"
    BY <1>8, <2>1, ConsideredFacts DEF CommentFails
  <2>3. lost' \in [PR -> CountType]
    BY <1>8, <2>1 DEF CommentFails
  <2>4. UNCHANGED <<pr, base, cache, stored, config, asked, tried, lowered>>
    BY <1>8 DEF CommentFails, github
  <2> QED BY <2>2, <2>3, <2>4 DEF TypeInv, TypeOK, SavedInOrder, PRType, RunType
<1>9. CASE Save
  BY <1>9, IdleFacts DEF Save, TypeInv, TypeOK, SavedInOrder, PRType, RunType, github, history
<1>10. ASSUME NEW loaded \in [PR -> RecordType], Begins(loaded),
              \A p \in PR : loaded[p].both <= loaded[p].sha
       PROVE  TypeInv'
  <2>1. \A p \in PR : /\ Counts(loaded[p], p).sha \in Nat /\ Counts(loaded[p], p).both \in Nat
                      /\ asked[p].sha \in Nat /\ asked[p].both \in Nat
    <3> TAKE p \in PR
    <3>1. loaded[p] \in RecordType /\ pr[p].head \in 0..MaxHead
      BY RetesterAssumption DEF PRType
    <3>2. Current(loaded[p], pr[p].head, base) \in RecordType
      BY <3>1, <1>10, RecordFacts
    <3> QED BY <3>2 DEF Counts, RecordType, CountType
  <2>2. \A p \in PR : Beyond(asked[p], Counts(loaded[p], p)) \in CountType
    BY <2>1 DEF Beyond, CountType
  <2>3. lost' \in [PR -> CountType] /\ lowered' \in [PR -> BOOLEAN]
    BY <1>10, <2>2 DEF Begins
  <2>4. /\ UNCHANGED <<pr, base, stored, asked, tried>> /\ config' \in Configs
        /\ run' = Idle /\ cache' = loaded
    BY <1>10 DEF Begins, github
  <2> QED BY <1>10, <2>3, <2>4, IdleFacts DEF TypeInv, TypeOK, SavedInOrder, PRType, RunType
<1>11. CASE Restart
  <2>1. PICK loaded \in [PR -> RecordType] :
          Begins(loaded) /\ \A p \in PR : loaded[p] = stored[p] \/ loaded[p] = NoRecord
    BY <1>11, LoadedFacts
  <2>2. \A p \in PR : loaded[p].both <= loaded[p].sha
    BY <2>1 DEF NoRecord
  <2> QED BY <1>10, <2>1, <2>2
<1>12. ASSUME NEW p \in PR, JobsEnd(p) \/ Push(p) \/ Unhold(p) PROVE TypeInv'
  <2>1. pr' \in PRType
    <3> DEFINE T == [head : 1..MaxHead, held : BOOLEAN,
                     status : {"pending", "success", "optional", "required"}]
    <3>1. \A status \in {"success", "optional", "required"} : [pr[p] EXCEPT !.status = status] \in T
      BY DEF PRType
    <3>2. pr[p].head < MaxHead => [pr[p] EXCEPT !.head = @ + 1, !.status = "pending"] \in T
      <4>1. pr[p].head < MaxHead => pr[p].head + 1 \in 1..MaxHead
        BY RetesterAssumption DEF PRType
      <4> QED BY <4>1 DEF PRType
    <3>3. [pr[p] EXCEPT !.held = FALSE] \in T
      BY DEF PRType
    <3>4. CASE JobsEnd(p)
      BY <3>1, <3>4 DEF JobsEnd, PRType
    <3>5. CASE Push(p)
      BY <3>2, <3>5 DEF Push, PRType
    <3>6. CASE Unhold(p)
      BY <3>3, <3>6 DEF Unhold, PRType
    <3> QED BY <1>12, <3>4, <3>5, <3>6
  <2>2. None \in CountType
    BY DEF None, CountType
  <2>3. /\ asked' \in [PR -> CountType] /\ lost' \in [PR -> CountType]
        /\ lowered' \in [PR -> BOOLEAN]
    <3>1. CASE JobsEnd(p) \/ Unhold(p)
      BY <3>1 DEF JobsEnd, Unhold, history
    <3>2. CASE Push(p)
      BY <2>2, <3>2 DEF Push
    <3> QED BY <1>12, <3>1, <3>2
  <2>4. UNCHANGED <<base, cache, stored, config, run, tried>>
    BY <1>12 DEF JobsEnd, Push, Unhold, history
  <2> QED BY <2>1, <2>3, <2>4 DEF TypeInv, TypeOK, SavedInOrder, PRType, RunType
<1>13. CASE BaseMoves
  <2>1. /\ [p \in PR |-> [asked[p] EXCEPT !.both = 0]] \in [PR -> CountType]
        /\ [p \in PR |-> [lost[p] EXCEPT !.both = 0]] \in [PR -> CountType]
    BY DEF CountType
  <2>2. base' \in Nat /\ asked' \in [PR -> CountType] /\ lost' \in [PR -> CountType]
    BY <1>13, <2>1 DEF BaseMoves
  <2>3. UNCHANGED <<pr, cache, stored, config, run, tried, lowered>>
    BY <1>13 DEF BaseMoves
  <2> QED BY <2>2, <2>3 DEF TypeInv, TypeOK, SavedInOrder, PRType, RunType
<1>14. CASE UNCHANGED vars
  BY <1>14 DEF TypeInv, TypeOK, SavedInOrder, vars, github, history
<1> QED
  BY <1>1, <1>2, <1>3, <1>4, <1>5, <1>6, <1>7, <1>8, <1>9, <1>11, <1>12, <1>13, <1>14
     DEF Next, Step, Repository

\* The state keeps its types, and what is about to be said is about a revision that has
\* a record, in every state of every instance.
THEOREM TypeCorrect == Spec => []TypeOK
<1>1. Spec => []TypeInv
  BY TypeInit, TypeNext, PTL DEF Spec
<1>2. TypeInv => TypeOK
  BY DEF TypeInv
<1> QED BY <1>1, <1>2, PTL
-----------------------------------------------------------------------------
(* What was seen of GitHub is not ahead of it.                               *)

\* Records and runs are of heads and bases that were; a run is of pull requests of an
\* enabled repository, whose records are not ahead of it.
SeenOf(p) ==
  /\ cache[p].head <= pr[p].head /\ stored[p].head <= pr[p].head
  /\ cache[p].base <= base /\ stored[p].base <= base
  /\ run.heads[p] <= pr[p].head
  /\ p \in run.todo \cup run.found => run.heads[p] # 0 /\ cache[p].head <= run.heads[p]

Seen ==
  /\ \A p \in PR : SeenOf(p)
  /\ run.todo \cap run.found = {}
  /\ run.at # "examine" => run.todo = {}
  /\ run.todo \cup run.found # {} => IsEnabled(Policy)
  /\ run.cmd # "none" => Valid(Policy) /\ cache[run.p].head = run.heads[run.p]

LEMMA SeenInit == Init => Seen
BY IdleFacts DEF Init, Seen, SeenOf, NoRecord

LEMMA SeenNext == TypeInv /\ Seen /\ [Next]_vars => Seen'
<1> SUFFICES ASSUME TypeInv, Seen, [Next]_vars PROVE Seen'
  OBVIOUS
<1>t. /\ pr \in PRType /\ base \in Nat
      /\ cache \in [PR -> RecordType] /\ stored \in [PR -> RecordType] /\ run \in RunType
      /\ (run.at = "comment" <=> run.cmd # "none")
      /\ (run.at = "comment" => run.p \in run.found)
  BY TypeFacts
<1> USE <1>t
<1>0. \A p \in PR : /\ pr[p].head \in 1..MaxHead /\ cache[p].head \in 0..MaxHead
                    /\ stored[p].head \in 0..MaxHead /\ run.heads[p] \in 0..MaxHead
                    /\ cache[p].base \in Nat /\ stored[p].base \in Nat
  BY DEF PRType, RecordType, RunType
<1>1. CASE Query
  <2>1. PICK found \in SUBSET Candidates :
          run' = IF found = {} /\ Candidates # {} THEN Idle
                 ELSE [Idle EXCEPT !.at = "examine", !.todo = EnabledPRs(found),
                                   !.heads = [p \in PR |-> IF p \in EnabledPRs(found)
                                                           THEN pr[p].head ELSE 0]]
    BY <1>1 DEF Query
  <2>2. UNCHANGED <<pr, base, cache, stored, config>> /\ Policy' = Policy
    BY <1>1 DEF Query, github, Policy
  <2>3. CASE run' = Idle
    BY <1>0, <2>2, <2>3, IdleFacts DEF Seen, SeenOf, RunType
  <2>4. CASE run' # Idle
    <3>1. /\ run'.at = "examine" /\ run'.todo = EnabledPRs(found) /\ run'.found = {}
          /\ run'.cmd = "none"
          /\ run'.heads = [p \in PR |-> IF p \in EnabledPRs(found) THEN pr[p].head ELSE 0]
      BY <2>1, <2>4, IdleFacts DEF RunType
    <3>2. EnabledPRs(found) # {} => IsEnabled(Policy)
      BY DEF EnabledPRs
    <3>3. ASSUME NEW p \in PR PROVE SeenOf(p)'
      BY <1>0, <2>2, <3>1 DEF Seen, SeenOf
    <3> QED BY <2>2, <3>1, <3>2, <3>3 DEF Seen
  <2> QED BY <2>3, <2>4
<1>2. CASE Examined
  <2>1. /\ run'.at = "consider" /\ run'.todo = run.todo /\ run'.found = run.found
        /\ run'.heads = run.heads /\ run'.cmd = run.cmd /\ run'.p = run.p
        /\ run.todo = {} /\ run.cmd = "none"
    BY <1>2 DEF Examined, RunType
  <2>2. UNCHANGED <<pr, base, cache, stored, config>> /\ Policy' = Policy
    BY <1>2 DEF Examined, github, Policy
  <2> QED BY <2>1, <2>2 DEF Seen, SeenOf
<1>3. ASSUME NEW p \in PR, Examine(p) PROVE Seen'
  <2>1. PICK status \in Contexts(p) :
          run' = IF Fails(status)
                 THEN [run EXCEPT !.todo = @ \ {p}, !.found = @ \cup {p}]
                 ELSE [run EXCEPT !.todo = @ \ {p}, !.heads[p] = 0]
    BY <1>3 DEF Examine
  <2>2. run.at = "examine" /\ p \in run.todo /\ run.cmd = "none"
    BY <1>3 DEF Examine
  <2>3. UNCHANGED <<pr, base, cache, stored, config>> /\ Policy' = Policy
    BY <1>3 DEF Examine, github, Policy
  <2>4. CASE Fails(status)
    <3>1. /\ run'.at = "examine" /\ run'.todo = run.todo \ {p} /\ run'.found = run.found \cup {p}
          /\ run'.heads = run.heads /\ run'.cmd = "none"
      BY <2>1, <2>2, <2>4 DEF RunType
    <3> QED BY <2>2, <2>3, <3>1 DEF Seen, SeenOf
  <2>5. CASE ~Fails(status)
    <3>1. /\ run'.at = "examine" /\ run'.todo = run.todo \ {p} /\ run'.found = run.found
          /\ run'.heads = [run.heads EXCEPT ![p] = 0] /\ run'.cmd = "none"
      BY <2>1, <2>2, <2>5 DEF RunType
    <3>2. ASSUME NEW q \in PR PROVE SeenOf(q)'
      <4>1. run'.heads[q] = IF q = p THEN 0 ELSE run.heads[q]
        BY <3>1 DEF RunType
      <4> QED BY <1>0, <2>2, <2>3, <3>1, <4>1 DEF Seen, SeenOf
    <3> QED BY <2>2, <2>3, <3>1, <3>2 DEF Seen
  <2> QED BY <2>4, <2>5
<1>4. ASSUME run' = Idle, UNCHANGED <<pr, base, config>>,
             \A p \in PR : /\ cache'[p].head <= pr[p].head /\ stored'[p].head <= pr[p].head
                           /\ cache'[p].base <= base /\ stored'[p].base <= base
      PROVE  Seen'
  BY <1>0, <1>4, IdleFacts DEF Seen, SeenOf
<1>5. CASE ExamineFails \/ SaveFails \/ Save
  BY <1>4, <1>5 DEF ExamineFails, SaveFails, Save, github, Seen, SeenOf
<1>6. ASSUME NEW p \in PR, run' = Considered(p), run.todo = {},
             UNCHANGED <<stored, config, base>>,
             \A q \in PR : pr'[q].head = pr[q].head,
             \A q \in PR : q = p \/ cache'[q] = cache[q],
             cache'[p].head <= pr[p].head, cache'[p].base <= base
      PROVE  Seen'
  <2>1. /\ run'.at = "consider" /\ run'.cmd = "none" /\ run'.found = run.found \ {p}
        /\ run'.todo = {} /\ run'.heads = [run.heads EXCEPT ![p] = 0]
    BY <1>6, ConsideredFacts
  <2>2. ASSUME NEW q \in PR PROVE SeenOf(q)'
    <3>1. run'.heads[q] = IF q = p THEN 0 ELSE run.heads[q]
      BY <2>1 DEF RunType
    <3>2. q \in run'.todo \cup run'.found => q # p /\ q \in run.todo \cup run.found
      BY <2>1
    <3>3. SeenOf(q)
      BY DEF Seen
    <3> QED BY <1>0, <1>6, <3>1, <3>2, <3>3 DEF SeenOf
  <2>3. Policy' = Policy
    BY <1>6 DEF Policy
  <2> QED BY <2>1, <2>2, <2>3 DEF Seen
<1>7. ASSUME NEW p \in PR, Skip(p) PROVE Seen'
  BY <1>6, <1>7 DEF Skip, github, Seen, SeenOf
<1>8. ASSUME NEW p \in PR, Check(p) PROVE Seen'
  <2> DEFINE r == Current(cache[p], run.heads[p], base)
             v == Verdict(r, Policy)
  <2>1. /\ run.heads[p] \in 0..MaxHead /\ cache[p] \in RecordType
        /\ cache[p].both <= cache[p].sha /\ base \in Nat
    BY TypeFacts DEF RunType
  <2>2. Counted(r, v).head = run.heads[p] /\ Counted(r, v).base = base
    BY <2>1, RecordFacts
  <2>3. /\ run.at = "consider" /\ p \in run.found /\ Valid(Policy) /\ run.todo = {}
        /\ cache' = [cache EXCEPT ![p] = Counted(r, v)]
        /\ run' = IF v = "pause" THEN Considered(p)
                  ELSE [run EXCEPT !.at = "comment", !.p = p, !.cmd = v]
        /\ UNCHANGED <<pr, base, stored, config>>
    BY <1>8 DEF Check, github, Seen
  <2> HIDE DEF r, v
  <2>4. Policy' = Policy
    BY <2>3 DEF Policy
  <2>5. run.todo = {} /\ run.found \subseteq PR
    BY <2>3 DEF RunType
  <2>6. \A q \in PR : q # p => cache'[q] = cache[q]
    BY <2>3
  <2>7. cache'[p].head = run.heads[p] /\ cache'[p].base = base
    BY <2>2, <2>3
  <2>8. run.heads[p] <= pr[p].head /\ run.heads[p] # 0
    BY <2>3 DEF Seen, SeenOf
  <2>9. CASE v = "pause"
    BY <1>6, <2>1, <2>3, <2>5, <2>6, <2>7, <2>8, <2>9
  <2>10. CASE v # "pause"
    <3>1. /\ run'.at = "comment" /\ run'.p = p /\ run'.heads = run.heads
          /\ run'.todo = run.todo /\ run'.found = run.found
      BY <2>3, <2>10 DEF RunType
    <3>2. ASSUME NEW q \in PR PROVE SeenOf(q)'
      <4>1. UNCHANGED <<pr, base, stored>> /\ SeenOf(q)
        BY <2>3 DEF Seen
      <4>2. CASE q = p
        BY <2>1, <2>7, <2>8, <3>1, <4>1, <4>2 DEF SeenOf
      <4>3. CASE q # p
        BY <2>6, <3>1, <4>1, <4>3 DEF SeenOf
      <4> QED BY <4>2, <4>3
    <3> QED BY <2>3, <2>4, <2>5, <2>7, <3>1, <3>2 DEF Seen
  <2> QED BY <2>9, <2>10
<1>9. CASE Comment \/ CommentFails
  <2>1. /\ run.p \in PR /\ run' = Considered(run.p) /\ run.todo = {}
        /\ UNCHANGED <<cache, stored, config, base>>
    BY <1>9 DEF Comment, CommentFails, RunType, Seen, github
  <2>2. \A q \in PR : pr'[q].head = pr[q].head
    <3>1. CASE CommentFails
      BY <3>1 DEF CommentFails, github
    <3>2. CASE Comment
      <4>1. \/ pr' = [pr EXCEPT ![run.p].status = IF Fails(@) THEN "pending" ELSE @]
            \/ pr' = [pr EXCEPT ![run.p].held = TRUE]
        BY <3>2 DEF Comment
      <4>2. \A status : [pr[run.p] EXCEPT !.status = status].head = pr[run.p].head
        BY <2>1 DEF PRType
      <4>3. [pr[run.p] EXCEPT !.held = TRUE].head = pr[run.p].head
        BY <2>1 DEF PRType
      <4> QED BY <2>1, <4>1, <4>2, <4>3 DEF PRType
    <3> QED BY <1>9, <3>1, <3>2
  <2>3. cache[run.p].head <= pr[run.p].head /\ cache[run.p].base <= base
    BY <2>1 DEF Seen, SeenOf
  <2> QED BY <1>6, <2>1, <2>2, <2>3
<1>10. ASSUME NEW loaded \in [PR -> RecordType], Begins(loaded),
              \A p \in PR : loaded[p] = stored[p] \/ loaded[p] = NoRecord
       PROVE  Seen'
  <2>1. /\ cache' = loaded /\ run' = Idle /\ UNCHANGED <<pr, base, stored>>
    BY <1>10 DEF Begins, github
  <2>2. ASSUME NEW p \in PR PROVE SeenOf(p)'
    <3>1. run'.heads[p] = 0 /\ run'.todo = {} /\ run'.found = {}
      <4>1. Idle.heads[p] = 0
        BY IdleFacts
      <4> QED BY <2>1, <4>1, IdleFacts
    <3>2. cache'[p].head <= pr[p].head /\ cache'[p].base <= base
      BY <1>0, <1>10, <2>1 DEF Seen, SeenOf, NoRecord
    <3> QED BY <1>0, <2>1, <3>1, <3>2 DEF Seen, SeenOf
  <2> QED BY <2>1, <2>2, IdleFacts DEF Seen
<1>11. CASE Restart
  <2>1. PICK loaded \in [PR -> RecordType] :
          Begins(loaded) /\ \A p \in PR : loaded[p] = stored[p] \/ loaded[p] = NoRecord
    BY <1>11, LoadedFacts
  <2> QED BY <1>10, <2>1
<1>12. ASSUME NEW p \in PR, JobsEnd(p) \/ Push(p) \/ Unhold(p) PROVE Seen'
  <2>1. \A q \in PR : pr'[q].head \in Nat /\ pr[q].head <= pr'[q].head
    <3>1. CASE JobsEnd(p)
      BY <1>0, <3>1 DEF JobsEnd, PRType
    <3>2. CASE Push(p)
      <4>1. pr' = [pr EXCEPT ![p] = [pr[p] EXCEPT !.head = @ + 1, !.status = "pending"]]
        BY <3>2 DEF Push
      <4>2. [pr[p] EXCEPT !.head = @ + 1, !.status = "pending"].head = pr[p].head + 1
        BY DEF PRType
      <4>3. \A q \in PR : pr'[q].head = IF q = p THEN pr[p].head + 1 ELSE pr[q].head
        BY <4>1, <4>2 DEF PRType
      <4> QED BY <1>0, <4>3
    <3>3. CASE Unhold(p)
      BY <1>0, <3>3 DEF Unhold, PRType
    <3> QED BY <1>12, <3>1, <3>2, <3>3
  <2>2. UNCHANGED <<base, cache, stored, config, run>> /\ Policy' = Policy
    BY <1>12 DEF JobsEnd, Push, Unhold, Policy
  <2> QED BY <1>0, <2>1, <2>2 DEF Seen, SeenOf
<1>13. CASE BaseMoves
  <2>1. base' = base + 1 /\ UNCHANGED <<pr, cache, stored, config, run>> /\ Policy' = Policy
    BY <1>13 DEF BaseMoves, Policy
  <2> QED BY <1>0, <2>1 DEF Seen, SeenOf
<1>14. CASE UNCHANGED vars
  BY <1>14 DEF Seen, SeenOf, vars, github, Policy
<1> QED
  BY <1>1, <1>2, <1>3, <1>5, <1>7, <1>8, <1>9, <1>11, <1>12, <1>13, <1>14
     DEF Next, Step, Repository
-----------------------------------------------------------------------------
(* A hold is earned.                                                         *)

\* No record has more retests than its revision was tried, and so a hold that is about
\* to be said was decided by a count that is right.
EarnedBy(r, p) == r.head # 0 => r.sha <= tried[p][r.head]

Earned ==
  /\ \A p \in PR : EarnedBy(cache[p], p) /\ EarnedBy(stored[p], p)
  /\ HoldIsEarned

LEMMA EarnedInit == Init => Earned
BY IdleFacts DEF Init, Earned, EarnedBy, HoldIsEarned, NoRecord

LEMMA EarnedNext == TypeInv /\ Seen /\ Earned /\ [Next]_vars => Earned'
<1> SUFFICES ASSUME TypeInv, Seen, Earned, [Next]_vars PROVE Earned'
  OBVIOUS
<1>t. /\ pr \in PRType /\ base \in Nat /\ config \in Config
      /\ cache \in [PR -> RecordType] /\ stored \in [PR -> RecordType] /\ run \in RunType
      /\ (run.at = "comment" <=> run.cmd # "none")
      /\ tried \in [PR -> [1..MaxHead -> Nat]]
  BY TypeFacts
<1> USE <1>t
<1>1. ASSUME UNCHANGED <<cache, stored, tried>>, run'.cmd = "none" PROVE Earned'
  BY <1>1 DEF Earned, EarnedBy, HoldIsEarned
<1>2. CASE Query
  <2>1. run'.cmd = "none"
    BY <1>2, IdleFacts DEF Query, RunType
  <2> QED BY <1>1, <1>2, <2>1 DEF Query, history
<1>3. CASE Examined
  <2>1. run'.cmd = "none"
    BY <1>3 DEF Examined, RunType
  <2> QED BY <1>1, <1>3, <2>1 DEF Examined, history
<1>4. ASSUME NEW p \in PR, Examine(p) PROVE Earned'
  <2>1. run.cmd = "none"
    BY <1>4 DEF Examine
  <2>2. run'.cmd = "none"
    BY <1>4, <2>1 DEF Examine, RunType
  <2> QED BY <1>1, <1>4, <2>2 DEF Examine, history
<1>5. CASE ExamineFails \/ SaveFails
  BY <1>1, <1>5, IdleFacts DEF ExamineFails, SaveFails, history
<1>6. ASSUME NEW p \in PR, Skip(p) PROVE Earned'
  BY <1>1, <1>6, ConsideredFacts DEF Skip, history
<1>7. CASE Comment \/ CommentFails
  <2>1. run.p \in PR
    BY DEF RunType
  <2>2. run'.cmd = "none"
    BY <1>7, <2>1, ConsideredFacts DEF Comment, CommentFails
  <2> QED BY <1>1, <1>7, <2>2 DEF Comment, CommentFails
<1>8. CASE Save
  BY <1>8, IdleFacts DEF Save, history, Earned, EarnedBy, HoldIsEarned
<1>9. ASSUME NEW p \in PR, Check(p) PROVE Earned'
  <2> DEFINE h == run.heads[p]
             r == Current(cache[p], h, base)
             v == Verdict(r, Policy)
  <2>1. /\ cache[p] \in RecordType /\ h \in 0..MaxHead /\ cache[p].both <= cache[p].sha
        /\ cache[p].sha \in Nat
    BY TypeFacts DEF RunType, RecordType
  <2>2. /\ run.at = "consider" /\ p \in run.found /\ Valid(Policy)
        /\ cache' = [cache EXCEPT ![p] = Counted(r, v)]
        /\ run' = IF v = "pause" THEN Considered(p)
                  ELSE [run EXCEPT !.at = "comment", !.p = p, !.cmd = v]
        /\ tried' = IF v = "retest" THEN [tried EXCEPT ![p][h] = @ + 1] ELSE tried
        /\ UNCHANGED <<stored, config>>
    BY <1>9 DEF Check, github, Seen
  <2>3. h \in 1..MaxHead
    BY <2>1, <2>2 DEF Seen, SeenOf
  <2>4. Policy' = Policy /\ Policy.sha \in Int
    BY <2>2, PolicyFacts DEF Policy, RetesterPolicyType
  <2>5. r.head = h /\ r.sha \in Nat /\ r.sha <= tried[p][h]
    <3>1. tried[p][h] \in Nat
      BY <2>3
    <3>2. EarnedBy(cache[p], p)
      BY DEF Earned
    <3> QED BY <2>1, <2>3, <3>1, <3>2 DEF Current, EarnedBy
  <2>6. /\ Counted(r, v).head = h
        /\ v = "hold" => Counted(r, v).sha = 0 /\ r.sha = Policy.sha
        /\ v = "retest" => Counted(r, v).sha = r.sha + 1
        /\ v = "pause" => Counted(r, v).sha = r.sha
        /\ v \in {"hold", "retest", "pause"}
    <3>1. r \in RecordType
      BY <2>1, RecordFacts
    <3>2. v \in {"hold", "retest", "pause"} /\ (v = "hold" => r.sha = Policy.sha)
      BY DEF Verdict
    <3>3. CountedIs(r, v)
      BY <3>1, CountedFacts
    <3> HIDE DEF r, v
    <3> QED BY <2>5, <3>2, <3>3 DEF CountedIs
  <2> HIDE DEF h, r, v
  <2>7. \A q \in PR, k \in 1..MaxHead :
          /\ tried'[q][k] \in Nat /\ tried[q][k] <= tried'[q][k]
          /\ v = "retest" /\ q = p /\ k = h => tried'[q][k] = tried[q][k] + 1
    <3>1. \A q \in PR, k \in 1..MaxHead : tried[q][k] \in Nat
      OBVIOUS
    <3>2. CASE v = "retest"
      <4>1. tried' = [tried EXCEPT ![p] = [tried[p] EXCEPT ![h] = tried[p][h] + 1]]
        BY <2>2, <3>2
      <4>2. tried' = [tried EXCEPT ![p] = tried'[p]]
        BY <4>1
      <4>3. tried'[p] = [tried[p] EXCEPT ![h] = tried[p][h] + 1]
        BY <4>1
      <4>4. tried[p] \in [1..MaxHead -> Nat]
        OBVIOUS
      <4>5. \A k \in 1..MaxHead : tried'[p][k] = IF k = h THEN tried[p][k] + 1 ELSE tried[p][k]
        BY <4>3, <4>4
      <4>6. \A q \in PR : q # p => tried'[q] = tried[q]
        BY <4>1
      <4> QED BY <3>1, <3>2, <4>5, <4>6
    <3>3. CASE v # "retest"
      BY <2>2, <3>1, <3>3
    <3> QED BY <3>2, <3>3
  <2>8. \A q \in PR : EarnedBy(stored[q], q)' /\ (q # p => EarnedBy(cache[q], q)')
    <3> TAKE q \in PR
    <3>1. EarnedBy(stored[q], q) /\ EarnedBy(cache[q], q)
      BY DEF Earned
    <3>2. /\ stored[q].head \in 0..MaxHead /\ stored[q].sha \in Nat
          /\ cache[q].head \in 0..MaxHead /\ cache[q].sha \in Nat
      BY DEF RecordType
    <3>3. \A k \in 1..MaxHead : tried[q][k] \in Nat
      OBVIOUS
    <3> QED BY <2>2, <2>7, <3>1, <3>2, <3>3 DEF EarnedBy
  <2>9. EarnedBy(cache[p], p)'
    <3>1. cache'[p] = Counted(r, v)
      BY <2>2
    <3>2. tried[p][h] \in Nat
      BY <2>3
    <3> QED BY <2>3, <2>5, <2>6, <2>7, <3>1, <3>2 DEF EarnedBy
  <2>10. HoldIsEarned'
    <3>1. CASE v = "hold"
      <4>1. run'.p = p /\ cache'[p].head = h /\ tried' = tried
        BY <2>2, <2>6, <3>1 DEF RunType
      <4> QED BY <2>3, <2>4, <2>5, <2>6, <3>1, <4>1 DEF HoldIsEarned
    <3>2. CASE v # "hold"
      BY <2>2, <2>6, <3>2, ConsideredFacts DEF HoldIsEarned, RunType
    <3> QED BY <3>1, <3>2
  <2> QED BY <2>8, <2>9, <2>10 DEF Earned
<1>10. CASE Restart
  <2>1. PICK loaded \in [PR -> RecordType] :
          Begins(loaded) /\ \A p \in PR : loaded[p] = stored[p] \/ loaded[p] = NoRecord
    BY <1>10, LoadedFacts
  <2>2. cache' = loaded /\ run'.cmd = "none" /\ UNCHANGED <<stored, tried>>
    BY <2>1, IdleFacts DEF Begins
  <2> QED BY <2>1, <2>2 DEF Earned, EarnedBy, HoldIsEarned, NoRecord
<1>11. CASE Repository
  <2>1. UNCHANGED <<cache, stored, tried, config, run>> /\ Policy' = Policy
    BY <1>11 DEF Repository, BaseMoves, JobsEnd, Push, Unhold, history, Policy
  <2> QED BY <2>1 DEF Earned, EarnedBy, HoldIsEarned
<1>12. CASE UNCHANGED vars
  BY <1>12 DEF Earned, EarnedBy, HoldIsEarned, vars, history, Policy
<1> QED
  BY <1>2, <1>3, <1>4, <1>5, <1>6, <1>7, <1>8, <1>9, <1>10, <1>11, <1>12 DEF Next, Step

\* "Revision X was retested N times: holding" is never said of a revision that was not
\* tried N times, whatever was pushed, lost or reloaded in between.
THEOREM HoldsEarned == Spec => []HoldIsEarned
<1>1. Init => TypeInv /\ Seen /\ Earned
  BY TypeInit, SeenInit, EarnedInit
<1>2. TypeInv /\ Seen /\ Earned /\ [Next]_vars => (TypeInv /\ Seen /\ Earned)'
  BY TypeNext, SeenNext, EarnedNext
<1>3. Earned => HoldIsEarned
  BY DEF Earned
<1> QED BY <1>1, <1>2, <1>3, PTL DEF Spec
-----------------------------------------------------------------------------
(* Retests are accounted for.                                                *)

\* What the record of a pull request counts of its head and base as they are now.
NowSha(p) == IF cache[p].head = pr[p].head THEN cache[p].sha ELSE 0

NowBoth(p) ==
  IF cache[p].head = pr[p].head /\ cache[p].base = base THEN cache[p].both ELSE 0

Says(p, cmd) == run.cmd = cmd /\ run.p = p

\* Counted, but not asked for yet.
DueSha(p) == IF Says(p, "retest") /\ cache[p].head = pr[p].head THEN 1 ELSE 0

DueBoth(p) ==
  IF Says(p, "retest") /\ cache[p].head = pr[p].head /\ cache[p].base = base THEN 1 ELSE 0

\* Every retest asked for is counted or known to be lost; a hold has reset the record
\* before the comment resets what was asked for.
AccountedOf(p) ==
  ~Says(p, "hold") => /\ asked[p].sha + DueSha(p) <= NowSha(p) + lost[p].sha
                      /\ asked[p].both + DueBoth(p) <= NowBoth(p) + lost[p].both

\* No count is past its limit, which is what makes a comparison for equality enough.
WithinOf(p) ==
  ~lowered[p] => NowSha(p) <= Limits(config).sha /\ NowBoth(p) <= Limits(config).both

HeldOf(p) ==
  Says(p, "hold") /\ ~lowered[p] => /\ asked[p].sha <= Limits(config).sha + lost[p].sha
                                    /\ asked[p].both <= Limits(config).both + lost[p].both

AccountedAt(p) == AccountedOf(p) /\ WithinOf(p) /\ HeldOf(p)

Accounted == \A p \in PR : AccountedAt(p)

LEMMA AccountedInit == TypeInv /\ Init => Accounted
<1> SUFFICES ASSUME TypeInv, Init, NEW p \in PR PROVE AccountedAt(p)
  BY DEF Accounted
<1>1. Limits(config).sha \in Nat /\ Limits(config).both \in Nat
  BY TypeFacts, PolicyFacts
<1>2. /\ asked[p].sha = 0 /\ asked[p].both = 0 /\ lost[p].sha = 0 /\ lost[p].both = 0
      /\ cache[p].sha = 0 /\ cache[p].both = 0 /\ run.cmd = "none"
  BY IdleFacts DEF Init, None, NoRecord
<1> QED BY <1>1, <1>2 DEF AccountedAt, AccountedOf, WithinOf, HeldOf, NowSha, NowBoth,
                          DueSha, DueBoth, Says

\* What is counted, asked for and promised is a number.
LEMMA NumberFacts ==
  ASSUME TypeInv, NEW p \in PR
  PROVE  /\ asked[p].sha \in Nat /\ asked[p].both \in Nat
         /\ lost[p].sha \in Nat /\ lost[p].both \in Nat
         /\ cache[p].sha \in Nat /\ cache[p].both \in Nat
         /\ cache[p].head \in Nat /\ cache[p].base \in Nat /\ pr[p].head \in Nat
         /\ Limits(config).sha \in Nat /\ Limits(config).both \in Nat
<1>1. /\ pr \in PRType /\ config \in Config /\ cache \in [PR -> RecordType]
      /\ asked \in [PR -> CountType] /\ lost \in [PR -> CountType]
  BY TypeFacts
<1>2. Limits(config).sha \in Nat /\ Limits(config).both \in Nat
  BY <1>1, PolicyFacts
<1>3. pr[p].head \in Nat
  BY <1>1, RetesterAssumption DEF PRType
<1>4. /\ cache[p].sha \in Nat /\ cache[p].both \in Nat
      /\ cache[p].head \in Nat /\ cache[p].base \in Nat
  BY <1>1, RetesterAssumption DEF RecordType
<1>5. /\ asked[p].sha \in Nat /\ asked[p].both \in Nat
      /\ lost[p].sha \in Nat /\ lost[p].both \in Nat
  BY <1>1 DEF CountType
<1> QED BY <1>2, <1>3, <1>4, <1>5

\* A pull request of which nothing changes stays accounted for.
LEMMA AccountedSame ==
  ASSUME NEW p \in PR, AccountedAt(p), UNCHANGED <<base, config>>,
         cache'[p] = cache[p], asked'[p] = asked[p], lost'[p] = lost[p],
         lowered'[p] = lowered[p], pr'[p].head = pr[p].head,
         Says(p, "retest")' <=> Says(p, "retest"), Says(p, "hold")' <=> Says(p, "hold")
  PROVE  AccountedAt(p)'
BY DEF AccountedAt, AccountedOf, WithinOf, HeldOf, NowSha, NowBoth, DueSha, DueBoth

LEMMA AccountedCheck ==
  ASSUME TypeInv, Seen, Accounted, NEW p \in PR, Check(p)
  PROVE  Accounted'
<1> DEFINE h == run.heads[p]
           r == Current(cache[p], h, base)
           v == Verdict(r, Policy)
<1>1. /\ run \in RunType /\ (run.at = "comment" <=> run.cmd # "none")
      /\ cache \in [PR -> RecordType] /\ cache[p].both <= cache[p].sha
      /\ base \in Nat /\ config \in Config
  BY TypeFacts
<1>2. /\ run.at = "consider" /\ p \in run.found /\ Valid(Policy)
      /\ cache' = [cache EXCEPT ![p] = Counted(r, v)]
      /\ run' = IF v = "pause" THEN Considered(p)
                ELSE [run EXCEPT !.at = "comment", !.p = p, !.cmd = v]
      /\ UNCHANGED <<pr, base, config, asked, lost, lowered>>
  BY DEF Check, github
<1>3. run.cmd = "none" /\ run \in RunType
  BY <1>1, <1>2
<1>4. /\ v \in {"hold", "retest", "pause"}
      /\ (v = "hold" <=> r.sha = Policy.sha) /\ (v = "retest" => r.both # Policy.both)
  BY DEF Verdict
<1>5. h \in Nat /\ h <= pr[p].head /\ cache[p].head <= h /\ IsEnabled(Policy)
  BY <1>1, <1>2, RetesterAssumption DEF Seen, SeenOf, RunType
<1>6. Policy.sha = Limits(config).sha /\ Policy.both = Limits(config).both
  BY <1>1, <1>2, <1>5, PolicyFacts DEF Policy
<1>7. /\ r \in RecordType /\ CountedIs(r, v) /\ r.head = h /\ r.base = base
      /\ r.sha = (IF cache[p].head = h THEN cache[p].sha ELSE 0)
      /\ r.both = (IF cache[p].head = h /\ cache[p].base = base THEN cache[p].both ELSE 0)
  <2>1. cache[p] \in RecordType /\ h \in 0..MaxHead
    BY <1>1 DEF RunType
  <2>2. r \in RecordType
    BY <1>1, <2>1, RecordFacts
  <2>3. /\ r.head = h /\ r.base = base
        /\ r.sha = (IF cache[p].head = h THEN cache[p].sha ELSE 0)
        /\ r.both = (IF cache[p].head = h /\ cache[p].base = base THEN cache[p].both ELSE 0)
    BY DEF Current
  <2> HIDE DEF h, r, v
  <2> QED BY <2>2, <2>3, CountedFacts
<1> HIDE DEF h, r, v
<1>8. /\ v = "pause" => run'.cmd = "none"
      /\ v # "pause" => run'.cmd = v /\ run'.p = p
  BY <1>2, <1>3, ConsideredFacts DEF RunType
<1>9. ASSUME NEW q \in PR, q # p PROVE AccountedAt(q)'
  <2>1. ~Says(q, "retest") /\ ~Says(q, "hold")
    BY <1>3 DEF Says
  <2>2. ~Says(q, "retest")' /\ ~Says(q, "hold")'
    BY <1>8, <1>9 DEF Says
  <2>3. cache'[q] = cache[q] /\ AccountedAt(q)
    BY <1>1, <1>2, <1>9 DEF Accounted
  <2> QED BY <1>2, <2>1, <2>2, <2>3, AccountedSame
<1>10. AccountedAt(p)'
  <2> DEFINE c == cache'[p]
  <2>1. c = Counted(r, v) /\ c.head = h /\ c.base = base
    BY <1>1, <1>2, <1>7 DEF CountedIs
  <2>2. /\ (v = "hold" => c.sha = 0 /\ c.both = 0)
        /\ (v = "retest" => c.sha = r.sha + 1 /\ c.both = r.both + 1)
        /\ (v = "pause" => c.sha = r.sha /\ c.both = r.both)
    BY <1>7, <2>1 DEF CountedIs
  <2>3. AccountedAt(p) /\ ~Says(p, "hold") /\ ~Says(p, "retest")
    BY <1>3 DEF Accounted, Says
  <2>4. /\ asked[p].sha <= NowSha(p) + lost[p].sha
        /\ asked[p].both <= NowBoth(p) + lost[p].both
        /\ ~lowered[p] => /\ NowSha(p) <= Limits(config).sha
                          /\ NowBoth(p) <= Limits(config).both
    <3>1. DueSha(p) = 0 /\ DueBoth(p) = 0
      BY <2>3 DEF DueSha, DueBoth
    <3>2. asked[p].sha \in Nat /\ asked[p].both \in Nat
      BY NumberFacts
    <3> QED BY <2>3, <3>1, <3>2 DEF AccountedAt, AccountedOf, WithinOf
  <2>5. /\ (Says(p, "hold")' <=> v = "hold") /\ (Says(p, "retest")' <=> v = "retest")
    BY <1>4, <1>8 DEF Says
  <2>6. CASE h = pr[p].head
    <3>1. NowSha(p) = r.sha /\ NowBoth(p) = r.both
      BY <1>7, <2>6 DEF NowSha, NowBoth
    <3>2. NowSha(p)' = c.sha /\ NowBoth(p)' = c.both
      BY <1>2, <2>1, <2>6 DEF NowSha, NowBoth
    <3>3. DueSha(p)' = (IF v = "retest" THEN 1 ELSE 0) /\ DueBoth(p)' = DueSha(p)'
      BY <1>2, <2>1, <2>5, <2>6 DEF DueSha, DueBoth
    <3>4. r.sha \in Nat /\ r.both \in Nat
      BY <1>7 DEF RecordType
    <3> HIDE DEF c
    <3>5. /\ AccountedOf(p)' <=>
               (v # "hold" => /\ asked[p].sha + DueSha(p)' <= c.sha + lost[p].sha
                              /\ asked[p].both + DueSha(p)' <= c.both + lost[p].both)
          /\ WithinOf(p)' <=> (~lowered[p] => /\ c.sha <= Limits(config).sha
                                              /\ c.both <= Limits(config).both)
          /\ HeldOf(p)' <=> (v = "hold" /\ ~lowered[p] =>
                                /\ asked[p].sha <= Limits(config).sha + lost[p].sha
                                /\ asked[p].both <= Limits(config).both + lost[p].both)
      BY <1>2, <2>5, <3>2, <3>3 DEF AccountedOf, WithinOf, HeldOf
    <3>6. AccountedOf(p)'
      BY <1>4, <2>2, <2>4, <3>1, <3>3, <3>4, <3>5, NumberFacts
    <3>7. WithinOf(p)'
      BY <1>4, <1>6, <2>2, <2>4, <3>1, <3>4, <3>5, NumberFacts
    <3>8. HeldOf(p)'
      BY <1>4, <1>6, <2>4, <3>1, <3>4, <3>5, NumberFacts
    <3> QED BY <3>6, <3>7, <3>8 DEF AccountedAt
  <2>7. CASE h # pr[p].head
    <3>1. NowSha(p) = 0 /\ NowBoth(p) = 0
      BY <1>5, <2>7, NumberFacts DEF NowSha, NowBoth
    <3>2. NowSha(p)' = 0 /\ NowBoth(p)' = 0 /\ DueSha(p)' = 0 /\ DueBoth(p)' = 0
      BY <1>2, <2>1, <2>7 DEF NowSha, NowBoth, DueSha, DueBoth
    <3> QED BY <1>2, <2>4, <3>1, <3>2, NumberFacts DEF AccountedAt, AccountedOf, WithinOf, HeldOf
  <2> QED BY <2>6, <2>7
<1> QED BY <1>9, <1>10 DEF Accounted

LEMMA AccountedComment ==
  ASSUME TypeInv, Seen, Accounted, Comment \/ CommentFails
  PROVE  Accounted'
<1>1. /\ run \in RunType /\ pr \in PRType /\ (run.at = "comment" <=> run.cmd # "none")
      /\ asked \in [PR -> CountType] /\ lost \in [PR -> CountType]
  BY TypeFacts
<1>2. PICK p \in PR : p = run.p
  BY <1>1 DEF RunType
<1>0. run.cmd \in {"retest", "hold"}
  BY <1>1 DEF Comment, CommentFails, RunType
<1>3. run'.cmd = "none" /\ UNCHANGED <<base, config, cache, lowered>>
  BY <1>1, <1>2, ConsideredFacts DEF Comment, CommentFails, github
<1>4. \A q \in PR : pr'[q].head = pr[q].head
  <2>1. CASE CommentFails
    BY <2>1 DEF CommentFails, github
  <2>2. CASE Comment
    <3>1. \/ pr' = [pr EXCEPT ![p].status = IF Fails(@) THEN "pending" ELSE @]
          \/ pr' = [pr EXCEPT ![p].held = TRUE]
      BY <1>2, <2>2 DEF Comment
    <3>2. \A status : [pr[p] EXCEPT !.status = status].head = pr[p].head
      BY <1>1, <1>2 DEF PRType
    <3>3. [pr[p] EXCEPT !.held = TRUE].head = pr[p].head
      BY <1>1, <1>2 DEF PRType
    <3> QED BY <1>1, <1>2, <3>1, <3>2, <3>3 DEF PRType
  <2> QED BY <2>1, <2>2
<1>5. \A q \in PR : q # p => asked'[q] = asked[q] /\ lost'[q] = lost[q]
  BY <1>1, <1>2 DEF Comment, CommentFails
<1>6. ASSUME NEW q \in PR, q # p PROVE AccountedAt(q)'
  <2>1. ~Says(q, "retest") /\ ~Says(q, "hold") /\ ~Says(q, "retest")' /\ ~Says(q, "hold")'
    BY <1>2, <1>3, <1>6 DEF Says
  <2> QED BY <1>3, <1>4, <1>5, <1>6, <2>1, AccountedSame DEF Accounted
<1>7. AccountedAt(p)'
  <2>1. AccountedAt(p)
    BY <1>2 DEF Accounted
  <2>2. NowSha(p)' = NowSha(p) /\ NowBoth(p)' = NowBoth(p)
    BY <1>2, <1>3, <1>4 DEF NowSha, NowBoth
  <2>3. ~Says(p, "retest")' /\ ~Says(p, "hold")' /\ DueSha(p)' = 0 /\ DueBoth(p)' = 0
    BY <1>3 DEF Says, DueSha, DueBoth
  <2>4. HeldOf(p)' /\ WithinOf(p)'
    BY <1>3, <2>1, <2>2, <2>3 DEF AccountedAt, HeldOf, WithinOf
  <2>5. NowSha(p) \in Nat /\ NowBoth(p) \in Nat
    BY <1>2, NumberFacts DEF NowSha, NowBoth
  <2>6. /\ asked[p].sha \in Nat /\ asked[p].both \in Nat
        /\ lost[p].sha \in Nat /\ lost[p].both \in Nat
    BY <1>2, NumberFacts
  <2>7. CASE run.cmd = "hold"
    <3>1. \/ asked'[p] = None /\ lost'[p] = None
          \/ asked'[p] = asked[p] /\ lost'[p] = asked[p]
      BY <1>1, <1>2, <2>7 DEF Comment, CommentFails
    <3> QED BY <2>2, <2>3, <2>4, <2>5, <2>6, <3>1 DEF AccountedAt, AccountedOf, None
  <2>8. CASE run.cmd = "retest"
    <3>1. /\ asked[p].sha + DueSha(p) <= NowSha(p) + lost[p].sha
          /\ asked[p].both + DueBoth(p) <= NowBoth(p) + lost[p].both
      BY <2>1, <2>8 DEF AccountedAt, AccountedOf, Says
    <3>2. CASE CommentFails
      <4>1. asked'[p] = asked[p] /\ lost'[p] = lost[p]
        BY <1>2, <2>8, <3>2 DEF CommentFails
      <4>2. DueSha(p) \in {0, 1} /\ DueBoth(p) \in {0, 1}
        BY DEF DueSha, DueBoth
      <4> QED BY <2>2, <2>3, <2>4, <2>5, <2>6, <3>1, <4>1, <4>2 DEF AccountedAt, AccountedOf
    <3>3. CASE Comment
      <4> DEFINE a == IF pr[p].head = cache[p].head THEN 0 ELSE 1
                 b == IF pr[p].head = cache[p].head /\ base = cache[p].base THEN 0 ELSE 1
      <4>1. /\ asked' = [asked EXCEPT ![p] = [sha |-> asked[p].sha + 1, both |-> asked[p].both + 1]]
            /\ lost' = [lost EXCEPT ![p] = [sha |-> lost[p].sha + a, both |-> lost[p].both + b]]
        BY <1>2, <2>8, <3>3 DEF Comment
      <4>2. DueSha(p) = 1 - a /\ DueBoth(p) = 1 - b
        BY <1>2, <2>8 DEF DueSha, DueBoth, Says
      <4>3. a \in {0, 1} /\ b \in {0, 1}
        OBVIOUS
      <4> HIDE DEF a, b
      <4>4. /\ asked'[p].sha = asked[p].sha + 1 /\ asked'[p].both = asked[p].both + 1
            /\ lost'[p].sha = lost[p].sha + a /\ lost'[p].both = lost[p].both + b
        BY <1>1, <1>2, <4>1
      <4> QED BY <2>2, <2>3, <2>4, <2>5, <2>6, <3>1, <4>2, <4>3, <4>4
              DEF AccountedAt, AccountedOf
    <3> QED BY <3>2, <3>3
  <2> QED BY <1>0, <2>7, <2>8
<1> QED BY <1>6, <1>7 DEF Accounted

\* What a restart forgets is lost.
LEMMA AccountedBegins ==
  ASSUME TypeInv, TypeInv', NEW loaded \in [PR -> RecordType], Begins(loaded)
  PROVE  Accounted'
<1> SUFFICES ASSUME NEW p \in PR PROVE AccountedAt(p)'
  BY DEF Accounted
<1> DEFINE n == Counts(loaded[p], p)
<1>1. /\ run' = Idle /\ UNCHANGED <<pr, base, asked>> /\ cache' = loaded
      /\ lost'[p] = Beyond(asked[p], n)
      /\ lowered'[p] = (Beyond(n, Limits(config')) # None)
  BY DEF Begins, github
<1>2. ~Says(p, "hold")' /\ ~Says(p, "retest")' /\ DueSha(p)' = 0 /\ DueBoth(p)' = 0
  BY <1>1, IdleFacts DEF Says, DueSha, DueBoth
<1>3. n.sha = NowSha(p)' /\ n.both = NowBoth(p)'
  BY <1>1 DEF Counts, Current, NowSha, NowBoth
<1>4. n.sha \in Nat /\ n.both \in Nat
  BY <1>3, NumberFacts, TypeFacts DEF Counts, Current, RecordType
<1>5. /\ asked[p].sha \in Nat /\ asked[p].both \in Nat
      /\ Limits(config').sha \in Nat /\ Limits(config').both \in Nat
  <2>1. config' \in Config
    BY RetesterAssumption DEF Begins
  <2> QED BY <2>1, NumberFacts, PolicyFacts
<1> HIDE DEF n
<1>6. AccountedOf(p)'
  BY <1>1, <1>2, <1>3, <1>4, <1>5 DEF AccountedOf, Beyond
<1>7. WithinOf(p)'
  <2>1. ~lowered'[p] => n.sha <= Limits(config').sha /\ n.both <= Limits(config').both
    <3> SUFFICES ASSUME ~lowered'[p]
                 PROVE  n.sha <= Limits(config').sha /\ n.both <= Limits(config').both
      OBVIOUS
    <3> DEFINE l == Limits(config')
               x == IF n.sha > l.sha THEN n.sha - l.sha ELSE 0
               y == IF n.both > l.both THEN n.both - l.both ELSE 0
    <3>1. Beyond(n, l) = None
      BY <1>1
    <3>2. x = 0 /\ y = 0
      BY <3>1 DEF Beyond, None
    <3>3. l.sha \in Nat /\ l.both \in Nat
      BY <1>5
    <3> HIDE DEF l
    <3>4. n.sha <= l.sha /\ n.both <= l.both
      BY <1>4, <3>2, <3>3
    <3> QED BY <3>4 DEF l
  <2> QED BY <1>1, <1>3, <2>1 DEF WithinOf
<1> QED BY <1>2, <1>6, <1>7 DEF AccountedAt, HeldOf

LEMMA AccountedPush ==
  ASSUME TypeInv, Seen, Accounted, NEW p \in PR, Push(p)
  PROVE  Accounted'
<1>1. /\ pr \in PRType /\ asked \in [PR -> CountType] /\ lost \in [PR -> CountType]
      /\ lowered \in [PR -> BOOLEAN]
  BY TypeFacts
<1>2. /\ pr' = [pr EXCEPT ![p] = [pr[p] EXCEPT !.head = @ + 1, !.status = "pending"]]
      /\ asked' = [asked EXCEPT ![p] = None] /\ lost' = [lost EXCEPT ![p] = None]
      /\ lowered' = [lowered EXCEPT ![p] = FALSE]
      /\ UNCHANGED <<base, cache, config, run>>
  BY DEF Push
<1>3. /\ pr'[p].head = pr[p].head + 1 /\ \A q \in PR : q # p => pr'[q] = pr[q]
  <2>1. [pr[p] EXCEPT !.head = @ + 1, !.status = "pending"].head = pr[p].head + 1
    BY <1>1 DEF PRType
  <2> QED BY <1>1, <1>2, <2>1 DEF PRType
<1>4. ASSUME NEW q \in PR, q # p PROVE AccountedAt(q)'
  BY <1>1, <1>2, <1>3, <1>4, AccountedSame DEF Accounted, Says
<1>5. AccountedAt(p)'
  <2>1. cache'[p].head # pr'[p].head
    BY <1>2, <1>3, NumberFacts DEF Seen, SeenOf
  <2>2. NowSha(p)' = 0 /\ NowBoth(p)' = 0 /\ DueSha(p)' = 0 /\ DueBoth(p)' = 0
    BY <2>1 DEF NowSha, NowBoth, DueSha, DueBoth
  <2>3. /\ asked'[p].sha = 0 /\ asked'[p].both = 0
        /\ lost'[p].sha = 0 /\ lost'[p].both = 0
    BY <1>1, <1>2 DEF None
  <2> QED BY <1>2, <2>2, <2>3, NumberFacts DEF AccountedAt, AccountedOf, WithinOf, HeldOf
<1> QED BY <1>4, <1>5 DEF Accounted

LEMMA AccountedBase ==
  ASSUME TypeInv, Seen, Accounted, BaseMoves
  PROVE  Accounted'
<1> SUFFICES ASSUME NEW p \in PR PROVE AccountedAt(p)'
  BY DEF Accounted
<1>1. /\ base' = base + 1 /\ base \in Nat /\ cache[p].base <= base
      /\ asked' = [q \in PR |-> [asked[q] EXCEPT !.both = 0]]
      /\ lost' = [q \in PR |-> [lost[q] EXCEPT !.both = 0]]
      /\ UNCHANGED <<pr, cache, config, run, lowered>>
  BY TypeFacts DEF BaseMoves, Seen, SeenOf
<1>2. /\ asked'[p].sha = asked[p].sha /\ asked'[p].both = 0
      /\ lost'[p].sha = lost[p].sha /\ lost'[p].both = 0
  <2>1. asked[p] \in CountType /\ lost[p] \in CountType
    BY TypeFacts
  <2> QED BY <1>1, <2>1 DEF CountType
<1>3. NowBoth(p)' = 0 /\ DueBoth(p)' = 0
  BY <1>1, NumberFacts DEF NowBoth, DueBoth
<1>4. /\ NowSha(p)' = NowSha(p) /\ DueSha(p)' = DueSha(p)
      /\ Says(p, "hold")' = Says(p, "hold")
  BY <1>1 DEF NowSha, DueSha, Says
<1>5. AccountedAt(p)
  BY DEF Accounted
<1> QED BY <1>1, <1>2, <1>3, <1>4, <1>5, NumberFacts
        DEF AccountedAt, AccountedOf, WithinOf, HeldOf

LEMMA AccountedNext == TypeInv /\ Seen /\ Accounted /\ [Next]_vars => Accounted'
<1> SUFFICES ASSUME TypeInv, Seen, Accounted, [Next]_vars PROVE Accounted'
  OBVIOUS
<1>t. /\ pr \in PRType /\ run \in RunType /\ (run.at = "comment" <=> run.cmd # "none")
  BY TypeFacts
<1>1. ASSUME UNCHANGED <<base, config, cache, asked, lost, lowered>>,
             \A p \in PR : pr'[p].head = pr[p].head, run'.cmd = run.cmd, run'.p = run.p
      PROVE  Accounted'
  BY <1>1, AccountedSame DEF Accounted, Says
<1>2. ASSUME UNCHANGED <<pr, base, config, cache, asked, lost, lowered>>,
             run.cmd = "none", run'.cmd = "none"
      PROVE  Accounted'
  BY <1>2, AccountedSame DEF Accounted, Says
<1>3. CASE Query
  <2>1. run.cmd = "none" /\ run'.cmd = "none"
    BY <1>t, <1>3, IdleFacts DEF Query, RunType
  <2> QED BY <1>2, <1>3, <2>1 DEF Query, github, history
<1>4. CASE Examined
  <2>1. run.cmd = "none" /\ run'.cmd = "none"
    BY <1>t, <1>4 DEF Examined, RunType
  <2> QED BY <1>2, <1>4, <2>1 DEF Examined, github, history
<1>5. ASSUME NEW p \in PR, Examine(p) PROVE Accounted'
  <2>1. run.cmd = "none"
    BY <1>t, <1>5 DEF Examine
  <2>2. run'.cmd = "none"
    BY <1>t, <1>5, <2>1 DEF Examine, RunType
  <2> QED BY <1>2, <1>5, <2>1, <2>2 DEF Examine, github, history
<1>6. CASE ExamineFails \/ SaveFails \/ Save
  <2>1. run.cmd = "none" /\ run'.cmd = "none"
    BY <1>t, <1>6, IdleFacts DEF ExamineFails, SaveFails, Save
  <2> QED BY <1>2, <1>6, <2>1 DEF ExamineFails, SaveFails, Save, github, history
<1>7. ASSUME NEW p \in PR, Skip(p) PROVE Accounted'
  <2>1. run.cmd = "none" /\ run'.cmd = "none"
    BY <1>t, <1>7, ConsideredFacts DEF Skip
  <2> QED BY <1>2, <1>7, <2>1 DEF Skip, github, history
<1>8. CASE Restart
  <2>1. PICK loaded \in [PR -> RecordType] : Begins(loaded)
    BY <1>8, LoadedFacts
  <2>2. TypeInv'
    BY TypeNext
  <2> QED BY <2>1, <2>2, AccountedBegins
<1>9. ASSUME NEW p \in PR, JobsEnd(p) \/ Unhold(p) PROVE Accounted'
  <2>1. \A q \in PR : pr'[q].head = pr[q].head
    BY <1>t, <1>9 DEF JobsEnd, Unhold, PRType
  <2> QED BY <1>1, <1>9, <2>1 DEF JobsEnd, Unhold, history
<1>10. CASE UNCHANGED vars
  BY <1>1, <1>10 DEF vars, github, history
<1> QED
  BY <1>3, <1>4, <1>5, <1>6, <1>7, <1>8, <1>9, <1>10,
     AccountedCheck, AccountedComment, AccountedPush, AccountedBase
     DEF Next, Step, Repository

\* A revision is retested as often as the policy of its repository promises and, beyond
\* that, as often as a retest was lost count of: for any pull requests, configurations
\* and limits, however saves, comments, restarts, pushes and merges interleave.
THEOREM RetestsAccounted == Spec => []RetestsBounded
<1>1. Init => TypeInv /\ Seen /\ Accounted
  BY TypeInit, SeenInit, AccountedInit
<1>2. TypeInv /\ Seen /\ Accounted /\ [Next]_vars => (TypeInv /\ Seen /\ Accounted)'
  BY TypeNext, SeenNext, AccountedNext
<1>3. TypeInv /\ Accounted => RetestsBounded
  <2> SUFFICES ASSUME TypeInv, Accounted, NEW p \in PR, ~lowered[p]
               PROVE  /\ asked[p].sha <= Limits(config).sha + lost[p].sha
                      /\ asked[p].both <= Limits(config).both + lost[p].both
    BY DEF RetestsBounded
  <2>1. AccountedAt(p)
    BY DEF Accounted
  <2>2. NowSha(p) \in Nat /\ NowBoth(p) \in Nat
    BY NumberFacts DEF NowSha, NowBoth
  <2>3. DueSha(p) \in {0, 1} /\ DueBoth(p) \in {0, 1}
    BY DEF DueSha, DueBoth
  <2> QED BY <2>1, <2>2, <2>3, NumberFacts DEF AccountedAt, AccountedOf, WithinOf, HeldOf
<1> QED BY <1>1, <1>2, <1>3, PTL DEF Spec
=============================================================================
