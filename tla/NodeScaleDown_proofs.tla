------------------------- MODULE NodeScaleDown_proofs -------------------------
(* Theorems about NodeScaleDown, for any nodes and scenarios.                *)
EXTENDS NodeScaleDown, FiniteSetTheorems, TLAPS

Taint == {"prefer", "drain", "noexecute"}

NodeObject == [exists : BOOLEAN, cordoned : BOOLEAN, ready : BOOLEAN, young : BOOLEAN,
               updating : BOOLEAN, taints : SUBSET Taint]

PollType == [todo : SUBSET Node, busy : SUBSET Node, targets : SUBSET Node,
             taints : [Node -> SUBSET Taint]]

Labels == {"none", "query", "exists", "wait", "owner", "evict", "noexecute",
           "annotate", "lock", "get", "phase", "patch", "sleep", "hold"}

Locked == {"get", "phase", "patch", "sleep"}

\* A goroutine holds the lock where it works on the replicas, and between its reading and
\* its patch nobody else takes one.
HolderOf(n) ==
  /\ lock = n <=> pc[n] \in Locked
  /\ pc[n] \in {"phase", "patch"} => read <= replicas
  /\ pc[n] = "patch" => read > 0

\* A node exists with its machine, and a goroutine of a node that was seen to go is late.
LifeOf(n) ==
  /\ node[n].exists <=> machine[n] \in {"running", "failed", "deleting"}
  /\ seen[n].exists => machine[n] # "absent"
  /\ pc[n] # "none" /\ ~seen[n].exists => machine[n] = "gone"
  /\ n \in marked => machine[n] # "absent"

Kinds ==
  /\ node \in [Node -> NodeObject] /\ seen \in [Node -> NodeObject] /\ poll \in PollType
  /\ pods \in [Node -> {"none", "running", "recent"}]
  /\ machine \in [Node -> {"absent", "running", "failed", "deleting", "gone"}]
  /\ marked \subseteq Node /\ replicas \in Nat /\ read \in Nat
  /\ pc \in [Node -> Labels]

TypeInv == Kinds /\ \A n \in Node : HolderOf(n) /\ LifeOf(n)
-----------------------------------------------------------------------------
(* What the steps do to the object of a node.                                *)

\* Only the object of one node changes.
Becomes(n, o) ==
  /\ node' \in [Node -> NodeObject] /\ node'[n] = o
  /\ \A m \in Node : m # n => node'[m] = node[m]

\* All but the cordon and the taints.
Alike(o, p) == /\ o.exists = p.exists /\ o.ready = p.ready
               /\ o.young = p.young /\ o.updating = p.updating

Emptied(n) == "noexecute" \in node[n].taints

LEMMA BecomesFacts ==
  ASSUME node \in [Node -> NodeObject], NEW n \in Node, NEW o \in NodeObject,
         node' = [node EXCEPT ![n] = o]
  PROVE  Becomes(n, o)
BY DEF Becomes

LEMMA PatchedFacts ==
  ASSUME node \in [Node -> NodeObject], NEW n \in Node, NEW o \in NodeObject, Patched(n, o)
  PROVE  Becomes(n, IF node[n].exists THEN o ELSE node[n])
BY DEF Patched, Becomes

LEMMA TaintsFacts ==
  ASSUME NEW o \in NodeObject, NEW T \in SUBSET Taint
  PROVE  /\ [o EXCEPT !.taints = T] \in NodeObject
         /\ [o EXCEPT !.taints = T].taints = T
         /\ [o EXCEPT !.taints = T].cordoned = o.cordoned
         /\ Alike([o EXCEPT !.taints = T], o)
<1> DEFINE y == [o EXCEPT !.taints = T]
<1>1. y \in NodeObject
  BY DEF NodeObject
<1>2. y.taints = T
  BY DEF NodeObject
<1>3. y.cordoned = o.cordoned /\ Alike(y, o)
  BY DEF NodeObject, Alike
<1> QED BY <1>1, <1>2, <1>3

\* A taint of no CI pod's concern.
LEMMA DrainFacts ==
  ASSUME TypeInv, NEW n \in Node, NEW T \in SUBSET Taint,
         "noexecute" \in T <=> Emptied(n),
         Patched(n, [node[n] EXCEPT !.taints = T])
  PROVE  \E o \in NodeObject :
           /\ Becomes(n, o) /\ Alike(o, node[n]) /\ o.cordoned = node[n].cordoned
           /\ "noexecute" \in o.taints <=> Emptied(n)
<1> DEFINE y == [node[n] EXCEPT !.taints = T]
           o == IF node[n].exists THEN y ELSE node[n]
<1>1. node[n] \in NodeObject /\ node \in [Node -> NodeObject]
  BY DEF TypeInv, Kinds
<1>2. y \in NodeObject /\ y.taints = T /\ y.cordoned = node[n].cordoned /\ Alike(y, node[n])
  BY <1>1, TaintsFacts
<1> HIDE DEF y
<1>3. Becomes(n, o)
  BY <1>1, <1>2, PatchedFacts DEF y
<1>4. o \in NodeObject /\ Alike(o, node[n]) /\ o.cordoned = node[n].cordoned
      /\ ("noexecute" \in o.taints <=> Emptied(n))
  BY <1>1, <1>2 DEF Alike, Emptied
<1> QED BY <1>3, <1>4

LEMMA OwnerFacts ==
  ASSUME TypeInv, NEW n \in Node, Owner(n)
  PROVE  \E o \in NodeObject :
           /\ Becomes(n, o) /\ Alike(o, node[n]) /\ o.cordoned = node[n].cordoned
           /\ "noexecute" \in o.taints <=> Emptied(n)
<1>1. node \in [Node -> NodeObject] /\ node[n].taints \in SUBSET Taint
  BY DEF TypeInv, Kinds, NodeObject
<1>2. CASE Exists(n)
  <2>1. Patched(n, [node[n] EXCEPT !.taints = node[n].taints \cup {"drain"}])
    BY <1>2 DEF Owner
  <2>2. node[n].taints \cup {"drain"} \in SUBSET Taint
    BY <1>1 DEF Taint
  <2>3. "noexecute" \in node[n].taints \cup {"drain"} <=> Emptied(n)
    BY DEF Emptied
  <2> QED BY <2>1, <2>2, <2>3, DrainFacts
<1>3. CASE ~Exists(n)
  <2>1. node' = node
    BY <1>3 DEF Owner
  <2> QED BY <1>1, <2>1 DEF Becomes, Alike, Emptied
<1> QED BY <1>2, <1>3

LEMMA EvictFailsFacts ==
  ASSUME TypeInv, NEW n \in Node, EvictFails(n)
  PROVE  \E o \in NodeObject :
           /\ Becomes(n, o) /\ Alike(o, node[n]) /\ o.cordoned = node[n].cordoned
           /\ "noexecute" \in o.taints <=> Emptied(n)
<1>1. node[n].taints \in SUBSET Taint
  BY DEF TypeInv, Kinds, NodeObject
<1>2. PICK removed \in BOOLEAN :
        Patched(n, [node[n] EXCEPT !.taints = IF removed THEN node[n].taints \ {"drain"}
                                              ELSE node[n].taints])
  BY DEF EvictFails
<1> DEFINE T == IF removed THEN node[n].taints \ {"drain"} ELSE node[n].taints
<1>3. T \in SUBSET Taint /\ ("noexecute" \in T <=> Emptied(n))
  BY <1>1 DEF Emptied
<1>4. Patched(n, [node[n] EXCEPT !.taints = T])
  BY <1>2
<1> HIDE DEF T
<1> QED BY <1>3, <1>4, DrainFacts

\* Afterwards a node that exists has the taint, unless the informer lost it.
LEMMA NoExecuteFacts ==
  ASSUME TypeInv, NEW n \in Node, NoExecute(n)
  PROVE  \E o \in NodeObject :
           /\ Becomes(n, o) /\ Alike(o, node[n]) /\ o.cordoned = node[n].cordoned
           /\ Emptied(n) => "noexecute" \in o.taints
           /\ "noexecute" \in o.taints /\ ~Emptied(n) => node[n].exists
           /\ seen[n].exists /\ node[n].exists /\ "noexecute" \notin seen[n].taints
                => "noexecute" \in o.taints
<1>1. node \in [Node -> NodeObject] /\ node[n] \in NodeObject
      /\ seen[n].taints \in SUBSET Taint
  BY DEF TypeInv, Kinds, NodeObject
<1>2. CASE ~seen[n].exists \/ "noexecute" \in seen[n].taints
  <2>1. node' = node
    BY <1>2 DEF NoExecute
  <2> QED BY <1>1, <1>2, <2>1 DEF Becomes, Alike, Emptied
<1>3. CASE seen[n].exists /\ "noexecute" \notin seen[n].taints
  <2> DEFINE T == seen[n].taints \cup {"noexecute"}
             y == [node[n] EXCEPT !.taints = T]
             o == IF node[n].exists THEN y ELSE node[n]
  <2>1. Patched(n, y)
    BY <1>3 DEF NoExecute
  <2>2. T \in SUBSET Taint
    BY <1>1 DEF Taint
  <2>3. y \in NodeObject /\ y.taints = T /\ y.cordoned = node[n].cordoned /\ Alike(y, node[n])
    BY <1>1, <2>2, TaintsFacts
  <2> HIDE DEF y
  <2>4. Becomes(n, o)
    BY <1>1, <2>1, <2>3, PatchedFacts
  <2>5. /\ o \in NodeObject /\ Alike(o, node[n]) /\ o.cordoned = node[n].cordoned
        /\ node[n].exists => "noexecute" \in o.taints
        /\ ~node[n].exists => o = node[n]
    BY <1>1, <2>3 DEF Alike
  <2> HIDE DEF o
  <2> QED BY <2>4, <2>5 DEF Emptied
<1> QED BY <1>2, <1>3

\* The poll cordons, and writes the taints that it read.
LEMMA PollNodeFacts ==
  ASSUME TypeInv, PollNode
  PROVE  \E n \in Node, o \in NodeObject :
           /\ n \in poll.todo /\ Becomes(n, o) /\ Alike(o, node[n])
           /\ node[n].cordoned => o.cordoned
           /\ ~node[n].exists => o = node[n]
           /\ \/ "noexecute" \in o.taints <=> Emptied(n)
              \/ "noexecute" \in o.taints <=> "noexecute" \in poll.taints[n]
           /\ poll' \in PollType /\ poll'.todo \subseteq poll.todo
           /\ \/ poll'.todo = {} /\ poll'.taints = [m \in Node |-> {}]
              \/ poll'.taints = poll.taints
<1> DEFINE effect(n) == IF n \notin poll.targets THEN "None"
                        ELSE IF Active(seenPods[n]) THEN "PreferNoSchedule" ELSE "NoSchedule"
<1>1. PICK n \in poll.todo :
        /\ SetAvoidance(n, effect(n))
        /\ poll' = IF poll.todo = {n} THEN NoPoll ELSE [poll EXCEPT !.todo = poll.todo \ {n}]
  BY DEF PollNode
<1> DEFINE e == effect(n)
<1> HIDE DEF effect
<1>2. /\ n \in Node /\ node \in [Node -> NodeObject] /\ node[n] \in NodeObject
      /\ poll \in PollType /\ poll.taints[n] \in SUBSET Taint
      /\ node[n].taints \in SUBSET Taint /\ node[n].cordoned \in BOOLEAN
  BY DEF TypeInv, Kinds, PollType, NodeObject
<1> DEFINE new == IF e = "None" THEN poll.taints[n] \ {"prefer"}
                  ELSE poll.taints[n] \cup {"prefer"}
<1>3. PICK cordons \in BOOLEAN, taints \in BOOLEAN :
        Patched(n, [node[n] EXCEPT
                     !.cordoned = node[n].cordoned \/ (e = "NoSchedule" /\ cordons),
                     !.taints = IF taints /\ new # poll.taints[n] THEN new ELSE node[n].taints])
  BY <1>1 DEF SetAvoidance
<1> DEFINE c == node[n].cordoned \/ (e = "NoSchedule" /\ cordons)
           T == IF taints /\ new # poll.taints[n] THEN new ELSE node[n].taints
           y == [node[n] EXCEPT !.cordoned = c, !.taints = T]
           o == IF node[n].exists THEN y ELSE node[n]
<1>4. new \in SUBSET Taint /\ ("noexecute" \in new <=> "noexecute" \in poll.taints[n])
  BY <1>2 DEF Taint
<1>5. Patched(n, y)
  BY <1>3
<1>6. T \in SUBSET Taint /\ c \in BOOLEAN /\ (node[n].cordoned => c)
  BY <1>2, <1>4
<1>7. \/ "noexecute" \in T <=> Emptied(n)
      \/ "noexecute" \in T <=> "noexecute" \in poll.taints[n]
  BY <1>4 DEF Emptied
<1> HIDE DEF c, T, new, e
<1>8. y \in NodeObject
  BY <1>2, <1>6 DEF NodeObject
<1>9. y.taints = T /\ y.cordoned = c
  BY <1>2, <1>6 DEF NodeObject
<1>10. Alike(y, node[n])
  BY <1>2, <1>6 DEF NodeObject, Alike
<1> HIDE DEF y
<1>11. Becomes(n, o)
  BY <1>2, <1>5, <1>8, PatchedFacts
<1>12. /\ o \in NodeObject /\ Alike(o, node[n]) /\ (node[n].cordoned => o.cordoned)
       /\ (~node[n].exists => o = node[n])
       /\ \/ "noexecute" \in o.taints <=> Emptied(n)
          \/ "noexecute" \in o.taints <=> "noexecute" \in poll.taints[n]
  BY <1>2, <1>6, <1>7, <1>8, <1>9, <1>10 DEF Alike, Emptied
<1>13. /\ poll' \in PollType /\ poll'.todo \subseteq poll.todo
       /\ \/ poll'.todo = {} /\ poll'.taints = [m \in Node |-> {}]
          \/ poll'.taints = poll.taints
  <2>1. CASE poll.todo = {n}
    BY <1>1, <2>1 DEF NoPoll, PollType
  <2>2. CASE poll.todo # {n}
    BY <1>1, <1>2, <2>2 DEF PollType
  <2> QED BY <2>1, <2>2
<1> HIDE DEF o
<1> QED BY <1>1, <1>2, <1>11, <1>12, <1>13

\* What the poll read of the nodes it takes up, and the goroutines it starts.
LEMMA PollStartFacts ==
  ASSUME TypeInv, PollStart
  PROVE  /\ poll' \in PollType /\ poll.todo = {}
         /\ \A n \in Node : n \in poll'.todo => Workload(n) /\ Schedulable(n)
         /\ \A n \in Node : poll'.taints[n] = IF n \in poll'.todo THEN seen[n].taints ELSE {}
         /\ pc' \in [Node -> Labels]
         /\ \A n \in Node : \/ pc'[n] = pc[n]
                            \/ /\ pc[n] = "none" /\ pc'[n] = "query"
                               /\ Workload(n) /\ seen[n].cordoned
<1>1. /\ poll.todo = {} /\ poll'.todo = Avoidable
      /\ poll'.taints = [n \in Node |-> IF n \in Avoidable THEN seen[n].taints ELSE {}]
      /\ pc' = [n \in Node |-> IF n \in Spawned THEN "query" ELSE pc[n]]
  BY DEF PollStart
<1>2. \A n \in Node : seen[n].taints \in SUBSET Taint
  BY DEF TypeInv, Kinds, NodeObject
<1>3. poll' \in PollType
  <2> DEFINE busy == {n \in Avoidable : Active(seenPods[n])}
             quarter == (Cardinality(Avoidable) + 3) \div 4
             Rank(n) == Cardinality({m \in Avoidable : AvoidanceOrder(busy, m, n)})
             targets == {n \in Avoidable : Rank(n) < quarter}
             taints == [n \in Node |-> IF n \in Avoidable THEN seen[n].taints ELSE {}]
  <2>1. poll' = [todo |-> Avoidable, busy |-> busy, targets |-> targets, taints |-> taints]
    BY DEF PollStart
  <2>2. Avoidable \subseteq Node
    BY DEF Avoidable
  <2>3. busy \subseteq Node /\ targets \subseteq Node
    BY <2>2
  <2>4. taints \in [Node -> SUBSET Taint]
    BY <1>2
  <2> HIDE DEF busy, targets, taints
  <2> QED BY <2>1, <2>2, <2>3, <2>4 DEF PollType
<1>4. pc' \in [Node -> Labels] /\ pc \in [Node -> Labels]
  BY <1>1 DEF TypeInv, Kinds, Labels
<1> QED BY <1>1, <1>3, <1>4 DEF Avoidable, Spawned

LEMMA AbsentFacts ==
  Absent \in NodeObject /\ ~Absent.exists /\ ~Absent.updating /\ Absent.taints = {}
BY DEF Absent, NodeObject, Taint

LEMMA CreateFacts ==
  ASSUME TypeInv, NEW n \in Node, Create(n)
  PROVE  \E o \in NodeObject :
           Becomes(n, o) /\ o.exists /\ ~o.updating /\ o.taints = {}
<1> DEFINE o == [Joined EXCEPT !.young = TRUE]
<1>1. /\ Joined \in NodeObject /\ Joined.exists /\ ~Joined.updating
      /\ Joined.taints = {}
  BY AbsentFacts DEF Joined, NodeObject
<1>2. o \in NodeObject /\ o.exists /\ ~o.updating /\ o.taints = {}
  BY <1>1 DEF NodeObject
<1>3. node' = [node EXCEPT ![n] = o]
  BY DEF Create
<1> HIDE DEF o
<1> QED BY <1>2, <1>3, BecomesFacts DEF TypeInv, Kinds

LEMMA DepartFacts ==
  ASSUME TypeInv, NEW n \in Node, Depart(n)
  PROVE  Becomes(n, Absent)
BY AbsentFacts, BecomesFacts DEF Depart, TypeInv, Kinds

\* Age, maintenance and failure leave the taints alone.
LEMMA MaturesFacts ==
  ASSUME TypeInv, NEW n \in Node, Matures(n)
  PROVE  \E o \in NodeObject :
           /\ Becomes(n, o) /\ o.exists = node[n].exists /\ o.taints = node[n].taints
           /\ o.cordoned = node[n].cordoned /\ o.updating = node[n].updating
           /\ o.ready = node[n].ready
<1> DEFINE o == [node[n] EXCEPT !.young = FALSE]
<1>1. node \in [Node -> NodeObject] /\ node[n] \in NodeObject
  BY DEF TypeInv, Kinds
<1>2. /\ o \in NodeObject /\ o.exists = node[n].exists /\ o.taints = node[n].taints
      /\ o.cordoned = node[n].cordoned /\ o.updating = node[n].updating
      /\ o.ready = node[n].ready
  BY <1>1 DEF NodeObject
<1>3. node' = [node EXCEPT ![n] = o]
  BY DEF Matures
<1> HIDE DEF o
<1> QED BY <1>1, <1>2, <1>3, BecomesFacts

LEMMA MachineFailsFacts ==
  ASSUME TypeInv, NEW n \in Node, MachineFails(n)
  PROVE  \E o \in NodeObject :
           /\ Becomes(n, o) /\ o.exists = node[n].exists /\ o.taints = node[n].taints
           /\ o.cordoned = node[n].cordoned /\ o.updating = node[n].updating /\ ~o.ready
<1> DEFINE o == [node[n] EXCEPT !.ready = FALSE]
<1>1. node \in [Node -> NodeObject] /\ node[n] \in NodeObject
  BY DEF TypeInv, Kinds
<1>2. /\ o \in NodeObject /\ o.exists = node[n].exists /\ o.taints = node[n].taints
      /\ o.cordoned = node[n].cordoned /\ o.updating = node[n].updating /\ ~o.ready
  BY <1>1 DEF NodeObject
<1>3. node' = [node EXCEPT ![n] = o]
  BY DEF MachineFails
<1> HIDE DEF o
<1> QED BY <1>1, <1>2, <1>3, BecomesFacts

LEMMA MaintainFacts ==
  ASSUME TypeInv, NEW n \in Node, NEW b \in BOOLEAN,
         node' = [node EXCEPT ![n].updating = b, ![n].cordoned = b]
  PROVE  \E o \in NodeObject :
           /\ Becomes(n, o) /\ o.exists = node[n].exists /\ o.taints = node[n].taints
           /\ o.cordoned = b /\ o.updating = b /\ o.ready = node[n].ready
<1> DEFINE o == [node[n] EXCEPT !.updating = b, !.cordoned = b]
<1>1. node \in [Node -> NodeObject] /\ node[n] \in NodeObject
  BY DEF TypeInv, Kinds
<1>2. o \in NodeObject
  BY <1>1 DEF NodeObject
<1>3. o.exists = node[n].exists /\ o.taints = node[n].taints /\ o.ready = node[n].ready
  BY <1>1 DEF NodeObject
<1>4. o.cordoned = b /\ o.updating = b
  BY <1>1 DEF NodeObject
<1>5. node' = [node EXCEPT ![n] = o]
  BY <1>1
<1> HIDE DEF o
<1> QED BY <1>1, <1>2, <1>3, <1>4, <1>5, BecomesFacts

-----------------------------------------------------------------------------
(* Types, the lock and the life of a node.                                   *)

LEMMA TypeInit == Init => TypeInv
<1> SUFFICES ASSUME Init PROVE TypeInv
  OBVIOUS
<1>1. /\ Joined \in NodeObject /\ Joined.exists
  BY AbsentFacts DEF Joined, NodeObject
<1>2. \A b \in BOOLEAN : [Joined EXCEPT !.young = b] \in NodeObject
                         /\ [Joined EXCEPT !.young = b].exists
  BY <1>1 DEF NodeObject
<1>3. \A n \in Node : (n # 1) \in BOOLEAN
  OBVIOUS
<1>4. /\ node \in [Node -> NodeObject]
      /\ \A n \in Node : node[n].exists <=> n \in Initially
  BY <1>2, <1>3, AbsentFacts DEF Init
<1>5. replicas \in Nat
  BY NodeAssumption, FS_Subset, FS_CardinalityType DEF Init
<1>6. poll \in PollType
  BY DEF Init, NoPoll, PollType
<1>7. Kinds
  BY <1>4, <1>5, <1>6 DEF Init, Kinds, Labels
<1>8. \A n \in Node : HolderOf(n)
  BY NodeAssumption DEF Init, HolderOf, Locked, Nobody
<1>9. \A n \in Node : LifeOf(n)
  BY <1>4 DEF Init, LifeOf
<1> QED BY <1>7, <1>8, <1>9 DEF TypeInv

\* A goroutine goes on, and does nothing to machines, replicas and the lock.
MovesTo(n, label) ==
  /\ Goto(n, label) /\ pc[n] # "none"
  /\ (pc[n] \in Locked <=> label \in Locked) /\ label \notin {"phase", "patch"}
  /\ node' \in [Node -> NodeObject] /\ \A m \in Node : node'[m].exists = node[m].exists
  /\ marked' \subseteq Node /\ \A m \in marked' : machine[m] # "absent"
  /\ pods' = pods /\ machine' = machine /\ replicas' = replicas /\ seen' = seen
  /\ poll' = poll /\ read' = read /\ lock' = lock

LEMMA MovesFacts ==
  ASSUME TypeInv, NEW n \in Node, NEW label \in Labels, MovesTo(n, label)
  PROVE  TypeInv'
<1>1. \A m \in Node : pc'[m] = IF m = n THEN label ELSE pc[m]
  BY DEF MovesTo, Goto, TypeInv, Kinds
<1>2. pc' \in [Node -> Labels]
  BY DEF MovesTo, Goto, TypeInv, Kinds
<1>3. Kinds'
  BY <1>2 DEF MovesTo, TypeInv, Kinds
<1>4. ASSUME NEW m \in Node PROVE HolderOf(m)' /\ LifeOf(m)'
  BY <1>1 DEF MovesTo, TypeInv, HolderOf, LifeOf
<1> QED BY <1>3, <1>4 DEF TypeInv

\* Something else happens, and nothing to the goroutines and replicas.
LEMMA Happens ==
  ASSUME TypeInv, Kinds', \A m \in Node : LifeOf(m)', UNCHANGED <<replicas, pc, read, lock>>
  PROVE  TypeInv'
BY DEF TypeInv, HolderOf

LEMMA LabelFacts ==
  ASSUME TypeInv, NEW n \in Node, NEW label \in Labels, Goto(n, label)
  PROVE  /\ pc' \in [Node -> Labels]
         /\ \A m \in Node : pc'[m] = IF m = n THEN label ELSE pc[m]
BY DEF Goto, TypeInv, Kinds

LEMMA TypeAdvance ==
  ASSUME TypeInv, NEW n \in Node,
         \/ Query(n) \/ MachineExists(n) \/ PodsOver(n) \/ Owner(n) \/ Evict(n)
         \/ NoExecute(n) \/ Annotate(n) \/ Awake(n) \/ HoldEnds(n) \/ HoldExpires(n)
         \/ Fails(n) \/ EvictFails(n)
  PROVE  TypeInv'
<1>t. /\ node \in [Node -> NodeObject] /\ marked \subseteq Node
      /\ machine \in [Node -> {"absent", "running", "failed", "deleting", "gone"}]
      /\ \A m \in marked : machine[m] # "absent"
  BY DEF TypeInv, Kinds, LifeOf
<1>1. CASE Query(n) \/ MachineExists(n) \/ PodsOver(n) \/ Evict(n) \/ Awake(n)
           \/ HoldEnds(n) \/ HoldExpires(n) \/ Fails(n)
  <2>1. /\ UNCHANGED <<node, pods, machine, marked, replicas, seen, poll, read, lock>>
        /\ pc[n] # "none"
    BY <1>1 DEF Query, MachineExists, PodsOver, Evict, Awake, HoldEnds, HoldExpires, Fails,
                world, informers, At
  <2>2. PICK label \in {"none", "exists", "wait", "hold", "owner", "noexecute", "get"} :
          Goto(n, label) /\ (pc[n] \in Locked <=> label \in Locked)
    BY <1>1 DEF Query, MachineExists, PodsOver, Evict, Awake, HoldEnds, HoldExpires, Fails,
                At, Locked
  <2>3. label \in Labels /\ label \notin {"phase", "patch"}
    BY DEF Labels
  <2>9. MovesTo(n, label)
    BY <1>t, <2>1, <2>2, <2>3 DEF MovesTo
  <2> QED BY <2>9, <2>3, MovesFacts
<1>2. CASE Owner(n) \/ EvictFails(n) \/ NoExecute(n)
  <2>1. PICK o \in NodeObject : Becomes(n, o) /\ Alike(o, node[n])
    BY <1>2, OwnerFacts, EvictFailsFacts, NoExecuteFacts
  <2>2. node' \in [Node -> NodeObject] /\ \A m \in Node : node'[m].exists = node[m].exists
    BY <2>1 DEF Becomes, Alike
  <2>3. /\ UNCHANGED <<pods, machine, marked, replicas, seen, poll, read, lock>>
        /\ pc[n] # "none"
    BY <1>2 DEF Owner, EvictFails, NoExecute, informers, At
  <2>4. PICK label \in {"none", "evict", "hold", "annotate"} :
          Goto(n, label) /\ (pc[n] \in Locked <=> label \in Locked)
    BY <1>2 DEF Owner, EvictFails, NoExecute, At, Locked
  <2>5. label \in Labels /\ label \notin {"phase", "patch"}
    BY DEF Labels
  <2>9. MovesTo(n, label)
    BY <1>t, <2>2, <2>3, <2>4, <2>5 DEF MovesTo
  <2> QED BY <2>9, <2>5, MovesFacts
<1>3. CASE Annotate(n)
  <2>1. /\ marked' = (IF Exists(n) THEN marked \cup {n} ELSE marked)
        /\ Goto(n, IF Exists(n) THEN "lock" ELSE "hold") /\ pc[n] = "annotate"
        /\ UNCHANGED <<node, pods, machine, replicas, seen, poll, read, lock>>
    BY <1>3 DEF Annotate, At, informers
  <2>2. marked' \subseteq Node /\ \A m \in marked' : machine[m] # "absent"
    BY <1>t, <2>1 DEF Exists
  <2>3. PICK label \in {"lock", "hold"} : Goto(n, label)
    BY <2>1
  <2>4. label \in Labels /\ label \notin {"phase", "patch"} \cup Locked /\ pc[n] \notin Locked
    BY <2>1 DEF Labels, Locked
  <2>9. MovesTo(n, label)
    BY <1>t, <2>1, <2>2, <2>3, <2>4 DEF MovesTo
  <2> QED BY <2>9, <2>4, MovesFacts
<1> QED BY <1>1, <1>2, <1>3

\* The section that the lock of the class guards.
LEMMA TypeLocked ==
  ASSUME TypeInv, NEW n \in Node,
         \/ Acquire(n) \/ GetReplicas(n) \/ Done(n) \/ NotYet(n) \/ Commit(n)
         \/ Decrement(n) \/ DecrementFails(n)
  PROVE  TypeInv'
<1>t. /\ Kinds /\ replicas \in Nat /\ read \in Nat /\ n # Nobody
      /\ \A m \in Node : HolderOf(m) /\ LifeOf(m)
  BY NodeAssumption DEF TypeInv, Kinds, Nobody
<1>0. Nobody \notin Node
  BY NodeAssumption DEF Nobody
<1>1. /\ UNCHANGED <<node, pods, machine, marked, seen, poll>> /\ pc[n] # "none"
  BY DEF Acquire, GetReplicas, Done, NotYet, Commit, Decrement, DecrementFails,
         world, informers, At
<1>2. ASSUME NEW label \in Labels, Goto(n, label), replicas' \in Nat, read' \in Nat,
             \A m \in Node : HolderOf(m)'
      PROVE  TypeInv'
  <2>1. /\ pc' \in [Node -> Labels] /\ \A m \in Node : pc'[m] = IF m = n THEN label ELSE pc[m]
    BY <1>2, LabelFacts
  <2>2. Kinds'
    BY <1>t, <1>1, <1>2, <2>1 DEF Kinds
  <2>3. \A m \in Node : LifeOf(m)'
    BY <1>t, <1>1, <2>1 DEF LifeOf
  <2> QED BY <1>2, <2>2, <2>3 DEF TypeInv
<1>3. CASE Acquire(n)
  <2>1. lock = Nobody /\ lock' = n /\ Goto(n, "get") /\ pc[n] = "lock"
        /\ UNCHANGED <<replicas, read>>
    BY <1>3 DEF Acquire, At, world
  <2>2. \A m \in Node : pc'[m] = IF m = n THEN "get" ELSE pc[m]
    BY <2>1, LabelFacts DEF Labels
  <2>3. \A m \in Node : HolderOf(m)'
    BY <1>t, <1>0, <2>1, <2>2 DEF HolderOf, Locked
  <2> QED BY <1>t, <1>2, <2>1, <2>3 DEF Labels
<1>4. CASE GetReplicas(n)
  <2>1. read' = replicas /\ Goto(n, "phase") /\ pc[n] = "get" /\ UNCHANGED <<replicas, lock>>
    BY <1>4 DEF GetReplicas, At, world
  <2>2. \A m \in Node : pc'[m] = IF m = n THEN "phase" ELSE pc[m]
    BY <2>1, LabelFacts DEF Labels
  <2>3. \A m \in Node : HolderOf(m)'
    BY <1>t, <2>1, <2>2 DEF HolderOf, Locked
  <2> QED BY <1>t, <1>2, <2>1, <2>3 DEF Labels
<1>5. CASE Commit(n)
  <2>1. read > 0 /\ Goto(n, "patch") /\ pc[n] = "phase" /\ UNCHANGED <<replicas, read, lock>>
    BY <1>5 DEF Commit, At, world
  <2>2. \A m \in Node : pc'[m] = IF m = n THEN "patch" ELSE pc[m]
    BY <2>1, LabelFacts DEF Labels
  <2>3. \A m \in Node : HolderOf(m)'
    BY <1>t, <2>1, <2>2 DEF HolderOf, Locked
  <2> QED BY <1>t, <1>2, <2>1, <2>3 DEF Labels
<1>6. CASE Done(n) \/ Decrement(n)
  <2>1. /\ pc[n] \in {"phase", "patch"} /\ Goto(n, "hold")
        /\ lock' = Nobody /\ read' = 0
        /\ replicas' = replicas \/ (replicas' = read - 1 /\ pc[n] = "patch")
    BY <1>6 DEF Done, Decrement, Release, At, world
  <2>2. \A m \in Node : pc'[m] = IF m = n THEN "hold" ELSE pc[m]
    BY <2>1, LabelFacts DEF Labels
  <2>3. \A m \in Node : HolderOf(m)'
    <3> TAKE m \in Node
    <3>1. m # n => pc[m] \notin Locked
      BY <1>t, <2>1 DEF HolderOf, Locked
    <3> QED BY <1>0, <2>1, <2>2, <3>1 DEF HolderOf, Locked
  <2>4. replicas' \in Nat
    BY <1>t, <2>1 DEF HolderOf
  <2> QED BY <1>2, <2>1, <2>3, <2>4 DEF Labels
<1>7. CASE NotYet(n) \/ DecrementFails(n)
  <2>1. /\ pc[n] \in {"phase", "patch"} /\ Goto(n, "sleep")
        /\ lock' = lock /\ read' = 0
        /\ replicas' = replicas \/ (replicas' = read - 1 /\ pc[n] = "patch")
    BY <1>7 DEF NotYet, DecrementFails, At, world
  <2>2. \A m \in Node : pc'[m] = IF m = n THEN "sleep" ELSE pc[m]
    BY <2>1, LabelFacts DEF Labels
  <2>3. \A m \in Node : HolderOf(m)'
    <3> TAKE m \in Node
    <3>1. m # n => pc[m] \notin Locked
      BY <1>t, <2>1 DEF HolderOf, Locked
    <3> QED BY <1>t, <2>1, <2>2, <3>1 DEF HolderOf, Locked
  <2>4. replicas' \in Nat
    BY <1>t, <2>1 DEF HolderOf
  <2> QED BY <1>2, <2>1, <2>3, <2>4 DEF Labels
<1> QED BY <1>3, <1>4, <1>5, <1>6, <1>7

LEMMA TypeWorld ==
  ASSUME TypeInv, NEW n \in Node,
         \/ SeeNode(n) \/ SeePods(n) \/ PodEnds(n) \/ MaintenanceEnds(n)
         \/ Create(n) \/ Delete(n) \/ Depart(n)
         \/ Bind(n) \/ Matures(n) \/ Maintain(n) \/ MachineFails(n)
  PROVE  TypeInv'
<1>t. Kinds /\ \A m \in Node : LifeOf(m)
  BY DEF TypeInv
<1>1. UNCHANGED <<replicas, pc, read, lock, poll, marked>>
  BY DEF SeeNode, SeePods, PodEnds, MaintenanceEnds, Create, Delete, Depart, Bind, Matures,
         Maintain, MachineFails, world
<1>2. CASE SeePods(n) \/ PodEnds(n) \/ Bind(n)
  <2>1. UNCHANGED <<node, machine, seen>>
    BY <1>2 DEF SeePods, PodEnds, Bind, world, informers
  <2>2. pods' \in [Node -> {"none", "running", "recent"}]
    BY <1>t, <1>2 DEF SeePods, PodEnds, Bind, world, Kinds
  <2>3. Kinds' /\ \A m \in Node : LifeOf(m)'
    BY <1>t, <1>1, <2>1, <2>2 DEF Kinds, LifeOf
  <2> QED BY <1>1, <2>3, Happens
<1>3. CASE SeeNode(n)
  <2>1. seen' = [seen EXCEPT ![n] = node[n]] /\ UNCHANGED <<node, pods, machine>>
    BY <1>3 DEF SeeNode, world
  <2>2. seen' \in [Node -> NodeObject]
        /\ \A m \in Node : seen'[m] = IF m = n THEN node[m] ELSE seen[m]
    BY <1>t, <2>1 DEF Kinds
  <2>3. Kinds'
    BY <1>t, <1>1, <2>1, <2>2 DEF Kinds
  <2>4. ASSUME NEW m \in Node PROVE LifeOf(m)'
    <3>1. LifeOf(m) /\ machine[m] \in {"absent", "running", "failed", "deleting", "gone"}
      BY <1>t DEF Kinds
    <3> QED BY <1>1, <2>1, <2>2, <3>1 DEF LifeOf
  <2> QED BY <1>1, <2>3, <2>4, Happens
<1>4. CASE Matures(n) \/ Maintain(n) \/ MaintenanceEnds(n) \/ MachineFails(n)
  <2>1. PICK o \in NodeObject : Becomes(n, o) /\ o.exists = node[n].exists
    <3>1. CASE Maintain(n)
      BY <3>1, MaintainFacts DEF Maintain
    <3>2. CASE MaintenanceEnds(n)
      BY <3>2, MaintainFacts DEF MaintenanceEnds
    <3> QED BY <1>4, <3>1, <3>2, MaturesFacts, MachineFailsFacts
  <2>2. UNCHANGED seen
    BY <1>4 DEF Matures, Maintain, MaintenanceEnds, MachineFails, informers
  <2>3. /\ machine' \in [Node -> {"absent", "running", "failed", "deleting", "gone"}]
        /\ pods' \in [Node -> {"none", "running", "recent"}]
        /\ \A m \in Node : \/ machine'[m] = machine[m]
                           \/ machine[m] = "running" /\ machine'[m] = "failed"
    BY <1>t, <1>4 DEF Matures, Maintain, MaintenanceEnds, MachineFails, Kinds
  <2>4. node' \in [Node -> NodeObject] /\ \A m \in Node : node'[m].exists = node[m].exists
    BY <2>1 DEF Becomes
  <2>5. Kinds' /\ \A m \in Node : LifeOf(m)'
    BY <1>t, <1>1, <2>2, <2>3, <2>4 DEF Kinds, LifeOf
  <2> QED BY <1>1, <2>5, Happens
<1>5. CASE Create(n) \/ Delete(n) \/ Depart(n)
  <2>1. PICK o \in NodeObject :
          Becomes(n, o) /\ (o.exists <=> machine'[n] \in {"running", "failed", "deleting"})
    <3>1. CASE Create(n)
      <4>1. machine'[n] = "running"
        BY <1>t, <3>1 DEF Create, Kinds
      <4> QED BY <3>1, <4>1, CreateFacts
    <3>2. CASE Delete(n)
      <4>1. machine'[n] = "deleting" /\ node' = node /\ machine[n] \in {"running", "failed"}
        BY <1>t, <3>2 DEF Delete, Kinds, InPhase
      <4> QED BY <1>t, <4>1 DEF Becomes, LifeOf, Kinds
    <3>3. CASE Depart(n)
      <4>1. machine'[n] = "gone"
        BY <1>t, <3>3 DEF Depart, Kinds
      <4> QED BY <3>3, <4>1, DepartFacts, AbsentFacts
    <3> QED BY <1>5, <3>1, <3>2, <3>3
  <2>2. UNCHANGED <<pods, seen>>
    BY <1>5 DEF Create, Delete, Depart, informers
  <2>3. /\ machine' \in [Node -> {"absent", "running", "failed", "deleting", "gone"}]
        /\ \A m \in Node : m # n => machine'[m] = machine[m]
        /\ machine'[n] # "absent" /\ (machine[n] = "gone" => machine'[n] = "gone")
    BY <1>t, <1>5 DEF Create, Delete, Depart, Kinds, InPhase
  <2>4. Kinds'
    BY <1>t, <1>1, <2>1, <2>2, <2>3 DEF Kinds, Becomes
  <2>5. ASSUME NEW m \in Node PROVE LifeOf(m)'
    <3>1. CASE m = n
      BY <1>t, <1>1, <2>1, <2>2, <2>3, <3>1 DEF LifeOf, Becomes
    <3>2. CASE m # n
      BY <1>t, <1>1, <2>1, <2>2, <2>3, <3>2 DEF LifeOf, Becomes
    <3> QED BY <3>1, <3>2
  <2> QED BY <1>1, <2>4, <2>5, Happens
<1> QED BY <1>2, <1>3, <1>4, <1>5

LEMMA TypeNext == TypeInv /\ [Next]_vars => TypeInv'
<1> SUFFICES ASSUME TypeInv, [Next]_vars PROVE TypeInv'
  OBVIOUS
<1>t. Kinds /\ \A m \in Node : HolderOf(m) /\ LifeOf(m)
  BY DEF TypeInv
<1>1. CASE PollStart
  <2>1. UNCHANGED <<node, pods, machine, marked, replicas, seen, read, lock>>
    BY <1>1 DEF PollStart, world, informers
  <2>2. /\ poll' \in PollType /\ pc' \in [Node -> Labels]
        /\ \A n \in Node : \/ pc'[n] = pc[n]
                           \/ /\ pc[n] = "none" /\ pc'[n] = "query" /\ seen[n].exists
    BY <1>1, PollStartFacts DEF Workload
  <2>3. Kinds' /\ \A n \in Node : LifeOf(n)' /\ HolderOf(n)'
    BY <1>t, <2>1, <2>2 DEF Kinds, LifeOf, HolderOf, Locked
  <2> QED BY <2>3 DEF TypeInv
<1>2. CASE PollNode
  <2>1. PICK n \in Node, o \in NodeObject :
          Becomes(n, o) /\ Alike(o, node[n]) /\ poll' \in PollType
    BY <1>2, PollNodeFacts
  <2>2. UNCHANGED <<pods, machine, marked, replicas, seen, pc, read, lock>>
    BY <1>2 DEF PollNode, informers
  <2>3. node' \in [Node -> NodeObject] /\ \A m \in Node : node'[m].exists = node[m].exists
    BY <2>1 DEF Becomes, Alike
  <2>4. Kinds' /\ \A m \in Node : LifeOf(m)'
    BY <1>t, <2>1, <2>2, <2>3 DEF Kinds, LifeOf
  <2> QED BY <2>2, <2>4, Happens
<1>3. CASE Grow
  <2>1. /\ replicas' = replicas + 1
        /\ UNCHANGED <<node, pods, machine, marked, seen, poll, pc, read, lock>>
    BY <1>3 DEF Grow, informers
  <2>2. Kinds'
    <3>1. replicas' \in Nat
      BY <1>t, <2>1 DEF Kinds
    <3> QED BY <1>t, <2>1, <3>1 DEF Kinds
  <2>3. \A n \in Node : LifeOf(n)'
    BY <1>t, <2>1 DEF LifeOf
  <2>4. \A n \in Node : HolderOf(n)'
    <3>1. replicas \in Nat /\ read \in Nat
      BY <1>t DEF Kinds
    <3> QED BY <1>t, <2>1, <3>1 DEF HolderOf
  <2> QED BY <2>2, <2>3, <2>4 DEF TypeInv
<1>4. CASE Restart
  <2>1. /\ UNCHANGED <<node, pods, machine, marked, replicas>> /\ seen' = node /\ poll' = NoPoll
        /\ pc' = [n \in Node |-> "none"] /\ lock' = Nobody /\ read' = 0
    BY <1>4 DEF Restart, world
  <2>2. NoPoll \in PollType
    BY DEF NoPoll, PollType
  <2>3. Kinds'
    BY <1>t, <2>1, <2>2 DEF Kinds, Labels
  <2>4. \A n \in Node : LifeOf(n)' /\ HolderOf(n)'
    BY <1>t, <2>1, NodeAssumption DEF LifeOf, HolderOf, Locked, Nobody
  <2> QED BY <2>3, <2>4 DEF TypeInv
<1>5. CASE UNCHANGED vars
  <2>1. UNCHANGED <<node, pods, machine, marked, replicas, seen, poll, pc, read, lock>>
    BY <1>5 DEF vars, world, informers
  <2>2. Kinds' /\ \A n \in Node : LifeOf(n)' /\ HolderOf(n)'
    BY <1>t, <2>1 DEF Kinds, LifeOf, HolderOf
  <2> QED BY <2>2 DEF TypeInv
<1>6. ASSUME NEW n \in Node, Advance(n) \/ Acquire(n) \/ Fails(n) \/ EvictFails(n)
                             \/ DecrementFails(n) \/ HoldExpires(n)
      PROVE  TypeInv'
  BY <1>6, TypeAdvance, TypeLocked DEF Advance
<1>7. ASSUME NEW n \in Node, MachineAPI(n) \/ Cluster(n) \/ Bind(n) \/ Matures(n)
                             \/ Maintain(n) \/ MachineFails(n)
      PROVE  TypeInv'
  BY <1>7, TypeWorld DEF MachineAPI, Cluster
<1> QED BY <1>1, <1>2, <1>3, <1>4, <1>5, <1>6, <1>7 DEF Next

\* Running machines are finitely many.
LEMMA StoodByFacts ==
  /\ StoodBy \subseteq InPhase("running") /\ IsFiniteSet(StoodBy)
  /\ Cardinality(StoodBy) \in Nat
<1>1. StoodBy \in SUBSET Node /\ StoodBy \subseteq InPhase("running")
  BY DEF StoodBy, InPhase
<1>2. IsFiniteSet(StoodBy)
  BY <1>1, NodeAssumption, FS_Subset
<1> QED BY <1>1, <1>2, FS_CardinalityType

\* The steps that change the count of replicas forgotten.
Forgets ==
  \/ \E n \in Node : \/ Decrement(n) \/ DecrementFails(n)
                     \/ HoldEnds(n) \/ HoldExpires(n) \/ Delete(n)
  \/ Restart

LEMMA ForgetsOrNot ==
  ASSUME [Next]_vars
  PROVE  Forgets \/ forgotten' = forgotten
<1>1. CASE PollStart \/ PollNode \/ Grow \/ UNCHANGED vars
  BY <1>1 DEF PollStart, PollNode, Grow, vars
<1>2. ASSUME NEW n \in Node,
             \/ Query(n) \/ MachineExists(n) \/ PodsOver(n) \/ Owner(n) \/ Evict(n)
             \/ NoExecute(n) \/ Annotate(n) \/ Fails(n) \/ EvictFails(n)
      PROVE  forgotten' = forgotten
  BY <1>2 DEF Query, MachineExists, PodsOver, Owner, Evict, NoExecute, Annotate, Fails,
              EvictFails
<1>3. ASSUME NEW n \in Node,
             \/ Acquire(n) \/ GetReplicas(n) \/ Done(n) \/ NotYet(n) \/ Commit(n)
             \/ Awake(n)
      PROVE  forgotten' = forgotten
  BY <1>3 DEF Acquire, GetReplicas, Done, NotYet, Commit, Awake
<1>4. ASSUME NEW n \in Node,
             \/ Create(n) \/ Depart(n) \/ SeeNode(n) \/ SeePods(n) \/ PodEnds(n)
             \/ MaintenanceEnds(n) \/ Bind(n) \/ Matures(n) \/ Maintain(n) \/ MachineFails(n)
      PROVE  forgotten' = forgotten
  BY <1>4 DEF Create, Depart, SeeNode, SeePods, PodEnds, MaintenanceEnds, Bind, Matures,
              Maintain, MachineFails
<1> QED BY <1>1, <1>2, <1>3, <1>4 DEF Next, Advance, MachineAPI, Cluster, Forgets

IsTally == forgotten \in Nat

LEMMA TallyNext ==
  TypeInv /\ IsTally /\ [Next]_vars => IsTally'
<1> SUFFICES ASSUME TypeInv, forgotten \in Nat, Forgets PROVE forgotten' \in Nat
  BY ForgetsOrNot DEF IsTally
<1>1. CASE Restart
  BY <1>1, StoodByFacts DEF Restart
<1>2. ASSUME NEW n \in Node,
             \/ Decrement(n) \/ DecrementFails(n)
             \/ HoldEnds(n) \/ HoldExpires(n) \/ Delete(n)
      PROVE  forgotten' \in Nat
  <2>1. CASE HoldEnds(n) \/ HoldExpires(n) \/ Delete(n)
    <3>1. forgotten' \in {0, forgotten, forgotten + 1}
      BY <2>1 DEF HoldEnds, HoldExpires, Delete
    <3> QED BY <3>1
  <2>2. CASE Decrement(n) \/ DecrementFails(n)
    <3>1. replicas \in Nat /\ read \in Nat /\ read <= replicas
      BY <2>2 DEF TypeInv, Kinds, HolderOf, Decrement, DecrementFails, At
    <3>2. replicas - read \in Nat
      BY <3>1
    <3>3. forgotten' \in {forgotten, forgotten + (replicas - read),
                         forgotten + (replicas - read) + 1, forgotten + (replicas - read) + 0}
      BY <2>2 DEF Decrement, DecrementFails
    <3> QED BY <3>2, <3>3
  <2> QED BY <1>2, <2>1, <2>2
<1> QED BY <1>1, <1>2 DEF Forgets

\* The state keeps its types, at most one goroutine is in the section of the lock, and it
\* is the one that holds it.
THEOREM TypeCorrect == Spec => []TypeOK
<1>1. Spec => []TypeInv
  BY TypeInit, TypeNext, PTL DEF Spec
<1>2. Init => IsTally
  BY DEF Init, IsTally
<1>3. Spec => []IsTally
  BY <1>1, <1>2, TallyNext, PTL DEF Spec
<1>4. TypeInv /\ IsTally => TypeOK
  BY DEF TypeInv, IsTally, Kinds, TypeOK, HolderOf, LifeOf, Locked, Labels, NodeObject, Taint
<1> QED BY <1>1, <1>3, <1>4, PTL

-----------------------------------------------------------------------------
(* Replicas and machines.                                                    *)

Alive == InPhase("running") \cup InPhase("failed")

\* Those for which a goroutine is about to take a replica.
Patching == {n \in Node : pc[n] = "patch"}

\* Machines that have to have a replica: those that run and no goroutine waits for, and the
\* one whose replica is about to be taken, be it on its way out already.
Needy == (InPhase("running") \ StoodBy) \cup Patching

\* Machines that count as replicas and need none.
Spare == StoodBy \cup InPhase("failed")

\* There are no more that need one than replicas and replicas forgotten; whoever waits for a
\* machine, or is about to take its replica, has marked it; where that one has been removed
\* instead of another, the other is still there, or its replica is forgotten.
Counted ==
  /\ forgotten \in Nat
  /\ StoodBy \subseteq marked
  /\ \A n \in Node : pc[n] \in Locked \cup {"lock"} => n \in marked
  /\ Cardinality(Needy) <= replicas + forgotten
  /\ Patching \subseteq Alive \/ Spare # {} \/ forgotten > 0

LEMMA NeedyFacts ==
  /\ IsFiniteSet(Alive) /\ Cardinality(Alive) \in Nat /\ Alive \subseteq Node
  /\ IsFiniteSet(Needy) /\ Cardinality(Needy) \in Nat /\ Needy \subseteq Alive \cup Patching
<1>1. /\ Alive \in SUBSET Node /\ Needy \in SUBSET Node
      /\ Needy \subseteq Alive \cup Patching
  BY DEF Alive, Needy, Patching, InPhase
<1>2. IsFiniteSet(Alive) /\ IsFiniteSet(Needy)
  BY <1>1, NodeAssumption, FS_Subset
<1> QED BY <1>1, <1>2, FS_CardinalityType

\* How the number of those that need a replica changes.
LEMMA NeedyChanges ==
  ASSUME Counted
  PROVE  /\ Needy' \subseteq Needy => Cardinality(Needy') <= Cardinality(Needy)
         /\ \A n \in Needy : Needy' \subseteq Needy \ {n}
              => Cardinality(Needy') <= Cardinality(Needy) - 1
         /\ \A n : Needy' \subseteq Needy \cup {n}
              => Cardinality(Needy') <= Cardinality(Needy) + 1
         /\ Needy' \subseteq Needy \cup StoodBy
              => Cardinality(Needy') <= Cardinality(Needy) + Cardinality(StoodBy)
         /\ Needy' \subseteq Alive => Cardinality(Needy') <= Cardinality(Alive)
         /\ Cardinality(Needy') \in Nat
<1>1. ASSUME NEW S, IsFiniteSet(S), Needy' \subseteq S
      PROVE  Cardinality(Needy') <= Cardinality(S) /\ Cardinality(Needy') \in Nat
  <2>1. Needy' \in SUBSET S
    BY <1>1
  <2>2. IsFiniteSet(Needy') /\ Cardinality(Needy') <= Cardinality(S)
    BY <1>1, <2>1, FS_Subset
  <2> QED BY <2>2, FS_CardinalityType
<1>2. Needy' \subseteq Needy => Cardinality(Needy') <= Cardinality(Needy)
  BY <1>1, NeedyFacts
<1>3. ASSUME NEW n \in Needy, Needy' \subseteq Needy \ {n}
      PROVE  Cardinality(Needy') <= Cardinality(Needy) - 1
  <2>1. IsFiniteSet(Needy \ {n}) /\ Cardinality(Needy \ {n}) = Cardinality(Needy) - 1
    BY NeedyFacts, FS_RemoveElement
  <2> QED BY <1>1, <1>3, <2>1
<1>4. ASSUME NEW n, Needy' \subseteq Needy \cup {n}
      PROVE  Cardinality(Needy') <= Cardinality(Needy) + 1
  <2>1. /\ IsFiniteSet(Needy \cup {n})
        /\ Cardinality(Needy \cup {n}) = IF n \in Needy THEN Cardinality(Needy)
                                         ELSE Cardinality(Needy) + 1
    BY NeedyFacts, FS_AddElement
  <2>2. Cardinality(Needy') <= Cardinality(Needy \cup {n}) /\ Cardinality(Needy') \in Nat
    BY <1>1, <1>4, <2>1
  <2> QED BY <2>1, <2>2, NeedyFacts
<1>5. ASSUME Needy' \subseteq Needy \cup StoodBy
      PROVE  Cardinality(Needy') <= Cardinality(Needy) + Cardinality(StoodBy)
  <2>1. /\ IsFiniteSet(Needy \cup StoodBy) /\ IsFiniteSet(Needy \cap StoodBy)
        /\ Cardinality(Needy \cup StoodBy)
             = Cardinality(Needy) + Cardinality(StoodBy) - Cardinality(Needy \cap StoodBy)
    BY NeedyFacts, StoodByFacts, FS_Union, FS_Intersection
  <2>2. Cardinality(Needy \cap StoodBy) \in Nat
    BY <2>1, FS_CardinalityType
  <2>3. Cardinality(Needy') <= Cardinality(Needy \cup StoodBy) /\ Cardinality(Needy') \in Nat
    BY <1>1, <1>5, <2>1
  <2> QED BY <2>1, <2>2, <2>3, NeedyFacts, StoodByFacts
<1>6. Needy' \subseteq Alive => Cardinality(Needy') <= Cardinality(Alive)
  BY <1>1, NeedyFacts
<1>7. Cardinality(Needy') \in Nat
  <2>1. Needy' \subseteq Node
    BY DEF Needy, Patching, InPhase
  <2> QED BY <1>1, <2>1, NodeAssumption
<1> QED BY <1>2, <1>3, <1>4, <1>5, <1>6, <1>7

LEMMA CountedInit == TypeInv /\ Init => Counted
<1> SUFFICES ASSUME TypeInv, Init PROVE Counted
  OBVIOUS
<1>1. \A n \in Node : pc[n] = "none"
  BY DEF Init
<1>2. Patching = {} /\ StoodBy = {}
  BY <1>1 DEF Patching, StoodBy, InPhase
<1>3. Needy = Initially
  BY <1>2, NodeAssumption DEF Init, Needy, InPhase
<1>4. Cardinality(Needy) = replicas /\ forgotten = 0
  BY <1>3 DEF Init
<1> QED BY <1>1, <1>2, <1>4, NeedyFacts DEF Counted, Locked

\* A goroutine in the section of the lock is alone there.
LEMMA AloneFacts ==
  ASSUME TypeInv, NEW n \in Node, pc[n] \in Locked, NEW m \in Node, m # n
  PROVE  pc[m] \notin Locked
BY DEF TypeInv, HolderOf

\* A goroutine that takes no replica, and leaves no running machine alone, goes on.
LEMMA CountedMoves ==
  ASSUME TypeInv, Counted, NEW n \in Node, NEW label \in Labels, Goto(n, label),
         machine' = machine, replicas' = replicas, forgotten' = forgotten,
         marked \subseteq marked',
         label # "patch", label \in Locked \cup {"lock"} => n \in marked',
         machine[n] = "running" => pc[n] # "hold" /\ (label = "hold" => n \in marked')
  PROVE  Counted'
<1>1. \A m \in Node : pc'[m] = IF m = n THEN label ELSE pc[m]
  BY LabelFacts
<1>2. Alive' = Alive /\ InPhase("running")' = InPhase("running")
  BY DEF Alive, InPhase
<1>3. Patching' \subseteq Patching
  BY <1>1 DEF Patching
<1>4. Needy' \subseteq Needy /\ Spare \subseteq Spare'
  <2>1. StoodBy \subseteq StoodBy' /\ InPhase("failed")' = InPhase("failed")
    BY <1>1, <1>2 DEF StoodBy, InPhase
  <2> QED BY <1>2, <1>3, <2>1 DEF Needy, Spare
<1>5. StoodBy' \subseteq marked'
  BY <1>1, <1>2 DEF StoodBy, Counted, InPhase
<1>6. \A m \in Node : pc'[m] \in Locked \cup {"lock"} => m \in marked'
  BY <1>1 DEF Counted
<1>7. Cardinality(Needy') <= replicas' + forgotten'
  <2>1. replicas \in Nat /\ forgotten \in Nat
    BY DEF TypeInv, Kinds, Counted
  <2>2. Cardinality(Needy') <= Cardinality(Needy) /\ Cardinality(Needy') \in Nat
    BY <1>4, NeedyChanges
  <2> QED BY <2>1, <2>2, NeedyFacts DEF Counted
<1> QED BY <1>2, <1>3, <1>4, <1>5, <1>6, <1>7 DEF Counted

\* The goroutine takes a replica; the answer may be lost, and the patch with it.
LEMMA CountedTakes ==
  ASSUME TypeInv, Counted, NEW n \in Node, Decrement(n) \/ DecrementFails(n)
  PROVE  Counted'
<1>1. pc[n] = "patch" /\ machine' = machine /\ marked' = marked
  BY DEF Decrement, DecrementFails, At
<1>2. /\ replicas \in Nat /\ read \in Nat /\ read <= replicas /\ read > 0
      /\ forgotten \in Nat
  BY <1>1 DEF TypeInv, Kinds, HolderOf, Counted
<1>3. PICK label \in {"sleep", "hold"} : Goto(n, label) /\ (label = "hold" <=> Decrement(n))
  <2>1. Decrement(n) => Goto(n, "hold")
    BY DEF Decrement
  <2>2. DecrementFails(n) => Goto(n, "sleep")
    BY DEF DecrementFails
  <2>3. ~(Goto(n, "hold") /\ Goto(n, "sleep"))
    BY DEF Goto, TypeInv, Kinds
  <2> QED BY <2>1, <2>2, <2>3
<1>4. \A m \in Node : pc'[m] = IF m = n THEN label ELSE pc[m]
  BY <1>3, LabelFacts DEF Labels
<1>5. Patching = {n} /\ Patching' = {}
  BY <1>1, <1>4, AloneFacts DEF Patching, Locked
<1>6. InPhase("running")' = InPhase("running") /\ Alive' = Alive
  BY <1>1 DEF InPhase, Alive
<1>7. /\ n \in Needy /\ Needy' \subseteq Needy
      /\ label = "hold" \/ machine[n] # "running" => Needy' \subseteq Needy \ {n}
  BY <1>4, <1>5, <1>6 DEF Needy, StoodBy, InPhase
<1>8. StoodBy' \subseteq marked' /\ \A m \in Node : pc'[m] \in Locked \cup {"lock"} => m \in marked'
  BY <1>1, <1>4, <1>6 DEF Counted, StoodBy, Locked, InPhase
<1>9. \/ replicas' = replicas /\ forgotten' = forgotten
      \/ /\ replicas' = read - 1 /\ forgotten' = forgotten + (replicas - read)
         /\ Needy' \subseteq Needy \ {n}
      \/ replicas' = read - 1 /\ forgotten' = forgotten + (replicas - read) + 1
  <2>1. CASE Decrement(n)
    BY <1>3, <1>7, <2>1 DEF Decrement
  <2>2. CASE DecrementFails(n) /\ replicas' = replicas
    BY <2>2 DEF DecrementFails
  <2>3. CASE DecrementFails(n) /\ replicas' # replicas /\ machine[n] = "running"
    BY <2>3 DEF DecrementFails
  <2>4. CASE DecrementFails(n) /\ replicas' # replicas /\ machine[n] # "running"
    <3>1. replicas' = read - 1 /\ forgotten' = forgotten + (replicas - read) + 0
      BY <2>4 DEF DecrementFails
    <3> QED BY <1>2, <1>7, <2>4, <3>1
  <2> QED BY <2>1, <2>2, <2>3, <2>4
<1>10. Cardinality(Needy') <= replicas' + forgotten'
  <2>1. /\ Cardinality(Needy') <= Cardinality(Needy) /\ Cardinality(Needy') \in Nat
        /\ Needy' \subseteq Needy \ {n} => Cardinality(Needy') <= Cardinality(Needy) - 1
    BY <1>7, NeedyChanges
  <2>2. Cardinality(Needy) <= replicas + forgotten
    BY DEF Counted
  <2> QED BY <1>2, <1>9, <2>1, <2>2, NeedyFacts
<1>11. forgotten' \in Nat
  BY <1>2, <1>9
<1> QED BY <1>5, <1>8, <1>10, <1>11 DEF Counted

LEMMA CountedCommit ==
  ASSUME TypeInv, Counted, NEW n \in Node, Commit(n)
  PROVE  Counted'
<1>1. /\ pc[n] = "phase" /\ machine[n] = "running" /\ Goto(n, "patch")
      /\ UNCHANGED <<machine, marked, replicas, forgotten>>
  BY DEF Commit, Proceeds, At, world
<1>2. \A m \in Node : pc'[m] = IF m = n THEN "patch" ELSE pc[m]
  BY <1>1, LabelFacts DEF Labels
<1>3. Alive' = Alive /\ InPhase("running")' = InPhase("running") /\ n \in Alive
  BY <1>1 DEF Alive, InPhase
<1>4. Patching' = {n} /\ StoodBy' = StoodBy
  BY <1>1, <1>2, <1>3, AloneFacts DEF Patching, StoodBy, Locked, InPhase
<1>5. Needy' \subseteq Needy
  BY <1>1, <1>3, <1>4 DEF Needy, StoodBy, InPhase
<1>6. \A m \in Node : pc'[m] \in Locked \cup {"lock"} => m \in marked'
  BY <1>1, <1>2 DEF Counted, Locked
<1>7. Cardinality(Needy') <= replicas' + forgotten'
  <2>1. replicas \in Nat /\ forgotten \in Nat
    BY DEF TypeInv, Kinds, Counted
  <2>2. Cardinality(Needy') <= Cardinality(Needy) /\ Cardinality(Needy') \in Nat
    BY <1>5, NeedyChanges
  <2> QED BY <1>1, <2>1, <2>2, NeedyFacts DEF Counted
<1> QED BY <1>1, <1>3, <1>4, <1>6, <1>7 DEF Counted

LEMMA CountedCreate ==
  ASSUME TypeInv, Counted, NEW n \in Node, Create(n)
  PROVE  Counted'
<1>1. /\ machine[n] = "absent" /\ Cardinality(Alive) < replicas
      /\ machine' = [machine EXCEPT ![n] = "running"]
      /\ UNCHANGED <<marked, replicas, pc, forgotten>>
  BY DEF Create, Alive
<1>2. \A m \in Node : machine'[m] = IF m = n THEN "running" ELSE machine[m]
  BY <1>1 DEF TypeInv, Kinds
<1>3. pc[n] = "none"
  BY <1>1 DEF TypeInv, LifeOf
<1>4. replicas \in Nat /\ forgotten \in Nat
  BY DEF TypeInv, Kinds, Counted
<1>5. Patching' = Patching
  BY <1>1 DEF Patching
<1>6. /\ Alive' = Alive \cup {n} /\ n \notin Alive /\ StoodBy' = StoodBy /\ Spare' = Spare
      /\ Spare \subseteq Alive
  BY <1>1, <1>2, <1>3 DEF Alive, StoodBy, Spare, InPhase
<1>7. Cardinality(Alive') <= replicas /\ Cardinality(Alive') \in Nat /\ IsFiniteSet(Alive')
  <2>1. Cardinality(Alive') = Cardinality(Alive) + 1 /\ IsFiniteSet(Alive')
    BY <1>6, NeedyFacts, FS_AddElement
  <2> QED BY <1>1, <1>4, <2>1, NeedyFacts
<1>8. Needy' \subseteq Alive' \cup Patching
  BY <1>5, <1>6 DEF Needy, Alive
<1>9. Cardinality(Needy') <= replicas' + forgotten'
  <2>1. CASE Patching \subseteq Alive
    <3>1. Needy' \in SUBSET Alive'
      BY <1>6, <1>8, <2>1
    <3>2. Cardinality(Needy') <= Cardinality(Alive')
      BY <1>7, <3>1, FS_Subset
    <3> QED BY <1>1, <1>4, <1>7, <3>2, NeedyChanges
  <2>2. ASSUME NEW m \in Patching, m \notin Alive
        PROVE  Cardinality(Needy') <= replicas' + forgotten'
    <3>1. Patching = {m} /\ m \notin Alive'
      <4>1. pc[m] \in Locked /\ m \in Node /\ m # n
        BY <1>3, <2>2 DEF Patching, Locked
      <4> QED BY <1>6, <2>2, <4>1, AloneFacts DEF Patching, Locked
    <3>2. CASE forgotten > 0
      <4>1. /\ IsFiniteSet(Alive' \cup {m})
            /\ Cardinality(Alive' \cup {m}) = Cardinality(Alive') + 1
        BY <1>7, <3>1, FS_AddElement
      <4>2. Needy' \in SUBSET (Alive' \cup {m})
        BY <1>8, <3>1
      <4>3. Cardinality(Needy') <= Cardinality(Alive') + 1 /\ Cardinality(Needy') \in Nat
        BY <4>1, <4>2, FS_Subset, NeedyChanges
      <4> QED BY <1>1, <1>4, <1>7, <3>2, <4>3
    <3>3. ASSUME NEW w \in Spare
          PROVE  Cardinality(Needy') <= replicas' + forgotten'
      <4> DEFINE S == Alive' \ {w}
      <4>1. w \in Alive' /\ w # m /\ w \notin Needy'
        <5>1. w \in Alive /\ w # m /\ w # n
          BY <1>6, <2>2, <3>3
        <5>2. w \notin InPhase("running")' \/ w \in StoodBy'
          BY <1>2, <1>6, <5>1 DEF Spare, StoodBy, InPhase
        <5> QED BY <1>5, <1>6, <3>1, <5>1, <5>2 DEF Needy
      <4>2. IsFiniteSet(S) /\ Cardinality(S) = Cardinality(Alive') - 1 /\ m \notin S
        BY <1>7, <3>1, <4>1, FS_RemoveElement
      <4>3. Needy' \in SUBSET (S \cup {m})
        BY <1>8, <3>1, <4>1
      <4> HIDE DEF S
      <4>4. IsFiniteSet(S \cup {m}) /\ Cardinality(S \cup {m}) = Cardinality(S) + 1
        BY <4>2, FS_AddElement
      <4>5. IsFiniteSet(S \cup {m}) /\ Cardinality(S \cup {m}) = Cardinality(Alive')
        BY <1>7, <4>2, <4>4
      <4>6. Cardinality(Needy') <= Cardinality(Alive') /\ Cardinality(Needy') \in Nat
        BY <4>5, <4>3, FS_Subset, NeedyChanges
      <4> QED BY <1>1, <1>4, <1>7, <4>6
    <3> QED BY <2>2, <3>2, <3>3 DEF Counted
  <2> QED BY <2>1, <2>2
<1> QED BY <1>1, <1>4, <1>5, <1>6, <1>9 DEF Counted

\* When there are again as many machines as replicas, nothing is owed.
LEMMA CountedDelete ==
  ASSUME TypeInv, Counted, NEW n \in Node, Delete(n)
  PROVE  Counted'
<1>1. /\ Cardinality(Alive) > replicas /\ n \in Alive
      /\ machine' = [machine EXCEPT ![n] = "deleting"]
      /\ forgotten' = IF Cardinality(Alive) = replicas + 1 /\ \A m \in Node : pc[m] # "patch"
                      THEN 0 ELSE forgotten
      /\ UNCHANGED <<marked, replicas, pc>>
  BY DEF Delete, Alive
<1>2. \A m \in Node : machine'[m] = IF m = n THEN "deleting" ELSE machine[m]
  BY <1>1 DEF TypeInv, Kinds
<1>3. /\ Alive' = Alive \ {n} /\ StoodBy' = StoodBy \ {n} /\ Patching' = Patching
      /\ InPhase("running")' = InPhase("running") \ {n} /\ Spare' = Spare \ {n}
  BY <1>1, <1>2 DEF Alive, StoodBy, Patching, Spare, InPhase
<1>4. Cardinality(Alive') = Cardinality(Alive) - 1 /\ IsFiniteSet(Alive')
  BY <1>1, <1>3, NeedyFacts, FS_RemoveElement
<1>5. replicas \in Nat /\ forgotten \in Nat
  BY DEF TypeInv, Kinds, Counted
<1>6. Patching' \subseteq Alive' \/ Spare' # {} \/ forgotten' > 0
  <2> SUFFICES ASSUME NEW m \in Patching, m \notin Alive', forgotten' = 0
               PROVE  Spare \ {n} # {}
    BY <1>3, <1>1, <1>5
  <2>1. forgotten = 0 /\ Cardinality(Needy) <= replicas
    BY <1>1, <1>5 DEF Patching, Counted
  <2>2. Cardinality(Needy) < Cardinality(Alive)
    BY <1>1, <1>5, <2>1, NeedyFacts
  <2>3. m = n \/ m \notin Alive
    BY <1>3
  <2>4. m \in Needy /\ m \notin StoodBy
    BY DEF Needy, Patching, StoodBy
  <2>5. CASE m = n
    <3>1. \E w \in Alive : w \notin Needy
      <4> SUFFICES ASSUME Alive \in SUBSET Needy PROVE FALSE
        OBVIOUS
      <4> QED BY <2>2, NeedyFacts, FS_Subset
    <3> QED BY <2>4, <2>5, <3>1 DEF Alive, Needy, Spare
  <2>6. CASE m \notin Alive
    <3> SUFFICES ASSUME Spare \subseteq {n} PROVE FALSE
      OBVIOUS
    <3>1. (Alive \ {n}) \cup {m} \in SUBSET Needy
      BY <2>4 DEF Alive, Needy, Spare
    <3>2. IsFiniteSet(Alive \ {n}) /\ Cardinality(Alive \ {n}) = Cardinality(Alive) - 1
      BY <1>1, NeedyFacts, FS_RemoveElement
    <3>3. Cardinality((Alive \ {n}) \cup {m}) = Cardinality(Alive \ {n}) + 1
      BY <2>6, <3>2, FS_AddElement
    <3>4. Cardinality((Alive \ {n}) \cup {m}) = Cardinality(Alive)
      BY <3>2, <3>3, NeedyFacts
    <3> QED BY <2>2, <3>1, <3>4, NeedyFacts, FS_Subset
  <2> QED BY <2>3, <2>5, <2>6
<1>7. Cardinality(Needy') <= replicas' + forgotten'
  <2>1. CASE Cardinality(Alive) = replicas + 1 /\ \A m \in Node : pc[m] # "patch"
    <3>1. Needy' \in SUBSET Alive'
      BY <1>3, <2>1 DEF Needy, Alive, Patching
    <3>2. Cardinality(Needy') <= Cardinality(Alive') /\ Cardinality(Needy') \in Nat
      BY <1>4, <3>1, FS_Subset, NeedyChanges
    <3> QED BY <1>1, <1>4, <1>5, <2>1, <3>2, NeedyFacts
  <2>2. CASE forgotten' = forgotten
    <3>1. Needy' \subseteq Needy
      BY <1>3 DEF Needy
    <3>2. Cardinality(Needy') <= Cardinality(Needy) /\ Cardinality(Needy') \in Nat
      BY <3>1, NeedyChanges
    <3> QED BY <1>1, <1>5, <2>2, <3>2, NeedyFacts DEF Counted
  <2> QED BY <1>1, <2>1, <2>2
<1>8. StoodBy' \subseteq marked' /\ forgotten' \in Nat
  BY <1>1, <1>3, <1>5 DEF Counted
<1> QED BY <1>1, <1>6, <1>7, <1>8 DEF Counted

\* The goroutine leaves off: its machine is gone, or has its replica again, or its replica is
\* forgotten.
LEMMA CountedHolds ==
  ASSUME TypeInv, Counted, NEW n \in Node, HoldEnds(n) \/ HoldExpires(n)
  PROVE  Counted'
<1>1. /\ UNCHANGED <<machine, marked, replicas, seen>> /\ pc[n] = "hold" /\ Goto(n, "none")
  BY DEF HoldEnds, HoldExpires, At, world, informers
<1>2. \A m \in Node : pc'[m] = IF m = n THEN "none" ELSE pc[m]
  BY <1>1, LabelFacts DEF Labels
<1>3. Alive' = Alive /\ InPhase("running")' = InPhase("running")
  BY <1>1 DEF Alive, InPhase
<1>4. /\ Patching' = Patching /\ StoodBy' = StoodBy \ {n}
      /\ n \notin StoodBy => Spare' = Spare
  BY <1>1, <1>2, <1>3 DEF Patching, StoodBy, Spare, InPhase
<1>5. Needy' \subseteq Needy \cup {n} /\ (n \notin StoodBy => Needy' \subseteq Needy)
  BY <1>3, <1>4 DEF Needy
<1>6. replicas \in Nat /\ forgotten \in Nat /\ Cardinality(Needy) <= replicas + forgotten
  BY DEF TypeInv, Kinds, Counted
<1>7. CASE forgotten' = forgotten + 1
  <2>1. Cardinality(Needy') <= Cardinality(Needy) + 1 /\ Cardinality(Needy') \in Nat
    BY <1>5, NeedyChanges
  <2>2. Cardinality(Needy') <= replicas' + forgotten'
    BY <1>1, <1>6, <1>7, <2>1, NeedyFacts
  <2> QED BY <1>1, <1>2, <1>3, <1>4, <1>6, <1>7, <2>2 DEF Counted, Locked
<1>8. CASE n \notin StoodBy /\ forgotten' = forgotten
  <2>1. Cardinality(Needy') <= Cardinality(Needy) /\ Cardinality(Needy') \in Nat
    BY <1>5, <1>8, NeedyChanges
  <2>2. Cardinality(Needy') <= replicas' + forgotten'
    BY <1>1, <1>6, <1>8, <2>1, NeedyFacts
  <2> QED BY <1>1, <1>2, <1>3, <1>4, <1>6, <1>8, <2>2 DEF Counted, Locked
<1>9. CASE /\ Settled /\ forgotten' = forgotten
           /\ \A m \in Node : pc[m] = "patch" => machine[m] = "running"
  <2>1. Patching \subseteq InPhase("running")
    BY <1>9 DEF Patching, InPhase
  <2>2. Needy' \subseteq Alive
    BY <1>3, <1>4, <2>1 DEF Needy, Alive
  <2>3. Cardinality(Needy') <= Cardinality(Alive) /\ Cardinality(Needy') \in Nat
    BY <2>2, NeedyChanges
  <2>4. Cardinality(Needy') <= replicas' + forgotten'
    BY <1>1, <1>6, <1>9, <2>3, NeedyFacts DEF Settled, Alive
  <2> QED BY <1>1, <1>2, <1>3, <1>4, <1>6, <1>9, <2>1, <2>4 DEF Counted, Locked, Alive
<1>10. ~seen[n].exists => n \notin StoodBy
  BY <1>1 DEF TypeInv, LifeOf, StoodBy, InPhase
<1> QED BY <1>7, <1>8, <1>9, <1>10 DEF HoldEnds, HoldExpires

LEMMA CountedRestart ==
  ASSUME TypeInv, Counted, Restart
  PROVE  Counted'
<1>1. /\ UNCHANGED <<machine, marked, replicas>> /\ pc' = [n \in Node |-> "none"]
      /\ forgotten' = forgotten + Cardinality(StoodBy)
  BY DEF Restart, world
<1>2. InPhase("running")' = InPhase("running") /\ Patching' = {} /\ StoodBy' = {}
  BY <1>1 DEF InPhase, Patching, StoodBy
<1>3. Needy' \subseteq Needy \cup StoodBy
  BY <1>2 DEF Needy
<1>4. Cardinality(Needy') <= replicas' + forgotten' /\ forgotten' \in Nat
  <2>1. replicas \in Nat /\ forgotten \in Nat /\ Cardinality(Needy) <= replicas + forgotten
    BY DEF TypeInv, Kinds, Counted
  <2>2. /\ Cardinality(Needy') <= Cardinality(Needy) + Cardinality(StoodBy)
        /\ Cardinality(Needy') \in Nat
    BY <1>3, NeedyChanges
  <2> QED BY <1>1, <2>1, <2>2, NeedyFacts, StoodByFacts
<1> QED BY <1>1, <1>2, <1>4 DEF Counted, Locked

LEMMA CountedNext ==
  TypeInv /\ Counted /\ [Next]_vars => Counted'
<1> SUFFICES ASSUME TypeInv, Counted, [Next]_vars PROVE Counted'
  OBVIOUS
<1>t. /\ machine \in [Node -> {"absent", "running", "failed", "deleting", "gone"}]
      /\ pc \in [Node -> Labels] /\ replicas \in Nat /\ forgotten \in Nat
  BY DEF TypeInv, Kinds, Counted
<1>1. ASSUME Needy' \subseteq Needy, Alive' = Alive, Patching' \subseteq Patching,
             StoodBy' \subseteq StoodBy, Spare \subseteq Spare', UNCHANGED <<marked, replicas, forgotten>>,
             \A n \in Node : pc'[n] \in Locked \cup {"lock"} => pc[n] \in Locked \cup {"lock"}
      PROVE  Counted'
  <2>1. Cardinality(Needy') <= Cardinality(Needy) /\ Cardinality(Needy') \in Nat
    BY <1>1, NeedyChanges
  <2>2. Cardinality(Needy') <= replicas' + forgotten'
    BY <1>t, <1>1, <2>1, NeedyFacts DEF Counted
  <2> QED BY <1>1, <2>2 DEF Counted
<1>2. CASE PollStart
  <2>1. UNCHANGED <<machine, marked, replicas, forgotten>>
    BY <1>2 DEF PollStart, world
  <2>2. \A n \in Node : \/ pc'[n] = pc[n]
                        \/ pc[n] = "none" /\ pc'[n] = "query"
    BY <1>2, PollStartFacts
  <2>3. /\ Alive' = Alive /\ StoodBy' = StoodBy /\ Spare' = Spare
        /\ Patching' = Patching /\ Needy' = Needy
    BY <2>1, <2>2 DEF Alive, StoodBy, Spare, Patching, Needy, InPhase
  <2> QED BY <1>1, <2>1, <2>2, <2>3 DEF Locked
<1>3. CASE PollNode \/ UNCHANGED vars
  <2>1. UNCHANGED <<machine, marked, replicas, pc, forgotten>>
    BY <1>3 DEF PollNode, vars, world
  <2>2. /\ Alive' = Alive /\ StoodBy' = StoodBy /\ Spare' = Spare
        /\ Patching' = Patching /\ Needy' = Needy
    BY <2>1 DEF Alive, StoodBy, Spare, Patching, Needy, InPhase
  <2> QED BY <1>1, <2>1, <2>2
<1>4. CASE Grow
  <2>1. replicas' = replicas + 1 /\ UNCHANGED <<machine, marked, pc, forgotten>>
    BY <1>4 DEF Grow
  <2>2. /\ Alive' = Alive /\ StoodBy' = StoodBy /\ Spare' = Spare
        /\ Patching' = Patching /\ Needy' = Needy
    BY <2>1 DEF Alive, StoodBy, Spare, Patching, Needy, InPhase
  <2>3. Cardinality(Needy') <= replicas' + forgotten'
    BY <1>t, <2>1, <2>2, NeedyFacts DEF Counted
  <2> QED BY <2>1, <2>2, <2>3 DEF Counted
<1>5. ASSUME NEW n \in Node, Query(n) \/ PodsOver(n) \/ Evict(n) \/ NoExecute(n) \/ Fails(n)
                             \/ EvictFails(n)
      PROVE  Counted'
  <2>1. UNCHANGED <<machine, marked, replicas, forgotten>> /\ pc[n] # "hold"
    BY <1>5 DEF Query, PodsOver, Evict, NoExecute, Fails, EvictFails, world, At
  <2>2. PICK label \in {"none", "exists", "owner", "noexecute", "annotate"} : Goto(n, label)
    BY <1>5 DEF Query, PodsOver, Evict, NoExecute, Fails, EvictFails
  <2> QED BY <2>1, <2>2, CountedMoves DEF Labels, Locked
<1>6. ASSUME NEW n \in Node, MachineExists(n) \/ Owner(n) \/ Annotate(n)
      PROVE  Counted'
  <2>1. PICK label \in {"wait", "evict", "lock", "hold"} :
          /\ Goto(n, label) /\ (label = "hold" <=> ~Exists(n))
          /\ label = "lock" => n \in marked'
    BY <1>6 DEF MachineExists, Owner, Annotate
  <2>2. /\ machine' = machine /\ replicas' = replicas /\ marked \subseteq marked'
        /\ pc[n] # "hold" /\ forgotten' = forgotten
    BY <1>6 DEF MachineExists, Owner, Annotate, world, At
  <2>3. ~Exists(n) => machine[n] # "running"
    BY DEF Exists
  <2> QED BY <2>1, <2>2, <2>3, CountedMoves DEF Labels, Locked
<1>7. ASSUME NEW n \in Node,
             Acquire(n) \/ GetReplicas(n) \/ Done(n) \/ NotYet(n) \/ Awake(n)
      PROVE  Counted'
  <2>1. PICK label \in {"get", "phase", "hold", "sleep"} : Goto(n, label)
    BY <1>7 DEF Acquire, GetReplicas, Done, NotYet, Awake
  <2>2. /\ UNCHANGED <<machine, marked, replicas, forgotten>>
        /\ pc[n] \in {"lock", "get", "phase", "sleep"}
    BY <1>7 DEF Acquire, GetReplicas, Done, NotYet, Awake, world, At
  <2>3. n \in marked
    BY <2>2 DEF Counted, Locked
  <2>4. label \in Labels /\ label # "patch" /\ pc[n] # "hold" /\ marked \subseteq marked'
    BY <2>2 DEF Labels
  <2> QED BY <2>1, <2>2, <2>3, <2>4, CountedMoves
<1>8. ASSUME NEW n \in Node, SeeNode(n) \/ SeePods(n) \/ PodEnds(n) \/ MaintenanceEnds(n)
                             \/ Bind(n) \/ Matures(n) \/ Maintain(n) \/ MachineFails(n)
                             \/ Depart(n)
       PROVE  Counted'
  <2>1. UNCHANGED <<marked, replicas, pc, forgotten>>
    BY <1>8 DEF SeeNode, SeePods, PodEnds, MaintenanceEnds, Bind, Matures, Maintain,
                MachineFails, Depart, world
  <2>2. \A m \in Node : /\ machine'[m] \in {"running", "failed"}
                             <=> machine[m] \in {"running", "failed"}
                        /\ machine'[m] = "running" => machine[m] = "running"
                        /\ machine[m] = "failed" => machine'[m] = "failed"
    BY <1>t, <1>8 DEF SeeNode, SeePods, PodEnds, MaintenanceEnds, Bind, Matures, Maintain,
                      MachineFails, Depart, world
  <2>3. /\ Alive' = Alive /\ Patching' = Patching
        /\ StoodBy' \subseteq StoodBy /\ Needy' \subseteq Needy /\ Spare \subseteq Spare'
    BY <2>1, <2>2 DEF Alive, StoodBy, Spare, Patching, Needy, InPhase
  <2> QED BY <1>1, <2>1, <2>3
<1> QED
  BY <1>2, <1>3, <1>4, <1>5, <1>6, <1>7, <1>8,
     CountedHolds, CountedTakes, CountedCommit, CountedCreate, CountedDelete, CountedRestart
     DEF Next, Advance, MachineAPI, Cluster

\* Those that need a replica include the machines that run unmarked.
LEMMA UnmarkedFacts ==
  ASSUME TypeInv, Counted
  PROVE  /\ Unmarked \subseteq Needy /\ Cardinality(Unmarked) \in Nat
         /\ Cardinality(Unmarked) <= replicas + forgotten
<1>1. Unmarked \in SUBSET Needy
  BY DEF Counted, Unmarked, Needy
<1>2. IsFiniteSet(Unmarked) /\ Cardinality(Unmarked) <= Cardinality(Needy)
  BY <1>1, NeedyFacts, FS_Subset
<1>3. Cardinality(Unmarked) \in Nat /\ replicas \in Nat /\ forgotten \in Nat
  BY <1>2, FS_CardinalityType DEF TypeInv, Kinds, Counted
<1> QED BY <1>1, <1>2, <1>3, NeedyFacts DEF Counted

\* Each replica taken has a marked machine to go for it, so that the machine API chooses
\* no other, but for the replicas that goroutines took and lost track of.  For any nodes
\* and scenarios, however long the machine API takes.
THEOREM Accounted == Spec => []ReplicasAccounted
<1>1. Init => TypeInv /\ Counted
  BY TypeInit, CountedInit
<1>2. TypeInv /\ Counted /\ [Next]_vars => (TypeInv /\ Counted)'
  BY TypeNext, CountedNext
<1>3. TypeInv /\ Counted => ReplicasAccounted
  BY UnmarkedFacts DEF ReplicasAccounted
<1> QED BY <1>1, <1>2, <1>3, PTL DEF Spec

-----------------------------------------------------------------------------
(* Nodes, and the pods on them.                                              *)

\* Where the goroutine of a node is until it has tainted the node.
Early == {"query", "exists", "wait", "owner", "evict", "noexecute"}

\* What the informer and the poll know of the taint: they do not forget it of a node that
\* the poll may write to.
TaintKnown(n) ==
  /\ Emptied(n) /\ seen[n].exists /\ ~seen[n].cordoned => "noexecute" \in seen[n].taints
  /\ Emptied(n) /\ n \in poll.todo => "noexecute" \in poll.taints[n]
  /\ "noexecute" \in seen[n].taints \cup poll.taints[n] => Emptied(n) \/ machine[n] = "gone"

\* Nothing uncordons a node in the hands of a goroutine, so that the pods cannot come back.
CordonKept(n) ==
  /\ pc[n] \in Early => /\ node[n].exists => node[n].cordoned
                        /\ seen[n].exists => seen[n].cordoned
                        /\ n \notin poll.todo
  /\ pc[n] \in Early \ {"query"} => pods[n] # "running"
  /\ seen[n].exists /\ seen[n].cordoned /\ ~seen[n].updating /\ node[n].exists
       => node[n].cordoned
  /\ node[n].updating => node[n].cordoned

\* A machine that may be removed has no pods, and will get none.
NoneToLose(n) ==
  /\ Emptied(n) => pods[n] # "running" /\ node[n].exists
  /\ n \in marked \/ pc[n] = "annotate" => Emptied(n) \/ machine[n] = "gone"
  /\ machine[n] = "failed" => ~node[n].ready /\ pods[n] # "running"

GuardedOf(n) == TaintKnown(n) /\ CordonKept(n) /\ NoneToLose(n)

Guarded == \A n \in Node : GuardedOf(n)

LEMMA GuardedInit == TypeInv /\ Init => Guarded
<1> SUFFICES ASSUME TypeInv, Init, NEW n \in Node PROVE GuardedOf(n)
  BY DEF Guarded
<1>1. /\ Absent.taints = {} /\ Joined.taints = {} /\ ~Absent.updating /\ ~Joined.updating
      /\ ~Absent.cordoned /\ ~Joined.cordoned /\ Joined \in NodeObject
  BY AbsentFacts DEF Absent, Joined, NodeObject
<1>2. \A b \in BOOLEAN : /\ [Joined EXCEPT !.young = b].taints = {}
                         /\ ~[Joined EXCEPT !.young = b].updating
                         /\ ~[Joined EXCEPT !.young = b].cordoned
  BY <1>1 DEF NodeObject
<1>3. (n # 1) \in BOOLEAN
  OBVIOUS
<1>4. /\ node[n].taints = {} /\ ~node[n].updating /\ ~node[n].cordoned /\ seen = node
  BY <1>1, <1>2, <1>3 DEF Init
<1>5. /\ pc[n] = "none" /\ poll.todo = {} /\ poll.taints[n] = {} /\ marked = {}
      /\ machine[n] \notin {"failed", "deleting"}
  BY DEF Init, NoPoll
<1> QED BY <1>4, <1>5 DEF GuardedOf, TaintKnown, CordonKept, NoneToLose, Emptied, Early

\* Nothing happens to a node, but that the poll may be done with it.
Kept(n) ==
  /\ node'[n] = node[n] /\ seen'[n] = seen[n] /\ pods'[n] = pods[n]
  /\ machine'[n] = machine[n] /\ pc'[n] = pc[n]
  /\ n \in marked' => n \in marked
  /\ poll'.taints[n] \subseteq poll.taints[n]
  /\ n \in poll'.todo => n \in poll.todo /\ poll'.taints[n] = poll.taints[n]

LEMMA GuardedElse ==
  ASSUME NEW n \in Node, GuardedOf(n), Kept(n)
  PROVE  GuardedOf(n)'
<1>1. TaintKnown(n)'
  BY DEF Kept, GuardedOf, TaintKnown, Emptied
<1>2. CordonKept(n)'
  BY DEF Kept, GuardedOf, CordonKept
<1>3. NoneToLose(n)'
  BY DEF Kept, GuardedOf, NoneToLose, Emptied
<1> QED BY <1>1, <1>2, <1>3 DEF GuardedOf

\* Only the goroutine of a node moves, and only its object and its mark change.
WorksOn(n) ==
  /\ \A m \in Node \ {n} : node'[m] = node[m] /\ pc'[m] = pc[m] /\ (m \in marked' => m \in marked)
  /\ UNCHANGED <<pods, machine, seen, poll>>

LEMMA GuardedWorks ==
  ASSUME Guarded, NEW n \in Node, WorksOn(n), GuardedOf(n)'
  PROVE  Guarded'
<1> SUFFICES ASSUME NEW m \in Node, m # n PROVE GuardedOf(m)'
  BY DEF Guarded
<1>1. Kept(m)
  BY DEF WorksOn, Kept
<1> QED BY <1>1, GuardedElse DEF Guarded

\* The goroutine goes on, and the node stays as it is but for other taints.
LEMMA GuardedMoves ==
  ASSUME TypeInv, Guarded, NEW n \in Node, NEW label \in Labels, Goto(n, label),
         label \in Early => pc[n] \in Early,
         label \in Early \ {"query"} => pods[n] # "running",
         label # "annotate",
         NEW o \in NodeObject, Becomes(n, o), Alike(o, node[n]),
         o.cordoned = node[n].cordoned, "noexecute" \in o.taints <=> Emptied(n),
         UNCHANGED <<pods, machine, marked, seen, poll>>
  PROVE  Guarded'
<1>1. \A m \in Node : pc'[m] = IF m = n THEN label ELSE pc[m]
  BY LabelFacts
<1>2. WorksOn(n)
  BY <1>1 DEF WorksOn, Becomes
<1>3. GuardedOf(n) /\ pc'[n] = label /\ node'[n] = o /\ (Emptied(n)' <=> Emptied(n))
  BY <1>1 DEF Guarded, Becomes, Emptied
<1>4. TaintKnown(n)'
  BY <1>3 DEF GuardedOf, TaintKnown
<1>5. CordonKept(n)'
  BY <1>3 DEF GuardedOf, CordonKept, Alike
<1>6. NoneToLose(n)'
  BY <1>3 DEF GuardedOf, NoneToLose, Alike
<1> QED BY <1>2, <1>4, <1>5, <1>6, GuardedWorks DEF GuardedOf

LEMMA GuardedNoExecute ==
  ASSUME TypeInv, Guarded, NEW n \in Node, NoExecute(n)
  PROVE  Guarded'
<1>1. PICK o \in NodeObject :
        /\ Becomes(n, o) /\ Alike(o, node[n]) /\ o.cordoned = node[n].cordoned
        /\ Emptied(n) => "noexecute" \in o.taints
        /\ "noexecute" \in o.taints /\ ~Emptied(n) => node[n].exists
        /\ seen[n].exists /\ node[n].exists /\ "noexecute" \notin seen[n].taints
             => "noexecute" \in o.taints
  BY NoExecuteFacts
<1>2. PICK label \in {"none", "annotate"} :
        Goto(n, label) /\ (label = "annotate" => seen[n].exists)
  BY DEF NoExecute
<1>3. pc[n] = "noexecute" /\ UNCHANGED <<pods, machine, marked, seen, poll>>
  BY DEF NoExecute, informers, At
<1>4. \A m \in Node : pc'[m] = IF m = n THEN label ELSE pc[m]
  BY <1>2, LabelFacts DEF Labels
<1>5. WorksOn(n)
  BY <1>1, <1>3, <1>4 DEF WorksOn, Becomes
<1>6. GuardedOf(n) /\ node'[n] = o /\ pc'[n] = label /\ (Emptied(n)' <=> "noexecute" \in o.taints)
  BY <1>1, <1>4 DEF Guarded, Becomes, Emptied
<1>7. /\ node[n].exists => node[n].cordoned
      /\ seen[n].exists => seen[n].cordoned
      /\ n \notin poll.todo /\ pods[n] # "running"
  BY <1>3, <1>6 DEF GuardedOf, CordonKept, Early
<1>8. LifeOf(n) /\ machine[n] \in {"absent", "running", "failed", "deleting", "gone"}
  BY DEF TypeInv, Kinds
<1>9. TaintKnown(n)'
  BY <1>1, <1>3, <1>6, <1>7 DEF GuardedOf, TaintKnown
<1>10. CordonKept(n)'
  BY <1>1, <1>2, <1>3, <1>6, <1>7 DEF GuardedOf, CordonKept, Alike, Early
<1>11. label = "annotate" => Emptied(n)' \/ machine[n] = "gone"
  BY <1>1, <1>2, <1>6, <1>8 DEF GuardedOf, TaintKnown, LifeOf
<1>12. Emptied(n)' => pods[n] # "running" /\ o.exists
  BY <1>1, <1>6, <1>7 DEF GuardedOf, NoneToLose, Alike
<1>13. NoneToLose(n)'
  BY <1>1, <1>3, <1>6, <1>11, <1>12 DEF GuardedOf, NoneToLose, Alike
<1> QED BY <1>5, <1>9, <1>10, <1>13, GuardedWorks DEF GuardedOf

LEMMA GuardedAnnotate ==
  ASSUME TypeInv, Guarded, NEW n \in Node, Annotate(n)
  PROVE  Guarded'
<1>1. /\ pc[n] = "annotate" /\ marked' \subseteq marked \cup {n}
      /\ UNCHANGED <<node, pods, machine, seen, poll>>
  BY DEF Annotate, At, informers
<1>2. PICK label \in {"lock", "hold"} : Goto(n, label)
  BY DEF Annotate
<1>3. \A m \in Node : pc'[m] = IF m = n THEN label ELSE pc[m]
  BY <1>2, LabelFacts DEF Labels
<1>4. WorksOn(n) /\ GuardedOf(n) /\ pc'[n] \notin Early \cup {"annotate"}
  BY <1>1, <1>3 DEF WorksOn, Guarded, Early
<1>5. TaintKnown(n)' /\ CordonKept(n)'
  BY <1>1, <1>4 DEF GuardedOf, TaintKnown, CordonKept, Emptied
<1>6. NoneToLose(n)'
  BY <1>1, <1>4 DEF GuardedOf, NoneToLose, Emptied
<1> QED BY <1>4, <1>5, <1>6, GuardedWorks DEF GuardedOf

LEMMA GuardedDelete ==
  ASSUME TypeInv, Guarded, NEW n \in Node, Delete(n)
  PROVE  Guarded'
<1>1. /\ n \in Alive /\ machine' = [machine EXCEPT ![n] = "deleting"]
      /\ UNCHANGED <<node, pods, marked, seen, poll, pc>>
  BY DEF Delete, Alive, informers
<1>2. \A m \in Node : machine'[m] = IF m = n THEN "deleting" ELSE machine[m]
  BY <1>1 DEF TypeInv, Kinds
<1>3. GuardedOf(n) /\ machine[n] # "gone"
  BY <1>1 DEF Guarded, Alive, InPhase
<1>4. TaintKnown(n)' /\ CordonKept(n)'
  BY <1>1, <1>2, <1>3 DEF GuardedOf, TaintKnown, CordonKept, Emptied
<1>5. NoneToLose(n)'
  BY <1>1, <1>2, <1>3 DEF GuardedOf, NoneToLose, Emptied
<1>6. ASSUME NEW m \in Node, m # n PROVE GuardedOf(m)'
  <2>1. Kept(m)
    BY <1>1, <1>2, <1>6 DEF Kept
  <2> QED BY <2>1, GuardedElse DEF Guarded
<1> QED BY <1>4, <1>5, <1>6 DEF Guarded, GuardedOf

LEMMA GuardedPollStart ==
  ASSUME TypeInv, Guarded, PollStart
  PROVE  Guarded'
<1>1. UNCHANGED <<node, pods, machine, marked, seen>>
  BY DEF PollStart, world, informers
<1> SUFFICES ASSUME NEW n \in Node PROVE GuardedOf(n)'
  BY DEF Guarded
<1>2. /\ n \in poll'.todo => seen[n].exists /\ ~seen[n].cordoned
      /\ poll'.taints[n] = IF n \in poll'.todo THEN seen[n].taints ELSE {}
      /\ \/ pc'[n] = pc[n]
         \/ /\ pc[n] = "none" /\ pc'[n] = "query"
            /\ seen[n].exists /\ ~seen[n].updating /\ seen[n].cordoned
  BY PollStartFacts DEF Workload, Schedulable
<1>3. GuardedOf(n)
  BY DEF Guarded
<1>4. TaintKnown(n)'
  BY <1>1, <1>2, <1>3 DEF GuardedOf, TaintKnown, Emptied
<1>5. CordonKept(n)'
  BY <1>1, <1>2, <1>3 DEF GuardedOf, CordonKept, Early
<1>6. NoneToLose(n)'
  BY <1>1, <1>2, <1>3 DEF GuardedOf, NoneToLose, Emptied
<1> QED BY <1>4, <1>5, <1>6 DEF GuardedOf

LEMMA GuardedPollNode ==
  ASSUME TypeInv, Guarded, PollNode
  PROVE  Guarded'
<1>1. UNCHANGED <<pods, machine, marked, seen, pc>>
  BY DEF PollNode, informers
<1>2. PICK n \in Node, o \in NodeObject :
        /\ n \in poll.todo /\ Becomes(n, o) /\ Alike(o, node[n])
        /\ node[n].cordoned => o.cordoned
        /\ ~node[n].exists => o = node[n]
        /\ \/ "noexecute" \in o.taints <=> Emptied(n)
           \/ "noexecute" \in o.taints <=> "noexecute" \in poll.taints[n]
        /\ poll' \in PollType /\ poll'.todo \subseteq poll.todo
        /\ \/ poll'.todo = {} /\ poll'.taints = [m \in Node |-> {}]
           \/ poll'.taints = poll.taints
  BY PollNodeFacts
<1>3. GuardedOf(n) /\ LifeOf(n)
  BY DEF Guarded, TypeInv
<1>4. "noexecute" \in o.taints <=> Emptied(n)
  <2>1. Emptied(n) => "noexecute" \in poll.taints[n]
    BY <1>2, <1>3 DEF GuardedOf, TaintKnown
  <2>2. "noexecute" \in poll.taints[n] => Emptied(n) \/ ~node[n].exists
    BY <1>3 DEF GuardedOf, TaintKnown, LifeOf
  <2>3. ~node[n].exists => ("noexecute" \in o.taints <=> Emptied(n))
    BY <1>2 DEF Emptied
  <2> QED BY <1>2, <2>1, <2>2, <2>3
<1>5. \A m \in Node : /\ poll'.taints[m] \subseteq poll.taints[m]
                      /\ m \in poll'.todo => /\ m \in poll.todo
                                             /\ poll'.taints[m] = poll.taints[m]
  BY <1>2
<1>6. ASSUME NEW m \in Node, m # n PROVE GuardedOf(m)'
  <2>1. node'[m] = node[m]
    BY <1>2, <1>6 DEF Becomes
  <2>2. Kept(m)
    BY <1>1, <1>5, <2>1 DEF Kept
  <2> QED BY <2>2, GuardedElse DEF Guarded
<1>7. node'[n] = o /\ (Emptied(n)' <=> Emptied(n))
  BY <1>2, <1>4 DEF Becomes, Emptied
<1>8. TaintKnown(n)'
  BY <1>1, <1>3, <1>5, <1>7 DEF GuardedOf, TaintKnown
<1>9. CordonKept(n)'
  BY <1>1, <1>2, <1>3, <1>5, <1>7 DEF GuardedOf, CordonKept, Alike
<1>10. NoneToLose(n)'
  BY <1>1, <1>2, <1>3, <1>7 DEF GuardedOf, NoneToLose, Alike
<1> QED BY <1>6, <1>8, <1>9, <1>10 DEF Guarded, GuardedOf

\* Only one node and what is on it change, and what the informer knows of it.
LEMMA GuardedAlone ==
  ASSUME Guarded, NEW n \in Node, GuardedOf(n)', UNCHANGED <<marked, poll, pc>>,
         \A m \in Node \ {n} : /\ node'[m] = node[m] /\ pods'[m] = pods[m]
                               /\ machine'[m] = machine[m] /\ seen'[m] = seen[m]
  PROVE  Guarded'
<1> SUFFICES ASSUME NEW m \in Node, m # n PROVE GuardedOf(m)'
  BY DEF Guarded
<1>1. Kept(m)
  BY DEF Kept
<1> QED BY <1>1, GuardedElse DEF Guarded

\* Informers, pods, and the age of a node.
LEMMA GuardedCluster ==
  ASSUME TypeInv, Guarded, NEW n \in Node,
         SeeNode(n) \/ SeePods(n) \/ PodEnds(n) \/ Bind(n) \/ Matures(n)
  PROVE  Guarded'
<1>t. /\ node \in [Node -> NodeObject] /\ seen \in [Node -> NodeObject]
      /\ pods \in [Node -> {"none", "running", "recent"}]
  BY DEF TypeInv, Kinds
<1>1. UNCHANGED <<machine, marked, poll, pc>>
  BY DEF SeeNode, SeePods, PodEnds, Bind, Matures, world, informers
<1>2. GuardedOf(n)
  BY DEF Guarded
<1>3. CASE SeeNode(n)
  <2>1. /\ UNCHANGED <<node, pods>> /\ seen'[n] = node[n]
        /\ \A m \in Node \ {n} : seen'[m] = seen[m]
    BY <1>t, <1>3 DEF SeeNode, world
  <2>2. TaintKnown(n)'
    BY <1>1, <1>2, <2>1 DEF GuardedOf, TaintKnown, Emptied
  <2>3. CordonKept(n)' /\ NoneToLose(n)'
    BY <1>1, <1>2, <2>1 DEF GuardedOf, CordonKept, NoneToLose, Emptied
  <2> QED BY <1>1, <2>1, <2>2, <2>3, GuardedAlone DEF GuardedOf
<1>4. CASE SeePods(n) \/ PodEnds(n)
  <2>1. /\ UNCHANGED <<node, seen>> /\ (pods'[n] = "running" => pods[n] = "running")
        /\ \A m \in Node \ {n} : pods'[m] = pods[m]
    BY <1>t, <1>4 DEF SeePods, PodEnds, world, informers
  <2>2. GuardedOf(n)'
    BY <1>1, <1>2, <2>1 DEF GuardedOf, TaintKnown, CordonKept, NoneToLose, Emptied
  <2> QED BY <1>1, <2>1, <2>2, GuardedAlone
<1>5. CASE Bind(n)
  <2>1. /\ UNCHANGED <<node, seen>> /\ \A m \in Node \ {n} : pods'[m] = pods[m]
        /\ node[n].exists /\ node[n].ready /\ ~node[n].cordoned /\ ~Emptied(n)
    BY <1>t, <1>5 DEF Bind, informers, Emptied
  <2>2. TaintKnown(n)' /\ CordonKept(n)'
    BY <1>1, <1>2, <2>1 DEF GuardedOf, TaintKnown, CordonKept, Emptied
  <2>3. NoneToLose(n)'
    BY <1>1, <1>2, <2>1 DEF GuardedOf, NoneToLose, Emptied
  <2> QED BY <1>1, <2>1, <2>2, <2>3, GuardedAlone DEF GuardedOf
<1>6. CASE Matures(n)
  <2>1. PICK o \in NodeObject :
          /\ Becomes(n, o) /\ o.exists = node[n].exists /\ o.taints = node[n].taints
          /\ o.cordoned = node[n].cordoned /\ o.updating = node[n].updating
          /\ o.ready = node[n].ready
    BY <1>6, MaturesFacts
  <2>2. UNCHANGED <<pods, seen>>
    BY <1>6 DEF Matures, informers
  <2>3. node'[n] = o /\ \A m \in Node \ {n} : node'[m] = node[m]
    BY <2>1 DEF Becomes
  <2>4. TaintKnown(n)' /\ CordonKept(n)'
    BY <1>1, <1>2, <2>1, <2>2, <2>3 DEF GuardedOf, TaintKnown, CordonKept, Emptied
  <2>5. NoneToLose(n)'
    BY <1>1, <1>2, <2>1, <2>2, <2>3 DEF GuardedOf, NoneToLose, Emptied
  <2> QED BY <1>1, <2>2, <2>3, <2>4, <2>5, GuardedAlone DEF GuardedOf
<1> QED BY <1>3, <1>4, <1>5, <1>6

\* Maintenance, and the instances behind the machines.
LEMMA GuardedMachines ==
  ASSUME TypeInv, Guarded, NEW n \in Node,
         Maintain(n) \/ MaintenanceEnds(n) \/ MachineFails(n) \/ Create(n) \/ Depart(n)
  PROVE  Guarded'
<1>t. /\ node \in [Node -> NodeObject] /\ seen \in [Node -> NodeObject]
      /\ pods \in [Node -> {"none", "running", "recent"}] /\ LifeOf(n)
      /\ machine \in [Node -> {"absent", "running", "failed", "deleting", "gone"}]
  BY DEF TypeInv, Kinds
<1>1. UNCHANGED <<seen, marked, poll, pc>>
  BY DEF Maintain, MaintenanceEnds, MachineFails, Create, Depart, informers
<1>2. GuardedOf(n)
  BY DEF Guarded
<1>3. CASE Maintain(n) \/ MaintenanceEnds(n)
  <2>1. PICK b \in BOOLEAN : \/ b /\ Maintain(n)
                             \/ ~b /\ MaintenanceEnds(n)
    BY <1>3
  <2>2. node' = [node EXCEPT ![n].updating = b, ![n].cordoned = b]
    BY <2>1 DEF Maintain, MaintenanceEnds
  <2>3. PICK o \in NodeObject :
          /\ Becomes(n, o) /\ o.exists = node[n].exists /\ o.taints = node[n].taints
          /\ o.cordoned = b /\ o.updating = b /\ o.ready = node[n].ready
    BY <2>2, MaintainFacts
  <2>4. /\ UNCHANGED <<pods, machine>>
        /\ b \/ (node[n].updating /\ seen[n] = node[n] /\ pc[n] \notin Early)
    BY <2>1 DEF Maintain, MaintenanceEnds, Early
  <2>5. node'[n] = o /\ \A m \in Node \ {n} : node'[m] = node[m]
    BY <2>3 DEF Becomes
  <2>6. TaintKnown(n)'
    BY <1>1, <1>2, <2>3, <2>4, <2>5 DEF GuardedOf, TaintKnown, Emptied
  <2>7. CordonKept(n)'
    BY <1>1, <1>2, <2>3, <2>4, <2>5 DEF GuardedOf, CordonKept
  <2>8. NoneToLose(n)'
    BY <1>1, <1>2, <2>3, <2>4, <2>5 DEF GuardedOf, NoneToLose, Emptied
  <2> QED BY <1>1, <2>4, <2>5, <2>6, <2>7, <2>8, GuardedAlone DEF GuardedOf
<1>4. CASE MachineFails(n)
  <2>1. PICK o \in NodeObject :
          /\ Becomes(n, o) /\ o.exists = node[n].exists /\ o.taints = node[n].taints
          /\ o.cordoned = node[n].cordoned /\ o.updating = node[n].updating /\ ~o.ready
    BY <1>4, MachineFailsFacts
  <2>2. /\ machine[n] = "running" /\ machine'[n] = "failed" /\ pods'[n] = "none"
        /\ \A m \in Node \ {n} : machine'[m] = machine[m] /\ pods'[m] = pods[m]
    BY <1>t, <1>4 DEF MachineFails
  <2>3. node'[n] = o /\ \A m \in Node \ {n} : node'[m] = node[m]
    BY <2>1 DEF Becomes
  <2>4. TaintKnown(n)' /\ CordonKept(n)'
    BY <1>1, <1>2, <2>1, <2>2, <2>3 DEF GuardedOf, TaintKnown, CordonKept, Emptied
  <2>5. NoneToLose(n)'
    BY <1>1, <1>2, <2>1, <2>2, <2>3 DEF GuardedOf, NoneToLose, Emptied
  <2> QED BY <1>1, <2>2, <2>3, <2>4, <2>5, GuardedAlone DEF GuardedOf
<1>5. CASE Create(n)
  <2>1. PICK o \in NodeObject : Becomes(n, o) /\ o.exists /\ ~o.updating /\ o.taints = {}
    BY <1>5, CreateFacts
  <2>2. /\ machine[n] = "absent" /\ machine'[n] = "running" /\ pods' = pods
        /\ \A m \in Node \ {n} : machine'[m] = machine[m]
    BY <1>t, <1>5 DEF Create
  <2>3. node'[n] = o /\ \A m \in Node \ {n} : node'[m] = node[m]
    BY <2>1 DEF Becomes
  <2>4. pc[n] = "none" /\ ~seen[n].exists /\ n \notin marked /\ ~node[n].exists
    BY <1>t, <2>2 DEF LifeOf
  <2>5. ~Emptied(n) /\ ~Emptied(n)'
    BY <1>2, <2>1, <2>3, <2>4 DEF GuardedOf, NoneToLose, Emptied
  <2>6. TaintKnown(n)'
    BY <1>1, <1>2, <2>2, <2>4, <2>5 DEF GuardedOf, TaintKnown
  <2>7. CordonKept(n)'
    BY <1>1, <2>1, <2>3, <2>4 DEF CordonKept, Early
  <2>8. NoneToLose(n)'
    BY <1>1, <2>2, <2>4, <2>5 DEF NoneToLose
  <2> QED BY <1>1, <2>2, <2>3, <2>6, <2>7, <2>8, GuardedAlone DEF GuardedOf
<1>6. CASE Depart(n)
  <2>1. /\ machine[n] = "deleting" /\ machine'[n] = "gone" /\ pods' = pods
        /\ \A m \in Node \ {n} : machine'[m] = machine[m]
    BY <1>t, <1>6 DEF Depart
  <2>2. node'[n] = Absent /\ \A m \in Node \ {n} : node'[m] = node[m]
    BY <1>6, DepartFacts DEF Becomes
  <2>3. ~node'[n].exists /\ ~node'[n].updating /\ ~Emptied(n)'
    BY <2>2, AbsentFacts DEF Emptied
  <2>4. TaintKnown(n)'
    BY <2>1, <2>3 DEF TaintKnown
  <2>5. CordonKept(n)'
    BY <1>1, <1>2, <2>1, <2>3 DEF GuardedOf, CordonKept
  <2>6. NoneToLose(n)'
    BY <2>1, <2>3 DEF NoneToLose
  <2> QED BY <1>1, <2>1, <2>2, <2>4, <2>5, <2>6, GuardedAlone DEF GuardedOf
<1> QED BY <1>3, <1>4, <1>5, <1>6

\* After a restart the informers know what there is, and every goroutine has to start over.
LEMMA GuardedRestart ==
  ASSUME TypeInv, Guarded, Restart
  PROVE  Guarded'
<1>1. /\ UNCHANGED <<node, pods, machine, marked>> /\ seen' = node /\ poll' = NoPoll
      /\ pc' = [n \in Node |-> "none"]
  BY DEF Restart, world
<1> SUFFICES ASSUME NEW n \in Node PROVE GuardedOf(n)'
  BY DEF Guarded
<1>2. GuardedOf(n) /\ pc'[n] = "none" /\ poll'.todo = {} /\ poll'.taints[n] = {}
  BY <1>1 DEF Guarded, NoPoll
<1>3. TaintKnown(n)' /\ CordonKept(n)'
  BY <1>1, <1>2 DEF GuardedOf, TaintKnown, CordonKept, Emptied, Early
<1>4. NoneToLose(n)'
  BY <1>1, <1>2 DEF GuardedOf, NoneToLose, Emptied
<1> QED BY <1>3, <1>4 DEF GuardedOf

LEMMA GuardedNext ==
  TypeInv /\ Guarded /\ [Next]_vars => Guarded'
<1> SUFFICES ASSUME TypeInv, Guarded, [Next]_vars PROVE Guarded'
  OBVIOUS
<1>1. ASSUME UNCHANGED <<node, pods, machine, marked, seen, poll, pc>> PROVE Guarded'
  <2> SUFFICES ASSUME NEW n \in Node PROVE GuardedOf(n)'
    BY DEF Guarded
  <2>1. Kept(n)
    BY <1>1 DEF Kept
  <2> QED BY <2>1, GuardedElse DEF Guarded
<1>2. CASE Grow \/ UNCHANGED vars
  BY <1>1, <1>2 DEF Grow, vars, world, informers
<1>3. ASSUME NEW n \in Node, Owner(n) \/ EvictFails(n) PROVE Guarded'
  <2>1. PICK o \in NodeObject :
          /\ Becomes(n, o) /\ Alike(o, node[n]) /\ o.cordoned = node[n].cordoned
          /\ "noexecute" \in o.taints <=> Emptied(n)
    BY <1>3, OwnerFacts, EvictFailsFacts
  <2>2. pc[n] \in Early \ {"query"} /\ UNCHANGED <<pods, machine, marked, seen, poll>>
    BY <1>3 DEF Owner, EvictFails, At, Early, informers
  <2>3. PICK label \in {"evict", "hold", "none"} : Goto(n, label)
    BY <1>3 DEF Owner, EvictFails
  <2>4. pods[n] # "running"
    BY <2>2 DEF Guarded, GuardedOf, CordonKept
  <2>5. label \in Labels /\ label # "annotate"
    BY DEF Labels
  <2>6. label \in Early => pc[n] \in Early
    BY <2>2
  <2> QED BY <2>1, <2>2, <2>3, <2>4, <2>5, <2>6, GuardedMoves
<1>4. ASSUME NEW n \in Node,
             \/ Query(n) \/ MachineExists(n) \/ PodsOver(n) \/ Evict(n) \/ Acquire(n)
             \/ GetReplicas(n) \/ Done(n) \/ NotYet(n) \/ Commit(n) \/ Decrement(n)
             \/ DecrementFails(n) \/ Awake(n) \/ HoldEnds(n) \/ HoldExpires(n) \/ Fails(n)
      PROVE  Guarded'
  <2>1. UNCHANGED <<node, pods, machine, marked, seen, poll>>
    BY <1>4 DEF Query, MachineExists, PodsOver, Evict, Acquire, GetReplicas, Done, NotYet,
                Commit, Decrement, DecrementFails, Awake, HoldEnds, HoldExpires, Fails,
                world, informers
  <2>2. PICK label \in Labels \ {"annotate", "query"} :
          /\ Goto(n, label) /\ (label \in Early => pc[n] \in Early)
          /\ label \in Early => pc[n] # "query" \/ pods[n] # "running"
    BY <1>4 DEF Query, MachineExists, PodsOver, Evict, Acquire, GetReplicas, Done, NotYet,
                Commit, Decrement, DecrementFails, Awake, HoldEnds, HoldExpires, Fails,
                At, Early, Labels, Active, LivePods
  <2>3. label \in Early => pods[n] # "running"
    BY <2>2 DEF Guarded, GuardedOf, CordonKept
  <2>4. /\ node[n] \in NodeObject /\ Becomes(n, node[n]) /\ Alike(node[n], node[n])
        /\ "noexecute" \in node[n].taints <=> Emptied(n)
    BY <2>1 DEF TypeInv, Kinds, Becomes, Alike, Emptied
  <2> QED BY <2>1, <2>2, <2>3, <2>4, GuardedMoves
<1> QED
  BY <1>2, <1>3, <1>4, GuardedNoExecute, GuardedAnnotate, GuardedDelete, GuardedPollStart,
     GuardedPollNode, GuardedCluster, GuardedMachines, GuardedRestart
     DEF Next, Advance, MachineAPI, Cluster

\* With more machines than replicas, and none forgotten, there is a marked one to go, or one
\* that failed.
LEMMA DeleteFacts ==
  ASSUME TypeInv, Counted, Guarded, NEW n \in Node, Delete(n), forgotten = 0
  PROVE  pods[n] # "running"
<1> DEFINE first == Alive \cap (marked \cup InPhase("failed"))
<1>1. Cardinality(Alive) > replicas /\ n \in IF first = {} THEN Alive ELSE first
  BY DEF Delete, Alive
<1>2. first # {}
  <2> SUFFICES ASSUME first = {} PROVE FALSE
    OBVIOUS
  <2>1. Alive = Unmarked
    BY DEF Alive, Unmarked
  <2>2. replicas \in Nat
    BY DEF TypeInv, Kinds
  <2> QED BY <1>1, <2>1, <2>2, UnmarkedFacts
<1>3. machine[n] \in {"running", "failed"} /\ (n \in marked \/ machine[n] = "failed")
  BY <1>1, <1>2 DEF Alive, InPhase
<1> QED BY <1>3 DEF Guarded, GuardedOf, NoneToLose

\* Only the machine API removes machines.
LEMMA OnlyDelete ==
  ASSUME TypeInv, [Next]_vars, NEW n \in Node,
         machine[n] = "running", machine'[n] = "deleting"
  PROVE  Delete(n) /\ pods' = pods
<1>1. machine \in [Node -> {"absent", "running", "failed", "deleting", "gone"}]
  BY DEF TypeInv, Kinds
<1>2. CASE PollStart \/ PollNode \/ Grow \/ Restart \/ UNCHANGED vars
  BY <1>2 DEF PollStart, PollNode, Grow, Restart, vars, world
<1>3. ASSUME NEW m \in Node,
             \/ Query(m) \/ MachineExists(m) \/ PodsOver(m) \/ Owner(m) \/ Evict(m)
             \/ NoExecute(m) \/ Annotate(m) \/ Fails(m) \/ EvictFails(m)
      PROVE  FALSE
  BY <1>3 DEF Query, MachineExists, PodsOver, Owner, Evict, NoExecute, Annotate, Fails,
              EvictFails, world
<1>4. ASSUME NEW m \in Node,
             \/ Acquire(m) \/ GetReplicas(m) \/ Done(m) \/ NotYet(m) \/ Commit(m)
             \/ Decrement(m) \/ DecrementFails(m) \/ Awake(m) \/ HoldEnds(m) \/ HoldExpires(m)
      PROVE  FALSE
  BY <1>4 DEF Acquire, GetReplicas, Done, NotYet, Commit, Decrement, DecrementFails, Awake,
              HoldEnds, HoldExpires, world
<1>5. ASSUME NEW m \in Node,
             \/ SeeNode(m) \/ SeePods(m) \/ PodEnds(m) \/ MaintenanceEnds(m)
             \/ Bind(m) \/ Matures(m) \/ Maintain(m)
      PROVE  FALSE
  BY <1>5 DEF SeeNode, SeePods, PodEnds, MaintenanceEnds, Bind, Matures, Maintain, world
<1>6. ASSUME NEW m \in Node, Create(m) \/ Depart(m) \/ MachineFails(m)
      PROVE  FALSE
  BY <1>1, <1>6 DEF Create, Depart, MachineFails
<1>7. ASSUME NEW m \in Node, Delete(m)
      PROVE  Delete(n) /\ pods' = pods
  <2>1. m = n
    BY <1>1, <1>7 DEF Delete
  <2> QED BY <1>7, <2>1 DEF Delete
<1> QED BY <1>2, <1>3, <1>4, <1>5, <1>6, <1>7 DEF Next, Advance, MachineAPI, Cluster

\* No CI pod is thrown off its node, although the program decides from informers that lag
\* behind: never by the taint, and by the removal of a machine only where replicas were taken
\* and lost track of.  For any nodes and scenarios, however long the machine API takes.
THEOREM NoneLost == Spec => NoBusyNodeLost
<1> DEFINE Inv == TypeInv /\ Counted /\ Guarded
           Kind == \A n \in Node : pods'[n] = "running" =>
                     /\ "noexecute" \notin node'[n].taints
                     /\ machine[n] = "running" /\ machine'[n] = "deleting" => forgotten > 0
<1>1. Init => Inv
  BY TypeInit, CountedInit, GuardedInit
<1>2. Inv /\ [Next]_vars => Inv'
  BY TypeNext, CountedNext, GuardedNext
<1>3. Inv /\ Inv' /\ [Next]_vars => [Kind]_vars
  <2> SUFFICES ASSUME Inv, Inv', [Next]_vars, NEW n \in Node, pods'[n] = "running"
               PROVE  /\ "noexecute" \notin node'[n].taints
                      /\ machine[n] = "running" /\ machine'[n] = "deleting" => forgotten > 0
    OBVIOUS
  <2>1. "noexecute" \notin node'[n].taints
    BY DEF Guarded, GuardedOf, NoneToLose, Emptied
  <2>2. ASSUME machine[n] = "running", machine'[n] = "deleting" PROVE forgotten > 0
    <3>1. Delete(n) /\ pods[n] = "running"
      BY <2>2, OnlyDelete
    <3>2. forgotten # 0
      BY <3>1, DeleteFacts
    <3> QED BY <3>2 DEF Counted
  <2> QED BY <2>1, <2>2
<1> QED BY <1>1, <1>2, <1>3, PTL DEF Spec, NoBusyNodeLost
===============================================================================
