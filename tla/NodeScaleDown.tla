---------------------------- MODULE NodeScaleDown ----------------------------
(***************************************************************************)
(* cmd/ci-scheduling-webhook: how idle nodes of one class of CI workload are *)
(* cordoned and removed (prioritization.go).                                 *)
(*                                                                         *)
(* Every minute a poll starts a goroutine for each node that is cordoned and *)
(* idle, and then cordons or taints those that ought to be avoided.  Both    *)
(* decide from informers, which lag behind the API.  The goroutine of a node *)
(* makes sure of its pods and its machine, drains its DNS pods, marks its    *)
(* machine for deletion and takes one replica from the machineset, for which *)
(* it holds a lock of the class.  The machine API removes machines when there*)
(* are more than replicas, the marked ones first.                            *)
(*                                                                         *)
(* There is one machineset.  Nodes that are kept by an annotation or belong  *)
(* to spot.io are none of this program's and are left out.  A node has the   *)
(* name of its machine; a smaller one is older.  At most one CI pod runs on  *)
(* a node: only whether there is one matters.                                *)
(***************************************************************************)
EXTENDS Integers, FiniteSets

CONSTANTS
  Node,          \* nodes, by age
  Initially,     \* those that exist at first
  Scenarios      \* bounds: how often each thing may happen

Moves == {"pod", "fault", "lost", "restart", "mature", "grow", "maintenance", "fail",
          "hour"}

ASSUME NodeAssumption ==
  /\ Node \subseteq Nat \ {0} /\ IsFiniteSet(Node)
  /\ Initially \subseteq Node
  /\ Scenarios \subseteq [Moves -> Nat]

Nobody == 0

VARIABLES
  node,      \* external: the Node objects
  pods,      \* external: the CI pod of each node
  machine,   \* external: phase of each machine
  marked,    \* external: machines with the deletion annotation
  replicas,  \* external: spec.replicas of the machineset
  seen,      \* nodesInformer
  seenPods,  \* podsInformer
  poll,      \* what the poll read: the nodes it still has to look at, which of them are
             \* busy and which targets, and their taints
  pc,        \* scalingDownNodesByClass: what the goroutine of each node does next
  read,      \* replicas as the holder of the lock read them
  lock,      \* nodeClassScaleDownLock
  used,      \* how often each thing happened so far
  forgotten  \* history: replicas that went, though no goroutine waits for a machine to go
             \* for them, since there were last as many machines as replicas

world == <<node, pods, machine, marked, replicas>>
informers == <<seen, seenPods>>
vars == <<world, informers, poll, pc, read, lock, used, forgotten>>

Absent == [exists |-> FALSE, cordoned |-> FALSE, taints |-> {}, ready |-> FALSE,
           young |-> FALSE, updating |-> FALSE]

Joined == [Absent EXCEPT !.exists = TRUE, !.ready = TRUE]

NoPoll == [todo |-> {}, busy |-> {}, targets |-> {}, taints |-> [n \in Node |-> {}]]

InPhase(phase) == {n \in Node : machine[n] = phase}

Spend(m) ==
  /\ used' = [used EXCEPT ![m] = @ + 1]
  /\ \E limits \in Scenarios : \A x \in Moves : used'[x] <= limits[x]

\* The machineset has as many machines as it should, those being deleted not counted.
Settled == Cardinality(InPhase("running") \cup InPhase("failed")) = replicas
-----------------------------------------------------------------------------
(* The poll.                                                                 *)

\* getWorkloadNodes: known to the informer for 15 minutes, not under update.
Workload(n) == seen[n].exists /\ ~seen[n].updating /\ ~seen[n].young

\* isNodeSchedulable
Schedulable(n) == ~seen[n].cordoned /\ seen[n].ready

\* isPodActive, now: a pod that is pending or running, or has finalizers.
Active(state) == state = "running"

Avoidable == {n \in Node : Workload(n) /\ Schedulable(n)}

\* getWorkloadNodesInAvoidanceOrder: fewest pods first, then the oldest.
AvoidanceOrder(busy, m, n) == IF m \in busy <=> n \in busy THEN m < n ELSE n \in busy

\* evaluateNodeClassScaleDown, first part: goroutines for cordoned idle nodes.
Spawned ==
  {n \in Node : /\ Workload(n) /\ seen[n].cordoned /\ ~Active(seenPods[n])
                /\ pc[n] = "none"}

\* Second part: about a quarter of the rest is to be avoided.
PollStart ==
  LET busy == {n \in Avoidable : Active(seenPods[n])}
      quarter == (Cardinality(Avoidable) + 3) \div 4
      Rank(n) == Cardinality({m \in Avoidable : AvoidanceOrder(busy, m, n)})
  IN
  /\ poll.todo = {}
  /\ Spawned \cup Avoidable # {}
  /\ pc' = [n \in Node |-> IF n \in Spawned THEN "query" ELSE pc[n]]
  /\ poll' = [todo |-> Avoidable, busy |-> busy,
              targets |-> {n \in Avoidable : Rank(n) < quarter},
              taints |-> [n \in Node |-> IF n \in Avoidable THEN seen[n].taints ELSE {}]]
  /\ UNCHANGED <<world, informers, read, lock, used, forgotten>>

\* A patch of an object that is gone has no effect.
Patched(n, changed) == node' = [node EXCEPT ![n] = IF @.exists THEN changed ELSE @]

\* setNodeAvoidanceState: the cordon, and the whole list of taints as the poll knew it.
SetAvoidance(n, effect) ==
  LET old == poll.taints[n]
      new == IF effect = "None" THEN old \ {"prefer"} ELSE old \cup {"prefer"}
  IN
  \E cordons, taints \in BOOLEAN :
    /\ IF cordons /\ taints THEN UNCHANGED used ELSE Spend("fault")
    /\ Patched(n, [node[n] EXCEPT
                    !.cordoned = @ \/ (effect = "NoSchedule" /\ cordons),
                    !.taints = IF taints /\ new # old THEN new ELSE @])

PollNode ==
  /\ \E n \in poll.todo :
       /\ \A m \in poll.todo \ {n} : AvoidanceOrder(poll.busy, n, m)
       /\ SetAvoidance(n, IF n \notin poll.targets THEN "None"
                          ELSE IF Active(seenPods[n]) THEN "PreferNoSchedule" ELSE "NoSchedule")
       /\ poll' = IF poll.todo = {n} THEN NoPoll ELSE [poll EXCEPT !.todo = @ \ {n}]
  /\ UNCHANGED <<pods, machine, marked, replicas, informers, pc, read, lock, forgotten>>
-----------------------------------------------------------------------------
(* evaluateNodeScaleDown and scaleDown: the goroutine of a node.             *)

At(n, label) == pc[n] = label

Goto(n, label) == pc' = [pc EXCEPT ![n] = label]

Exists(n) == machine[n] \in {"running", "failed", "deleting"}

\* An error ends the evaluation; a later poll starts another one.
Fails(n) ==
  /\ pc[n] \in {"query", "exists", "owner", "noexecute"}
  /\ Spend("fault") /\ Goto(n, "none")
  /\ UNCHANGED <<world, informers, poll, read, lock, forgotten>>

\* Slip: the informer's pods are believed.
LivePods_Informer(n) == seenPods[n]

LivePods(n) == pods[n]

\* The live query for pods.
Query(n) ==
  /\ At(n, "query")
  /\ Goto(n, IF Active(LivePods(n)) THEN "none" ELSE "exists")
  /\ UNCHANGED <<world, informers, poll, read, lock, used, forgotten>>

\* Without a machine nothing is left to do but to wait for the node to go.
MachineExists(n) ==
  /\ At(n, "exists")
  /\ Goto(n, IF Exists(n) THEN "wait" ELSE "hold")
  /\ UNCHANGED <<world, informers, poll, read, lock, used, forgotten>>

\* The last pod has been over for five minutes.
PodsOver(n) ==
  /\ At(n, "wait") /\ seenPods[n] = "none"
  /\ Goto(n, "owner")
  /\ UNCHANGED <<world, informers, poll, read, lock, used, forgotten>>

\* The second look at the machine, and the taint that keeps DNS pods from coming back.
Owner(n) ==
  /\ At(n, "owner")
  /\ IF Exists(n)
     THEN /\ Goto(n, "evict")
          /\ Patched(n, [node[n] EXCEPT !.taints = @ \cup {"drain"}])
     ELSE Goto(n, "hold") /\ UNCHANGED node
  /\ UNCHANGED <<pods, machine, marked, replicas, informers, poll, read, lock, used,
                 forgotten>>

\* The DNS pods are evicted, and given time to leave; one that cannot be evicted is not
\* waited for.
Evict(n) ==
  /\ At(n, "evict")
  /\ Goto(n, "noexecute")
  /\ UNCHANGED <<world, informers, poll, read, lock, used, forgotten>>

\* An eviction is forbidden, or the pods cannot be listed: the taint is removed again, or
\* that fails too.
EvictFails(n) ==
  /\ At(n, "evict") /\ Spend("fault")
  /\ \E removed \in BOOLEAN :
       Patched(n, [node[n] EXCEPT !.taints = IF removed THEN @ \ {"drain"} ELSE @])
  /\ Goto(n, "none")
  /\ UNCHANGED <<pods, machine, marked, replicas, informers, poll, read, lock, forgotten>>

\* setNoExecuteTaint: the whole list, as the informer has it.
NoExecute(n) ==
  /\ At(n, "noexecute")
  /\ IF ~seen[n].exists THEN Goto(n, "none") /\ UNCHANGED node
     ELSE /\ Goto(n, "annotate")
          /\ IF "noexecute" \in seen[n].taints THEN UNCHANGED node
             ELSE Patched(n, [node[n] EXCEPT !.taints = seen[n].taints \cup {"noexecute"}])
  /\ UNCHANGED <<pods, machine, marked, replicas, informers, poll, read, lock, used,
                 forgotten>>

\* The annotation is set, however often it takes.
Annotate(n) ==
  /\ At(n, "annotate")
  /\ marked' = IF Exists(n) THEN marked \cup {n} ELSE marked
  /\ Goto(n, IF Exists(n) THEN "lock" ELSE "hold")
  /\ UNCHANGED <<node, pods, machine, replicas, informers, poll, read, lock, used,
                 forgotten>>

Acquire(n) ==
  /\ At(n, "lock") /\ lock = Nobody
  /\ lock' = n /\ Goto(n, "get")
  /\ UNCHANGED <<world, informers, poll, read, used, forgotten>>

\* The machineset is read, however often it takes.
GetReplicas(n) ==
  /\ At(n, "get")
  /\ read' = replicas /\ Goto(n, "phase")
  /\ UNCHANGED <<world, informers, poll, lock, used, forgotten>>

\* Slip: the phase of the machine is not looked at again.
Proceeds_AnyPhase(n) == Exists(n)

\* The machine is running and its replica has not been taken yet, as far as one can see.
Proceeds(n) == machine[n] = "running"

\* Slip: the lock is kept when there is nothing left to do.
Release_Kept(n) == UNCHANGED <<lock, read, forgotten>>

Release(n) == lock' = Nobody /\ read' = 0

\* The machine is on its way out, or has none of the replicas left.
Done(n) ==
  /\ At(n, "phase")
  /\ ~Exists(n) \/ (machine[n] = "deleting" /\ ~Proceeds(n)) \/ (Proceeds(n) /\ read = 0)
  /\ Release(n) /\ Goto(n, "hold")
  /\ UNCHANGED <<world, informers, poll, used, forgotten>>

\* An error, or a machine in another phase: later again, with the lock held.
NotYet(n) ==
  /\ At(n, "phase")
  /\ \/ machine[n] = "failed" /\ ~Proceeds(n) /\ UNCHANGED used
     \/ Spend("fault")
  /\ Goto(n, "sleep") /\ read' = 0
  /\ UNCHANGED <<world, informers, poll, lock, forgotten>>

Commit(n) ==
  /\ At(n, "phase") /\ Proceeds(n) /\ read > 0
  /\ Goto(n, "patch")
  /\ UNCHANGED <<world, informers, poll, read, lock, used, forgotten>>

\* One replica less than were read; the patch overwrites what the autoscaler added since.
Decrement(n) ==
  /\ At(n, "patch")
  /\ replicas' = read - 1
  /\ forgotten' = forgotten + (replicas - read)
  /\ Release(n) /\ Goto(n, "hold")
  /\ UNCHANGED <<node, pods, machine, marked, informers, poll, used>>

\* The patch fails, or only its answer is lost.
DecrementFails(n) ==
  /\ At(n, "patch") /\ Spend("lost")
  /\ replicas' \in {replicas, read - 1}
  /\ forgotten' = IF replicas' = replicas THEN forgotten
                   ELSE forgotten + (replicas - read)
                          + (IF machine[n] = "running" THEN 1 ELSE 0)
  /\ Goto(n, "sleep") /\ read' = 0
  /\ UNCHANGED <<node, pods, machine, marked, informers, poll, lock>>

\* Ten seconds later, whatever the machine API has done by then.
Awake(n) ==
  /\ At(n, "sleep")
  /\ Goto(n, "get")
  /\ UNCHANGED <<world, informers, poll, read, lock, used, forgotten>>

\* Running machines that a goroutine waits for to go.
StoodBy == {n \in InPhase("running") : pc[n] = "hold"}

\* The node is gone; or the machineset is content although the machine is running.
HoldEnds(n) ==
  /\ At(n, "hold")
  /\ \/ ~seen[n].exists /\ UNCHANGED forgotten
     \/ /\ Settled /\ InPhase("failed") = {} /\ machine[n] = "running"
        /\ forgotten' = IF \E m \in Node : pc[m] = "patch" /\ machine[m] # "running"
                        THEN forgotten + 1 ELSE forgotten
  /\ Goto(n, "none")
  /\ UNCHANGED <<world, informers, poll, read, lock, used>>

\* Sixty minutes are over.
HoldExpires(n) ==
  /\ At(n, "hold") /\ Spend("hour")
  /\ forgotten' = IF n \in StoodBy THEN forgotten + 1 ELSE forgotten
  /\ Goto(n, "none")
  /\ UNCHANGED <<world, informers, poll, read, lock>>

Restart ==
  /\ Spend("restart")
  /\ forgotten' = forgotten + Cardinality(StoodBy)
  /\ seen' = node /\ seenPods' = pods
  /\ poll' = NoPoll /\ pc' = [n \in Node |-> "none"] /\ lock' = Nobody /\ read' = 0
  /\ UNCHANGED world
-----------------------------------------------------------------------------
(* The cluster.                                                              *)

SeeNode(n) ==
  /\ seen[n] # node[n]
  /\ seen' = [seen EXCEPT ![n] = node[n]]
  /\ UNCHANGED <<world, seenPods, poll, pc, read, lock, used, forgotten>>

SeePods(n) ==
  /\ seenPods[n] # pods[n]
  /\ seenPods' = [seenPods EXCEPT ![n] = pods[n]]
  /\ UNCHANGED <<world, seen, poll, pc, read, lock, used, forgotten>>

\* A pod is bound where it may be.
Bind(n) ==
  /\ node[n].exists /\ node[n].ready /\ ~node[n].cordoned
  /\ "noexecute" \notin node[n].taints
  /\ pods[n] # "running" /\ Spend("pod")
  /\ pods' = [pods EXCEPT ![n] = "running"]
  /\ UNCHANGED <<node, machine, marked, replicas, informers, poll, pc, read, lock,
                 forgotten>>

\* It ends; five minutes later it does not count any more.
PodEnds(n) ==
  /\ pods[n] # "none"
  /\ pods' = [pods EXCEPT ![n] = IF @ = "running" THEN "recent" ELSE "none"]
  /\ UNCHANGED <<node, machine, marked, replicas, informers, poll, pc, read, lock, used,
                 forgotten>>

\* It is 15 minutes old.
Matures(n) ==
  /\ node[n].young /\ Spend("mature")
  /\ node' = [node EXCEPT ![n].young = FALSE]
  /\ UNCHANGED <<pods, machine, marked, replicas, informers, poll, pc, read, lock,
                 forgotten>>

\* A machine too few: a new one joins.
Create(n) ==
  /\ machine[n] = "absent"
  /\ Cardinality(InPhase("running") \cup InPhase("failed")) < replicas
  /\ machine' = [machine EXCEPT ![n] = "running"]
  /\ node' = [node EXCEPT ![n] = [Joined EXCEPT !.young = TRUE]]
  /\ UNCHANGED <<pods, marked, replicas, informers, poll, pc, read, lock, used, forgotten>>

\* A machine too many: marked or failed ones go first.
Delete(n) ==
  LET alive == InPhase("running") \cup InPhase("failed")
      first == alive \cap (marked \cup InPhase("failed"))
  IN
  /\ Cardinality(alive) > replicas
  /\ n \in IF first = {} THEN alive ELSE first
  /\ machine' = [machine EXCEPT ![n] = "deleting"]
  /\ forgotten' = IF Cardinality(alive) = replicas + 1 /\ \A m \in Node : pc[m] # "patch"
                  THEN 0 ELSE forgotten
  /\ UNCHANGED <<node, pods, marked, replicas, informers, poll, pc, read, lock, used>>

Depart(n) ==
  /\ machine[n] = "deleting"
  /\ machine' = [machine EXCEPT ![n] = "gone"]
  /\ node' = [node EXCEPT ![n] = Absent]
  /\ UNCHANGED <<pods, marked, replicas, informers, poll, pc, read, lock, used, forgotten>>

\* The autoscaler asks for one machine more.
Grow ==
  /\ InPhase("absent") # {} /\ Spend("grow")
  /\ replicas' = replicas + 1
  /\ UNCHANGED <<node, pods, machine, marked, informers, poll, pc, read, lock, forgotten>>

\* The machine configuration is updated: the node is cordoned meanwhile.  That takes
\* longer than an evaluation.
Maintain(n) ==
  /\ node[n].exists /\ ~node[n].updating /\ Spend("maintenance")
  /\ node' = [node EXCEPT ![n].updating = TRUE, ![n].cordoned = TRUE]
  /\ UNCHANGED <<pods, machine, marked, replicas, informers, poll, pc, read, lock,
                 forgotten>>

MaintenanceEnds(n) ==
  /\ node[n].updating /\ seen[n] = node[n]
  /\ pc[n] \notin {"query", "exists", "wait", "owner", "evict", "noexecute"}
  /\ node' = [node EXCEPT ![n].updating = FALSE, ![n].cordoned = FALSE]
  /\ UNCHANGED <<pods, machine, marked, replicas, informers, poll, pc, read, lock, used,
                 forgotten>>

\* The instance behind a machine is lost.
MachineFails(n) ==
  /\ machine[n] = "running" /\ Spend("fail")
  /\ machine' = [machine EXCEPT ![n] = "failed"]
  /\ node' = [node EXCEPT ![n].ready = FALSE]
  /\ pods' = [pods EXCEPT ![n] = "none"]
  /\ UNCHANGED <<marked, replicas, informers, poll, pc, read, lock, forgotten>>
-----------------------------------------------------------------------------
Init ==
  /\ node = [n \in Node |-> IF n \notin Initially THEN Absent
                           ELSE [Joined EXCEPT !.young = n # 1]]
  /\ pods = [n \in Node |-> "none"]
  /\ machine = [n \in Node |-> IF n \in Initially THEN "running" ELSE "absent"]
  /\ marked = {} /\ replicas = Cardinality(Initially)
  /\ seen = node /\ seenPods = pods
  /\ poll = NoPoll /\ pc = [n \in Node |-> "none"] /\ read = 0 /\ lock = Nobody
  /\ used = [m \in Moves |-> 0] /\ forgotten = 0

\* What the goroutine of a node goes on with by itself.
Advance(n) ==
  \/ Query(n) \/ MachineExists(n) \/ PodsOver(n) \/ Owner(n) \/ Evict(n)
  \/ NoExecute(n) \/ Annotate(n) \/ GetReplicas(n)
  \/ Done(n) \/ NotYet(n) \/ Commit(n)
  \/ Decrement(n) \/ Awake(n) \/ HoldEnds(n)

MachineAPI(n) == Create(n) \/ Delete(n) \/ Depart(n)

Cluster(n) == SeeNode(n) \/ SeePods(n) \/ PodEnds(n) \/ MaintenanceEnds(n)

Next ==
  \/ PollStart \/ PollNode
  \/ \E n \in Node :
       \/ Advance(n) \/ Acquire(n)
       \/ Fails(n) \/ EvictFails(n) \/ DecrementFails(n) \/ HoldExpires(n)
       \/ MachineAPI(n) \/ Cluster(n)
       \/ Bind(n) \/ Matures(n) \/ Maintain(n) \/ MachineFails(n)
  \/ Restart \/ Grow

Spec == Init /\ [][Next]_vars

\* A ticker polls; goroutines run, and the lock is taken; informers deliver; the machine
\* API works; pods end and maintenance does.
FairSpec ==
  /\ Spec /\ WF_vars(PollStart) /\ WF_vars(PollNode)
  /\ WF_vars(\E n \in Node : Advance(n)) /\ WF_vars(\E n \in Node : Acquire(n))
  /\ WF_vars(\E n \in Node : MachineAPI(n)) /\ WF_vars(\E n \in Node : Cluster(n))
-----------------------------------------------------------------------------
(* Properties.                                                               *)

TypeOK ==
  /\ node \in [Node -> [exists : BOOLEAN, cordoned : BOOLEAN, ready : BOOLEAN,
                        young : BOOLEAN, updating : BOOLEAN,
                        taints : SUBSET {"prefer", "drain", "noexecute"}]]
  /\ pods \in [Node -> {"none", "running", "recent"}]
  /\ machine \in [Node -> {"absent", "running", "failed", "deleting", "gone"}]
  /\ marked \subseteq Node /\ replicas \in Nat /\ read \in Nat /\ forgotten \in Nat
  /\ \A n \in Node : seen[n].exists => machine[n] # "absent"
  /\ pc \in [Node -> {"none", "query", "exists", "wait", "owner", "evict", "noexecute",
                     "annotate", "lock", "get", "phase", "patch", "sleep", "hold"}]
  /\ \A n \in Node : lock = n <=> pc[n] \in {"get", "phase", "patch", "sleep"}

\* No CI pod is thrown off its node, although every check is made before, on informers
\* that lag behind: never by the taint, and by the removal of a machine only where replicas
\* were taken for machines that nobody waits for any more.
NoBusyNodeLost ==
  [][\A n \in Node : pods'[n] = "running" =>
       /\ "noexecute" \notin node'[n].taints
       /\ machine[n] = "running" /\ machine'[n] = "deleting" => forgotten > 0]_vars

Unmarked == InPhase("running") \ marked

\* Each replica taken has a marked machine to go, so that the machine API chooses no other,
\* but for replicas that were taken and are not known of any more: the answer was lost, or
\* the goroutine gave up, was restarted, or took another's going for its own.
ReplicasAccounted == Cardinality(Unmarked) <= replicas + forgotten

\* "A previous scan may have already decremented the replica count.  This check should
\* prevent it from happening again while the machine shuts down."
MarkedMachinesSuffice == Cardinality(Unmarked) <= replicas

\* The holder of the lock waits for a machine whose instance was lost.
Wedged == \E n \in Node : lock = n /\ machine[n] = "failed"

\* A node once cordoned is not forgotten: it leaves the cluster.
CordonedNodesGo ==
  \A n \in Node :
    node[n].cordoned ~> ~node[n].cordoned \/ machine[n] = "failed" \/ Wedged
=============================================================================
