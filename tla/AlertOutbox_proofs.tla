------------------------- MODULE AlertOutbox_proofs -------------------------
(* What holds of AlertOutbox for every set of groups, number of alerts and   *)
(* scenario bound.                                                           *)
EXTENDS AlertOutbox, FiniteSetTheorems, TLAPS

-----------------------------------------------------------------------------
(* Well-formedness of the outbox is preserved by each way of rewriting it.  *)

LEMMA NewWorkType ==
  ASSUME NEW g \in Group, NEW object \in Object,
         NEW kind \in {"post", "update", "reaction"}, NEW rev \in Nat,
         NEW ts \in Nat, NEW thread \in Nat, NEW dep \in Nat,
         NEW text \in Text, NEW ep \in Nat
  PROVE  NewWork(g, object, kind, rev, ts, thread, dep, text, ep) \in Work
BY DEF NewWork, Work

LEMMA PutOK ==
  ASSUME NEW ob, OutboxOK(ob), NEW id \in WorkId, NEW w \in Work
  PROVE  OutboxOK(Put(ob, id, w))
<1> DEFINE seq == IF id \in DOMAIN ob.work THEN ob.work[id].seq ELSE ob.next + 1
           put == Put(ob, id, w)
<1>1. seq \in Nat /\ seq <= put.next /\ ob.next <= put.next /\ put.next \in Nat
  BY DEF OutboxOK, Put, Work
<1>2. [w EXCEPT !.seq = seq] \in Work /\ [w EXCEPT !.seq = seq].seq = seq
  BY <1>1 DEF Work
<1>3. /\ DOMAIN put = {"work", "next"}
      /\ DOMAIN put.work = DOMAIN ob.work \cup {id}
      /\ \A i \in DOMAIN put.work :
           put.work[i] = IF i = id THEN [w EXCEPT !.seq = seq] ELSE ob.work[i]
  BY DEF Put
<1> HIDE DEF seq, put
<1>4. ASSUME NEW i \in DOMAIN put.work
      PROVE  put.work[i] \in Work /\ put.work[i].seq <= put.next
  <2>1. CASE i = id
    BY <1>1, <1>2, <1>3, <2>1
  <2>2. CASE i # id
    <3>1. ob.work[i] \in Work /\ ob.work[i].seq <= ob.next /\ put.work[i] = ob.work[i]
      BY <1>3, <2>2 DEF OutboxOK
    <3>2. ob.work[i].seq \in Nat /\ ob.next \in Nat
      BY <3>1 DEF Work, OutboxOK
    <3> QED BY <1>1, <3>1, <3>2
  <2> QED BY <2>1, <2>2
<1>5. DOMAIN put.work \subseteq WorkId
  BY <1>3 DEF OutboxOK
<1>6. OutboxOK(put)
  BY <1>1, <1>3, <1>4, <1>5 DEF OutboxOK
<1> QED BY <1>6 DEF put

LEMMA DropOK ==
  ASSUME NEW ob, OutboxOK(ob), NEW ids
  PROVE  OutboxOK(Drop(ob, ids))
BY DEF OutboxOK, Drop

\* Rewriting entries in place, sequence kept.
LEMMA RewriteOK ==
  ASSUME NEW ob, OutboxOK(ob), NEW f, DOMAIN f = DOMAIN ob.work,
         \A i \in DOMAIN ob.work : f[i] \in Work /\ f[i].seq = ob.work[i].seq
  PROVE  OutboxOK([ob EXCEPT !.work = f])
BY DEF OutboxOK

LEMMA PutNewMembersOK ==
  ASSUME NEW ob, OutboxOK(ob), NEW ep \in Nat, NEW members \in SUBSET Member,
         NEW w \in Work
  PROVE  OutboxOK(PutNewMembers(ob, ep, members, w))
<1> DEFINE ids == {<<"newMember", ep, m>> : m \in members}
           put == PutNewMembers(ob, ep, members, w)
           seq(i) == IF i \in DOMAIN ob.work THEN ob.work[i].seq ELSE ob.next + i[3]
<1>0. Members \in Nat /\ ob.next \in Nat
  BY ParameterAssumption DEF OutboxOK
<1>1. /\ DOMAIN put = {"work", "next"}
      /\ DOMAIN put.work = DOMAIN ob.work \cup ids
      /\ put.next = IF members = {} THEN ob.next ELSE ob.next + Members
      /\ \A i \in DOMAIN put.work :
           put.work[i] = IF i \notin ids THEN ob.work[i]
                         ELSE [w EXCEPT !.seq = seq(i)]
  BY DEF PutNewMembers
<1>2. put.next \in Nat /\ ob.next <= put.next
  BY <1>0, <1>1
<1>3. ids \subseteq WorkId
  BY DEF WorkId, WorkName, Member
<1>4. ASSUME NEW i \in ids
      PROVE  seq(i) \in Nat /\ seq(i) <= put.next
  <2>1. PICK m \in members : i = <<"newMember", ep, m>>
    OBVIOUS
  <2>2. m \in Nat /\ m <= Members /\ i[3] = m /\ members # {}
    BY <2>1, <1>0 DEF Member
  <2>3. CASE i \in DOMAIN ob.work
    <3>1. ob.work[i].seq \in Nat /\ ob.work[i].seq <= ob.next
      BY <2>3 DEF OutboxOK, Work
    <3> QED BY <2>3, <3>1, <1>0, <1>2
  <2>4. CASE i \notin DOMAIN ob.work
    BY <2>2, <2>4, <1>0, <1>1
  <2> QED BY <2>3, <2>4
<1> HIDE DEF put
<1>5. ASSUME NEW i \in DOMAIN put.work
      PROVE  put.work[i] \in Work /\ put.work[i].seq <= put.next
  <2>1. CASE i \in ids
    <3>1. put.work[i] = [w EXCEPT !.seq = seq(i)]
      BY <1>1, <2>1
    <3>2. seq(i) \in Nat /\ seq(i) <= put.next
      BY <1>4, <2>1
    <3> HIDE DEF seq
    <3> QED BY <3>1, <3>2 DEF Work
  <2>2. CASE i \notin ids
    <3>1. put.work[i] = ob.work[i] /\ i \in DOMAIN ob.work
      BY <1>1, <2>2
    <3>2. ob.work[i] \in Work /\ ob.work[i].seq <= ob.next /\ ob.work[i].seq \in Nat
      BY <3>1 DEF OutboxOK, Work
    <3> QED BY <1>0, <1>2, <3>1, <3>2
  <2> QED BY <2>1, <2>2
<1>6. DOMAIN put.work \subseteq WorkId
  BY <1>1, <1>3 DEF OutboxOK
<1>7. OutboxOK(put)
  BY <1>1, <1>2, <1>5, <1>6 DEF OutboxOK
<1> QED BY <1>7 DEF put

-----------------------------------------------------------------------------
(* What a group of the right type queues has the right type.               *)

LEMMA GroupWork ==
  ASSUME NEW g \in Group, NEW gr \in GroupRecord
  PROVE  /\ ParentId(gr) \in WorkId /\ ListId(gr) \in WorkId
         /\ gr.ep \in Nat /\ gr.parent \in SlackObject /\ gr.list \in SlackObject
         /\ DependencyForParent(gr.parent) \in Nat
         /\ Reply(g, gr) \in Work
         /\ CloseGroup(gr) \in GroupRecord
<1>1. gr.ep \in Nat /\ gr.parent \in SlackObject /\ gr.list \in SlackObject
  BY DEF GroupRecord
<1>2. /\ gr.parent.post \in Nat /\ gr.parent.ts \in Nat
      /\ gr.list.post \in Nat /\ gr.list.ts \in Nat
  BY <1>1 DEF SlackObject
<1>3. ParentId(gr) \in WorkId /\ ListId(gr) \in WorkId
  BY <1>2 DEF ParentId, ListId, WorkId, WorkName
<1>4. DependencyForParent(gr.parent) \in Nat
  BY <1>2 DEF DependencyForParent
<1>5. Reply(g, gr) \in Work
  BY <1>1, <1>2, <1>4, NewWorkType DEF Reply, Object, Text
<1>6. CloseGroup(gr) \in GroupRecord
  BY DEF CloseGroup, GroupRecord, NoObject, SlackObject
<1> QED BY <1>1, <1>3, <1>4, <1>5, <1>6

LEMMA PutParentOK ==
  ASSUME NEW ob, OutboxOK(ob), NEW g \in Group, NEW gr \in GroupRecord
  PROVE  OutboxOK(PutParent(ob, g, gr))
<1> DEFINE kind == IF gr.parent.ts # 0 THEN "update" ELSE "post"
           w == NewWork(g, "parent", kind, gr.parent.rev, gr.parent.ts, 0, 0,
                        "render", gr.ep)
<1>1. gr.parent.ts \in Nat /\ gr.parent.rev \in Nat /\ gr.ep \in Nat
  BY DEF GroupRecord, SlackObject
<1>2. kind \in {"post", "update", "reaction"}
  OBVIOUS
<1> HIDE DEF kind
<1>3. w \in Work
  BY <1>1, <1>2, NewWorkType DEF Object, Text
<1> QED BY <1>3, PutOK, GroupWork DEF PutParent, kind

LEMMA PutListOK ==
  ASSUME NEW ob, OutboxOK(ob), NEW g \in Group, NEW gr \in GroupRecord
  PROVE  OutboxOK(PutList(ob, g, gr))
<1> DEFINE kind == IF gr.list.ts # 0 THEN "update" ELSE "post"
           w == NewWork(g, "memberList", kind, gr.list.rev, gr.list.ts, gr.parent.ts,
                        DependencyForParent(gr.parent), "render", gr.ep)
<1>1. /\ gr.list.ts \in Nat /\ gr.list.rev \in Nat /\ gr.parent.ts \in Nat
      /\ gr.ep \in Nat
  BY DEF GroupRecord, SlackObject
<1>2. kind \in {"post", "update", "reaction"}
  OBVIOUS
<1> HIDE DEF kind
<1>3. w \in Work
  BY <1>1, <1>2, GroupWork, NewWorkType DEF Object, Text
<1> QED BY <1>3, PutOK, GroupWork DEF PutList, kind

LEMMA ClosedWorkType ==
  ASSUME NEW w \in Work
  PROVE  LET new == [w EXCEPT !.text = "closed", !.rev = @ + 1]
         IN  new \in Work /\ new.seq = w.seq
<1> DEFINE rev == w.rev + 1
           new == [w EXCEPT !.text = "closed", !.rev = rev]
<1>1. rev \in Nat
  BY DEF Work
<1> HIDE DEF rev
<1>2. new \in Work /\ new.seq = w.seq
  BY <1>1 DEF Work, Text
<1> QED BY <1>2 DEF rev

LEMMA CloseParentOK ==
  ASSUME NEW ob, OutboxOK(ob), NEW g \in Group, NEW gr \in GroupRecord
  PROVE  OutboxOK(CloseParent(ob, g, gr))
<1>1. gr.parent.ts \in Nat /\ gr.ep \in Nat
  BY DEF GroupRecord, SlackObject
<1>2. CASE gr.parent.ts # 0
  <2>1. NewWork(g, "eventReply", "update", 0, gr.parent.ts, 0, 0, "closed", gr.ep)
          \in Work
    BY <1>1, NewWorkType DEF Object, Text
  <2>2. <<"closeParent", gr.ep, 0>> \in WorkId
    BY <1>1 DEF WorkId, WorkName
  <2> QED BY <1>2, <2>1, <2>2, DropOK, PutOK DEF CloseParent
<1>3. CASE gr.parent.ts = 0 /\ ParentId(gr) \in DOMAIN ob.work
  <2> DEFINE p == ParentId(gr)
             new == [ob.work[p] EXCEPT !.text = "closed", !.rev = @ + 1]
             f == [ob.work EXCEPT ![p] = new]
  <2>1. ob.work[p] \in Work
    BY <1>3 DEF OutboxOK
  <2>2. new \in Work /\ new.seq = ob.work[p].seq
    BY <2>1, ClosedWorkType
  <2>3. CloseParent(ob, g, gr) = [ob EXCEPT !.work = f]
    BY <1>3 DEF CloseParent, OutboxOK
  <2>4. /\ DOMAIN f = DOMAIN ob.work
        /\ \A i \in DOMAIN ob.work : f[i] \in Work /\ f[i].seq = ob.work[i].seq
    BY <2>2 DEF OutboxOK
  <2> HIDE DEF f
  <2> QED BY <2>3, <2>4, RewriteOK
<1>4. CASE gr.parent.ts = 0 /\ ParentId(gr) \notin DOMAIN ob.work
  BY <1>4 DEF CloseParent
<1> QED BY <1>2, <1>3, <1>4

LEMMA CloseEpisodeOK ==
  ASSUME NEW ob, OutboxOK(ob), NEW g \in Group, NEW gr \in GroupRecord,
         NEW withReply \in BOOLEAN
  PROVE  OutboxOK(CloseEpisode(ob, g, gr, withReply))
<1> DEFINE ob1 == CloseParent(ob, g, gr)
           ob2 == PutIf(withReply, ob1, <<"closeReply", gr.ep, 0>>, Reply(g, gr))
<1>1. OutboxOK(ob1)
  BY CloseParentOK
<1>2. <<"closeReply", gr.ep, 0>> \in WorkId
  BY DEF GroupRecord, WorkId, WorkName
<1> HIDE DEF ob1
<1>3. OutboxOK(ob2)
  BY <1>1, <1>2, GroupWork, PutOK DEF PutIf
<1> HIDE DEF ob2
<1>4. OutboxOK(CloseList(ob2, gr))
  BY <1>3, DropOK DEF CloseList
<1> QED BY <1>4 DEF CloseEpisode, ob1, ob2

LEMMA PlaceListOK ==
  ASSUME NEW ob, OutboxOK(ob), NEW g \in Group, NEW gr \in GroupRecord, fresh \in Nat
  PROVE  /\ PlaceList(ob, g, gr).gr \in GroupRecord
         /\ OutboxOK(PlaceList(ob, g, gr).ob)
<1> USE DEF SlackObject
<1>1. /\ ShowList(ob, g, gr).gr \in GroupRecord
      /\ OutboxOK(ShowList(ob, g, gr).ob)
  <2> DEFINE gr2 == IF gr.list.post = 0
                    THEN [gr EXCEPT !.list = [post |-> fresh + 1, ts |-> 0, rev |-> 1]]
                    ELSE [gr EXCEPT !.list.rev = @ + 1]
  <2>1. gr2 \in GroupRecord
    BY DEF GroupRecord
  <2> HIDE DEF gr2
  <2>2. OutboxOK(PutList(ob, g, gr2))
    BY <2>1, PutListOK
  <2> QED BY <2>1, <2>2 DEF ShowList, gr2
<1>2. /\ RetireList(ob, g, gr).gr \in GroupRecord
      /\ OutboxOK(RetireList(ob, g, gr).ob)
  <2>1. CASE Cancellable(ob, gr)
    <3>1. [gr EXCEPT !.list = NoObject] \in GroupRecord
      BY DEF GroupRecord, NoObject
    <3> QED BY <2>1, <3>1, DropOK DEF RetireList
  <2>2. CASE ~Cancellable(ob, gr)
    <3> DEFINE gr2 == [gr EXCEPT !.list.rev = @ + 1]
               w == IF gr.list.ts # 0
                    THEN NewWork(g, "memberListRetire", "update", gr2.list.rev,
                                 gr.list.ts, 0, 0, "retired", gr.ep)
                    ELSE NewWork(g, "memberListRetire", "post", gr2.list.rev, 0,
                                 gr.parent.ts, DependencyForParent(gr.parent),
                                 "retired", gr.ep)
    <3>1. gr2 \in GroupRecord
      BY DEF GroupRecord
    <3>2. /\ gr2.list.rev \in Nat /\ gr.list.ts \in Nat /\ gr.parent.ts \in Nat
          /\ gr.ep \in Nat
      BY <3>1 DEF GroupRecord
    <3>3. w \in Work
      BY <3>2, GroupWork, NewWorkType DEF Object, Text
    <3> HIDE DEF gr2, w
    <3>4. OutboxOK(Put(ob, ListId(gr), w))
      BY <3>3, GroupWork, PutOK
    <3> QED BY <2>2, <3>1, <3>4 DEF RetireList, gr2, w
  <2> QED BY <2>1, <2>2
<1> QED BY <1>1, <1>2 DEF PlaceList

-----------------------------------------------------------------------------
(* TypeOK is inductive: one lemma for each group of actions.               *)

LEMMA SpendType ==
  ASSUME used \in [Moves -> Nat], NEW m \in Moves, Spend(m)
  PROVE  used' \in [Moves -> Nat]
BY DEF Spend

LEMMA NotifyType ==
  ASSUME TypeOK, NEW g \in Group, NEW b \in Batch, Notify(g, b)
  PROVE  TypeOK'
<1> DEFINE old    == group[g]
           firing == FiringIn(b)
           base   == IF IsOpen(old) THEN old ELSE NewEpisode
           news   == IF IsOpen(old) THEN firing \ old.delivered ELSE {}
           known  == (base.firing \ DOMAIN b) \cup firing
           status == IF firing # {} THEN "firing"
                     ELSE IF known # {} THEN "incomplete" ELSE "resolved"
           gr     == [base EXCEPT !.parent.rev = @ + 1,
                                  !.firing = known,
                                  !.delivered = DOMAIN b,
                                  !.ack = @ /\ news = {},
                                  !.status = status]
           placed == PlaceList(PutParent(outbox, g, gr), g, gr)
           queued == PutNewMembers(placed.ob, gr.ep, news, Reply(g, gr))
           closes == known = {}
<1>1. /\ group' = [group EXCEPT ![g] = IF closes THEN CloseGroup(placed.gr)
                                       ELSE placed.gr]
      /\ outbox' = IF closes THEN CloseEpisode(queued, g, placed.gr, FALSE) ELSE queued
      /\ fresh' = fresh + 2
      /\ UNCHANGED <<worker, slack, reacted>>
      /\ Spend("notify")
  BY DEF Notify
<1>2. fresh \in Nat /\ old \in GroupRecord /\ OutboxOK(outbox)
  BY DEF TypeOK
<1>3. DOMAIN b \in SUBSET Member /\ firing \in SUBSET Member /\ firing \subseteq DOMAIN b
  BY DEF Batch, FiringIn
<1>4. base \in GroupRecord
  BY <1>2 DEF NewEpisode, Absent, NoObject, GroupRecord, SlackObject
<1>5. known \in SUBSET Member /\ news \in SUBSET Member
  BY <1>3, <1>4 DEF GroupRecord
<1>6. status \in {"firing", "incomplete", "resolved"}
  OBVIOUS
<1>7. gr \in GroupRecord
  <2> DEFINE ack == base.ack /\ news = {}
             parent == [base.parent EXCEPT !.rev = @ + 1]
  <2>1. ack \in BOOLEAN
    BY <1>4 DEF GroupRecord
  <2>2. parent \in SlackObject
    BY <1>4 DEF GroupRecord, SlackObject
  <2>3. gr = [base EXCEPT !.parent = parent, !.firing = known,
                          !.delivered = DOMAIN b, !.ack = ack, !.status = status]
    BY <1>4 DEF GroupRecord
  <2> HIDE DEF ack, parent, gr, base, known, status
  <2> QED BY <2>1, <2>2, <2>3, <1>3, <1>4, <1>5, <1>6 DEF GroupRecord
<1> HIDE DEF gr, known, news
<1>8. OutboxOK(PutParent(outbox, g, gr))
  BY <1>2, <1>7, PutParentOK
<1>9. placed.gr \in GroupRecord /\ OutboxOK(placed.ob)
  BY <1>2, <1>7, <1>8, PlaceListOK
<1> HIDE DEF placed
<1>10. gr.ep \in Nat /\ Reply(g, gr) \in Work
  BY <1>7, GroupWork
<1>11. OutboxOK(queued)
  BY <1>5, <1>9, <1>10, PutNewMembersOK
<1> HIDE DEF queued
<1>12. OutboxOK(outbox')
  BY <1>1, <1>9, <1>11, CloseEpisodeOK
<1>13. group' \in [Group -> GroupRecord]
  BY <1>1, <1>9, GroupWork DEF TypeOK
<1>14. used' \in [Moves -> Nat]
  BY <1>1, SpendType DEF TypeOK, Moves
<1>15. fresh' \in Nat /\ reacted' \subseteq Nat /\ worker' \in WorkerRecord /\ slack' \in Seq(SlackMessage)
  BY <1>1, <1>2 DEF TypeOK
<1> QED BY <1>12, <1>13, <1>14, <1>15 DEF TypeOK

LEMMA WritersType ==
  ASSUME TypeOK, NEW g \in Group, Writers(g)
  PROVE  TypeOK'
<1> DEFINE old == group[g]
<1>0. /\ fresh \in Nat /\ old \in GroupRecord /\ OutboxOK(outbox)
      /\ group \in [Group -> GroupRecord] /\ used \in [Moves -> Nat]
      /\ worker \in WorkerRecord /\ slack \in Seq(SlackMessage)
  BY DEF TypeOK
<1>1. CASE \E b \in Batch : Notify(g, b)
  BY <1>1, NotifyType
<1>2. CASE Ack(g)
  <2> DEFINE gr == [old EXCEPT !.ack = TRUE, !.parent.rev = @ + 1]
  <2>1. gr \in GroupRecord
    <3> DEFINE parent == [old.parent EXCEPT !.rev = @ + 1]
    <3>0. old.parent \in SlackObject
      BY <1>0 DEF GroupRecord
    <3>1. parent \in SlackObject
      BY <3>0 DEF SlackObject
    <3>2. gr = [old EXCEPT !.ack = TRUE, !.parent = parent]
      BY <1>0 DEF GroupRecord
    <3> HIDE DEF gr, parent
    <3> QED BY <1>0, <3>1, <3>2 DEF GroupRecord
  <2>2. /\ group' = [group EXCEPT ![g] = gr] /\ outbox' = PutParent(outbox, g, gr)
        /\ Spend("ack") /\ UNCHANGED <<fresh, worker, slack, reacted>>
    BY <1>2 DEF Ack
  <2> HIDE DEF gr
  <2>3. group' \in [Group -> GroupRecord] /\ OutboxOK(outbox') /\ used' \in [Moves -> Nat]
    BY <1>0, <2>1, <2>2, PutParentOK, SpendType DEF Moves
  <2> QED BY <1>0, <2>2, <2>3 DEF TypeOK
<1>3. CASE CloseWithReply(g)
  <2>1. /\ group' = [group EXCEPT ![g] = CloseGroup(old)]
        /\ outbox' = CloseEpisode(outbox, g, old, TRUE)
        /\ Spend("close") /\ UNCHANGED <<fresh, worker, slack, reacted>>
    BY <1>3 DEF CloseWithReply
  <2>2. group' \in [Group -> GroupRecord] /\ OutboxOK(outbox') /\ used' \in [Moves -> Nat]
    BY <1>0, <2>1, GroupWork, CloseEpisodeOK, SpendType DEF Moves
  <2> QED BY <1>0, <2>1, <2>2 DEF TypeOK
<1>4. CASE Escalate(g)
  <2> DEFINE reaction == NewWork(g, "reaction", "reaction", 0, old.parent.ts, 0,
                                 DependencyForParent(old.parent), "reaction", old.ep)
             ob1 == Put(outbox, <<"escalation", old.ep, 0>>, Reply(g, old))
             ob2 == Put(ob1, <<"escalationReaction", old.ep, 0>>, reaction)
  <2>1. /\ group' = [group EXCEPT ![g].escalated = TRUE] /\ outbox' = ob2
        /\ Spend("escalate") /\ UNCHANGED <<fresh, worker, slack, reacted>>
    BY <1>4 DEF Escalate
  <2>2. old.ep \in Nat /\ old.parent.ts \in Nat
    BY <1>0 DEF GroupRecord, SlackObject
  <2>3. reaction \in Work
    BY <1>0, <2>2, GroupWork, NewWorkType DEF Object, Text
  <2>4. /\ <<"escalation", old.ep, 0>> \in WorkId
        /\ <<"escalationReaction", old.ep, 0>> \in WorkId
    BY <2>2 DEF WorkId, WorkName
  <2> HIDE DEF reaction
  <2>5. OutboxOK(ob1)
    BY <1>0, <2>4, GroupWork, PutOK
  <2> HIDE DEF ob1
  <2>6. OutboxOK(outbox')
    BY <2>1, <2>3, <2>4, <2>5, PutOK
  <2>7. [old EXCEPT !.escalated = TRUE] \in GroupRecord
    BY <1>0 DEF GroupRecord
  <2>8. group' \in [Group -> GroupRecord] /\ used' \in [Moves -> Nat]
    BY <1>0, <2>1, <2>7, SpendType DEF Moves
  <2> QED BY <1>0, <2>1, <2>6, <2>8 DEF TypeOK
<1>5. CASE Forget(g)
  <2>1. Absent \in GroupRecord
    BY DEF Absent, NoObject, GroupRecord, SlackObject
  <2>2. group' \in [Group -> GroupRecord] /\ UNCHANGED <<outbox, fresh, worker, slack, reacted, used>>
    BY <1>0, <1>5, <2>1 DEF Forget
  <2> QED BY <1>0, <2>2 DEF TypeOK
<1> QED BY <1>1, <1>2, <1>3, <1>4, <1>5 DEF Writers

\* What the worker holds at each point of its call.
LEMMA WorkerFields ==
  ASSUME worker \in WorkerRecord
  PROVE  /\ worker.pc = "picked" =>
              worker.id \in WorkId /\ worker.work \in Work /\ worker.content \in Content
         /\ worker.pc = "sent" =>
              /\ worker.id \in WorkId /\ worker.work \in Work
              /\ worker.answer \in Answer /\ worker.ts \in Nat
BY DEF WorkerRecord

LEMMA IdleType == Idle \in WorkerRecord
BY DEF Idle, WorkerRecord

LEMMA RenderedType ==
  ASSUME TypeOK, NEW w \in Work
  PROVE  Rendered(w) \in Content
<1>1. w.group \in Group /\ w.text \in Text /\ w.ep \in Nat /\ w.rev \in Nat
  BY DEF Work
<1>2. group[w.group] \in GroupRecord
  BY <1>1 DEF TypeOK
<1>3. /\ group[w.group].ep \in Nat /\ group[w.group].parent.rev \in Nat
      /\ group[w.group].list.rev \in Nat
  BY <1>2 DEF GroupRecord, SlackObject
<1> QED BY <1>1, <1>3 DEF Rendered, Content, Text

LEMMA PickType ==
  ASSUME TypeOK, NEW cooling, Pick(cooling)
  PROVE  TypeOK'
<1>1. PICK i \in Candidates(cooling) :
        worker' = [pc |-> "picked", id |-> i, work |-> outbox.work[i],
                   content |-> Rendered(outbox.work[i])]
  BY DEF Pick
<1>2. UNCHANGED <<group, outbox, fresh, slack, reacted, used>>
  BY DEF Pick
<1>3. i \in WorkId /\ outbox.work[i] \in Work
  BY DEF TypeOK, OutboxOK, Candidates
<1>4. Rendered(outbox.work[i]) \in Content
  BY <1>3, RenderedType
<1>5. worker' \in WorkerRecord
  BY <1>1, <1>3, <1>4 DEF WorkerRecord
<1> QED BY <1>2, <1>5 DEF TypeOK

LEMMA EffectType ==
  ASSUME slack \in Seq(SlackMessage), NEW id \in WorkId, NEW w \in Work,
         NEW content \in Content
  PROVE  Effect(id, w, content) \in Seq(SlackMessage)
<1>1. Message(id, w, content) \in SlackMessage
  BY DEF Message, SlackMessage, Work, Content
<1>2. CASE w.kind = "post"
  BY <1>1, <1>2 DEF Effect
<1>3. CASE w.kind = "update"
  <2> DEFINE new == [slack EXCEPT ![w.ts].text = content.text,
                                  ![w.ts].ep = content.ep,
                                  ![w.ts].rev = content.rev]
  <2>1. CASE w.ts \in DOMAIN slack
    <3> DEFINE m == [slack[w.ts] EXCEPT !.text = content.text, !.ep = content.ep,
                                        !.rev = content.rev]
    <3>1. slack[w.ts] \in SlackMessage
      BY <2>1
    <3>2. m \in SlackMessage
      BY <3>1 DEF SlackMessage, Content
    <3>3. new = [slack EXCEPT ![w.ts] = m]
      BY <2>1
    <3> HIDE DEF m, new
    <3>4. new \in Seq(SlackMessage)
      BY <2>1, <3>2, <3>3
    <3> QED BY <1>3, <3>4 DEF Effect, new
  <2>2. CASE w.ts \notin DOMAIN slack
    <3>1. new = slack
      BY <2>2
    <3> QED BY <1>3, <3>1 DEF Effect
  <2> QED BY <2>1, <2>2
<1>4. CASE w.kind \notin {"post", "update"}
  BY <1>4 DEF Effect
<1> QED BY <1>2, <1>3, <1>4

LEMMA SendType ==
  ASSUME TypeOK, NEW answer \in Answer, Send(answer)
  PROVE  TypeOK'
<1> DEFINE id == worker.id
           w  == worker.work
           new == [outbox.work[id] EXCEPT !.phase = "inFlight", !.tried = TRUE]
           f == [outbox.work EXCEPT ![id] = new]
<1>1. /\ OutboxOK(outbox) /\ slack \in Seq(SlackMessage) /\ used \in [Moves -> Nat]
      /\ id \in DOMAIN outbox.work /\ worker.pc = "picked"
      /\ id \in WorkId /\ w \in Work /\ worker.content \in Content
  BY WorkerFields DEF TypeOK, Send
<1>2. outbox.work[id] \in Work
  BY <1>1 DEF OutboxOK
<1>3. new \in Work /\ new.seq = outbox.work[id].seq
  BY <1>2 DEF Work
<1>4. outbox' = [outbox EXCEPT !.work = f]
  BY <1>1 DEF Send, OutboxOK
<1>5. DOMAIN f = DOMAIN outbox.work
  OBVIOUS
<1>6. \A i \in DOMAIN outbox.work : f[i] \in Work /\ f[i].seq = outbox.work[i].seq
  BY <1>1, <1>3 DEF OutboxOK
<1> HIDE DEF f
<1>7. OutboxOK(outbox')
  BY <1>1, <1>4, <1>5, <1>6, RewriteOK
<1>8. slack' \in Seq(SlackMessage)
  BY <1>1, EffectType DEF Send
<1>9. used' \in [Moves -> Nat]
  BY <1>1, SpendType DEF Send, Price, Moves, Answer
<1>10. worker' \in WorkerRecord
  <2>1. Len(slack) + 1 \in Nat
    BY <1>1
  <2> QED BY <1>1, <2>1 DEF Send, WorkerRecord
<1>11. group' \in [Group -> GroupRecord] /\ fresh' \in Nat /\ reacted' \subseteq Nat
  BY <1>1 DEF Send, TypeOK, Work
<1> QED BY <1>7, <1>8, <1>9, <1>10, <1>11 DEF TypeOK

\* An entry that learns where its message or thread is.
LEMMA ResolvedOK ==
  ASSUME OutboxOK(outbox), NEW ts \in Nat
  PROVE  /\ OutboxOK(Resolved(outbox, ts))
         /\ DOMAIN Resolved(outbox, ts).work = DOMAIN outbox.work
<1> DEFINE f == [i \in DOMAIN outbox.work |-> Resolve(outbox.work[i], ts)]
<1>1. ASSUME NEW i \in DOMAIN outbox.work
      PROVE  f[i] \in Work /\ f[i].seq = outbox.work[i].seq
  <2>1. outbox.work[i] \in Work
    BY DEF OutboxOK
  <2> QED BY <2>1 DEF Resolve, Work
<1>2. Resolved(outbox, ts) = [outbox EXCEPT !.work = f]
  BY DEF Resolved
<1>3. DOMAIN f = DOMAIN outbox.work
  OBVIOUS
<1> HIDE DEF f
<1>4. OutboxOK(Resolved(outbox, ts))
  BY <1>1, <1>2, <1>3, RewriteOK
<1> QED BY <1>2, <1>3, <1>4 DEF OutboxOK

\* Only the phase of one entry changes.
LEMMA PhaseOK ==
  ASSUME NEW ob, OutboxOK(ob), NEW id \in DOMAIN ob.work,
         NEW phase \in {"pending", "inFlight", "failed"}
  PROVE  OutboxOK([ob EXCEPT !.work[id].phase = phase])
<1> DEFINE new == [ob.work[id] EXCEPT !.phase = phase]
           f == [ob.work EXCEPT ![id] = new]
<1>1. ob.work[id] \in Work
  BY DEF OutboxOK
<1>2. new \in Work /\ new.seq = ob.work[id].seq
  BY <1>1 DEF Work
<1>3. [ob EXCEPT !.work[id].phase = phase] = [ob EXCEPT !.work = f]
  BY DEF OutboxOK
<1>4. DOMAIN f = DOMAIN ob.work
  OBVIOUS
<1>5. \A i \in DOMAIN ob.work : f[i] \in Work /\ f[i].seq = ob.work[i].seq
  BY <1>2 DEF OutboxOK
<1> HIDE DEF f
<1> QED BY <1>3, <1>4, <1>5, RewriteOK

LEMMA CompletePostType ==
  ASSUME TypeOK, CompletePost
  PROVE  TypeOK'
<1> DEFINE id == worker.id
           ts == worker.ts
           g == Current.group
           r == Resolved(outbox, ts)
<1>1. /\ OutboxOK(outbox) /\ slack \in Seq(SlackMessage) /\ group \in [Group -> GroupRecord]
      /\ fresh \in Nat /\ used \in [Moves -> Nat]
      /\ id \in DOMAIN outbox.work /\ ts \in Nat
  BY WorkerFields DEF TypeOK, CompletePost
<1>2. OutboxOK(r) /\ DOMAIN r.work = DOMAIN outbox.work
  BY <1>1, ResolvedOK
<1>3. g \in Group
  BY <1>1 DEF OutboxOK, Current, Work
<1>4. OutboxOK(outbox')
  <2>1. CASE Superseded
    <3> DEFINE new == [r.work[id] EXCEPT !.kind = "update", !.ts = ts,
                                         !.phase = "pending"]
               f == [r.work EXCEPT ![id] = new]
    <3>1. r.work[id] \in Work
      BY <1>1, <1>2 DEF OutboxOK
    <3>2. new \in Work /\ new.seq = r.work[id].seq
      BY <1>1, <3>1 DEF Work
    <3>3. outbox' = [r EXCEPT !.work = f]
      BY <1>1, <1>2, <2>1 DEF CompletePost, OutboxOK
    <3>4. DOMAIN f = DOMAIN r.work
      OBVIOUS
    <3>5. \A i \in DOMAIN r.work : f[i] \in Work /\ f[i].seq = r.work[i].seq
      BY <1>2, <3>2 DEF OutboxOK
    <3> HIDE DEF f, r
    <3> QED BY <1>2, <3>3, <3>4, <3>5, RewriteOK
  <2>2. CASE ~Superseded
    <3>1. outbox' = Drop(r, {id})
      BY <2>2 DEF CompletePost
    <3> HIDE DEF r
    <3> QED BY <1>2, <3>1, DropOK
  <2> QED BY <2>1, <2>2
<1>5. group' \in [Group -> GroupRecord]
  <2> DEFINE old == group[g]
             pts == IF old.parent.post # 0 /\ ParentId(old) = id THEN ts ELSE old.parent.ts
             lts == IF old.list.post # 0 /\ ListId(old) = id THEN ts ELSE old.list.ts
             parent == [old.parent EXCEPT !.ts = pts]
             list == [old.list EXCEPT !.ts = lts]
  <2>1. old \in GroupRecord
    BY <1>1, <1>3
  <2>2. old.parent \in SlackObject /\ old.list \in SlackObject
    BY <2>1 DEF GroupRecord
  <2>3. pts \in Nat /\ lts \in Nat
    BY <1>1, <2>2 DEF SlackObject
  <2>4. RecordPost(old, ts) = [old EXCEPT !.parent = parent, !.list = list]
    BY <2>1 DEF RecordPost, GroupRecord
  <2> HIDE DEF pts, lts
  <2>5. parent \in SlackObject /\ list \in SlackObject
    BY <2>2, <2>3 DEF SlackObject
  <2> HIDE DEF parent, list
  <2>6. RecordPost(old, ts) \in GroupRecord
    BY <2>1, <2>4, <2>5 DEF GroupRecord
  <2> QED BY <1>1, <1>3, <2>6 DEF CompletePost
<1>6. slack' \in Seq(SlackMessage)
  <2>1. slack' = [slack EXCEPT ![ts].recorded = TRUE]
    BY DEF CompletePost
  <2>2. CASE ts \in DOMAIN slack
    <3> DEFINE m == [slack[ts] EXCEPT !.recorded = TRUE]
    <3>1. slack[ts] \in SlackMessage
      BY <1>1, <2>2
    <3>2. m \in SlackMessage
      BY <3>1 DEF SlackMessage
    <3>3. slack' = [slack EXCEPT ![ts] = m]
      BY <2>1, <2>2
    <3> HIDE DEF m
    <3> QED BY <1>1, <2>2, <3>2, <3>3
  <2>3. CASE ts \notin DOMAIN slack
    <3>1. [slack EXCEPT ![ts].recorded = TRUE] = slack
      BY <1>1, <2>3
    <3> QED BY <1>1, <2>1, <3>1
  <2> QED BY <2>2, <2>3
<1>7. worker' \in WorkerRecord /\ fresh' \in Nat /\ reacted' \subseteq Nat /\ used' \in [Moves -> Nat]
  BY <1>1, IdleType DEF CompletePost, TypeOK
<1> QED BY <1>4, <1>5, <1>6, <1>7 DEF TypeOK

\* The group may lose its list; everything else about it stays.
LEMMA ForgetListType ==
  ASSUME group \in [Group -> GroupRecord], NEW g \in Group, NEW ts, ForgetList(g, ts)
  PROVE  group' \in [Group -> GroupRecord]
<1> DEFINE list == IF group[g].list.post # 0 /\ group[g].list.ts = ts THEN NoObject
                   ELSE group[g].list
<1>1. list \in SlackObject
  BY DEF GroupRecord, NoObject, SlackObject
<1>2. group' = [group EXCEPT ![g].list = list]
  BY DEF ForgetList
<1> HIDE DEF list
<1>3. [group[g] EXCEPT !.list = list] \in GroupRecord
  BY <1>1 DEF GroupRecord
<1> QED BY <1>2, <1>3

LEMMA SettleType ==
  ASSUME TypeOK, NEW ob, OutboxOK(ob), Settle(ob), group' \in [Group -> GroupRecord]
  PROVE  TypeOK'
<1>1. OutboxOK(outbox') /\ worker' \in WorkerRecord
  BY IdleType DEF Settle
<1>2. fresh' \in Nat /\ reacted' \subseteq Nat /\ slack' \in Seq(SlackMessage) /\ used' \in [Moves -> Nat]
  BY DEF Settle, TypeOK
<1> QED BY <1>1, <1>2 DEF TypeOK

\* A replacement takes the sequence number of what it replaces.
LEMMA SubstituteOK ==
  ASSUME NEW ob, OutboxOK(ob), NEW old \in DOMAIN ob.work, NEW new \in WorkId,
         NEW w \in Work
  PROVE  OutboxOK(Substitute(ob, old, new, w))
<1> DEFINE seq == ob.work[old].seq
           kept == Drop(ob, {old})
           put == Put(kept, new, w)
           e == [put.work[new] EXCEPT !.seq = seq]
           sub == [put EXCEPT !.work = [put.work EXCEPT ![new] = e]]
<1>1. seq \in Nat /\ seq <= ob.next /\ ob.next \in Nat
  BY DEF OutboxOK, Work
<1>2. OutboxOK(kept) /\ kept.next = ob.next
  BY DropOK DEF Drop, OutboxOK
<1> HIDE DEF kept
<1>3. OutboxOK(put) /\ new \in DOMAIN put.work /\ ob.next <= put.next
  BY <1>1, <1>2, PutOK DEF Put
<1>4. put.next \in Nat /\ put.work[new] \in Work
  BY <1>3 DEF OutboxOK
<1> HIDE DEF put, seq
<1>5. e \in Work /\ e.seq = seq
  BY <1>1, <1>4 DEF Work
<1>6. Substitute(ob, old, new, w) = sub
  BY <1>3 DEF Substitute, put, seq, kept, OutboxOK
<1>7. /\ DOMAIN sub = {"work", "next"} /\ sub.next = put.next
      /\ DOMAIN sub.work = DOMAIN put.work
      /\ \A i \in DOMAIN sub.work : sub.work[i] = IF i = new THEN e ELSE put.work[i]
  BY <1>3 DEF OutboxOK
<1> HIDE DEF sub, e
<1>8. seq <= put.next
  BY <1>1, <1>3, <1>4
<1>9. ASSUME NEW i \in DOMAIN sub.work
      PROVE  sub.work[i] \in Work /\ sub.work[i].seq <= sub.next
  BY <1>3, <1>5, <1>7, <1>8 DEF OutboxOK
<1> QED BY <1>3, <1>6, <1>7, <1>9 DEF OutboxOK

LEMMA RepointOK ==
  ASSUME NEW ob, OutboxOK(ob), NEW old, NEW new \in Nat
  PROVE  OutboxOK(Repoint(ob, old, new)) /\ DOMAIN Repoint(ob, old, new).work = DOMAIN ob.work
<1> DEFINE f == [i \in DOMAIN ob.work |->
                   IF ob.work[i].dep = old THEN [ob.work[i] EXCEPT !.dep = new]
                   ELSE ob.work[i]]
<1>1. ASSUME NEW i \in DOMAIN ob.work
      PROVE  f[i] \in Work /\ f[i].seq = ob.work[i].seq
  <2>1. ob.work[i] \in Work
    BY DEF OutboxOK
  <2> QED BY <2>1 DEF Work
<1>2. Repoint(ob, old, new) = [ob EXCEPT !.work = f] /\ DOMAIN f = DOMAIN ob.work
  BY DEF Repoint
<1> HIDE DEF f
<1> QED BY <1>1, <1>2, RewriteOK DEF OutboxOK

LEMMA ReparentOK ==
  ASSUME NEW ob, OutboxOK(ob), NEW oldTs, NEW oldPost, NEW new \in Nat
  PROVE  /\ OutboxOK(Reparent(ob, oldTs, oldPost, new))
         /\ DOMAIN Reparent(ob, oldTs, oldPost, new).work = DOMAIN ob.work
<1> DEFINE f == [i \in DOMAIN ob.work |->
                   IF ob.work[i].thread = oldTs
                   THEN [ob.work[i] EXCEPT !.thread = 0, !.dep = new]
                   ELSE IF ob.work[i].dep = oldPost
                        THEN [ob.work[i] EXCEPT !.dep = new] ELSE ob.work[i]]
<1>1. ASSUME NEW i \in DOMAIN ob.work
      PROVE  f[i] \in Work /\ f[i].seq = ob.work[i].seq
  <2>1. ob.work[i] \in Work
    BY DEF OutboxOK
  <2> QED BY <2>1 DEF Work
<1>2. Reparent(ob, oldTs, oldPost, new) = [ob EXCEPT !.work = f]
      /\ DOMAIN f = DOMAIN ob.work
  BY DEF Reparent
<1> HIDE DEF f
<1> QED BY <1>1, <1>2, RewriteOK DEF OutboxOK

LEMMA CommitType ==
  ASSUME TypeOK, Commit
  PROVE  TypeOK'
<1> DEFINE id == worker.id
           a  == Attempt
<1>0. /\ OutboxOK(outbox) /\ group \in [Group -> GroupRecord] /\ fresh \in Nat
      /\ slack \in Seq(SlackMessage) /\ used \in [Moves -> Nat]
      /\ worker \in WorkerRecord /\ reacted \subseteq Nat
  BY DEF TypeOK
<1>1. /\ worker.pc = "sent" => a \in Work /\ a.group \in Group
      /\ id \in DOMAIN outbox.work => Current.group \in Group
  BY <1>0, WorkerFields DEF Attempt, Current, OutboxOK, Work
<1>2. CASE CompletePost
  BY <1>2, CompletePostType
<1>3. CASE CompleteUpdate
  <2>0. worker.pc = "sent" /\ id \in DOMAIN outbox.work
    BY <1>3 DEF CompleteUpdate
  <2>1. CASE Superseded
    <3>1. Settle([outbox EXCEPT !.work[id].phase = "pending"]) /\ UNCHANGED group
      BY <1>3, <2>1 DEF CompleteUpdate
    <3>2. OutboxOK([outbox EXCEPT !.work[id].phase = "pending"])
      BY <1>0, <2>0, PhaseOK
    <3> QED BY <1>0, <3>1, <3>2, SettleType
  <2>2. CASE ~Superseded
    <3>1. Settle(Drop(outbox, {id})) /\ OutboxOK(Drop(outbox, {id}))
      BY <1>0, <1>3, <2>2, DropOK DEF CompleteUpdate
    <3>2. ForgetList(Current.group, a.ts) \/ UNCHANGED group
      BY <1>3, <2>2 DEF CompleteUpdate
    <3>3. group' \in [Group -> GroupRecord]
      BY <1>0, <1>1, <2>0, <3>2, ForgetListType
    <3> QED BY <3>1, <3>3, SettleType
  <2> QED BY <2>1, <2>2
<1>4. CASE CompleteReaction \/ DetachedMissing
  <2>1. Settle(Drop(outbox, {id})) /\ UNCHANGED group
    BY <1>4 DEF CompleteReaction, DetachedMissing
  <2>2. OutboxOK(Drop(outbox, {id}))
    BY <1>0, DropOK
  <2> QED BY <1>0, <2>1, <2>2, SettleType
<1>5. CASE FailWork
  <2> DEFINE phase == IF worker.answer = "permanent" THEN "failed" ELSE "pending"
  <2>1. Settle([outbox EXCEPT !.work[id].phase = phase]) /\ UNCHANGED group
        /\ id \in DOMAIN outbox.work
    BY <1>5 DEF FailWork
  <2>2. phase \in {"pending", "inFlight", "failed"}
    OBVIOUS
  <2> HIDE DEF phase
  <2>3. OutboxOK([outbox EXCEPT !.work[id].phase = phase])
    BY <1>0, <2>1, <2>2, PhaseOK
  <2> QED BY <1>0, <2>1, <2>3, SettleType
<1>6. CASE CommitNothing
  BY <1>0, <1>6, SettleType DEF CommitNothing
<1>7. CASE RetiredListMissing
  <2>1. /\ Settle(Drop(outbox, {id})) /\ ForgetList(Current.group, a.ts)
        /\ id \in DOMAIN outbox.work
    BY <1>7 DEF RetiredListMissing, UpdateMissing
  <2>2. OutboxOK(Drop(outbox, {id}))
    BY <1>0, DropOK
  <2>3. group' \in [Group -> GroupRecord]
    BY <1>0, <1>1, <2>1, ForgetListType
  <2> QED BY <2>1, <2>2, <2>3, SettleType
<1>8. CASE Unreplaceable
  <2>1. Settle([outbox EXCEPT !.work[id].phase = "failed"]) /\ UNCHANGED group
        /\ id \in DOMAIN outbox.work
    BY <1>8 DEF Unreplaceable, UpdateMissing
  <2>2. OutboxOK([outbox EXCEPT !.work[id].phase = "failed"])
    BY <1>0, <2>1, PhaseOK
  <2> QED BY <1>0, <2>1, <2>2, SettleType
<1>9. CASE ListMissing
  <2> DEFINE g == a.group
             list == [post |-> fresh, ts |-> 0, rev |-> group[g].list.rev + 1]
             gr == [group[g] EXCEPT !.list = list]
             w == NewWork(g, "memberList", "post", gr.list.rev, 0, gr.parent.ts,
                          DependencyForParent(gr.parent), "render", gr.ep)
             ob == Repoint(outbox, group[g].list.post, fresh)
  <2>0. /\ group' = [group EXCEPT ![g] = gr]
        /\ fresh' = fresh + 1 /\ worker' = Idle /\ UNCHANGED <<slack, reacted, used>>
    BY <1>9 DEF ListMissing
  <2>1. /\ outbox' = Substitute(ob, id, ListId(gr), w)
        /\ id \in DOMAIN outbox.work /\ worker.pc = "sent"
    BY <1>9 DEF ListMissing, UpdateMissing
  <2>2. g \in Group /\ group[g] \in GroupRecord
    BY <1>0, <1>1, <2>1
  <2>3. list \in SlackObject
    BY <1>0, <2>2 DEF GroupRecord, SlackObject
  <2> HIDE DEF list
  <2>4. gr \in GroupRecord
    BY <2>2, <2>3 DEF GroupRecord
  <2>5. gr.list.rev \in Nat /\ gr.parent.ts \in Nat /\ gr.ep \in Nat
    BY <2>4 DEF GroupRecord, SlackObject
  <2> HIDE DEF gr, g
  <2>6. w \in Work
    BY <2>2, <2>4, <2>5, GroupWork, NewWorkType DEF Object, Text
  <2>7. OutboxOK(ob) /\ id \in DOMAIN ob.work
    BY <1>0, <2>1, RepointOK
  <2> HIDE DEF w, ob
  <2>8. OutboxOK(outbox')
    BY <2>1, <2>2, <2>4, <2>6, <2>7, GroupWork, SubstituteOK
  <2>9. group' \in [Group -> GroupRecord]
    BY <1>0, <2>0, <2>4
  <2>10. fresh' \in Nat /\ worker' \in WorkerRecord /\ reacted' \subseteq Nat
         /\ slack' \in Seq(SlackMessage) /\ used' \in [Moves -> Nat]
    BY <1>0, <2>0, IdleType
  <2> QED BY <2>8, <2>9, <2>10 DEF TypeOK
<1>10. CASE ParentMissing
  <2> DEFINE g == a.group
             parent == [post |-> fresh, ts |-> 0, rev |-> group[g].parent.rev + 1]
             gr == [group[g] EXCEPT !.parent = parent]
             w == NewWork(g, "parent", "post", gr.parent.rev, 0, 0, 0, "render", gr.ep)
             ob == Reparent(outbox, a.ts, group[g].parent.post, fresh)
  <2>0. /\ group' = [group EXCEPT ![g] = gr]
        /\ fresh' = fresh + 1 /\ worker' = Idle /\ UNCHANGED <<reacted, used>>
    BY <1>10 DEF ParentMissing
  <2>1. /\ outbox' = Substitute(ob, id, ParentId(gr), w)
        /\ id \in DOMAIN outbox.work /\ worker.pc = "sent"
    BY <1>10 DEF ParentMissing, UpdateMissing
  <2>2. g \in Group /\ group[g] \in GroupRecord
    BY <1>0, <1>1, <2>1
  <2>3. parent \in SlackObject
    BY <1>0, <2>2 DEF GroupRecord, SlackObject
  <2> HIDE DEF parent
  <2>4. gr \in GroupRecord
    BY <2>2, <2>3 DEF GroupRecord
  <2>5. gr.parent.rev \in Nat /\ gr.ep \in Nat
    BY <2>4 DEF GroupRecord, SlackObject
  <2> HIDE DEF gr, g
  <2>6. w \in Work
    BY <2>2, <2>5, NewWorkType DEF Object, Text
  <2>7. OutboxOK(ob) /\ id \in DOMAIN ob.work
    BY <1>0, <2>1, ReparentOK
  <2> HIDE DEF w, ob
  <2>8. OutboxOK(outbox')
    BY <2>1, <2>2, <2>4, <2>6, <2>7, GroupWork, SubstituteOK
  <2>9. group' \in [Group -> GroupRecord]
    BY <1>0, <2>0, <2>4
  <2>10. fresh' \in Nat /\ worker' \in WorkerRecord
         /\ used' \in [Moves -> Nat] /\ reacted' \subseteq Nat
    BY <1>0, <2>0, IdleType
  <2>11. slack' \in Seq(SlackMessage)
    <3>1. slack' = [slack EXCEPT ![a.ts].replaced = @ \cup {group[g].parent.post}]
      BY <1>10 DEF ParentMissing, g
    <3>2. group[g].parent.post \in Nat
      BY <2>2 DEF GroupRecord, SlackObject
    <3>3. CASE a.ts \in DOMAIN slack
      <4> DEFINE posts == slack[a.ts].replaced \cup {group[g].parent.post}
                 m == [slack[a.ts] EXCEPT !.replaced = posts]
      <4>1. slack[a.ts] \in SlackMessage
        BY <1>0, <3>3
      <4>2. posts \in SUBSET Nat
        BY <3>2, <4>1 DEF SlackMessage
      <4>3. slack' = [slack EXCEPT ![a.ts] = m]
        BY <3>1
      <4> HIDE DEF posts
      <4>4. m \in SlackMessage
        BY <4>1, <4>2 DEF SlackMessage
      <4> HIDE DEF m
      <4> QED BY <1>0, <3>3, <4>3, <4>4
    <3>4. CASE a.ts \notin DOMAIN slack
      <4>1. [slack EXCEPT ![a.ts].replaced = @ \cup {group[g].parent.post}] = slack
        BY <1>0, <3>4
      <4> QED BY <1>0, <3>1, <4>1
    <3> QED BY <3>3, <3>4
  <2> QED BY <2>8, <2>9, <2>10, <2>11 DEF TypeOK
<1> QED BY <1>2, <1>3, <1>4, <1>5, <1>6, <1>7, <1>8, <1>9, <1>10 DEF Commit

LEMMA RestartType ==
  ASSUME TypeOK, Restart
  PROVE  TypeOK'
<1> DEFINE f == [i \in DOMAIN outbox.work |->
                   IF outbox.work[i].phase = "inFlight"
                   THEN [outbox.work[i] EXCEPT !.phase = "pending"] ELSE outbox.work[i]]
<1>1. OutboxOK(outbox) /\ used \in [Moves -> Nat]
  BY DEF TypeOK
<1>2. ASSUME NEW i \in DOMAIN outbox.work
      PROVE  f[i] \in Work /\ f[i].seq = outbox.work[i].seq
  <2>1. outbox.work[i] \in Work
    BY <1>1 DEF OutboxOK
  <2> QED BY <2>1 DEF Work
<1>3. outbox' = [outbox EXCEPT !.work = f] /\ DOMAIN f = DOMAIN outbox.work
  BY DEF Restart
<1> HIDE DEF f
<1>4. OutboxOK(outbox')
  BY <1>1, <1>2, <1>3, RewriteOK
<1>5. used' \in [Moves -> Nat] /\ worker' \in WorkerRecord
  BY <1>1, SpendType, IdleType DEF Restart, Moves
<1>6. group' \in [Group -> GroupRecord] /\ fresh' \in Nat /\ reacted' \subseteq Nat /\ slack' \in Seq(SlackMessage)
  BY DEF Restart, TypeOK
<1> QED BY <1>4, <1>5, <1>6 DEF TypeOK

LEMMA DeleteMessageType ==
  ASSUME TypeOK, NEW ts \in DOMAIN slack, DeleteMessage(ts)
  PROVE  TypeOK'
<1> DEFINE m == [slack[ts] EXCEPT !.live = FALSE]
<1>1. slack \in Seq(SlackMessage) /\ used \in [Moves -> Nat]
  BY DEF TypeOK
<1>2. m \in SlackMessage
  <2>1. slack[ts] \in SlackMessage
    BY <1>1
  <2> QED BY <2>1 DEF SlackMessage
<1>3. slack' = [slack EXCEPT ![ts] = m] /\ Spend("delete")
  BY DEF DeleteMessage
<1> HIDE DEF m
<1>4. slack' \in Seq(SlackMessage)
  BY <1>1, <1>2, <1>3
<1>5. used' \in [Moves -> Nat]
  BY <1>1, <1>3, SpendType DEF Moves
<1>6. UNCHANGED <<group, outbox, fresh, worker, reacted>>
  BY DEF DeleteMessage
<1> QED BY <1>4, <1>5, <1>6 DEF TypeOK

\* Every record the webhooks, the sweeper and the worker write is well formed, and
\* no entry of the outbox is numbered beyond the sequence counter (putOutbox).
THEOREM TypeCorrect == Spec => []TypeOK
<1>1. Init => TypeOK
  <2> SUFFICES ASSUME Init PROVE TypeOK
    OBVIOUS
  <2>1. group \in [Group -> GroupRecord]
    BY DEF Init, Absent, NoObject, GroupRecord, SlackObject
  <2>2. OutboxOK(outbox)
    BY DEF Init, OutboxOK
  <2>3. fresh \in Nat /\ worker \in WorkerRecord /\ slack \in Seq(SlackMessage)
        /\ used \in [Moves -> Nat] /\ reacted \subseteq Nat
    BY IdleType DEF Init
  <2> QED BY <2>1, <2>2, <2>3 DEF TypeOK
<1>2. TypeOK /\ [Next]_vars => TypeOK'
  <2> SUFFICES ASSUME TypeOK, [Next]_vars PROVE TypeOK'
    OBVIOUS
  <2>1. CASE \E g \in Group : Writers(g)
    BY <2>1, WritersType
  <2>2. CASE \E cooling \in SUBSET MayCool : Pick(cooling)
    BY <2>2, PickType
  <2>3. CASE Vanished
    BY <2>3, IdleType DEF Vanished, TypeOK
  <2>4. CASE Call
    BY <2>4, SendType DEF Call, Answer
  <2>5. CASE Commit
    BY <2>5, CommitType
  <2>6. CASE CommitFails
    <3>1. used' \in [Moves -> Nat]
      BY <2>6, SpendType DEF CommitFails, TypeOK, Moves
    <3> QED BY <2>6, <3>1, IdleType DEF CommitFails, TypeOK
  <2>7. CASE Restart
    BY <2>7, RestartType
  <2>8. CASE \E ts \in DOMAIN slack : DeleteMessage(ts)
    BY <2>8, DeleteMessageType
  <2>9. CASE UNCHANGED vars
    BY <2>9 DEF vars, TypeOK
  <2> QED BY <2>1, <2>2, <2>3, <2>4, <2>5, <2>6, <2>7, <2>8, <2>9 DEF Next
<1> QED BY <1>1, <1>2, PTL DEF Spec

-----------------------------------------------------------------------------
(* An undelivered rendering has a group to render.  The sweeper may drop a  *)
(* closed group only when hasGroupOutbox finds nothing that can still be    *)
(* sent, so the proof follows who may create such an entry and who may make *)
(* a failed one sendable again.                                             *)

\* What a writer may leave in the outbox: entries of its own group, to be sent,
\* and entries that were there, at most with their text fixed.
Touches(ob, new, g) ==
  \A i \in DOMAIN new.work :
    \/ new.work[i].phase = "pending" /\ new.work[i].group = g
    \/ /\ i \in DOMAIN ob.work
       /\ new.work[i].group = ob.work[i].group
       /\ new.work[i].phase = ob.work[i].phase
       /\ new.work[i].text \in {ob.work[i].text, "closed"}

LEMMA TouchesReflexive ==
  ASSUME NEW ob, NEW g
  PROVE  Touches(ob, ob, g)
BY DEF Touches

LEMMA TouchesTransitive ==
  ASSUME NEW ob, NEW mid, NEW new, NEW g, Touches(ob, mid, g), Touches(mid, new, g)
  PROVE  Touches(ob, new, g)
BY DEF Touches

LEMMA PutTouches ==
  ASSUME NEW ob, NEW id, NEW w, {"phase", "group"} \subseteq DOMAIN w,
         w.phase = "pending"
  PROVE  Touches(ob, Put(ob, id, w), w.group)
<1> DEFINE seq == IF id \in DOMAIN ob.work THEN ob.work[id].seq ELSE ob.next + 1
           put == Put(ob, id, w)
           e == [w EXCEPT !.seq = seq]
<1>1. /\ DOMAIN put.work = DOMAIN ob.work \cup {id}
      /\ \A i \in DOMAIN put.work : put.work[i] = IF i = id THEN e ELSE ob.work[i]
  BY DEF Put
<1>2. e.phase = "pending" /\ e.group = w.group
  OBVIOUS
<1> HIDE DEF put, e
<1>3. Touches(ob, put, w.group)
  BY <1>1, <1>2 DEF Touches
<1> QED BY <1>3 DEF put

LEMMA DropTouches ==
  ASSUME NEW ob, NEW ids, NEW g, DOMAIN ob = {"work", "next"}
  PROVE  Touches(ob, Drop(ob, ids), g)
BY DEF Touches, Drop

LEMMA PutNewMembersTouches ==
  ASSUME NEW ob, NEW ep, NEW members, NEW w, {"phase", "group"} \subseteq DOMAIN w,
         w.phase = "pending"
  PROVE  Touches(ob, PutNewMembers(ob, ep, members, w), w.group)
<1> DEFINE ids == {<<"newMember", ep, m>> : m \in members}
           seq(i) == IF i \in DOMAIN ob.work THEN ob.work[i].seq ELSE ob.next + i[3]
           put == PutNewMembers(ob, ep, members, w)
<1>1. /\ DOMAIN put.work = DOMAIN ob.work \cup ids
      /\ \A i \in DOMAIN put.work :
           put.work[i] = IF i \notin ids THEN ob.work[i] ELSE [w EXCEPT !.seq = seq(i)]
  BY DEF PutNewMembers
<1>2. ASSUME NEW i
      PROVE  LET e == [w EXCEPT !.seq = seq(i)]
             IN  e.phase = "pending" /\ e.group = w.group
  OBVIOUS
<1> HIDE DEF put, ids, seq
<1>3. Touches(ob, put, w.group)
  BY <1>1, <1>2 DEF Touches
<1> QED BY <1>3 DEF put

LEMMA NewWorkPending ==
  ASSUME NEW g, NEW object, NEW kind, NEW rev, NEW ts, NEW thread, NEW dep,
         NEW text, NEW ep
  PROVE  LET w == NewWork(g, object, kind, rev, ts, thread, dep, text, ep)
         IN  /\ w.phase = "pending" /\ w.group = g
             /\ {"phase", "group"} \subseteq DOMAIN w
BY DEF NewWork

LEMMA CloseEpisodeTouches ==
  ASSUME NEW ob, OutboxOK(ob), NEW g \in Group, NEW gr \in GroupRecord,
         NEW withReply \in BOOLEAN
  PROVE  Touches(ob, CloseEpisode(ob, g, gr, withReply), g)
<1> DEFINE p == ParentId(gr)
           ob1 == CloseParent(ob, g, gr)
           ob2 == PutIf(withReply, ob1, <<"closeReply", gr.ep, 0>>, Reply(g, gr))
<1>1. OutboxOK(ob1)
  BY CloseParentOK
<1>2. Touches(ob, ob1, g)
  <2>1. CASE gr.parent.ts # 0
    <3> DEFINE kept == Drop(ob, {p})
               w == NewWork(g, "eventReply", "update", 0, gr.parent.ts, 0, 0,
                            "closed", gr.ep)
    <3>1. Touches(ob, kept, g)
      BY DropTouches DEF OutboxOK
    <3>2. w.phase = "pending" /\ w.group = g /\ {"phase", "group"} \subseteq DOMAIN w
      BY NewWorkPending
    <3>3. ob1 = Put(kept, <<"closeParent", gr.ep, 0>>, w)
      BY <2>1 DEF CloseParent
    <3> HIDE DEF w, kept, ob1
    <3>4. Touches(kept, ob1, g)
      BY <3>2, <3>3, PutTouches
    <3> QED BY <3>1, <3>4, TouchesTransitive
  <2>2. CASE gr.parent.ts = 0 /\ p \in DOMAIN ob.work
    <3> DEFINE new == [ob.work[p] EXCEPT !.text = "closed", !.rev = @ + 1]
    <3>1. ob1.work = [ob.work EXCEPT ![p] = new]
      BY <2>2 DEF CloseParent, OutboxOK
    <3>2. new.group = ob.work[p].group /\ new.phase = ob.work[p].phase /\ new.text = "closed"
      BY <2>2 DEF OutboxOK, Work
    <3> HIDE DEF new, ob1
    <3> QED BY <2>2, <3>1, <3>2 DEF Touches
  <2>3. CASE gr.parent.ts = 0 /\ p \notin DOMAIN ob.work
    BY <2>3 DEF CloseParent, Touches
  <2> QED BY <2>1, <2>2, <2>3
<1> HIDE DEF ob1
<1>3. OutboxOK(ob2) /\ Touches(ob1, ob2, g)
  <2>1. /\ Reply(g, gr).phase = "pending" /\ Reply(g, gr).group = g
        /\ {"phase", "group"} \subseteq DOMAIN Reply(g, gr)
    BY NewWorkPending DEF Reply
  <2>2. CASE withReply
    <3>1. <<"closeReply", gr.ep, 0>> \in WorkId
      BY DEF GroupRecord, WorkId, WorkName
    <3> QED BY <1>1, <2>1, <2>2, <3>1, GroupWork, PutOK, PutTouches DEF PutIf
  <2>3. CASE ~withReply
    BY <1>1, <2>3 DEF PutIf, Touches
  <2> QED BY <2>2, <2>3
<1> HIDE DEF ob2
<1>4. Touches(ob2, CloseList(ob2, gr), g)
  <2>1. Touches(ob2, ob2, g)
    BY TouchesReflexive
  <2>2. Touches(ob2, Drop(ob2, {ListId(gr)}), g)
    BY <1>3, DropTouches DEF OutboxOK
  <2> QED BY <2>1, <2>2 DEF CloseList
<1>5. Touches(ob, CloseList(ob2, gr), g)
  BY <1>2, <1>3, <1>4, TouchesTransitive
<1> QED BY <1>5 DEF CloseEpisode, ob1, ob2

LEMMA PutParentTouches ==
  ASSUME NEW ob, NEW g, NEW gr
  PROVE  Touches(ob, PutParent(ob, g, gr), g)
BY NewWorkPending, PutTouches DEF PutParent

LEMMA PlaceListTouches ==
  ASSUME NEW ob, OutboxOK(ob), NEW g, NEW gr \in GroupRecord
  PROVE  /\ Touches(ob, PlaceList(ob, g, gr).ob, g)
         /\ PlaceList(ob, g, gr).gr.ep = gr.ep
<1>1. ASSUME NEW gr2
      PROVE  Touches(ob, PutList(ob, g, gr2), g)
  BY NewWorkPending, PutTouches DEF PutList
<1>2. Touches(ob, ShowList(ob, g, gr).ob, g) /\ ShowList(ob, g, gr).gr.ep = gr.ep
  BY <1>1 DEF ShowList, GroupRecord
<1>3. Touches(ob, RetireList(ob, g, gr).ob, g) /\ RetireList(ob, g, gr).gr.ep = gr.ep
  <2>1. CASE Cancellable(ob, gr)
    BY <2>1, DropTouches DEF RetireList, GroupRecord, OutboxOK
  <2>2. CASE ~Cancellable(ob, gr)
    <3> DEFINE gr2 == [gr EXCEPT !.list.rev = @ + 1]
               w == IF gr.list.ts # 0
                    THEN NewWork(g, "memberListRetire", "update", gr2.list.rev,
                                 gr.list.ts, 0, 0, "retired", gr.ep)
                    ELSE NewWork(g, "memberListRetire", "post", gr2.list.rev, 0,
                                 gr.parent.ts, DependencyForParent(gr.parent),
                                 "retired", gr.ep)
    <3>1. w.phase = "pending" /\ w.group = g /\ {"phase", "group"} \subseteq DOMAIN w
      BY NewWorkPending
    <3>2. gr2.ep = gr.ep
      BY DEF GroupRecord
    <3> HIDE DEF w, gr2
    <3>3. Touches(ob, Put(ob, ListId(gr), w), g)
      BY <3>1, PutTouches
    <3> QED BY <2>2, <3>2, <3>3 DEF RetireList, w, gr2
  <2> QED BY <2>1, <2>2
<1> QED BY <1>2, <1>3, TouchesReflexive DEF PlaceList

\* The inductive invariant: an open group has an episode, and the entry the worker
\* is busy with has not failed, so that no commit revives a failed entry.
RenderableInv ==
  /\ fresh > 0
  /\ \A g \in Group : IsOpen(group[g]) => group[g].ep # 0
  /\ worker.pc # "idle" /\ worker.id \in DOMAIN outbox.work =>
       outbox.work[worker.id].phase # "failed"
  /\ RenderableWork

\* A step that touches the outbox for one group with an episode keeps it.
LEMMA TouchStep ==
  ASSUME TypeOK, TypeOK', RenderableInv, NEW g \in Group,
         Touches(outbox, outbox', g), group'[g].ep # 0, fresh' >= fresh,
         \A h \in Group \ {g} : group'[h] = group[h],
         worker' = worker \/ worker'.pc = "idle"
  PROVE  RenderableInv'
<1>1. fresh' > 0
  BY DEF TypeOK, RenderableInv
<1>2. \A h \in Group : IsOpen(group'[h]) => group'[h].ep # 0
  BY DEF RenderableInv
<1>3. worker'.pc # "idle" /\ worker'.id \in DOMAIN outbox'.work =>
        outbox'.work[worker'.id].phase # "failed"
  BY DEF RenderableInv, Touches
<1>4. ASSUME NEW i \in DOMAIN outbox'.work, outbox'.work[i].text = "render",
             outbox'.work[i].phase # "failed"
      PROVE  group'[outbox'.work[i].group].ep # 0
  <2>1. CASE outbox'.work[i].group = g
    BY <2>1
  <2>2. CASE outbox'.work[i].group # g
    <3>1. outbox'.work[i].group \in Group
      BY DEF TypeOK, OutboxOK, Work
    <3>2. /\ i \in DOMAIN outbox.work /\ outbox.work[i].text = "render"
          /\ outbox.work[i].phase # "failed"
          /\ outbox.work[i].group = outbox'.work[i].group
      BY <1>4, <2>2 DEF Touches
    <3> QED BY <2>2, <3>1, <3>2 DEF RenderableInv, RenderableWork
  <2> QED BY <2>1, <2>2
<1> QED BY <1>1, <1>2, <1>3, <1>4 DEF RenderableInv, RenderableWork

LEMMA NotifyTouches ==
  ASSUME TypeOK, RenderableInv, NEW g \in Group, NEW b \in Batch, Notify(g, b)
  PROVE  /\ Touches(outbox, outbox', g) /\ group'[g].ep # 0
         /\ \A h \in Group \ {g} : group'[h] = group[h]
         /\ fresh' = fresh + 2 /\ worker' = worker
<1> DEFINE old    == group[g]
           firing == FiringIn(b)
           base   == IF IsOpen(old) THEN old ELSE NewEpisode
           news   == IF IsOpen(old) THEN firing \ old.delivered ELSE {}
           known  == (base.firing \ DOMAIN b) \cup firing
           status == IF firing # {} THEN "firing"
                     ELSE IF known # {} THEN "incomplete" ELSE "resolved"
           gr     == [base EXCEPT !.parent.rev = @ + 1,
                                  !.firing = known,
                                  !.delivered = DOMAIN b,
                                  !.ack = @ /\ news = {},
                                  !.status = status]
           ob1    == PutParent(outbox, g, gr)
           placed == PlaceList(ob1, g, gr)
           queued == PutNewMembers(placed.ob, gr.ep, news, Reply(g, gr))
           closes == known = {}
<1>1. /\ group' = [group EXCEPT ![g] = IF closes THEN CloseGroup(placed.gr)
                                       ELSE placed.gr]
      /\ outbox' = IF closes THEN CloseEpisode(queued, g, placed.gr, FALSE) ELSE queued
      /\ fresh' = fresh + 2 /\ worker' = worker
  BY DEF Notify
<1>2. fresh \in Nat /\ old \in GroupRecord /\ OutboxOK(outbox)
  BY DEF TypeOK
<1>3. DOMAIN b \in SUBSET Member /\ firing \in SUBSET Member /\ firing \subseteq DOMAIN b
  BY DEF Batch, FiringIn
<1>4. base \in GroupRecord
  BY <1>2 DEF NewEpisode, Absent, NoObject, GroupRecord, SlackObject
<1>5. known \in SUBSET Member /\ news \in SUBSET Member
  BY <1>3, <1>4 DEF GroupRecord
<1>6. gr \in GroupRecord /\ gr.ep = base.ep
  <2> DEFINE ack == base.ack /\ news = {}
             parent == [base.parent EXCEPT !.rev = @ + 1]
  <2>1. ack \in BOOLEAN
    BY <1>4 DEF GroupRecord
  <2>2. parent \in SlackObject
    BY <1>4 DEF GroupRecord, SlackObject
  <2>3. gr = [base EXCEPT !.parent = parent, !.firing = known,
                          !.delivered = DOMAIN b, !.ack = ack, !.status = status]
    BY <1>4 DEF GroupRecord
  <2>4. status \in {"firing", "incomplete", "resolved"}
    OBVIOUS
  <2> HIDE DEF ack, parent, gr, base, known, status
  <2> QED BY <2>1, <2>2, <2>3, <2>4, <1>3, <1>4, <1>5 DEF GroupRecord
<1>7. base.ep # 0
  BY <1>2 DEF RenderableInv, NewEpisode, Absent
<1> HIDE DEF gr, known, news, base
<1>8. OutboxOK(ob1) /\ Touches(outbox, ob1, g)
  BY <1>2, <1>6, PutParentOK, PutParentTouches
<1> HIDE DEF ob1
<1>9. /\ placed.gr \in GroupRecord /\ OutboxOK(placed.ob)
      /\ Touches(ob1, placed.ob, g) /\ placed.gr.ep = gr.ep
  BY <1>2, <1>6, <1>8, PlaceListOK, PlaceListTouches
<1> HIDE DEF placed
<1>10. OutboxOK(queued) /\ Touches(placed.ob, queued, g)
  <2>1. gr.ep \in Nat /\ Reply(g, gr) \in Work
    BY <1>6, GroupWork
  <2>2. /\ Reply(g, gr).phase = "pending" /\ Reply(g, gr).group = g
        /\ {"phase", "group"} \subseteq DOMAIN Reply(g, gr)
    BY NewWorkPending DEF Reply
  <2> QED BY <1>5, <1>9, <2>1, <2>2, PutNewMembersOK, PutNewMembersTouches
<1> HIDE DEF queued
<1>11. Touches(queued, outbox', g)
  BY <1>1, <1>9, <1>10, CloseEpisodeTouches, TouchesReflexive
<1>12. Touches(outbox, outbox', g)
  BY <1>8, <1>9, <1>10, <1>11, TouchesTransitive
<1>13. group'[g].ep = placed.gr.ep
  BY <1>1, <1>9 DEF CloseGroup, GroupRecord, TypeOK
<1>14. \A h \in Group \ {g} : group'[h] = group[h]
  BY <1>1 DEF TypeOK
<1> QED BY <1>1, <1>6, <1>7, <1>9, <1>12, <1>13, <1>14

LEMMA WritersRenderable ==
  ASSUME TypeOK, TypeOK', RenderableInv, NEW g \in Group, Writers(g)
  PROVE  RenderableInv'
<1> DEFINE old == group[g]
<1>0. /\ old \in GroupRecord /\ OutboxOK(outbox) /\ fresh \in Nat
      /\ group \in [Group -> GroupRecord]
  BY DEF TypeOK
<1>1. CASE \E b \in Batch : Notify(g, b)
  <2>1. fresh' >= fresh
    BY <1>0, <1>1, NotifyTouches
  <2> QED BY <1>1, <2>1, NotifyTouches, TouchStep
<1>2. CASE Ack(g)
  <2> DEFINE gr == [old EXCEPT !.ack = TRUE, !.parent.rev = @ + 1]
  <2>1. /\ group' = [group EXCEPT ![g] = gr] /\ outbox' = PutParent(outbox, g, gr)
        /\ IsOpen(old) /\ UNCHANGED <<fresh, worker>>
    BY <1>2 DEF Ack
  <2>2. gr.ep = old.ep
    BY <1>0 DEF GroupRecord
  <2> HIDE DEF gr
  <2>3. group'[g].ep # 0 /\ \A h \in Group \ {g} : group'[h] = group[h]
    BY <1>0, <2>1, <2>2 DEF RenderableInv
  <2>4. fresh' >= fresh /\ Touches(outbox, outbox', g)
    BY <1>0, <2>1, PutParentTouches
  <2> QED BY <2>1, <2>3, <2>4, TouchStep
<1>3. CASE CloseWithReply(g)
  <2>1. /\ group' = [group EXCEPT ![g] = CloseGroup(old)]
        /\ outbox' = CloseEpisode(outbox, g, old, TRUE)
        /\ IsOpen(old) /\ UNCHANGED <<fresh, worker>>
    BY <1>3 DEF CloseWithReply
  <2>2. CloseGroup(old).ep = old.ep
    BY <1>0 DEF CloseGroup, GroupRecord
  <2>3. group'[g].ep # 0 /\ \A h \in Group \ {g} : group'[h] = group[h]
    BY <1>0, <2>1, <2>2 DEF RenderableInv
  <2>4. Touches(outbox, CloseEpisode(outbox, g, old, TRUE), g)
    BY <1>0, CloseEpisodeTouches
  <2>5. Touches(outbox, outbox', g)
    BY <2>1, <2>4, Zenon
  <2>6. fresh' = fresh /\ worker' = worker
    BY <2>1
  <2>7. fresh' >= fresh
    BY <1>0, <2>6
  <2> QED BY <2>3, <2>5, <2>6, <2>7, TouchStep
<1>4. CASE Escalate(g)
  <2> DEFINE reaction == NewWork(g, "reaction", "reaction", 0, old.parent.ts, 0,
                                 DependencyForParent(old.parent), "reaction", old.ep)
             ob1 == Put(outbox, <<"escalation", old.ep, 0>>, Reply(g, old))
  <2>1. /\ group' = [group EXCEPT ![g].escalated = TRUE]
        /\ outbox' = Put(ob1, <<"escalationReaction", old.ep, 0>>, reaction)
        /\ IsOpen(old) /\ UNCHANGED <<fresh, worker>>
    BY <1>4 DEF Escalate
  <2>2. [old EXCEPT !.escalated = TRUE].ep = old.ep
    BY <1>0 DEF GroupRecord
  <2>3. group'[g].ep # 0 /\ \A h \in Group \ {g} : group'[h] = group[h]
    BY <1>0, <2>1, <2>2 DEF RenderableInv
  <2>4. /\ reaction.phase = "pending" /\ reaction.group = g
        /\ {"phase", "group"} \subseteq DOMAIN reaction
    BY NewWorkPending
  <2>5. /\ Reply(g, old).phase = "pending" /\ Reply(g, old).group = g
        /\ {"phase", "group"} \subseteq DOMAIN Reply(g, old)
    BY NewWorkPending DEF Reply
  <2> HIDE DEF reaction
  <2>6. Touches(outbox, ob1, g)
    BY <2>5, PutTouches
  <2> HIDE DEF ob1
  <2>7. fresh' >= fresh /\ Touches(outbox, outbox', g)
    BY <1>0, <2>1, <2>4, <2>6, PutTouches, TouchesTransitive
  <2> QED BY <2>1, <2>3, <2>7, TouchStep
<1>5. CASE Forget(g)
  <2>1. /\ group' = [group EXCEPT ![g] = Absent] /\ ~HasGroupOutbox(g)
        /\ UNCHANGED <<outbox, fresh, worker>>
    BY <1>5 DEF Forget
  <2>2. ~IsOpen(Absent)
    BY DEF IsOpen, Absent, NoObject
  <2>3. RenderableWork'
    BY <1>0, <2>1 DEF RenderableInv, RenderableWork, HasGroupOutbox, OutboxOK, Work
  <2> QED BY <1>0, <2>1, <2>2, <2>3 DEF RenderableInv
<1> QED BY <1>1, <1>2, <1>3, <1>4, <1>5 DEF Writers

\* What a commit leaves in the outbox: old entries, the worker's own maybe sendable.
Keeps(new) ==
  \A i \in DOMAIN new.work :
    /\ i \in DOMAIN outbox.work
    /\ new.work[i].group = outbox.work[i].group
    /\ new.work[i].text = outbox.work[i].text
    /\ new.work[i].phase = outbox.work[i].phase \/ i = worker.id

LEMMA CommitStep ==
  ASSUME TypeOK, RenderableInv, worker.pc = "sent", worker' = Idle, fresh' = fresh,
         \A g \in Group : /\ group'[g].ep = group[g].ep
                          /\ group'[g].parent.post = group[g].parent.post,
         Keeps(outbox')
  PROVE  RenderableInv'
<1>1. \A i \in DOMAIN outbox.work : outbox.work[i].group \in Group
  BY DEF TypeOK, OutboxOK, Work
<1>2. fresh' > 0 /\ worker'.pc = "idle"
  BY DEF RenderableInv, Idle
<1>3. \A g \in Group : IsOpen(group'[g]) => group'[g].ep # 0
  BY DEF RenderableInv, IsOpen
<1>4. RenderableWork'
  BY <1>1 DEF RenderableInv, RenderableWork, Keeps
<1> QED BY <1>2, <1>3, <1>4 DEF RenderableInv

LEMMA DropKeeps ==
  ASSUME OutboxOK(outbox), NEW ids
  PROVE  Keeps(Drop(outbox, ids))
BY DEF Keeps, Drop, OutboxOK

LEMMA PhaseKeeps ==
  ASSUME OutboxOK(outbox), worker.id \in DOMAIN outbox.work, NEW phase
  PROVE  Keeps([outbox EXCEPT !.work[worker.id].phase = phase])
<1> DEFINE id == worker.id
           e == [outbox.work[id] EXCEPT !.phase = phase]
           new == [outbox EXCEPT !.work[id].phase = phase]
<1>1. outbox.work[id] \in Work
  BY DEF OutboxOK
<1>2. e.group = outbox.work[id].group /\ e.text = outbox.work[id].text
  BY <1>1 DEF Work
<1>3. new.work = [outbox.work EXCEPT ![id] = e]
  BY DEF OutboxOK
<1> HIDE DEF e, new
<1>4. Keeps(new)
  BY <1>2, <1>3 DEF Keeps
<1> QED BY <1>4 DEF new

LEMMA ForgetListKeeps ==
  ASSUME group \in [Group -> GroupRecord], NEW g \in Group, NEW ts, ForgetList(g, ts)
  PROVE  \A h \in Group : /\ group'[h].ep = group[h].ep
                          /\ group'[h].parent.post = group[h].parent.post
BY DEF ForgetList, GroupRecord

LEMMA CompletePostKeeps ==
  ASSUME TypeOK, CompletePost
  PROVE  /\ Keeps(outbox')
         /\ \A h \in Group : /\ group'[h].ep = group[h].ep
                             /\ group'[h].parent.post = group[h].parent.post
<1> DEFINE id == worker.id
           ts == worker.ts
           g == Current.group
           r == Resolved(outbox, ts)
<1>1. /\ OutboxOK(outbox) /\ group \in [Group -> GroupRecord]
      /\ id \in DOMAIN outbox.work /\ ts \in Nat
  BY WorkerFields DEF TypeOK, CompletePost
<1>2. OutboxOK(r) /\ DOMAIN r.work = DOMAIN outbox.work
  BY <1>1, ResolvedOK
<1>3. ASSUME NEW i \in DOMAIN outbox.work
      PROVE  /\ r.work[i].group = outbox.work[i].group
             /\ r.work[i].text = outbox.work[i].text
             /\ r.work[i].phase = outbox.work[i].phase
  <2>1. outbox.work[i] \in Work
    BY <1>1 DEF OutboxOK
  <2>2. r.work[i] = Resolve(outbox.work[i], ts)
    BY <1>1 DEF Resolved, OutboxOK
  <2> HIDE DEF r
  <2> QED BY <2>1, <2>2 DEF Resolve, Work
<1>4. Keeps(outbox')
  <2>1. CASE Superseded
    <3> DEFINE e == [r.work[id] EXCEPT !.kind = "update", !.ts = ts, !.phase = "pending"]
    <3>1. r.work[id] \in Work
      BY <1>1, <1>2 DEF OutboxOK
    <3>2. e.group = r.work[id].group /\ e.text = r.work[id].text
      BY <3>1 DEF Work
    <3>3. outbox'.work = [r.work EXCEPT ![id] = e]
      BY <1>1, <1>2, <2>1 DEF CompletePost, OutboxOK
    <3> HIDE DEF e, r
    <3> QED BY <1>1, <1>2, <1>3, <3>2, <3>3 DEF Keeps
  <2>2. CASE ~Superseded
    <3>1. outbox' = Drop(r, {id})
      BY <2>2 DEF CompletePost
    <3>2. \A i \in DOMAIN outbox'.work : i \in DOMAIN r.work /\ outbox'.work[i] = r.work[i]
      BY <1>2, <3>1 DEF Drop, OutboxOK
    <3> HIDE DEF r
    <3> QED BY <1>2, <1>3, <3>2 DEF Keeps
  <2> QED BY <2>1, <2>2
<1>5. ASSUME NEW h \in Group
      PROVE  /\ group'[h].ep = group[h].ep
             /\ group'[h].parent.post = group[h].parent.post
  <2>1. group' = [group EXCEPT ![g] = RecordPost(group[g], ts)]
    BY DEF CompletePost
  <2>2. group[h] \in GroupRecord
    BY <1>1
  <2>3. /\ RecordPost(group[h], ts).ep = group[h].ep
        /\ RecordPost(group[h], ts).parent.post = group[h].parent.post
    <3>1. group[h].parent \in SlackObject
      BY <2>2 DEF GroupRecord
    <3> QED BY <2>2, <3>1 DEF RecordPost, GroupRecord, SlackObject
  <2> QED BY <1>1, <2>1, <2>3
<1> QED BY <1>4, <1>5

\* A replacement is a rendering for the open group whose message was deleted.
LEMMA SubstituteTouches ==
  ASSUME NEW ob, OutboxOK(ob), NEW old \in DOMAIN ob.work, NEW new \in WorkId,
         NEW w \in Work, w.phase = "pending"
  PROVE  Touches(ob, Substitute(ob, old, new, w), w.group)
<1> DEFINE seq == ob.work[old].seq
           kept == Drop(ob, {old})
           put == Put(kept, new, w)
           e == [put.work[new] EXCEPT !.seq = seq]
           sub == Substitute(ob, old, new, w)
<1>1. Touches(ob, kept, w.group) /\ OutboxOK(kept)
  BY DropOK, DropTouches DEF OutboxOK
<1> HIDE DEF kept
<1>2. Touches(kept, put, w.group) /\ OutboxOK(put) /\ new \in DOMAIN put.work
  <2>1. {"phase", "group"} \subseteq DOMAIN w
    BY DEF Work
  <2>2. new \in DOMAIN put.work
    BY DEF Put
  <2> QED BY <1>1, <2>1, <2>2, PutOK, PutTouches
<1> HIDE DEF put
<1>3. put.work[new] \in Work
  BY <1>2 DEF OutboxOK
<1>4. /\ e.group = put.work[new].group /\ e.phase = put.work[new].phase
      /\ e.text = put.work[new].text
  BY <1>3 DEF Work
<1>5. sub.work = [put.work EXCEPT ![new] = e]
  BY <1>2 DEF Substitute, put, kept, OutboxOK
<1> HIDE DEF e, sub
<1>6. Touches(put, sub, w.group)
  BY <1>2, <1>4, <1>5 DEF Touches
<1>7. Touches(ob, sub, w.group)
  BY <1>1, <1>2, <1>6, TouchesTransitive
<1> QED BY <1>7 DEF sub

LEMMA RepointTouches ==
  ASSUME NEW ob, OutboxOK(ob), NEW old, NEW new, NEW g
  PROVE  Touches(ob, Repoint(ob, old, new), g)
BY DEF Touches, Repoint, OutboxOK, Work

LEMMA ReparentTouches ==
  ASSUME NEW ob, OutboxOK(ob), NEW oldTs, NEW oldPost, NEW new, NEW g
  PROVE  Touches(ob, Reparent(ob, oldTs, oldPost, new), g)
BY DEF Touches, Reparent, OutboxOK, Work

LEMMA CommitRenderable ==
  ASSUME TypeOK, TypeOK', RenderableInv, Commit
  PROVE  RenderableInv'
<1> DEFINE id == worker.id
           a  == Attempt
<1>0. /\ OutboxOK(outbox) /\ group \in [Group -> GroupRecord] /\ fresh \in Nat
      /\ worker \in WorkerRecord
  BY DEF TypeOK
<1>1. worker.pc = "sent" /\ worker' = Idle
  BY DEF Commit, CompletePost, CompleteUpdate, CompleteReaction, FailWork,
         CommitNothing, RetiredListMissing, DetachedMissing, ListMissing,
         Unreplaceable, ParentMissing, UpdateMissing, Settle
<1>2. a \in Work /\ a.group \in Group
  BY <1>0, <1>1, WorkerFields DEF Attempt, Work
<1>3. \A i \in DOMAIN outbox.work : outbox.work[i].group \in Group
  BY <1>0 DEF OutboxOK, Work
<1>4. CASE CompletePost
  BY <1>1, <1>4, CompletePostKeeps, CommitStep DEF CompletePost
<1>5. CASE CompleteUpdate
  <2>1. fresh' = fresh /\ id \in DOMAIN outbox.work
    BY <1>5 DEF CompleteUpdate, Settle
  <2>2. CASE Superseded
    <3>1. outbox' = [outbox EXCEPT !.work[id].phase = "pending"] /\ UNCHANGED group
      BY <1>5, <2>2 DEF CompleteUpdate, Settle
    <3>2. Keeps(outbox')
      BY <1>0, <2>1, <3>1, PhaseKeeps
    <3> QED BY <1>1, <2>1, <3>1, <3>2, CommitStep
  <2>3. CASE ~Superseded
    <3>1. /\ outbox' = Drop(outbox, {id})
          /\ ForgetList(Current.group, a.ts) \/ UNCHANGED group
      BY <1>5, <2>3 DEF CompleteUpdate, Settle
    <3>2. Current.group \in Group
      BY <1>3, <2>1 DEF Current
    <3>3. Keeps(outbox')
      BY <1>0, <3>1, DropKeeps
    <3>4. \A h \in Group : /\ group'[h].ep = group[h].ep
                           /\ group'[h].parent.post = group[h].parent.post
      BY <1>0, <3>1, <3>2, ForgetListKeeps
    <3> QED BY <1>1, <2>1, <3>3, <3>4, CommitStep
  <2> QED BY <2>2, <2>3
<1>6. CASE CompleteReaction \/ DetachedMissing
  <2>1. outbox' = Drop(outbox, {id}) /\ UNCHANGED <<group, fresh>>
    BY <1>6 DEF CompleteReaction, DetachedMissing, Settle
  <2>2. Keeps(outbox')
    BY <1>0, <2>1, DropKeeps
  <2> QED BY <1>1, <2>1, <2>2, CommitStep
<1>7. CASE FailWork \/ Unreplaceable
  <2>1. PICK phase : outbox' = [outbox EXCEPT !.work[id].phase = phase]
    BY <1>7 DEF FailWork, Unreplaceable, Settle
  <2>2. id \in DOMAIN outbox.work /\ UNCHANGED <<group, fresh>>
    BY <1>7 DEF FailWork, Unreplaceable, UpdateMissing, Settle
  <2>3. Keeps(outbox')
    BY <1>0, <2>1, <2>2, PhaseKeeps
  <2> QED BY <1>1, <2>2, <2>3, CommitStep
<1>8. CASE CommitNothing
  <2>1. UNCHANGED <<outbox, group, fresh>>
    BY <1>8 DEF CommitNothing, Settle
  <2>2. Keeps(outbox')
    BY <2>1 DEF Keeps
  <2> QED BY <1>1, <2>1, <2>2, CommitStep
<1>9. CASE RetiredListMissing
  <2>1. /\ outbox' = Drop(outbox, {id}) /\ ForgetList(Current.group, a.ts)
        /\ id \in DOMAIN outbox.work /\ fresh' = fresh
    BY <1>9 DEF RetiredListMissing, UpdateMissing, Settle
  <2>2. Current.group \in Group
    BY <1>3, <2>1 DEF Current
  <2>3. Keeps(outbox')
    BY <1>0, <2>1, DropKeeps
  <2>4. \A h \in Group : /\ group'[h].ep = group[h].ep
                         /\ group'[h].parent.post = group[h].parent.post
    BY <1>0, <2>1, <2>2, ForgetListKeeps
  <2> QED BY <1>1, <2>1, <2>3, <2>4, CommitStep
<1>10. CASE ListMissing
  <2> DEFINE g == a.group
             gr == [group[g] EXCEPT !.list = [post |-> fresh, ts |-> 0, rev |-> @.rev + 1]]
             w == NewWork(g, "memberList", "post", gr.list.rev, 0, gr.parent.ts,
                          DependencyForParent(gr.parent), "render", gr.ep)
             ob == Repoint(outbox, group[g].list.post, fresh)
  <2>1. group' = [group EXCEPT ![g] = gr] /\ fresh' = fresh + 1 /\ IsOpen(group[g])
    BY <1>10 DEF ListMissing
  <2>2. outbox' = Substitute(ob, id, ListId(gr), w) /\ id \in DOMAIN outbox.work
    BY <1>10 DEF ListMissing, UpdateMissing
  <2>3. gr \in GroupRecord /\ gr = group'[g]
    BY <1>0, <1>2, <2>1 DEF TypeOK
  <2>4. gr.ep = group[g].ep
    BY <1>0, <1>2 DEF GroupRecord
  <2>5. group'[g].ep # 0 /\ \A h \in Group \ {g} : group'[h] = group[h]
    BY <1>0, <1>2, <2>1, <2>3, <2>4 DEF RenderableInv
  <2> HIDE DEF gr
  <2>6. gr.list.rev \in Nat /\ gr.parent.ts \in Nat /\ gr.ep \in Nat
    BY <2>3 DEF GroupRecord, SlackObject
  <2>7. w \in Work
    BY <1>2, <2>3, <2>6, GroupWork, NewWorkType DEF Object, Text
  <2>8. w.phase = "pending" /\ w.group = g
    BY NewWorkPending
  <2>9. OutboxOK(ob) /\ id \in DOMAIN ob.work /\ Touches(outbox, ob, g)
    BY <1>0, <2>2, RepointOK, RepointTouches
  <2> HIDE DEF w, ob
  <2>10. Touches(ob, outbox', g)
    BY <1>2, <2>2, <2>3, <2>7, <2>8, <2>9, GroupWork, SubstituteTouches
  <2>11. Touches(outbox, outbox', g) /\ fresh' >= fresh /\ worker'.pc = "idle"
    BY <1>0, <1>1, <2>1, <2>9, <2>10, TouchesTransitive DEF Idle
  <2> QED BY <1>2, <2>5, <2>11, TouchStep
<1>11. CASE ParentMissing
  <2> DEFINE g == a.group
             gr == [group[g] EXCEPT !.parent = [post |-> fresh, ts |-> 0, rev |-> @.rev + 1]]
             w == NewWork(g, "parent", "post", gr.parent.rev, 0, 0, 0, "render", gr.ep)
             ob == Reparent(outbox, a.ts, group[g].parent.post, fresh)
  <2>1. group' = [group EXCEPT ![g] = gr] /\ fresh' = fresh + 1 /\ IsOpen(group[g])
    BY <1>11 DEF ParentMissing
  <2>2. outbox' = Substitute(ob, id, ParentId(gr), w) /\ id \in DOMAIN outbox.work
    BY <1>11 DEF ParentMissing, UpdateMissing
  <2>3. gr \in GroupRecord /\ gr = group'[g]
    BY <1>0, <1>2, <2>1 DEF TypeOK
  <2>4. gr.ep = group[g].ep
    BY <1>0, <1>2 DEF GroupRecord
  <2>5. group'[g].ep # 0 /\ \A h \in Group \ {g} : group'[h] = group[h]
    BY <1>0, <1>2, <2>1, <2>3, <2>4 DEF RenderableInv
  <2> HIDE DEF gr
  <2>6. gr.parent.rev \in Nat /\ gr.ep \in Nat
    BY <2>3 DEF GroupRecord, SlackObject
  <2>7. w \in Work
    BY <1>2, <2>6, NewWorkType DEF Object, Text
  <2>8. w.phase = "pending" /\ w.group = g
    BY NewWorkPending
  <2>9. OutboxOK(ob) /\ id \in DOMAIN ob.work /\ Touches(outbox, ob, g)
    BY <1>0, <2>2, ReparentOK, ReparentTouches
  <2> HIDE DEF w, ob
  <2>10. Touches(ob, outbox', g)
    BY <1>2, <2>2, <2>3, <2>7, <2>8, <2>9, GroupWork, SubstituteTouches
  <2>11. Touches(outbox, outbox', g) /\ fresh' >= fresh /\ worker'.pc = "idle"
    BY <1>0, <1>1, <2>1, <2>9, <2>10, TouchesTransitive DEF Idle
  <2> QED BY <1>2, <2>5, <2>11, TouchStep
<1> QED BY <1>4, <1>5, <1>6, <1>7, <1>8, <1>9, <1>10, <1>11 DEF Commit

\* The sweeper never drops a group that some entry of the outbox must still render
\* (LifecycleSweeper.Sweep keeps a closed group while hasGroupOutbox finds one).
THEOREM RenderableAlways == Spec => []RenderableWork
<1>1. Init => RenderableInv
  <2> SUFFICES ASSUME Init PROVE RenderableInv
    OBVIOUS
  <2>1. fresh > 0 /\ worker.pc = "idle" /\ DOMAIN outbox.work = {}
    BY DEF Init, Idle
  <2>2. \A g \in Group : ~IsOpen(group[g])
    BY DEF Init, IsOpen, Absent, NoObject
  <2> QED BY <2>1, <2>2 DEF RenderableInv, RenderableWork
<1>2. TypeOK /\ TypeOK' /\ RenderableInv /\ [Next]_vars => RenderableInv'
  <2> SUFFICES ASSUME TypeOK, TypeOK', RenderableInv, [Next]_vars PROVE RenderableInv'
    OBVIOUS
  <2>0. OutboxOK(outbox)
    BY DEF TypeOK
  <2>1. CASE \E g \in Group : Writers(g)
    BY <2>1, WritersRenderable
  <2>2. CASE \E cooling \in SUBSET MayCool : Pick(cooling)
    BY <2>2 DEF Pick, Candidates, RenderableInv, RenderableWork
  <2>3. CASE Vanished \/ CommitFails
    BY <2>3 DEF Vanished, CommitFails, Idle, RenderableInv, RenderableWork
  <2>4. CASE Call
    <3> DEFINE id == worker.id
               e == [outbox.work[id] EXCEPT !.phase = "inFlight", !.tried = TRUE]
    <3>1. /\ id \in DOMAIN outbox.work /\ worker.pc = "picked"
          /\ worker'.id = id /\ UNCHANGED <<group, fresh>>
      BY <2>4 DEF Call, Send
    <3>2. outbox'.work = [outbox.work EXCEPT ![id] = e]
      BY <2>0, <2>4 DEF Call, Send, OutboxOK
    <3>3. outbox.work[id] \in Work
      BY <2>0, <3>1 DEF OutboxOK
    <3>4. /\ e.group = outbox.work[id].group /\ e.text = outbox.work[id].text
          /\ e.phase = "inFlight"
      BY <3>3 DEF Work
    <3> HIDE DEF e
    <3>5. outbox'.work[id].phase # "failed"
      BY <3>1, <3>2, <3>4
    <3>6. RenderableWork'
      BY <3>1, <3>2, <3>4 DEF RenderableInv, RenderableWork
    <3> QED BY <3>1, <3>5, <3>6 DEF RenderableInv
  <2>5. CASE Commit
    BY <2>5, CommitRenderable
  <2>6. CASE Restart
    <3>1. UNCHANGED <<group, fresh>> /\ worker' = Idle
      BY <2>6 DEF Restart
    <3>2. ASSUME NEW i \in DOMAIN outbox'.work
          PROVE  /\ i \in DOMAIN outbox.work
                 /\ outbox'.work[i].group = outbox.work[i].group
                 /\ outbox'.work[i].text = outbox.work[i].text
                 /\ outbox'.work[i].phase = "failed" <=> outbox.work[i].phase = "failed"
      <4>1. i \in DOMAIN outbox.work
        BY <2>0, <2>6 DEF Restart, OutboxOK
      <4>2. outbox.work[i] \in Work
        BY <2>0, <4>1 DEF OutboxOK
      <4>3. outbox'.work[i] = IF outbox.work[i].phase = "inFlight"
                              THEN [outbox.work[i] EXCEPT !.phase = "pending"]
                              ELSE outbox.work[i]
        BY <2>0, <2>6, <4>1 DEF Restart, OutboxOK
      <4> QED BY <4>1, <4>2, <4>3 DEF Work
    <3> QED BY <3>1, <3>2 DEF RenderableInv, RenderableWork, Idle
  <2>7. CASE \E ts \in DOMAIN slack : DeleteMessage(ts)
    BY <2>7 DEF DeleteMessage, RenderableInv, RenderableWork
  <2>8. CASE UNCHANGED vars
    BY <2>8 DEF vars, RenderableInv, RenderableWork
  <2> QED BY <2>1, <2>2, <2>3, <2>4, <2>5, <2>6, <2>7, <2>8 DEF Next
<1>3. RenderableInv => RenderableWork
  BY DEF RenderableInv
<1> QED BY <1>1, <1>2, <1>3, TypeCorrect, PTL DEF Spec
-----------------------------------------------------------------------------
(* No card of an open group is lost, and no reply waits for a post that is   *)
(* gone.                                                                     *)

IsParent(i) == i[1] = "parent"

\* What every entry of an outbox is like: an update has a message to update; a card waits
\* for nothing; who waits, waits for a card that is still to be posted.
FitAt(ob, top, i) ==
  LET w == ob.work[i]
      d == <<"parent", w.dep, 0>>
  IN /\ w.kind = "update" => w.ts # 0
     /\ IsParent(i) => /\ 0 < i[2] /\ i[2] < top /\ i[3] = 0
                       /\ w.dep = 0 /\ w.thread = 0 /\ w.kind # "reaction"
     /\ w.dep # 0 => d \in DOMAIN ob.work /\ ob.work[d].kind = "post"

Fit(ob, top) == \A i \in DOMAIN ob.work : FitAt(ob, top, i)

\* The card of an open group, as in CardQueued, and whose it is.
CardIn(ob, g, gr) ==
  IsOpen(gr) =>
    /\ gr.parent.ts = 0 => ParentId(gr) \in DOMAIN ob.work
    /\ ParentId(gr) \in DOMAIN ob.work =>
         LET w == ob.work[ParentId(gr)] IN
         /\ w.rev = gr.parent.rev /\ w.ts = gr.parent.ts /\ w.group = g
         /\ w.kind = IF gr.parent.ts = 0 THEN "post" ELSE "update"

\* Identifiers of cards and lists were drawn, each for one of them.
Drawn ==
  /\ fresh > 0
  /\ \A g \in Group : group[g].parent.post < fresh /\ group[g].list.post < fresh
  /\ \A g, h \in Group : group[g].parent.post # 0 =>
       /\ group[g].parent.post # group[h].list.post
       /\ group[g].parent.post = group[h].parent.post => g = h
  /\ \A i \in DOMAIN outbox.work, h \in Group : IsParent(i) => i[2] # group[h].list.post

\* A card that the worker holds as an update is still one, if it is still there.
HeldOf ==
  /\ worker.pc # "idle" =>
       /\ worker.work.kind = "update" => worker.work.ts # 0
       /\ IsParent(worker.id) =>
            /\ worker.id[2] < fresh
            /\ worker.id \in DOMAIN outbox.work /\ worker.work.kind # "post"
               => outbox.work[worker.id].kind = "update"
  /\ worker.pc = "sent" => worker.ts # 0

Cards ==
  /\ Fit(outbox, fresh)
  /\ \A g \in Group : CardIn(outbox, g, group[g])
  /\ Drawn
  /\ HeldOf

-----------------------------------------------------------------------------
(* What each way of rewriting the outbox does to the entries of cards.       *)

\* The entries of cards are as they were, but for those of ps.
Kept(ob, new, ps) ==
  \A i \in WorkId : IsParent(i) /\ i \notin ps =>
    /\ i \in DOMAIN ob.work <=> i \in DOMAIN new.work
    /\ i \in DOMAIN ob.work => new.work[i] = ob.work[i]

\* Who writes a reply in a thread without a card finds the card's first post.
Posting(ob, gr) ==
  gr.parent.ts = 0 /\ gr.parent.post # 0 =>
    ParentId(gr) \in DOMAIN ob.work /\ ob.work[ParentId(gr)].kind = "post"

LEMMA KeptReflexive ==
  ASSUME NEW ob, NEW ps
  PROVE  Kept(ob, ob, ps)
BY DEF Kept

LEMMA KeptTransitive ==
  ASSUME NEW ob, NEW mid, NEW new, NEW ps, NEW qs \in SUBSET ps, NEW rs \in SUBSET ps,
         Kept(ob, mid, qs), Kept(mid, new, rs)
  PROVE  Kept(ob, new, ps)
<1> SUFFICES ASSUME NEW i \in WorkId, IsParent(i), i \notin ps
             PROVE  /\ i \in DOMAIN ob.work <=> i \in DOMAIN new.work
                    /\ i \in DOMAIN ob.work => new.work[i] = ob.work[i]
  BY DEF Kept
<1>1. i \notin qs /\ i \notin rs
  OBVIOUS
<1>2. /\ i \in DOMAIN ob.work <=> i \in DOMAIN mid.work
      /\ i \in DOMAIN ob.work => mid.work[i] = ob.work[i]
  BY <1>1 DEF Kept
<1>3. /\ i \in DOMAIN mid.work <=> i \in DOMAIN new.work
      /\ i \in DOMAIN mid.work => new.work[i] = mid.work[i]
  BY <1>1 DEF Kept
<1> QED BY <1>2, <1>3

LEMMA FitLater ==
  ASSUME NEW ob, OutboxOK(ob), NEW top \in Nat, NEW later \in Nat, top <= later, Fit(ob, top)
  PROVE  Fit(ob, later)
<1> SUFFICES ASSUME NEW i \in DOMAIN ob.work PROVE FitAt(ob, later, i)
  BY DEF Fit
<1>1. FitAt(ob, top, i) /\ i[2] \in Nat
  BY DEF Fit, OutboxOK, WorkId
<1> QED BY <1>1 DEF FitAt

\* An entry of whom nobody asks more than its own fields do.
Sound(ob, top, id, w) ==
  /\ w.kind = "update" => w.ts # 0
  /\ IsParent(id) => /\ 0 < id[2] /\ id[2] < top /\ id[3] = 0
                     /\ w.dep = 0 /\ w.thread = 0 /\ w.kind # "reaction"
                     /\ id \in DOMAIN ob.work /\ ob.work[id].kind = "post" => w.kind = "post"
  /\ w.dep # 0 => /\ <<"parent", w.dep, 0>> \in DOMAIN ob.work
                  /\ ob.work[<<"parent", w.dep, 0>>].kind = "post"

LEMMA PutFacts ==
  ASSUME NEW ob, NEW id \in WorkId, NEW w \in Work
  PROVE  /\ DOMAIN Put(ob, id, w).work = DOMAIN ob.work \cup {id}
         /\ \A i \in DOMAIN ob.work : i # id => Put(ob, id, w).work[i] = ob.work[i]
         /\ LET e == Put(ob, id, w).work[id]
            IN  /\ e.group = w.group /\ e.object = w.object /\ e.kind = w.kind /\ e.rev = w.rev
                /\ e.ts = w.ts /\ e.thread = w.thread /\ e.dep = w.dep
<1> DEFINE seq == IF id \in DOMAIN ob.work THEN ob.work[id].seq ELSE ob.next + 1
           e == [w EXCEPT !.seq = seq]
<1>1. /\ DOMAIN Put(ob, id, w).work = DOMAIN ob.work \cup {id}
      /\ \A i \in DOMAIN ob.work \cup {id} :
           Put(ob, id, w).work[i] = IF i = id THEN e ELSE ob.work[i]
  BY DEF Put
<1>2. /\ e.group = w.group /\ e.object = w.object /\ e.kind = w.kind /\ e.rev = w.rev
      /\ e.ts = w.ts /\ e.thread = w.thread /\ e.dep = w.dep
  <2> HIDE DEF seq
  <2> QED BY DEF Work
<1> HIDE DEF e
<1> QED BY <1>1, <1>2

LEMMA PutFit ==
  ASSUME NEW ob, OutboxOK(ob), NEW top \in Nat, Fit(ob, top), NEW id \in WorkId,
         NEW w \in Work, Sound(ob, top, id, w)
  PROVE  /\ Fit(Put(ob, id, w), top)
         /\ Kept(ob, Put(ob, id, w), {id})
         /\ ~IsParent(id) => Kept(ob, Put(ob, id, w), {})
<1> DEFINE put == Put(ob, id, w)
<1>1. /\ DOMAIN put.work = DOMAIN ob.work \cup {id}
      /\ \A i \in DOMAIN ob.work : i # id => put.work[i] = ob.work[i]
      /\ put.work[id].kind = w.kind /\ put.work[id].ts = w.ts
      /\ put.work[id].thread = w.thread /\ put.work[id].dep = w.dep
  BY PutFacts
<1> HIDE DEF put
<1>2. ASSUME NEW d, <<"parent", d, 0>> \in DOMAIN ob.work,
             ob.work[<<"parent", d, 0>>].kind = "post"
      PROVE  /\ <<"parent", d, 0>> \in DOMAIN put.work
             /\ put.work[<<"parent", d, 0>>].kind = "post"
  <2>1. CASE <<"parent", d, 0>> = id
    <3>1. IsParent(id)
      BY <2>1 DEF IsParent
    <3> QED BY <1>1, <1>2, <2>1, <3>1 DEF Sound
  <2>2. CASE <<"parent", d, 0>> # id
    BY <1>1, <1>2, <2>2
  <2> QED BY <2>1, <2>2
<1>3. ASSUME NEW i \in DOMAIN put.work PROVE FitAt(put, top, i)
  <2>1. CASE i = id
    BY <1>1, <1>2, <2>1 DEF Sound, FitAt
  <2>2. CASE i # id
    <3>1. i \in DOMAIN ob.work /\ put.work[i] = ob.work[i] /\ FitAt(ob, top, i)
      BY <1>1, <2>2 DEF Fit
    <3> QED BY <1>2, <3>1 DEF FitAt
  <2> QED BY <2>1, <2>2
<1>4. Kept(ob, put, {id}) /\ (~IsParent(id) => Kept(ob, put, {}))
  BY <1>1 DEF Kept
<1> QED BY <1>3, <1>4 DEF Fit, put

LEMMA DropFit ==
  ASSUME NEW ob, OutboxOK(ob), NEW top \in Nat, Fit(ob, top), NEW ids,
         \A i \in ids : IsParent(i) /\ i \in DOMAIN ob.work => ob.work[i].kind # "post"
  PROVE  /\ Fit(Drop(ob, ids), top)
         /\ Kept(ob, Drop(ob, ids), ids)
         /\ (\A i \in ids : ~IsParent(i)) => Kept(ob, Drop(ob, ids), {})
<1> DEFINE new == Drop(ob, ids)
<1>1. /\ DOMAIN new.work = DOMAIN ob.work \ ids
      /\ \A i \in DOMAIN new.work : new.work[i] = ob.work[i]
  BY DEF Drop, OutboxOK
<1> HIDE DEF new
<1>2. ASSUME NEW i \in DOMAIN new.work PROVE FitAt(new, top, i)
  <2>1. i \in DOMAIN ob.work /\ new.work[i] = ob.work[i] /\ FitAt(ob, top, i)
    BY <1>1 DEF Fit
  <2>2. ob.work[i].dep # 0 => /\ <<"parent", ob.work[i].dep, 0>> \in DOMAIN ob.work
                              /\ ob.work[<<"parent", ob.work[i].dep, 0>>].kind = "post"
                              /\ IsParent(<<"parent", ob.work[i].dep, 0>>)
    BY <2>1 DEF FitAt, IsParent
  <2>3. ob.work[i].dep # 0 => <<"parent", ob.work[i].dep, 0>> \in DOMAIN new.work
    BY <1>1, <2>2
  <2> QED BY <1>1, <2>1, <2>2, <2>3 DEF FitAt
<1>3. Kept(ob, new, ids) /\ ((\A i \in ids : ~IsParent(i)) => Kept(ob, new, {}))
  BY <1>1 DEF Kept
<1> QED BY <1>2, <1>3 DEF Fit, new

\* Rewriting entries in place, what they wait for and how they are sent kept.
LEMMA RewriteFit ==
  ASSUME NEW ob, OutboxOK(ob), NEW top \in Nat, Fit(ob, top), NEW f,
         DOMAIN f = DOMAIN ob.work,
         \A i \in DOMAIN f : /\ f[i].kind = ob.work[i].kind /\ f[i].ts = ob.work[i].ts
                             /\ f[i].dep = ob.work[i].dep /\ f[i].thread = ob.work[i].thread
  PROVE  Fit([ob EXCEPT !.work = f], top)
<1> DEFINE new == [ob EXCEPT !.work = f]
<1>1. new.work = f
  BY DEF OutboxOK
<1> HIDE DEF new
<1>2. ASSUME NEW i \in DOMAIN new.work PROVE FitAt(new, top, i)
  <2>1. FitAt(ob, top, i) /\ i \in DOMAIN f
    BY <1>1 DEF Fit
  <2> QED BY <1>1, <2>1 DEF FitAt
<1> QED BY <1>2 DEF Fit, new

-----------------------------------------------------------------------------
(* What the writers queue for a group fits.                                  *)

LEMMA ParentIdFacts ==
  ASSUME NEW gr \in GroupRecord
  PROVE  /\ ParentId(gr) \in WorkId /\ IsParent(ParentId(gr))
         /\ ParentId(gr) = <<"parent", gr.parent.post, 0>>
         /\ ParentId(gr)[2] = gr.parent.post /\ ParentId(gr)[3] = 0
         /\ ListId(gr) \in WorkId /\ ~IsParent(ListId(gr))
         /\ gr.ep \in Nat
         /\ gr.parent.post \in Nat /\ gr.parent.ts \in Nat /\ gr.parent.rev \in Nat
         /\ gr.list.post \in Nat /\ gr.list.ts \in Nat /\ gr.list.rev \in Nat
<1>1. /\ gr.parent.post \in Nat /\ gr.parent.ts \in Nat /\ gr.parent.rev \in Nat
      /\ gr.list.post \in Nat /\ gr.list.ts \in Nat /\ gr.list.rev \in Nat /\ gr.ep \in Nat
  BY DEF GroupRecord, SlackObject
<1> QED BY <1>1 DEF ParentId, ListId, IsParent, WorkId, WorkName

LEMMA DependencyFit ==
  ASSUME NEW ob, NEW gr \in GroupRecord, Posting(ob, gr)
  PROVE  LET d == DependencyForParent(gr.parent)
         IN  d # 0 => /\ <<"parent", d, 0>> \in DOMAIN ob.work
                      /\ ob.work[<<"parent", d, 0>>].kind = "post"
BY ParentIdFacts DEF DependencyForParent, Posting

LEMMA NewWorkFacts ==
  ASSUME NEW g, NEW object, NEW kind, NEW rev, NEW ts, NEW thread, NEW dep,
         NEW text, NEW ep
  PROVE  LET w == NewWork(g, object, kind, rev, ts, thread, dep, text, ep)
         IN  /\ w.group = g /\ w.object = object /\ w.kind = kind /\ w.rev = rev
             /\ w.ts = ts /\ w.thread = thread /\ w.dep = dep /\ w.text = text /\ w.ep = ep
BY DEF NewWork

LEMMA ReplySound ==
  ASSUME NEW ob, NEW top, NEW id, ~IsParent(id), NEW g \in Group, NEW gr \in GroupRecord,
         Posting(ob, gr)
  PROVE  Sound(ob, top, id, Reply(g, gr))
<1> DEFINE w == Reply(g, gr)
<1>1. w.kind = "post" /\ w.dep = DependencyForParent(gr.parent)
  BY NewWorkFacts DEF Reply
<1> HIDE DEF w
<1>2. w.dep # 0 => /\ <<"parent", w.dep, 0>> \in DOMAIN ob.work
                   /\ ob.work[<<"parent", w.dep, 0>>].kind = "post"
  BY <1>1, DependencyFit
<1> QED BY <1>1, <1>2 DEF Sound, w

LEMMA PutParentFit ==
  ASSUME NEW ob, OutboxOK(ob), NEW top \in Nat, Fit(ob, top), NEW g \in Group,
         NEW gr \in GroupRecord, IsOpen(gr), gr.parent.post < top,
         ParentId(gr) \in DOMAIN ob.work /\ ob.work[ParentId(gr)].kind = "post"
           => gr.parent.ts = 0
  PROVE  LET new == PutParent(ob, g, gr)
         IN  /\ Fit(new, top) /\ Kept(ob, new, {ParentId(gr)})
             /\ CardIn(new, g, gr) /\ ParentId(gr) \in DOMAIN new.work
             /\ new.work[ParentId(gr)].kind = IF gr.parent.ts = 0 THEN "post" ELSE "update"
<1> DEFINE kind == IF gr.parent.ts # 0 THEN "update" ELSE "post"
           w == NewWork(g, "parent", kind, gr.parent.rev, gr.parent.ts, 0, 0, "render", gr.ep)
           new == PutParent(ob, g, gr)
<1>1. /\ ParentId(gr) \in WorkId /\ IsParent(ParentId(gr))
      /\ ParentId(gr)[2] = gr.parent.post /\ ParentId(gr)[3] = 0
      /\ gr.ep \in Nat /\ gr.parent.post \in Nat /\ gr.parent.ts \in Nat
      /\ gr.parent.rev \in Nat
  BY ParentIdFacts
<1>2. w \in Work
  <2>1. kind \in {"post", "update", "reaction"} /\ 0 \in Nat
        /\ "parent" \in Object /\ "render" \in Text
    BY DEF Object, Text
  <2> HIDE DEF kind
  <2> QED BY <1>1, <2>1, NewWorkType
<1>3. /\ w.group = g /\ w.kind = kind /\ w.rev = gr.parent.rev
      /\ w.ts = gr.parent.ts /\ w.thread = 0 /\ w.dep = 0
  BY NewWorkFacts
<1>4. new = Put(ob, ParentId(gr), w)
  BY DEF PutParent
<1> HIDE DEF w, new
<1>5. 0 < gr.parent.post
  BY <1>1 DEF IsOpen
<1>6. Sound(ob, top, ParentId(gr), w)
  BY <1>1, <1>3, <1>5 DEF Sound
<1>7. Fit(new, top) /\ Kept(ob, new, {ParentId(gr)})
  BY <1>1, <1>2, <1>4, <1>6, PutFit
<1>8. /\ DOMAIN new.work = DOMAIN ob.work \cup {ParentId(gr)}
      /\ new.work[ParentId(gr)].group = w.group /\ new.work[ParentId(gr)].kind = w.kind
      /\ new.work[ParentId(gr)].rev = w.rev /\ new.work[ParentId(gr)].ts = w.ts
  <2>1. PICK id \in WorkId : id = ParentId(gr)
    BY <1>1
  <2>2. /\ DOMAIN Put(ob, id, w).work = DOMAIN ob.work \cup {id}
        /\ Put(ob, id, w).work[id].group = w.group /\ Put(ob, id, w).work[id].kind = w.kind
        /\ Put(ob, id, w).work[id].rev = w.rev /\ Put(ob, id, w).work[id].ts = w.ts
    BY <1>2, PutFacts
  <2> HIDE DEF kind
  <2> QED BY <1>4, <2>1, <2>2
<1>9. CardIn(new, g, gr)
  BY <1>3, <1>8 DEF CardIn
<1> QED BY <1>3, <1>7, <1>8, <1>9 DEF new

\* The writers' work on lists, replies and reactions.
LEMMA PutOther ==
  ASSUME NEW ob, OutboxOK(ob), NEW top \in Nat, Fit(ob, top), NEW id \in WorkId,
         ~IsParent(id), NEW gr \in GroupRecord, Posting(ob, gr), NEW w \in Work,
         w.kind = "update" => w.ts # 0, w.dep \in {0, DependencyForParent(gr.parent)}
  PROVE  Fit(Put(ob, id, w), top) /\ Kept(ob, Put(ob, id, w), {})
<1>1. w.dep # 0 => /\ <<"parent", w.dep, 0>> \in DOMAIN ob.work
                   /\ ob.work[<<"parent", w.dep, 0>>].kind = "post"
  BY DependencyFit
<1>2. Sound(ob, top, id, w)
  BY <1>1 DEF Sound
<1> QED BY <1>2, PutFit

LEMMA PutNewMembersFit ==
  ASSUME NEW ob, OutboxOK(ob), NEW top \in Nat, Fit(ob, top), NEW g \in Group,
         NEW gr \in GroupRecord, Posting(ob, gr), NEW ep, NEW members
  PROVE  LET new == PutNewMembers(ob, ep, members, Reply(g, gr))
         IN  Fit(new, top) /\ Kept(ob, new, {})
<1> DEFINE w == Reply(g, gr)
           ids == {<<"newMember", ep, m>> : m \in members}
           new == PutNewMembers(ob, ep, members, w)
           seq(i) == IF i \in DOMAIN ob.work THEN ob.work[i].seq ELSE ob.next + i[3]
           e(i) == [w EXCEPT !.seq = seq(i)]
<1>1. /\ DOMAIN new.work = DOMAIN ob.work \cup ids
      /\ \A i \in DOMAIN new.work : new.work[i] = IF i \notin ids THEN ob.work[i] ELSE e(i)
  BY DEF PutNewMembers
<1>2. \A i \in ids : ~IsParent(i)
  BY DEF IsParent
<1>3. w \in Work /\ w.kind = "post" /\ w.dep = DependencyForParent(gr.parent)
  BY GroupWork, NewWorkFacts DEF Reply
<1>4. ASSUME NEW i PROVE e(i).kind = w.kind /\ e(i).dep = w.dep
  <2> HIDE DEF seq, w
  <2> QED BY <1>3 DEF Work
<1>5. w.dep # 0 => /\ <<"parent", w.dep, 0>> \in DOMAIN ob.work
                   /\ ob.work[<<"parent", w.dep, 0>>].kind = "post"
  BY <1>3, DependencyFit
<1> HIDE DEF w, ids, new, e
<1>6. ASSUME NEW d, <<"parent", d, 0>> \in DOMAIN ob.work
      PROVE  /\ <<"parent", d, 0>> \in DOMAIN new.work
             /\ new.work[<<"parent", d, 0>>] = ob.work[<<"parent", d, 0>>]
  <2>1. IsParent(<<"parent", d, 0>>)
    BY DEF IsParent
  <2> QED BY <1>1, <1>2, <1>6, <2>1
<1>7. ASSUME NEW i \in DOMAIN new.work PROVE FitAt(new, top, i)
  <2>1. CASE i \in ids
    <3>1. new.work[i] = e(i) /\ ~IsParent(i)
      BY <1>1, <1>2, <2>1
    <3>2. new.work[i].kind = "post" /\ new.work[i].dep = w.dep
      BY <1>3, <1>4, <3>1
    <3> QED BY <1>5, <1>6, <3>1, <3>2 DEF FitAt
  <2>2. CASE i \notin ids
    <3>1. i \in DOMAIN ob.work /\ new.work[i] = ob.work[i] /\ FitAt(ob, top, i)
      BY <1>1, <2>2 DEF Fit
    <3> QED BY <1>6, <3>1 DEF FitAt
  <2> QED BY <2>1, <2>2
<1>8. Kept(ob, new, {})
  BY <1>1, <1>2 DEF Kept
<1> QED BY <1>7, <1>8 DEF Fit, new, w

LEMMA PlaceListFit ==
  ASSUME NEW ob, OutboxOK(ob), NEW top \in Nat, Fit(ob, top), NEW g \in Group,
         NEW gr \in GroupRecord, Posting(ob, gr), fresh \in Nat
  PROVE  LET new == PlaceList(ob, g, gr)
         IN  /\ Fit(new.ob, top) /\ Kept(ob, new.ob, {})
             /\ new.gr.parent = gr.parent
             /\ new.gr.list.post \in {gr.list.post, 0, fresh + 1}
<1>1. LET new == ShowList(ob, g, gr)
      IN  /\ Fit(new.ob, top) /\ Kept(ob, new.ob, {})
          /\ new.gr.parent = gr.parent
          /\ new.gr.list.post \in {gr.list.post, fresh + 1}
  <2> DEFINE gr2 == IF gr.list.post = 0
                    THEN [gr EXCEPT !.list = [post |-> fresh + 1, ts |-> 0, rev |-> 1]]
                    ELSE [gr EXCEPT !.list.rev = @ + 1]
             kind == IF gr2.list.ts # 0 THEN "update" ELSE "post"
             w == NewWork(g, "memberList", kind, gr2.list.rev, gr2.list.ts, gr2.parent.ts,
                          DependencyForParent(gr2.parent), "render", gr2.ep)
  <2>1. /\ gr2 \in GroupRecord /\ gr2.parent = gr.parent
        /\ gr2.list.post \in {gr.list.post, fresh + 1}
    BY DEF GroupRecord, SlackObject
  <2>2. ShowList(ob, g, gr).gr = gr2 /\ ShowList(ob, g, gr).ob = Put(ob, ListId(gr2), w)
    BY DEF ShowList, PutList
  <2> HIDE DEF gr2
  <2>3. w.kind = kind /\ w.ts = gr2.list.ts /\ w.dep = DependencyForParent(gr2.parent)
    BY NewWorkFacts
  <2>4. w \in Work
    <3>1. kind \in {"post", "update", "reaction"}
      OBVIOUS
    <3>2. DependencyForParent(gr2.parent) \in Nat
      BY <2>1, GroupWork
    <3>3. /\ gr2.list.rev \in Nat /\ gr2.list.ts \in Nat /\ gr2.parent.ts \in Nat
          /\ gr2.ep \in Nat
      BY <2>1, ParentIdFacts
    <3>4. "memberList" \in Object /\ "render" \in Text
      BY DEF Object, Text
    <3> HIDE DEF kind
    <3> QED BY <3>1, <3>2, <3>3, <3>4, NewWorkType
  <2>5. Posting(ob, gr2)
    BY <2>1 DEF Posting, ParentId
  <2> HIDE DEF w
  <2>6. Fit(Put(ob, ListId(gr2), w), top) /\ Kept(ob, Put(ob, ListId(gr2), w), {})
    <3>1. w.kind = "update" => w.ts # 0
      BY <2>3
    <3>2. ListId(gr2) \in WorkId /\ ~IsParent(ListId(gr2))
      BY <2>1, ParentIdFacts
    <3> QED BY <2>1, <2>3, <2>4, <2>5, <3>1, <3>2, PutOther
  <2> QED BY <2>1, <2>2, <2>6
<1>2. LET new == RetireList(ob, g, gr)
      IN  /\ Fit(new.ob, top) /\ Kept(ob, new.ob, {})
          /\ new.gr.parent = gr.parent
          /\ new.gr.list.post \in {gr.list.post, 0}
  <2>0. ListId(gr) \in WorkId /\ ~IsParent(ListId(gr))
    BY ParentIdFacts
  <2>1. CASE Cancellable(ob, gr)
    <3>1. /\ RetireList(ob, g, gr).gr = [gr EXCEPT !.list = NoObject]
          /\ RetireList(ob, g, gr).ob = Drop(ob, {ListId(gr)})
      BY <2>1 DEF RetireList
    <3>2. Fit(Drop(ob, {ListId(gr)}), top) /\ Kept(ob, Drop(ob, {ListId(gr)}), {})
      <4>1. \A i \in {ListId(gr)} : ~IsParent(i)
        BY <2>0
      <4> QED BY <4>1, DropFit
    <3> QED BY <3>1, <3>2 DEF GroupRecord, NoObject
  <2>2. CASE ~Cancellable(ob, gr)
    <3> DEFINE gr2 == [gr EXCEPT !.list.rev = @ + 1]
               w == IF gr.list.ts # 0
                    THEN NewWork(g, "memberListRetire", "update", gr2.list.rev,
                                 gr.list.ts, 0, 0, "retired", gr.ep)
                    ELSE NewWork(g, "memberListRetire", "post", gr2.list.rev, 0,
                                 gr.parent.ts, DependencyForParent(gr.parent),
                                 "retired", gr.ep)
    <3>1. /\ RetireList(ob, g, gr).gr = gr2
          /\ RetireList(ob, g, gr).ob = Put(ob, ListId(gr), w)
      BY <2>2 DEF RetireList
    <3>2. /\ gr2 \in GroupRecord /\ gr2.parent = gr.parent /\ gr2.list.post = gr.list.post
          /\ gr2.list.rev \in Nat
      BY DEF GroupRecord, SlackObject
    <3> HIDE DEF gr2
    <3>3. /\ w \in Work
          /\ w.kind = "update" => w.ts # 0
      <4>1. /\ gr.list.ts \in Nat /\ gr.parent.ts \in Nat /\ gr.ep \in Nat
            /\ DependencyForParent(gr.parent) \in Nat
        BY ParentIdFacts, GroupWork
      <4>0. /\ "memberListRetire" \in Object /\ "retired" \in Text /\ 0 \in Nat
            /\ {"update", "post"} \subseteq {"post", "update", "reaction"}
        BY DEF Object, Text
      <4>2. CASE gr.list.ts # 0
        <5> DEFINE v == NewWork(g, "memberListRetire", "update", gr2.list.rev,
                                gr.list.ts, 0, 0, "retired", gr.ep)
        <5>1. v \in Work
          BY <3>2, <4>0, <4>1, NewWorkType
        <5>2. v.ts = gr.list.ts
          BY NewWorkFacts
        <5> HIDE DEF v
        <5> QED BY <4>2, <5>1, <5>2 DEF v
      <4>3. CASE gr.list.ts = 0
        <5> DEFINE v == NewWork(g, "memberListRetire", "post", gr2.list.rev, 0,
                                gr.parent.ts, DependencyForParent(gr.parent),
                                "retired", gr.ep)
        <5>1. v \in Work
          BY <3>2, <4>0, <4>1, NewWorkType
        <5>2. v.kind = "post"
          BY NewWorkFacts
        <5> HIDE DEF v
        <5> QED BY <4>3, <5>1, <5>2 DEF v
      <4> QED BY <4>2, <4>3
    <3>4. w.dep \in {0, DependencyForParent(gr.parent)}
      BY NewWorkFacts
    <3> HIDE DEF w
    <3>5. Fit(Put(ob, ListId(gr), w), top) /\ Kept(ob, Put(ob, ListId(gr), w), {})
      BY <2>0, <3>3, <3>4, PutOther
    <3> QED BY <3>1, <3>2, <3>5
  <2> QED BY <2>1, <2>2
<1>3. Kept(ob, ob, {})
  BY KeptReflexive
<1> QED BY <1>1, <1>2, <1>3 DEF PlaceList

LEMMA CloseParentFit ==
  ASSUME NEW ob, OutboxOK(ob), NEW top \in Nat, Fit(ob, top), NEW g \in Group,
         NEW gr \in GroupRecord, IsOpen(gr), CardIn(ob, g, gr)
  PROVE  LET new == CloseParent(ob, g, gr)
             p == ParentId(gr)
         IN  /\ Fit(new, top) /\ Kept(ob, new, {p}) /\ Posting(new, gr)
             /\ p \in DOMAIN new.work =>
                  p \in DOMAIN ob.work /\ new.work[p].kind = ob.work[p].kind
<1> DEFINE p == ParentId(gr)
           new == CloseParent(ob, g, gr)
<1>0. /\ p \in WorkId /\ IsParent(p) /\ gr.ep \in Nat /\ gr.parent.ts \in Nat
      /\ gr.parent.post # 0
  BY ParentIdFacts DEF IsOpen
<1>1. CASE gr.parent.ts # 0
  <2> DEFINE mid == Drop(ob, {p})
             id == <<"closeParent", gr.ep, 0>>
             w == NewWork(g, "eventReply", "update", 0, gr.parent.ts, 0, 0, "closed", gr.ep)
  <2>1. new = Put(mid, id, w)
    BY <1>1 DEF CloseParent
  <2>2. p \in DOMAIN ob.work => ob.work[p].kind # "post"
    BY <1>1 DEF CardIn
  <2>3. OutboxOK(mid) /\ Fit(mid, top) /\ Kept(ob, mid, {p})
    <3>1. \A i \in {p} : IsParent(i) /\ i \in DOMAIN ob.work => ob.work[i].kind # "post"
      BY <2>2
    <3> HIDE DEF p
    <3> QED BY <3>1, DropFit, DropOK
  <2>4. p \notin DOMAIN mid.work
    BY DEF Drop, OutboxOK
  <2>5. id \in WorkId /\ ~IsParent(id) /\ id # p
    BY <1>0 DEF WorkId, WorkName, IsParent
  <2>6. w \in Work /\ w.kind = "update" /\ w.ts = gr.parent.ts /\ w.dep = 0
    <3>1. "eventReply" \in Object /\ "closed" \in Text /\ 0 \in Nat
      BY DEF Object, Text
    <3>2. w \in Work
      BY <1>0, <3>1, NewWorkType
    <3> QED BY <3>2, NewWorkFacts
  <2> HIDE DEF mid, w, id, p
  <2>7. Fit(Put(mid, id, w), top) /\ Kept(mid, Put(mid, id, w), {})
    <3>1. Posting(mid, gr)
      BY <1>1 DEF Posting
    <3> QED BY <1>1, <2>3, <2>5, <2>6, <3>1, PutOther
  <2>8. p \notin DOMAIN Put(mid, id, w).work
    BY <2>4, <2>5, <2>6, PutFacts
  <2>9. Kept(ob, Put(mid, id, w), {p})
    BY <2>3, <2>7, KeptTransitive
  <2>10. Posting(new, gr)
    BY <1>1 DEF Posting
  <2> QED BY <2>1, <2>7, <2>8, <2>9, <2>10 DEF p
<1>2. CASE gr.parent.ts = 0
  <2>1. p \in DOMAIN ob.work /\ ob.work[p].kind = "post" /\ ob.work[p] \in Work
    BY <1>2 DEF CardIn, OutboxOK
  <2> DEFINE e == [ob.work[p] EXCEPT !.text = "closed", !.rev = @ + 1]
             f == [ob.work EXCEPT ![p] = e]
  <2>2. new = [ob EXCEPT !.work = f]
    BY <1>2, <2>1 DEF CloseParent, OutboxOK
  <2>3. /\ e.kind = ob.work[p].kind /\ e.ts = ob.work[p].ts /\ e.dep = ob.work[p].dep
        /\ e.thread = ob.work[p].thread
    BY <2>1 DEF Work
  <2> HIDE DEF e
  <2>4. DOMAIN f = DOMAIN ob.work /\ \A i \in DOMAIN f : f[i] = IF i = p THEN e ELSE ob.work[i]
    OBVIOUS
  <2> HIDE DEF f
  <2>5. Fit([ob EXCEPT !.work = f], top)
    BY <2>3, <2>4, RewriteFit
  <2>6. new.work = f
    BY <2>2 DEF OutboxOK
  <2>7. Kept(ob, new, {p})
    BY <2>4, <2>6 DEF Kept
  <2>8. new.work[p].kind = "post" /\ p \in DOMAIN new.work
    BY <2>1, <2>3, <2>4, <2>6
  <2>9. Posting(new, gr)
    BY <2>8 DEF Posting
  <2> QED BY <2>1, <2>2, <2>5, <2>7, <2>8, <2>9
<1> QED BY <1>0, <1>1, <1>2

LEMMA CloseEpisodeFit ==
  ASSUME NEW ob, OutboxOK(ob), NEW top \in Nat, Fit(ob, top), NEW g \in Group,
         NEW gr \in GroupRecord, IsOpen(gr), CardIn(ob, g, gr), NEW withReply \in BOOLEAN
  PROVE  LET new == CloseEpisode(ob, g, gr, withReply)
             p == ParentId(gr)
         IN  /\ Fit(new, top) /\ Kept(ob, new, {p})
             /\ p \in DOMAIN new.work =>
                  p \in DOMAIN ob.work /\ new.work[p].kind = ob.work[p].kind
<1> DEFINE p == ParentId(gr)
           id == <<"closeReply", gr.ep, 0>>
           w == Reply(g, gr)
           ob1 == CloseParent(ob, g, gr)
           ob2 == PutIf(withReply, ob1, id, w)
           new == CloseList(ob2, gr)
<1>0. CloseEpisode(ob, g, gr, withReply) = new
  BY DEF CloseEpisode
<1>1. /\ Fit(ob1, top) /\ Kept(ob, ob1, {p}) /\ Posting(ob1, gr) /\ OutboxOK(ob1)
      /\ p \in DOMAIN ob1.work =>
           p \in DOMAIN ob.work /\ ob1.work[p].kind = ob.work[p].kind
  BY CloseParentFit, CloseParentOK
<1>2. /\ p \in WorkId /\ IsParent(p) /\ id \in WorkId /\ ~IsParent(id)
      /\ ListId(gr) \in WorkId /\ ~IsParent(ListId(gr))
  BY ParentIdFacts DEF WorkId, WorkName, IsParent
<1>3. w \in Work /\ w.kind = "post" /\ w.dep = DependencyForParent(gr.parent)
  BY GroupWork, NewWorkFacts DEF Reply
<1> HIDE DEF p, id, w, ob1
<1>4. Fit(ob2, top) /\ Kept(ob1, ob2, {}) /\ OutboxOK(ob2)
  <2>1. CASE withReply
    <3>1. ob2 = Put(ob1, id, w)
      BY <2>1 DEF PutIf
    <3>2. Fit(Put(ob1, id, w), top) /\ Kept(ob1, Put(ob1, id, w), {})
      BY <1>1, <1>2, <1>3, PutOther
    <3> QED BY <1>1, <1>2, <1>3, <3>1, <3>2, PutOK
  <2>2. CASE ~withReply
    BY <1>1, <2>2, KeptReflexive DEF PutIf
  <2> QED BY <2>1, <2>2
<1> HIDE DEF ob2
<1>5. Fit(new, top) /\ Kept(ob2, new, {})
  <2>1. \A i \in {ListId(gr)} : ~IsParent(i)
    BY <1>2
  <2>2. Fit(Drop(ob2, {ListId(gr)}), top) /\ Kept(ob2, Drop(ob2, {ListId(gr)}), {})
    BY <1>4, <2>1, DropFit
  <2> QED BY <1>4, <2>2, KeptReflexive DEF CloseList
<1> HIDE DEF new
<1>6. Kept(ob1, new, {}) /\ Kept(ob, new, {p})
  <2>1. Kept(ob1, new, {})
    BY <1>4, <1>5, KeptTransitive
  <2> QED BY <1>1, <2>1, KeptTransitive
<1>7. p \in DOMAIN new.work => p \in DOMAIN ob1.work /\ new.work[p] = ob1.work[p]
  BY <1>2, <1>6 DEF Kept
<1> QED BY <1>0, <1>1, <1>5, <1>6, <1>7 DEF p

-----------------------------------------------------------------------------
(* A writer edits one group and the entry of one card, be it the group's or  *)
(* a new one.                                                                *)

LEMMA PostFacts ==
  ASSUME TypeOK
  PROVE  /\ fresh \in Nat /\ OutboxOK(outbox) /\ group \in [Group -> GroupRecord]
         /\ \A i \in DOMAIN outbox.work : i \in WorkId /\ i[2] \in Nat
         /\ \A g \in Group : /\ group[g] \in GroupRecord
                             /\ group[g].parent.post \in Nat /\ group[g].list.post \in Nat
                             /\ IsParent(ParentId(group[g])) /\ ParentId(group[g]) \in WorkId
                             /\ ParentId(group[g]) = <<"parent", group[g].parent.post, 0>>
<1>1. fresh \in Nat /\ OutboxOK(outbox) /\ group \in [Group -> GroupRecord]
  BY DEF TypeOK
<1>2. \A i \in WorkId : i[2] \in Nat
  BY DEF WorkId
<1>3. \A i \in DOMAIN outbox.work : i \in WorkId /\ i[2] \in Nat
  BY <1>1, <1>2 DEF OutboxOK
<1>4. \A g \in Group : group[g] \in GroupRecord
  BY <1>1
<1> QED BY <1>1, <1>3, <1>4, ParentIdFacts

LEMMA WriterStep ==
  ASSUME TypeOK, TypeOK', Cards, NEW g \in Group, NEW post \in Nat,
         post \in {group[g].parent.post, fresh}, fresh' >= fresh,
         post = fresh => fresh' > fresh,
         Fit(outbox', fresh'), Kept(outbox, outbox', {<<"parent", post, 0>>}),
         CardIn(outbox', g, group'[g]),
         group'[g].parent.post \in {0, post},
         group'[g].list.post \in {0, group[g].list.post, fresh + 1},
         group'[g].list.post = fresh + 1 => fresh' > fresh + 1,
         \A h \in Group \ {g} : group'[h] = group[h],
         worker' = worker,
         LET p == <<"parent", post, 0>>
         IN  post # fresh /\ p \in DOMAIN outbox'.work /\ outbox'.work[p].kind # "update"
               => p \in DOMAIN outbox.work /\ outbox.work[p].kind # "update"
  PROVE  Cards'
<1> DEFINE p == <<"parent", post, 0>>
<1>1. /\ fresh \in Nat /\ OutboxOK(outbox) /\ group \in [Group -> GroupRecord]
      /\ \A i \in DOMAIN outbox.work : i \in WorkId /\ i[2] \in Nat
      /\ \A h \in Group : /\ group[h] \in GroupRecord
                          /\ group[h].parent.post \in Nat /\ group[h].list.post \in Nat
                          /\ IsParent(ParentId(group[h])) /\ ParentId(group[h]) \in WorkId
                          /\ ParentId(group[h]) = <<"parent", group[h].parent.post, 0>>
  BY PostFacts
<1>2. fresh' \in Nat /\ \A i \in DOMAIN outbox'.work : i \in WorkId
  BY DEF TypeOK, OutboxOK
<1>3. /\ fresh > 0
      /\ \A h \in Group : group[h].parent.post < fresh /\ group[h].list.post < fresh
      /\ \A h, k \in Group : group[h].parent.post # 0 =>
           /\ group[h].parent.post # group[k].list.post
           /\ group[h].parent.post = group[k].parent.post => h = k
      /\ \A i \in DOMAIN outbox.work, h \in Group : IsParent(i) => i[2] # group[h].list.post
  BY DEF Cards, Drawn
<1>4. \A i \in WorkId : IsParent(i) /\ i # p =>
        /\ i \in DOMAIN outbox.work <=> i \in DOMAIN outbox'.work
        /\ i \in DOMAIN outbox.work => outbox'.work[i] = outbox.work[i]
  BY DEF Kept
<1>5. ASSUME NEW h \in Group PROVE CardIn(outbox', h, group'[h])
  <2>1. CASE h = g
    BY <2>1
  <2>2. CASE h # g
    <3>1. group'[h] = group[h] /\ CardIn(outbox, h, group[h])
      BY <2>2 DEF Cards
    <3> SUFFICES ASSUME IsOpen(group[h]) PROVE CardIn(outbox', h, group[h])
      BY <3>1 DEF CardIn
    <3>2. ParentId(group[h]) # p
      <4>1. group[h].parent.post # 0 /\ group[h].parent.post < fresh
        BY <1>3 DEF IsOpen
      <4>2. group[h].parent.post # post
        BY <1>1, <1>3, <2>2, <4>1
      <4>3. <<"parent", group[h].parent.post, 0>> # <<"parent", post, 0>>
        BY <4>2
      <4> QED BY <1>1, <4>3
    <3>3. /\ ParentId(group[h]) \in DOMAIN outbox.work
               <=> ParentId(group[h]) \in DOMAIN outbox'.work
          /\ ParentId(group[h]) \in DOMAIN outbox.work
               => outbox'.work[ParentId(group[h])] = outbox.work[ParentId(group[h])]
      BY <1>1, <1>4, <3>2
    <3> QED BY <3>1, <3>3 DEF CardIn
  <2> QED BY <2>1, <2>2
<1>6. \A h \in Group : group'[h].parent.post < fresh' /\ group'[h].list.post < fresh'
  <2>1. ASSUME NEW h \in Group \ {g}
        PROVE  group'[h].parent.post < fresh' /\ group'[h].list.post < fresh'
    BY <1>1, <1>2, <1>3, <2>1
  <2>2. group'[g].parent.post < fresh' /\ group'[g].list.post < fresh'
    BY <1>1, <1>2, <1>3
  <2> QED BY <2>1, <2>2
<1>7. ASSUME NEW h \in Group, NEW k \in Group, group'[h].parent.post # 0
      PROVE  /\ group'[h].parent.post # group'[k].list.post
             /\ group'[h].parent.post = group'[k].parent.post => h = k
  <2>1. /\ h # g => group'[h].parent.post = group[h].parent.post
        /\ h = g => group'[h].parent.post = post
        /\ k # g => /\ group'[k].parent.post = group[k].parent.post
                    /\ group'[k].list.post = group[k].list.post
        /\ k = g => /\ group'[k].parent.post \in {0, post}
                    /\ group'[k].list.post \in {0, group[k].list.post, fresh + 1}
    BY <1>7
  <2>2. group[h].parent.post \in Nat /\ group[k].parent.post \in Nat /\ group[k].list.post \in Nat
        /\ group[h].parent.post < fresh /\ group[k].parent.post < fresh
        /\ group[k].list.post < fresh
    BY <1>1, <1>3
  <2>3. CASE post = fresh
    BY <1>1, <1>3, <1>7, <2>1, <2>2, <2>3
  <2>4. CASE post = group[g].parent.post
    BY <1>1, <1>3, <1>7, <2>1, <2>2, <2>4
  <2> QED BY <2>3, <2>4
<1>8. ASSUME NEW i \in DOMAIN outbox'.work, NEW h \in Group, IsParent(i)
      PROVE  i[2] # group'[h].list.post
  <2>0. /\ group'[h].list.post \in {0, group[h].list.post, fresh + 1}
        /\ group[h].list.post \in Nat /\ group[h].list.post < fresh
    BY <1>1, <1>3
  <2>1. CASE i = p
    <3>1. i[2] = post
      BY <2>1
    <3>2. 0 < i[2]
      BY <1>8 DEF Fit, FitAt
    <3>3. CASE post = fresh
      BY <1>1, <2>0, <3>1, <3>2, <3>3
    <3>4. CASE post = group[g].parent.post
      BY <1>1, <1>3, <2>0, <3>1, <3>2, <3>4
    <3> QED BY <3>3, <3>4
  <2>2. CASE i # p
    <3>1. i \in DOMAIN outbox.work
      BY <1>2, <1>4, <1>8, <2>2
    <3>2. 0 < i[2] /\ i[2] < fresh /\ i[2] \in Nat /\ i[2] # group[h].list.post
      BY <1>1, <1>3, <1>8, <3>1 DEF Cards, Fit, FitAt
    <3> QED BY <1>1, <2>0, <3>2
  <2> QED BY <2>1, <2>2
<1>9. HeldOf'
  <2>1. ASSUME worker.pc # "idle", IsParent(worker.id)
        PROVE  /\ worker.id[2] < fresh'
               /\ worker.id \in DOMAIN outbox'.work /\ worker.work.kind # "post"
                    => outbox'.work[worker.id].kind = "update"
    <3>1. worker.id \in WorkId /\ worker.id[2] \in Nat
      <4>1. worker \in WorkerRecord
        BY DEF TypeOK
      <4> QED BY <2>1, <4>1 DEF WorkerRecord, WorkId, Idle
    <3>2. /\ worker.id[2] < fresh
          /\ worker.id \in DOMAIN outbox.work /\ worker.work.kind # "post"
               => outbox.work[worker.id].kind = "update"
      BY <2>1 DEF Cards, HeldOf
    <3>3. CASE worker.id = p
      <4>1. post # fresh
        BY <3>2, <3>3, <1>1
      <4> QED BY <1>1, <1>2, <3>1, <3>2, <3>3, <4>1
    <3>4. CASE worker.id # p
      BY <1>1, <1>2, <1>4, <2>1, <3>1, <3>2, <3>4
    <3> QED BY <3>3, <3>4
  <2> QED BY <2>1 DEF Cards, HeldOf
<1>10. Drawn'
  <2>1. fresh' > 0
    BY <1>1, <1>2, <1>3
  <2> QED BY <1>6, <1>7, <1>8, <2>1 DEF Drawn
<1> QED BY <1>5, <1>9, <1>10 DEF Cards

\* The card of a group is left alone where only other entries are rewritten.
LEMMA CardKept ==
  ASSUME NEW ob, NEW new, NEW g, NEW gr \in GroupRecord, NEW gr2, gr2.parent = gr.parent,
         Kept(ob, new, {}), CardIn(ob, g, gr)
  PROVE  CardIn(new, g, gr2) /\ Posting(new, gr2) /\ (IsOpen(gr2) <=> IsOpen(gr))
         /\ ParentId(gr2) = ParentId(gr)
<1>1. ParentId(gr2) = ParentId(gr) /\ (IsOpen(gr2) <=> IsOpen(gr))
  BY DEF ParentId, IsOpen
<1>2. IsParent(ParentId(gr)) /\ ParentId(gr) \in WorkId
  BY ParentIdFacts
<1>3. /\ ParentId(gr) \in DOMAIN ob.work <=> ParentId(gr) \in DOMAIN new.work
      /\ ParentId(gr) \in DOMAIN ob.work => new.work[ParentId(gr)] = ob.work[ParentId(gr)]
  BY <1>2 DEF Kept
<1>4. CardIn(new, g, gr2)
  BY <1>1, <1>3 DEF CardIn
<1>5. Posting(new, gr2)
  BY <1>1, <1>4 DEF CardIn, Posting, IsOpen
<1> QED BY <1>1, <1>4, <1>5

LEMMA NotifyCards ==
  ASSUME TypeOK, TypeOK', Cards, NEW g \in Group, NEW b \in Batch, Notify(g, b)
  PROVE  Cards'
<1> DEFINE old    == group[g]
           firing == FiringIn(b)
           base   == IF IsOpen(old) THEN old ELSE NewEpisode
           news   == IF IsOpen(old) THEN firing \ old.delivered ELSE {}
           known  == (base.firing \ DOMAIN b) \cup firing
           status == IF firing # {} THEN "firing"
                     ELSE IF known # {} THEN "incomplete" ELSE "resolved"
           gr     == [base EXCEPT !.parent.rev = @ + 1,
                                  !.firing = known,
                                  !.delivered = DOMAIN b,
                                  !.ack = @ /\ news = {},
                                  !.status = status]
           ob1    == PutParent(outbox, g, gr)
           placed == PlaceList(ob1, g, gr)
           queued == PutNewMembers(placed.ob, gr.ep, news, Reply(g, gr))
           closes == known = {}
           post   == gr.parent.post
           p      == ParentId(gr)
<1>1. /\ group' = [group EXCEPT ![g] = IF closes THEN CloseGroup(placed.gr)
                                       ELSE placed.gr]
      /\ outbox' = IF closes THEN CloseEpisode(queued, g, placed.gr, FALSE) ELSE queued
      /\ fresh' = fresh + 2 /\ worker' = worker
  BY DEF Notify
<1>2. fresh \in Nat /\ old \in GroupRecord /\ OutboxOK(outbox) /\ fresh > 0
      /\ Fit(outbox, fresh) /\ CardIn(outbox, g, old) /\ old.parent.post \in Nat
      /\ old.parent.post < fresh
  BY PostFacts DEF Cards, Drawn
<1>3. DOMAIN b \in SUBSET Member /\ firing \in SUBSET Member /\ firing \subseteq DOMAIN b
  BY DEF Batch, FiringIn
<1>4. base \in GroupRecord
  BY <1>2 DEF NewEpisode, Absent, NoObject, GroupRecord, SlackObject
<1>5. known \in SUBSET Member /\ news \in SUBSET Member
  BY <1>3, <1>4 DEF GroupRecord
<1>6. /\ gr \in GroupRecord /\ gr.parent.post = base.parent.post
      /\ gr.parent.ts = base.parent.ts /\ gr.list = base.list
  <2> DEFINE ack == base.ack /\ news = {}
             parent == [base.parent EXCEPT !.rev = @ + 1]
  <2>1. ack \in BOOLEAN
    BY <1>4 DEF GroupRecord
  <2>2. parent \in SlackObject /\ parent.post = base.parent.post /\ parent.ts = base.parent.ts
    BY <1>4 DEF GroupRecord, SlackObject
  <2>3. gr = [base EXCEPT !.parent = parent, !.firing = known,
                          !.delivered = DOMAIN b, !.ack = ack, !.status = status]
    BY <1>4 DEF GroupRecord
  <2>4. status \in {"firing", "incomplete", "resolved"}
    OBVIOUS
  <2> HIDE DEF ack, parent, gr, base, known, status
  <2> QED BY <2>1, <2>2, <2>3, <2>4, <1>3, <1>4, <1>5 DEF GroupRecord
<1>7. /\ IsOpen(old) => post = old.parent.post /\ gr.parent.ts = old.parent.ts
                        /\ gr.list.post = old.list.post
      /\ ~IsOpen(old) => post = fresh /\ gr.parent.ts = 0 /\ gr.list.post = 0
      /\ post \in Nat /\ post # 0
  <2>1. CASE IsOpen(old)
    BY <1>2, <1>6, <2>1 DEF IsOpen
  <2>2. CASE ~IsOpen(old)
    BY <1>2, <1>6, <2>2 DEF NewEpisode, Absent, NoObject
  <2> QED BY <2>1, <2>2
<1> HIDE DEF gr, known, news, base
<1>8. /\ p \in WorkId /\ IsParent(p) /\ p = <<"parent", post, 0>> /\ p[2] = post
      /\ gr.ep \in Nat /\ Reply(g, gr) \in Work /\ gr.parent.ts \in Nat
  BY <1>6, ParentIdFacts, GroupWork
<1>9. IsOpen(gr) /\ post < fresh + 2 /\ fresh + 2 \in Nat
  BY <1>2, <1>7 DEF IsOpen
<1>10. p \in DOMAIN outbox.work /\ outbox.work[p].kind = "post" => gr.parent.ts = 0
  BY <1>2, <1>7, <1>8, <1>9 DEF CardIn, ParentId
<1>11. Fit(outbox, fresh + 2)
  BY <1>2, <1>9, FitLater
<1>12. /\ Fit(ob1, fresh + 2) /\ Kept(outbox, ob1, {p})
       /\ CardIn(ob1, g, gr) /\ p \in DOMAIN ob1.work
       /\ ob1.work[p].kind = IF gr.parent.ts = 0 THEN "post" ELSE "update"
       /\ OutboxOK(ob1)
  BY <1>2, <1>6, <1>9, <1>10, <1>11, PutParentFit, PutParentOK
<1> HIDE DEF ob1, p
<1>13. Posting(ob1, gr)
  BY <1>6, <1>12, CardKept, KeptReflexive
<1>14. /\ Fit(placed.ob, fresh + 2) /\ Kept(ob1, placed.ob, {})
       /\ placed.gr.parent = gr.parent
       /\ placed.gr.list.post \in {gr.list.post, 0, fresh + 1}
       /\ placed.gr \in GroupRecord /\ OutboxOK(placed.ob)
  BY <1>2, <1>6, <1>9, <1>12, <1>13, PlaceListFit, PlaceListOK
<1> HIDE DEF placed
<1>15. Posting(placed.ob, gr)
  BY <1>6, <1>12, <1>14, CardKept
<1>16. Fit(queued, fresh + 2) /\ Kept(placed.ob, queued, {}) /\ OutboxOK(queued)
  BY <1>5, <1>6, <1>8, <1>9, <1>14, <1>15, PutNewMembersFit, PutNewMembersOK
<1> HIDE DEF queued
<1>17. Kept(ob1, queued, {})
  BY <1>14, <1>16, KeptTransitive
<1>18. CardIn(queued, g, placed.gr) /\ IsOpen(placed.gr) /\ ParentId(placed.gr) = p
  BY <1>6, <1>9, <1>12, <1>14, <1>17, CardKept DEF p
<1>19. /\ p \in DOMAIN queued.work
       /\ queued.work[p].kind = IF gr.parent.ts = 0 THEN "post" ELSE "update"
  BY <1>8, <1>12, <1>17 DEF Kept
<1>20. /\ Fit(outbox', fresh') /\ Kept(queued, outbox', {p})
       /\ p \in DOMAIN outbox'.work => outbox'.work[p].kind = queued.work[p].kind
  <2>1. CASE closes
    BY <1>1, <1>9, <1>14, <1>16, <1>18, <2>1, CloseEpisodeFit
  <2>2. CASE ~closes
    BY <1>1, <1>16, <2>2, KeptReflexive
  <2> QED BY <2>1, <2>2
<1>21. Kept(outbox, outbox', {p})
  <2>1. Kept(outbox, queued, {p})
    BY <1>12, <1>17, KeptTransitive
  <2> QED BY <1>20, <2>1, KeptTransitive
<1>22. group'[g] = IF closes THEN CloseGroup(placed.gr) ELSE placed.gr
  BY <1>1, PostFacts
<1>23. /\ CardIn(outbox', g, group'[g])
       /\ group'[g].parent.post \in {0, post}
       /\ group'[g].list.post \in {0, old.list.post, fresh + 1}
  <2>1. CASE closes
    <3>1. group'[g].parent.post = 0 /\ group'[g].list.post = 0
      BY <1>14, <1>22, <2>1 DEF CloseGroup, GroupRecord, NoObject
    <3> QED BY <3>1 DEF CardIn, IsOpen
  <2>2. CASE ~closes
    BY <1>1, <1>7, <1>14, <1>18, <1>22, <2>2
  <2> QED BY <2>1, <2>2
<1>24. ASSUME post # fresh, p \in DOMAIN outbox'.work, outbox'.work[p].kind # "update"
       PROVE  p \in DOMAIN outbox.work /\ outbox.work[p].kind # "update"
  <2>1. gr.parent.ts = 0
    BY <1>19, <1>20, <1>24
  <2>2. IsOpen(old) /\ post = old.parent.post /\ old.parent.ts = 0
    BY <1>7, <1>24, <2>1
  <2>3. ParentId(old) = p
    BY <2>2, <1>8 DEF ParentId
  <2> QED BY <1>2, <2>2, <2>3 DEF CardIn
<1>25. \A h \in Group \ {g} : group'[h] = group[h]
  BY <1>1, PostFacts
<1>26. post \in {old.parent.post, fresh} /\ fresh' > fresh /\ fresh' >= fresh
       /\ fresh' > fresh + 1
  BY <1>1, <1>2, <1>7
<1> HIDE DEF post
<1> QED BY <1>1, <1>7, <1>8, <1>20, <1>21, <1>23, <1>24, <1>25, <1>26, WriterStep

LEMMA AckCards ==
  ASSUME TypeOK, TypeOK', Cards, NEW g \in Group, Ack(g)
  PROVE  Cards'
<1> DEFINE old == group[g]
           gr  == [old EXCEPT !.ack = TRUE, !.parent.rev = @ + 1]
           p   == ParentId(gr)
<1>1. /\ IsOpen(old) /\ group' = [group EXCEPT ![g] = gr]
      /\ outbox' = PutParent(outbox, g, gr) /\ fresh' = fresh /\ worker' = worker
  BY DEF Ack
<1>2. fresh \in Nat /\ old \in GroupRecord /\ OutboxOK(outbox)
      /\ Fit(outbox, fresh) /\ CardIn(outbox, g, old) /\ old.parent.post \in Nat
      /\ old.parent.post < fresh
  BY PostFacts DEF Cards, Drawn
<1>3. /\ gr \in GroupRecord /\ gr.parent.post = old.parent.post
      /\ gr.parent.ts = old.parent.ts /\ gr.list = old.list
  <2> DEFINE parent == [old.parent EXCEPT !.rev = @ + 1]
  <2>1. parent \in SlackObject /\ parent.post = old.parent.post /\ parent.ts = old.parent.ts
    BY <1>2 DEF GroupRecord, SlackObject
  <2>2. gr = [old EXCEPT !.ack = TRUE, !.parent = parent]
    BY <1>2 DEF GroupRecord
  <2> HIDE DEF parent, gr
  <2> QED BY <1>2, <2>1, <2>2 DEF GroupRecord
<1> HIDE DEF gr
<1>4. p = ParentId(old) /\ p = <<"parent", old.parent.post, 0>> /\ IsOpen(gr)
  BY <1>1, <1>3 DEF ParentId, IsOpen
<1>5. p \in DOMAIN outbox.work /\ outbox.work[p].kind = "post" => gr.parent.ts = 0
  BY <1>1, <1>2, <1>3, <1>4 DEF CardIn
<1>6. /\ Fit(outbox', fresh) /\ Kept(outbox, outbox', {p}) /\ CardIn(outbox', g, gr)
      /\ outbox'.work[p].kind = IF gr.parent.ts = 0 THEN "post" ELSE "update"
  BY <1>1, <1>2, <1>3, <1>4, <1>5, PutParentFit
<1> HIDE DEF p
<1>7. ASSUME outbox'.work[p].kind # "update"
      PROVE  p \in DOMAIN outbox.work /\ outbox.work[p].kind # "update"
  BY <1>1, <1>2, <1>3, <1>4, <1>6, <1>7 DEF CardIn
<1>8. group'[g] = gr /\ \A h \in Group \ {g} : group'[h] = group[h]
  BY <1>1, PostFacts
<1>9. group'[g].parent.post = old.parent.post /\ group'[g].list.post = old.list.post
      /\ old.list.post < fresh /\ old.list.post \in Nat
  BY <1>3, <1>8, PostFacts DEF Cards, Drawn
<1>10. /\ Kept(outbox, outbox', {<<"parent", old.parent.post, 0>>})
       /\ outbox'.work[<<"parent", old.parent.post, 0>>].kind # "update"
            => /\ <<"parent", old.parent.post, 0>> \in DOMAIN outbox.work
               /\ outbox.work[<<"parent", old.parent.post, 0>>].kind # "update"
  BY <1>4, <1>6, <1>7
<1>11. fresh' >= fresh /\ old.parent.post # fresh /\ group'[g].list.post # fresh + 1
       /\ Fit(outbox', fresh') /\ CardIn(outbox', g, group'[g])
  BY <1>1, <1>2, <1>6, <1>8, <1>9
<1>12. /\ old.parent.post \in Nat /\ old.parent.post \in {group[g].parent.post, fresh}
       /\ group'[g].parent.post \in {0, old.parent.post}
       /\ group'[g].list.post \in {0, group[g].list.post, fresh + 1}
       /\ worker' = worker /\ \A h \in Group \ {g} : group'[h] = group[h]
  BY <1>1, <1>2, <1>8, <1>9
<1> QED BY <1>10, <1>11, <1>12, WriterStep

LEMMA CloseCards ==
  ASSUME TypeOK, TypeOK', Cards, NEW g \in Group, CloseWithReply(g)
  PROVE  Cards'
<1> DEFINE old == group[g]
           p   == ParentId(old)
<1>1. /\ IsOpen(old) /\ group' = [group EXCEPT ![g] = CloseGroup(old)]
      /\ outbox' = CloseEpisode(outbox, g, old, TRUE) /\ fresh' = fresh /\ worker' = worker
  BY DEF CloseWithReply
<1>2. fresh \in Nat /\ old \in GroupRecord /\ OutboxOK(outbox)
      /\ Fit(outbox, fresh) /\ CardIn(outbox, g, old) /\ old.parent.post \in Nat
      /\ old.parent.post < fresh
  BY PostFacts DEF Cards, Drawn
<1>3. p = <<"parent", old.parent.post, 0>>
  BY DEF ParentId
<1>4. /\ Fit(outbox', fresh) /\ Kept(outbox, outbox', {p})
      /\ p \in DOMAIN outbox'.work =>
           p \in DOMAIN outbox.work /\ outbox'.work[p].kind = outbox.work[p].kind
  BY <1>1, <1>2, CloseEpisodeFit
<1> HIDE DEF p
<1>5. group'[g] = CloseGroup(old) /\ \A h \in Group \ {g} : group'[h] = group[h]
  BY <1>1, PostFacts
<1>6. group'[g].parent.post = 0 /\ group'[g].list.post = 0
  BY <1>2, <1>5 DEF CloseGroup, GroupRecord, NoObject
<1>7. CardIn(outbox', g, group'[g])
  BY <1>6 DEF CardIn, IsOpen
<1>8. /\ Kept(outbox, outbox', {<<"parent", old.parent.post, 0>>})
      /\ <<"parent", old.parent.post, 0>> \in DOMAIN outbox'.work
           => /\ <<"parent", old.parent.post, 0>> \in DOMAIN outbox.work
              /\ outbox'.work[<<"parent", old.parent.post, 0>>].kind
                   = outbox.work[<<"parent", old.parent.post, 0>>].kind
  BY <1>3, <1>4
<1>9. fresh' >= fresh /\ old.parent.post # fresh /\ group'[g].list.post # fresh + 1
      /\ Fit(outbox', fresh')
  <2>1. Fit(outbox', fresh')
    BY <1>1, <1>4
  <2>2. fresh' >= fresh /\ old.parent.post # fresh
    BY <1>1, <1>2
  <2>3. group'[g].list.post # fresh + 1
    BY <1>2, <1>6
  <2> QED BY <2>1, <2>2, <2>3
<1>10. /\ old.parent.post \in Nat /\ old.parent.post \in {group[g].parent.post, fresh}
       /\ group'[g].parent.post \in {0, old.parent.post}
       /\ group'[g].list.post \in {0, group[g].list.post, fresh + 1}
       /\ worker' = worker /\ \A h \in Group \ {g} : group'[h] = group[h]
  BY <1>1, <1>2, <1>5, <1>6
<1> QED BY <1>7, <1>8, <1>9, <1>10, WriterStep

LEMMA EscalateCards ==
  ASSUME TypeOK, TypeOK', Cards, NEW g \in Group, Escalate(g)
  PROVE  Cards'
<1> DEFINE old == group[g]
           gr  == [old EXCEPT !.escalated = TRUE]
           id  == <<"escalation", old.ep, 0>>
           id2 == <<"escalationReaction", old.ep, 0>>
           w   == Reply(g, old)
           w2  == NewWork(g, "reaction", "reaction", 0, old.parent.ts, 0,
                          DependencyForParent(old.parent), "reaction", old.ep)
           mid == Put(outbox, id, w)
           p   == ParentId(old)
<1>1. /\ IsOpen(old) /\ group' = [group EXCEPT ![g].escalated = TRUE]
      /\ outbox' = Put(mid, id2, w2) /\ fresh' = fresh /\ worker' = worker
  BY DEF Escalate
<1>2. fresh \in Nat /\ old \in GroupRecord /\ OutboxOK(outbox)
      /\ Fit(outbox, fresh) /\ CardIn(outbox, g, old) /\ old.parent.post \in Nat
      /\ old.parent.post < fresh /\ old.list.post < fresh
  BY PostFacts DEF Cards, Drawn
<1>3. /\ id \in WorkId /\ ~IsParent(id) /\ id2 \in WorkId /\ ~IsParent(id2)
      /\ old.ep \in Nat /\ old.parent.ts \in Nat /\ DependencyForParent(old.parent) \in Nat
      /\ p = <<"parent", old.parent.post, 0>> /\ p \in WorkId /\ IsParent(p)
  <2>1. old.ep \in Nat /\ old.parent.ts \in Nat /\ DependencyForParent(old.parent) \in Nat
    BY <1>2, ParentIdFacts, GroupWork
  <2> QED BY <1>2, <2>1, ParentIdFacts DEF WorkId, WorkName, IsParent
<1>4. w \in Work /\ w.kind = "post" /\ w.dep = DependencyForParent(old.parent)
  BY <1>2, GroupWork, NewWorkFacts DEF Reply
<1>5. w2 \in Work /\ w2.kind = "reaction" /\ w2.dep = DependencyForParent(old.parent)
  <2>1. "reaction" \in Object /\ "reaction" \in Text /\ 0 \in Nat
    BY DEF Object, Text
  <2>2. w2 \in Work
    BY <1>3, <2>1, NewWorkType
  <2> QED BY <2>2, NewWorkFacts
<1>6. Posting(outbox, old)
  BY <1>2, CardKept, KeptReflexive
<1> HIDE DEF w, w2, id, id2, p
<1>7. Fit(mid, fresh) /\ Kept(outbox, mid, {}) /\ OutboxOK(mid)
  BY <1>2, <1>3, <1>4, <1>6, PutOther, PutOK
<1> HIDE DEF mid
<1>8. Posting(mid, old)
  BY <1>2, <1>7, CardKept
<1>9. Fit(outbox', fresh) /\ Kept(mid, outbox', {})
  BY <1>1, <1>2, <1>3, <1>5, <1>7, <1>8, PutOther
<1>10. Kept(outbox, outbox', {}) /\ Kept(outbox, outbox', {p})
  <2>1. Kept(outbox, outbox', {})
    BY <1>7, <1>9, KeptTransitive
  <2> QED BY <2>1, KeptReflexive, KeptTransitive
<1>11. group'[g] = gr /\ \A h \in Group \ {g} : group'[h] = group[h]
  BY <1>1, PostFacts
<1>12. group'[g].parent = old.parent /\ group'[g].list = old.list
  BY <1>2, <1>11 DEF GroupRecord
<1>13. CardIn(outbox', g, group'[g])
  BY <1>2, <1>10, <1>12, CardKept
<1>14. p \in DOMAIN outbox'.work =>
         p \in DOMAIN outbox.work /\ outbox'.work[p] = outbox.work[p]
  BY <1>3, <1>10 DEF Kept
<1>15. /\ Kept(outbox, outbox', {<<"parent", old.parent.post, 0>>})
       /\ <<"parent", old.parent.post, 0>> \in DOMAIN outbox'.work
            => /\ <<"parent", old.parent.post, 0>> \in DOMAIN outbox.work
               /\ outbox'.work[<<"parent", old.parent.post, 0>>].kind
                    = outbox.work[<<"parent", old.parent.post, 0>>].kind
  BY <1>3, <1>10, <1>14
<1>16. old.list.post \in Nat
  BY PostFacts
<1>17. fresh' >= fresh /\ old.parent.post # fresh /\ group'[g].list.post # fresh + 1
      /\ Fit(outbox', fresh')
  BY <1>1, <1>2, <1>9, <1>12, <1>16
<1>18. /\ old.parent.post \in Nat /\ old.parent.post \in {group[g].parent.post, fresh}
       /\ group'[g].parent.post \in {0, old.parent.post}
       /\ group'[g].list.post \in {0, group[g].list.post, fresh + 1}
       /\ worker' = worker /\ \A h \in Group \ {g} : group'[h] = group[h]
  BY <1>1, <1>2, <1>11, <1>12
<1> HIDE DEF gr
<1> QED BY <1>13, <1>15, <1>17, <1>18, WriterStep

LEMMA ForgetCards ==
  ASSUME TypeOK, TypeOK', Cards, NEW g \in Group, Forget(g)
  PROVE  Cards'
<1> DEFINE old == group[g]
<1>1. /\ ~IsOpen(old) /\ group' = [group EXCEPT ![g] = Absent]
      /\ outbox' = outbox /\ fresh' = fresh /\ worker' = worker
  BY DEF Forget
<1>2. fresh \in Nat /\ Fit(outbox, fresh) /\ old.parent.post = 0 /\ fresh > 0
  BY <1>1, PostFacts DEF Cards, Drawn, IsOpen
<1>3. group'[g] = Absent /\ \A h \in Group \ {g} : group'[h] = group[h]
  BY <1>1, PostFacts
<1>4. group'[g].parent.post = 0 /\ group'[g].list.post = 0
  BY <1>3 DEF Absent, NoObject
<1>5. CardIn(outbox', g, group'[g])
  BY <1>4 DEF CardIn, IsOpen
<1>6. Kept(outbox, outbox', {<<"parent", 0, 0>>})
  BY <1>1 DEF Kept
<1>7. <<"parent", 0, 0>> \notin DOMAIN outbox'.work
  <2>1. PICK i : i = <<"parent", 0, 0>>
    OBVIOUS
  <2>2. IsParent(i) /\ ~(0 < i[2])
    BY <2>1 DEF IsParent
  <2>3. i \notin DOMAIN outbox.work
    BY <1>2, <2>2 DEF Fit, FitAt
  <2> QED BY <1>1, <2>1, <2>3
<1>8. fresh' >= fresh /\ 0 # fresh /\ group'[g].list.post # fresh + 1
      /\ Fit(outbox', fresh') /\ 0 \in {group[g].parent.post, fresh}
  BY <1>1, <1>2, <1>4
<1> QED BY <1>1, <1>3, <1>4, <1>5, <1>6, <1>7, <1>8, WriterStep

LEMMA WritersCards ==
  ASSUME TypeOK, TypeOK', Cards, NEW g \in Group, Writers(g)
  PROVE  Cards'
BY NotifyCards, AckCards, CloseCards, EscalateCards, ForgetCards DEF Writers

-----------------------------------------------------------------------------
(* The worker.                                                               *)

\* What a step that changes only phases leaves.
Alike(ob, new) ==
  /\ DOMAIN new.work = DOMAIN ob.work
  /\ \A i \in DOMAIN ob.work :
       LET w == ob.work[i]
           v == new.work[i]
       IN  /\ v.kind = w.kind /\ v.ts = w.ts /\ v.dep = w.dep /\ v.thread = w.thread
           /\ v.rev = w.rev /\ v.group = w.group

LEMMA AlikeCards ==
  ASSUME TypeOK, Cards, Alike(outbox, outbox'), group' = group, fresh' = fresh, HeldOf'
  PROVE  Cards'
<1>1. /\ DOMAIN outbox'.work = DOMAIN outbox.work
      /\ \A i \in DOMAIN outbox.work :
           /\ outbox'.work[i].kind = outbox.work[i].kind
           /\ outbox'.work[i].ts = outbox.work[i].ts
           /\ outbox'.work[i].dep = outbox.work[i].dep
           /\ outbox'.work[i].thread = outbox.work[i].thread
           /\ outbox'.work[i].rev = outbox.work[i].rev
           /\ outbox'.work[i].group = outbox.work[i].group
  BY DEF Alike
<1>2. ASSUME NEW i \in DOMAIN outbox'.work PROVE FitAt(outbox', fresh, i)
  <2>1. FitAt(outbox, fresh, i)
    BY <1>1 DEF Cards, Fit
  <2> QED BY <1>1, <2>1 DEF FitAt
<1>3. ASSUME NEW g \in Group PROVE CardIn(outbox', g, group[g])
  <2>1. CardIn(outbox, g, group[g])
    BY DEF Cards
  <2> QED BY <1>1, <2>1 DEF CardIn
<1>4. Drawn'
  BY <1>1 DEF Cards, Drawn
<1> QED BY <1>2, <1>3, <1>4 DEF Cards, Fit

LEMMA IdleHeld ==
  ASSUME worker' = Idle
  PROVE  HeldOf'
BY DEF Idle, HeldOf

\* One entry changes its phase.
LEMMA PhaseAlike ==
  ASSUME NEW ob, OutboxOK(ob), NEW id \in DOMAIN ob.work, NEW phase
  PROVE  Alike(ob, [ob EXCEPT !.work[id].phase = phase])
<1> DEFINE e == [ob.work[id] EXCEPT !.phase = phase]
           f == [ob.work EXCEPT ![id] = e]
           new == [ob EXCEPT !.work[id].phase = phase]
<1>1. new.work = f
  BY DEF OutboxOK
<1>2. /\ e.kind = ob.work[id].kind /\ e.ts = ob.work[id].ts /\ e.dep = ob.work[id].dep
      /\ e.thread = ob.work[id].thread /\ e.rev = ob.work[id].rev
      /\ e.group = ob.work[id].group
  BY DEF OutboxOK, Work
<1> HIDE DEF e
<1>3. DOMAIN f = DOMAIN ob.work /\ \A i \in DOMAIN f : f[i] = IF i = id THEN e ELSE ob.work[i]
  OBVIOUS
<1> HIDE DEF f, new
<1>4. Alike(ob, new)
  BY <1>1, <1>2, <1>3 DEF Alike
<1> QED BY <1>4 DEF new

LEMMA PickCards ==
  ASSUME TypeOK, Cards, NEW cooling, Pick(cooling)
  PROVE  Cards'
<1>1. PICK i \in Candidates(cooling) :
        worker' = [pc |-> "picked", id |-> i, work |-> outbox.work[i],
                   content |-> Rendered(outbox.work[i])]
  BY DEF Pick
<1>2. i \in DOMAIN outbox.work
  BY DEF Candidates
<1>3. FitAt(outbox, fresh, i) /\ outbox.work[i].kind \in {"post", "update", "reaction"}
  BY <1>2 DEF Cards, Fit, TypeOK, OutboxOK, Work
<1>4. /\ worker'.pc = "picked" /\ worker'.id = i /\ worker'.work = outbox.work[i]
  BY <1>1
<1>5. outbox' = outbox /\ group' = group /\ fresh' = fresh
  BY DEF Pick
<1>6. HeldOf'
  BY <1>3, <1>4, <1>5 DEF HeldOf, FitAt
<1>7. Alike(outbox, outbox')
  BY <1>5 DEF Alike
<1> QED BY <1>5, <1>6, <1>7, AlikeCards

LEMMA SendCards ==
  ASSUME TypeOK, Cards, NEW answer, Send(answer)
  PROVE  Cards'
<1> DEFINE id == worker.id
           e == [outbox.work[id] EXCEPT !.phase = "inFlight", !.tried = TRUE]
           f == [outbox.work EXCEPT ![id] = e]
<1>1. /\ worker.pc = "picked" /\ id \in DOMAIN outbox.work
      /\ outbox' = [outbox EXCEPT !.work[id].phase = "inFlight", !.work[id].tried = TRUE]
      /\ worker' = [pc |-> "sent", id |-> id, work |-> worker.work, answer |-> answer,
                    ts |-> Len(slack) + 1]
      /\ group' = group /\ fresh' = fresh
  BY DEF Send
<1>2. /\ worker'.pc = "sent" /\ worker'.id = id /\ worker'.work = worker.work
      /\ worker'.ts = Len(slack) + 1
  BY <1>1
<1>3. OutboxOK(outbox) /\ outbox.work[id] \in Work /\ Len(slack) \in Nat
  BY <1>1 DEF TypeOK, OutboxOK
<1>4. outbox'.work = f
  BY <1>1, <1>3 DEF OutboxOK
<1>5. /\ e.kind = outbox.work[id].kind /\ e.ts = outbox.work[id].ts
      /\ e.dep = outbox.work[id].dep /\ e.thread = outbox.work[id].thread
      /\ e.rev = outbox.work[id].rev /\ e.group = outbox.work[id].group
  BY <1>3 DEF Work
<1> HIDE DEF e
<1>6. /\ DOMAIN f = DOMAIN outbox.work
      /\ \A i \in DOMAIN f : f[i] = IF i = id THEN e ELSE outbox.work[i]
  BY <1>1
<1> HIDE DEF f
<1>7. Alike(outbox, outbox')
  BY <1>4, <1>5, <1>6 DEF Alike
<1>8. outbox'.work[id].kind = outbox.work[id].kind /\ DOMAIN outbox'.work = DOMAIN outbox.work
  BY <1>1, <1>7 DEF Alike
<1>9. HeldOf'
  BY <1>1, <1>2, <1>3, <1>8 DEF Cards, HeldOf
<1> QED BY <1>1, <1>7, <1>9, AlikeCards

LEMMA RestartCards ==
  ASSUME TypeOK, Cards, Restart
  PROVE  Cards'
<1> DEFINE f == [i \in DOMAIN outbox.work |->
                   IF outbox.work[i].phase = "inFlight"
                   THEN [outbox.work[i] EXCEPT !.phase = "pending"] ELSE outbox.work[i]]
<1>1. /\ outbox' = [outbox EXCEPT !.work = f] /\ worker' = Idle
      /\ group' = group /\ fresh' = fresh
  BY DEF Restart
<1>2. OutboxOK(outbox)
  BY DEF TypeOK
<1>3. outbox'.work = f
  BY <1>1, <1>2 DEF OutboxOK
<1>4. ASSUME NEW i \in DOMAIN outbox.work
      PROVE  /\ f[i].kind = outbox.work[i].kind /\ f[i].ts = outbox.work[i].ts
             /\ f[i].dep = outbox.work[i].dep /\ f[i].thread = outbox.work[i].thread
             /\ f[i].rev = outbox.work[i].rev /\ f[i].group = outbox.work[i].group
  BY <1>2 DEF OutboxOK, Work
<1>5. DOMAIN f = DOMAIN outbox.work
  OBVIOUS
<1> HIDE DEF f
<1>6. Alike(outbox, outbox')
  BY <1>3, <1>4, <1>5 DEF Alike
<1> QED BY <1>1, <1>6, IdleHeld, AlikeCards

-----------------------------------------------------------------------------
(* A commit removes, completes or replaces the entry that the worker holds.  *)

\* A commit draws at most one identifier, for a card or for a list.
LEMMA DrawnStep ==
  ASSUME TypeOK, TypeOK', Cards, NEW g \in Group, fresh' >= fresh,
         group'[g].parent.post \in {group[g].parent.post, fresh},
         group'[g].list.post \in {0, group[g].list.post, fresh},
         fresh \in {group'[g].parent.post, group'[g].list.post} => fresh' > fresh,
         group'[g].parent.post = fresh => group'[g].list.post # fresh,
         \A h \in Group \ {g} : /\ group'[h].parent.post = group[h].parent.post
                                /\ group'[h].list.post \in {0, group[h].list.post},
         \A i \in DOMAIN outbox'.work : IsParent(i) =>
           \/ i \in DOMAIN outbox.work
           \/ i[2] = fresh /\ group'[g].list.post # fresh
  PROVE  Drawn'
<1>1. /\ fresh \in Nat /\ fresh' \in Nat
      /\ \A h \in Group : group[h].parent.post \in Nat /\ group[h].list.post \in Nat
      /\ \A i \in DOMAIN outbox.work : i[2] \in Nat
  BY PostFacts DEF TypeOK
<1>2. /\ fresh > 0
      /\ \A h \in Group : group[h].parent.post < fresh /\ group[h].list.post < fresh
      /\ \A h, k \in Group : group[h].parent.post # 0 =>
           /\ group[h].parent.post # group[k].list.post
           /\ group[h].parent.post = group[k].parent.post => h = k
      /\ \A i \in DOMAIN outbox.work, h \in Group : IsParent(i) => i[2] # group[h].list.post
  BY DEF Cards, Drawn
<1>3. ASSUME NEW h \in Group
      PROVE  /\ h # g => /\ group'[h].parent.post = group[h].parent.post
                         /\ group'[h].list.post \in {0, group[h].list.post}
             /\ h = g => /\ group'[h].parent.post \in {group[h].parent.post, fresh}
                         /\ group'[h].list.post \in {0, group[h].list.post, fresh}
  OBVIOUS
<1>4. ASSUME NEW h \in Group
      PROVE  group'[h].parent.post < fresh' /\ group'[h].list.post < fresh'
  BY <1>1, <1>2, <1>3
<1>5. ASSUME NEW h \in Group, NEW k \in Group, group'[h].parent.post # 0
      PROVE  /\ group'[h].parent.post # group'[k].list.post
             /\ group'[h].parent.post = group'[k].parent.post => h = k
  <2>1. /\ group[h].parent.post < fresh /\ group[k].parent.post < fresh
        /\ group[k].list.post < fresh
    BY <1>2
  <2>2. CASE group'[h].parent.post = fresh
    <3>1. h = g
      BY <1>1, <1>3, <2>1, <2>2
    <3> QED BY <1>1, <1>2, <1>3, <2>1, <2>2, <3>1
  <2>3. CASE group'[h].parent.post # fresh
    <3>1. group'[h].parent.post = group[h].parent.post
      BY <1>3, <2>3
    <3>2. /\ group[h].parent.post # group[k].list.post
          /\ group[h].parent.post = group[k].parent.post => h = k
      BY <1>2, <1>5, <3>1
    <3> QED BY <1>1, <1>3, <1>5, <2>1, <2>3, <3>1, <3>2
  <2> QED BY <2>2, <2>3
<1>6. ASSUME NEW i \in DOMAIN outbox'.work, NEW h \in Group, IsParent(i)
      PROVE  i[2] # group'[h].list.post
  <2>1. group[h].list.post \in Nat /\ group[h].list.post < fresh
    BY <1>1, <1>2
  <2>2. CASE i \in DOMAIN outbox.work
    <3>1. 0 < i[2] /\ i[2] < fresh /\ i[2] \in Nat /\ i[2] # group[h].list.post
      BY <1>1, <1>2, <1>6, <2>2 DEF Cards, Fit, FitAt
    <3> QED BY <1>1, <1>3, <2>1, <3>1
  <2>3. CASE i[2] = fresh /\ group'[g].list.post # fresh
    BY <1>1, <1>2, <1>3, <2>1, <2>3
  <2> QED BY <1>6, <2>2, <2>3
<1>7. fresh' > 0
  BY <1>1, <1>2
<1> QED BY <1>4, <1>5, <1>6, <1>7 DEF Drawn

\* A group whose card is not pending loses nothing with the entry of its card.
LEMMA CardGone ==
  ASSUME NEW ob, NEW new, NEW g, NEW gr \in GroupRecord, NEW gr2, gr2.parent = gr.parent,
         CardIn(ob, g, gr),
         ParentId(gr) \in DOMAIN new.work =>
           /\ ParentId(gr) \in DOMAIN ob.work
           /\ new.work[ParentId(gr)] = ob.work[ParentId(gr)],
         ParentId(gr) \in DOMAIN ob.work /\ ParentId(gr) \notin DOMAIN new.work =>
           ob.work[ParentId(gr)].kind = "update"
  PROVE  CardIn(new, g, gr2)
<1>1. ParentId(gr2) = ParentId(gr) /\ (IsOpen(gr2) <=> IsOpen(gr))
  BY DEF ParentId, IsOpen
<1> QED BY <1>1 DEF CardIn

\* The entry of an update or a reaction goes.
LEMMA DropCards ==
  ASSUME TypeOK, TypeOK', Cards, worker.pc # "idle", worker.id \in DOMAIN outbox.work,
         worker.work.kind # "post", outbox' = Drop(outbox, {worker.id}), worker' = Idle,
         fresh' = fresh,
         \A h \in Group : /\ group'[h].parent = group[h].parent
                          /\ group'[h].list.post \in {0, group[h].list.post}
  PROVE  Cards'
<1> DEFINE id == worker.id
<1>1. /\ fresh \in Nat /\ OutboxOK(outbox)
      /\ \A h \in Group : /\ group[h] \in GroupRecord
                          /\ IsParent(ParentId(group[h]))
                          /\ group[h].parent.post < fresh
                          /\ group[h].list.post < fresh
                          /\ group[h].parent.post \in Nat
                          /\ group[h].list.post \in Nat
  BY PostFacts DEF Cards, Drawn
<1>2. IsParent(id) => outbox.work[id].kind = "update"
  BY DEF Cards, HeldOf
<1>3. Fit(outbox', fresh')
  <2>1. \A i \in {id} : IsParent(i) /\ i \in DOMAIN outbox.work => outbox.work[i].kind # "post"
    BY <1>2
  <2> QED BY <1>1, <2>1, DropFit DEF Cards
<1>4. /\ DOMAIN outbox'.work = DOMAIN outbox.work \ {id}
      /\ \A i \in DOMAIN outbox'.work : outbox'.work[i] = outbox.work[i]
  BY <1>1 DEF Drop, OutboxOK
<1>5. ASSUME NEW h \in Group PROVE CardIn(outbox', h, group'[h])
  <2>1. /\ CardIn(outbox, h, group[h]) /\ group[h] \in GroupRecord
        /\ group'[h].parent = group[h].parent
    BY <1>1 DEF Cards
  <2>2. ParentId(group[h]) = id => outbox.work[id].kind = "update"
    BY <1>1, <1>2
  <2>3. /\ ParentId(group[h]) \in DOMAIN outbox'.work =>
             /\ ParentId(group[h]) \in DOMAIN outbox.work
             /\ outbox'.work[ParentId(group[h])] = outbox.work[ParentId(group[h])]
        /\ ParentId(group[h]) \in DOMAIN outbox.work
           /\ ParentId(group[h]) \notin DOMAIN outbox'.work =>
             outbox.work[ParentId(group[h])].kind = "update"
    BY <1>4, <2>2
  <2> QED BY <2>1, <2>3, CardGone
<1>6. Drawn'
  <2>1. outbox.work[id].group \in Group
    BY <1>1 DEF OutboxOK, Work
  <2>2. PICK g \in Group : TRUE
    BY <2>1
  <2>3. \A h \in Group : /\ group'[h].parent.post = group[h].parent.post
                         /\ group'[h].parent.post # fresh /\ group'[h].list.post # fresh
    <3> SUFFICES ASSUME NEW h \in Group
                 PROVE  /\ group'[h].parent.post = group[h].parent.post
                        /\ group'[h].parent.post # fresh /\ group'[h].list.post # fresh
      OBVIOUS
    <3>1. fresh > 0
      BY DEF Cards, Drawn
    <3> QED BY <1>1, <3>1
  <2>4. \A i \in DOMAIN outbox'.work : i \in DOMAIN outbox.work
    BY <1>4
  <2>5. fresh' >= fresh
    BY <1>1
  <2> QED BY <2>3, <2>4, <2>5, DrawnStep
<1> QED BY <1>3, <1>5, <1>6, IdleHeld DEF Cards

\* Who waited for the message of the worker's entry waits no more; who does not wait is
\* left alone.
LEMMA ResolvedEntries ==
  ASSUME OutboxOK(outbox), NEW ts, NEW i \in DOMAIN outbox.work
  PROVE  LET w == outbox.work[i]
             v == Resolved(outbox, ts).work[i]
         IN  /\ v.kind = w.kind /\ v.rev = w.rev /\ v.group = w.group
             /\ w.kind # "reaction" => v.ts = w.ts
             /\ w.dep = 0 => v = w
             /\ v.dep # 0 => v.dep = w.dep /\ worker.id # <<"parent", w.dep, 0>>
<1>1. outbox.work[i] \in Work
  BY DEF OutboxOK
<1>2. Resolved(outbox, ts).work[i] = Resolve(outbox.work[i], ts)
  BY DEF Resolved, OutboxOK
<1> QED BY <1>1, <1>2 DEF Resolve, Work

\* A group learns the timestamp of its card when the entry was that of its card.
LEMMA RecordPostFacts ==
  ASSUME NEW gr \in GroupRecord, NEW ts
  PROVE  LET new == RecordPost(gr, ts)
         IN  /\ new.parent.post = gr.parent.post /\ new.parent.rev = gr.parent.rev
             /\ new.list.post = gr.list.post
             /\ IsOpen(gr) /\ ParentId(gr) = worker.id => new.parent.ts = ts
             /\ ~(IsOpen(gr) /\ ParentId(gr) = worker.id) => new.parent.ts = gr.parent.ts
<1> DEFINE pts == IF gr.parent.post # 0 /\ ParentId(gr) = worker.id THEN ts ELSE gr.parent.ts
           lts == IF gr.list.post # 0 /\ ListId(gr) = worker.id THEN ts ELSE gr.list.ts
           parent == [gr.parent EXCEPT !.ts = pts]
           list == [gr.list EXCEPT !.ts = lts]
<1>1. gr.parent \in SlackObject /\ gr.list \in SlackObject
  BY DEF GroupRecord
<1>2. RecordPost(gr, ts) = [gr EXCEPT !.parent = parent, !.list = list]
  BY DEF RecordPost, GroupRecord
<1>3. /\ IsOpen(gr) /\ ParentId(gr) = worker.id => pts = ts
      /\ ~(IsOpen(gr) /\ ParentId(gr) = worker.id) => pts = gr.parent.ts
  BY DEF IsOpen
<1> HIDE DEF pts, lts
<1>4. /\ parent.ts = pts /\ parent.post = gr.parent.post /\ parent.rev = gr.parent.rev
      /\ list.post = gr.list.post
  BY <1>1 DEF SlackObject
<1> HIDE DEF parent, list
<1>5. RecordPost(gr, ts).parent = parent /\ RecordPost(gr, ts).list = list
  BY <1>2 DEF GroupRecord
<1> QED BY <1>3, <1>4, <1>5

LEMMA CompletePostCards ==
  ASSUME TypeOK, TypeOK', Cards, CompletePost
  PROVE  Cards'
<1> DEFINE id == worker.id
           ts == worker.ts
           g == Current.group
           r == Resolved(outbox, ts)
<1>1. /\ OutboxOK(outbox) /\ group \in [Group -> GroupRecord] /\ fresh \in Nat
      /\ id \in DOMAIN outbox.work /\ ts # 0 /\ worker' = Idle /\ fresh' = fresh
      /\ group' = [group EXCEPT ![g] = RecordPost(group[g], ts)]
  BY PostFacts DEF CompletePost, Cards, HeldOf
<1>2. g \in Group /\ g = outbox.work[id].group
  BY <1>1 DEF OutboxOK, Current, Work
<1>3. OutboxOK(r) /\ DOMAIN r.work = DOMAIN outbox.work
  <2>1. ts \in Nat
    BY WorkerFields DEF TypeOK, CompletePost
  <2> QED BY <1>1, <2>1, ResolvedOK
<1>4. ASSUME NEW i \in DOMAIN outbox.work
      PROVE  /\ r.work[i].kind = outbox.work[i].kind /\ r.work[i].rev = outbox.work[i].rev
             /\ r.work[i].group = outbox.work[i].group
             /\ outbox.work[i].kind # "reaction" => r.work[i].ts = outbox.work[i].ts
             /\ outbox.work[i].dep = 0 => r.work[i] = outbox.work[i]
             /\ r.work[i].dep # 0 => /\ r.work[i].dep = outbox.work[i].dep
                                     /\ id # <<"parent", outbox.work[i].dep, 0>>
  BY <1>1, ResolvedEntries
<1>5. \/ /\ DOMAIN outbox'.work = DOMAIN outbox.work
         /\ outbox'.work[id].kind = "update" /\ outbox'.work[id].ts = ts
         /\ outbox'.work[id].rev = r.work[id].rev /\ outbox'.work[id].dep = r.work[id].dep
         /\ outbox'.work[id].group = r.work[id].group
         /\ outbox'.work[id].thread = r.work[id].thread
         /\ \A i \in DOMAIN outbox.work \ {id} : outbox'.work[i] = r.work[i]
      \/ /\ DOMAIN outbox'.work = DOMAIN outbox.work \ {id}
         /\ \A i \in DOMAIN outbox.work \ {id} : outbox'.work[i] = r.work[i]
  <2>1. CASE Superseded
    <3> DEFINE e == [r.work[id] EXCEPT !.kind = "update", !.ts = ts, !.phase = "pending"]
    <3>1. r.work[id] \in Work
      BY <1>1, <1>3 DEF OutboxOK
    <3>2. /\ e.kind = "update" /\ e.ts = ts /\ e.rev = r.work[id].rev
          /\ e.dep = r.work[id].dep /\ e.group = r.work[id].group
          /\ e.thread = r.work[id].thread
      BY <3>1 DEF Work
    <3>3. outbox'.work = [r.work EXCEPT ![id] = e]
      BY <1>1, <1>3, <2>1 DEF CompletePost, OutboxOK
    <3> HIDE DEF e, r
    <3> QED BY <1>1, <1>3, <3>2, <3>3
  <2>2. CASE ~Superseded
    <3>1. outbox' = Drop(r, {id})
      BY <2>2 DEF CompletePost
    <3> HIDE DEF r
    <3> QED BY <1>3, <3>1 DEF Drop, OutboxOK
  <2> QED BY <2>1, <2>2
<1> HIDE DEF r
<1>6. /\ DOMAIN outbox'.work \subseteq DOMAIN outbox.work
      /\ \A i \in DOMAIN outbox.work \ {id} :
           i \in DOMAIN outbox'.work /\ outbox'.work[i] = r.work[i]
  BY <1>5
<1>7. ASSUME NEW i \in DOMAIN outbox'.work PROVE FitAt(outbox', fresh, i)
  <2> DEFINE d == <<"parent", outbox.work[i].dep, 0>>
  <2>1. FitAt(outbox, fresh, i) /\ i \in DOMAIN outbox.work
    BY <1>6 DEF Cards, Fit
  <2>2. ASSUME r.work[i].dep # 0
        PROVE  /\ r.work[i].dep = outbox.work[i].dep /\ outbox.work[i].dep # 0
               /\ d \in DOMAIN outbox'.work /\ outbox'.work[d].kind = "post"
    <3>1. r.work[i].dep = outbox.work[i].dep /\ d # id
      BY <1>4, <2>1, <2>2
    <3>2. d \in DOMAIN outbox.work /\ outbox.work[d].kind = "post"
      BY <2>1, <2>2, <3>1 DEF FitAt
    <3>3. r.work[d].kind = "post"
      BY <1>4, <3>2
    <3> QED BY <1>6, <2>2, <3>1, <3>2, <3>3
  <2>3. /\ outbox'.work[i].dep = r.work[i].dep
        /\ outbox'.work[i].thread = r.work[i].thread
        /\ outbox'.work[i].kind \in {"update", outbox.work[i].kind}
        /\ outbox'.work[i].kind = "update" => outbox'.work[i].ts # 0
    <3>1. CASE i = id
      BY <1>1, <1>5, <3>1
    <3>2. CASE i # id
      <4>1. outbox'.work[i] = r.work[i]
        BY <1>6, <2>1, <3>2
      <4>2. r.work[i].kind = outbox.work[i].kind
            /\ (outbox.work[i].kind = "update" => r.work[i].ts = outbox.work[i].ts)
        BY <1>4, <2>1
      <4> QED BY <2>1, <4>1, <4>2 DEF FitAt
    <3> QED BY <3>1, <3>2
  <2>4. IsParent(i) => /\ 0 < i[2] /\ i[2] < fresh /\ i[3] = 0
                       /\ r.work[i].dep = 0 /\ r.work[i].thread = 0
                       /\ outbox.work[i].kind # "reaction"
    BY <1>4, <2>1 DEF FitAt
  <2>5. outbox'.work[i].dep # 0 =>
          /\ <<"parent", outbox'.work[i].dep, 0>> \in DOMAIN outbox'.work
          /\ outbox'.work[<<"parent", outbox'.work[i].dep, 0>>].kind = "post"
    BY <2>2, <2>3
  <2> HIDE DEF d
  <2> QED BY <2>3, <2>4, <2>5 DEF FitAt
<1>8. ASSUME NEW h \in Group
      PROVE  /\ group[h] \in GroupRecord
             /\ group'[h].parent.post = group[h].parent.post
             /\ group'[h].parent.rev = group[h].parent.rev
             /\ group'[h].list.post = group[h].list.post
             /\ h = g /\ IsOpen(group[h]) /\ ParentId(group[h]) = id
                  => group'[h].parent.ts = ts
             /\ ~(h = g /\ IsOpen(group[h]) /\ ParentId(group[h]) = id)
                  => group'[h].parent.ts = group[h].parent.ts
  <2>1. group[h] \in GroupRecord
    BY <1>1
  <2>2. CASE h = g
    <3>1. group'[h] = RecordPost(group[h], ts)
      BY <1>1, <1>2, <2>2
    <3> QED BY <2>1, <2>2, <3>1, RecordPostFacts
  <2>3. CASE h # g
    <3>1. group'[h] = group[h]
      BY <1>1, <2>3
    <3> QED BY <2>1, <2>3, <3>1
  <2> QED BY <2>2, <2>3
<1> HIDE DEF g
<1>9. ASSUME NEW h \in Group PROVE CardIn(outbox', h, group'[h])
  <2> DEFINE old == group[h]
             p == ParentId(old)
  <2>1. ParentId(group'[h]) = p /\ (IsOpen(group'[h]) <=> IsOpen(old)) /\ IsParent(p)
    BY <1>8, ParentIdFacts DEF ParentId, IsOpen
  <2>2. CardIn(outbox, h, old)
    BY DEF Cards
  <2> SUFFICES ASSUME IsOpen(old) PROVE CardIn(outbox', h, group'[h])
    BY <2>1 DEF CardIn
  <2>3. /\ old.parent.ts = 0 => p \in DOMAIN outbox.work
        /\ p \in DOMAIN outbox.work =>
             /\ outbox.work[p].rev = old.parent.rev /\ outbox.work[p].ts = old.parent.ts
             /\ outbox.work[p].group = h
             /\ outbox.work[p].kind = IF old.parent.ts = 0 THEN "post" ELSE "update"
    BY <2>2 DEF CardIn
  <2>4. CASE p = id
    <3>1. h = g /\ outbox.work[id].rev = old.parent.rev
      BY <1>1, <1>2, <2>3, <2>4
    <3>2. group'[h].parent.ts = ts /\ group'[h].parent.rev = old.parent.rev
      BY <1>8, <2>4, <3>1
    <3>3. r.work[id].rev = old.parent.rev /\ r.work[id].group = h
      BY <1>1, <1>2, <1>4, <3>1
    <3>4. id \in DOMAIN outbox'.work =>
            /\ outbox'.work[id].rev = old.parent.rev /\ outbox'.work[id].ts = ts
            /\ outbox'.work[id].group = h /\ outbox'.work[id].kind = "update"
      BY <1>5, <3>3
    <3> HIDE DEF p
    <3> QED BY <1>1, <2>1, <2>4, <3>2, <3>4 DEF CardIn
  <2>5. CASE p # id
    <3>1. group'[h].parent.ts = old.parent.ts /\ group'[h].parent.rev = old.parent.rev
      BY <1>8, <2>5
    <3>2. p \in DOMAIN outbox.work => r.work[p] = outbox.work[p]
      <4>1. p \in DOMAIN outbox.work => outbox.work[p].dep = 0
        BY <2>1 DEF Cards, Fit, FitAt
      <4> QED BY <1>4, <4>1
    <3>3. /\ p \in DOMAIN outbox.work <=> p \in DOMAIN outbox'.work
          /\ p \in DOMAIN outbox.work => outbox'.work[p] = outbox.work[p]
      BY <1>6, <2>5, <3>2
    <3> HIDE DEF p
    <3> QED BY <2>1, <2>3, <3>1, <3>3 DEF CardIn
  <2> QED BY <2>4, <2>5
<1>10. Drawn'
  <2>1. \A h \in Group : group[h].parent.post < fresh /\ group[h].list.post < fresh
                         /\ group[h].parent.post \in Nat /\ group[h].list.post \in Nat
    BY PostFacts DEF Cards, Drawn
  <2>2. \A h \in Group : group'[h].parent.post # fresh /\ group'[h].list.post # fresh
    BY <1>1, <1>8, <2>1
  <2>3. fresh' >= fresh /\ \A i \in DOMAIN outbox'.work : i \in DOMAIN outbox.work
    BY <1>1, <1>6
  <2> QED BY <1>2, <1>8, <2>2, <2>3, DrawnStep
<1> QED BY <1>1, <1>7, <1>9, <1>10, IdleHeld DEF Cards, Fit

\* A replacement takes the place of the worker's entry; the others stay.
LEMMA SubstituteFacts ==
  ASSUME NEW ob, OutboxOK(ob), NEW old \in DOMAIN ob.work, NEW new \in WorkId,
         NEW w \in Work
  PROVE  LET sub == Substitute(ob, old, new, w)
         IN  /\ DOMAIN sub.work = (DOMAIN ob.work \ {old}) \cup {new}
             /\ \A i \in DOMAIN ob.work \ {old, new} : sub.work[i] = ob.work[i]
             /\ sub.work[new].kind = w.kind /\ sub.work[new].rev = w.rev
             /\ sub.work[new].ts = w.ts /\ sub.work[new].group = w.group
             /\ sub.work[new].thread = w.thread /\ sub.work[new].dep = w.dep
<1> DEFINE seq == ob.work[old].seq
           kept == Drop(ob, {old})
           put == Put(kept, new, w)
           e == [put.work[new] EXCEPT !.seq = seq]
           sub == Substitute(ob, old, new, w)
<1>1. OutboxOK(kept) /\ DOMAIN kept.work = DOMAIN ob.work \ {old}
      /\ \A i \in DOMAIN kept.work : kept.work[i] = ob.work[i]
  BY DropOK DEF Drop, OutboxOK
<1> HIDE DEF kept
<1>2. /\ OutboxOK(put) /\ DOMAIN put.work = DOMAIN kept.work \cup {new}
      /\ \A i \in DOMAIN kept.work : i # new => put.work[i] = kept.work[i]
      /\ put.work[new].kind = w.kind /\ put.work[new].rev = w.rev
      /\ put.work[new].ts = w.ts /\ put.work[new].group = w.group
      /\ put.work[new].thread = w.thread /\ put.work[new].dep = w.dep
  BY <1>1, PutOK, PutFacts
<1> HIDE DEF put
<1>3. put.work[new] \in Work
  BY <1>2 DEF OutboxOK
<1>4. /\ e.kind = put.work[new].kind /\ e.rev = put.work[new].rev
      /\ e.ts = put.work[new].ts /\ e.group = put.work[new].group
      /\ e.thread = put.work[new].thread /\ e.dep = put.work[new].dep
  BY <1>3 DEF Work
<1>5. sub.work = [put.work EXCEPT ![new] = e]
  BY <1>2 DEF Substitute, put, kept, OutboxOK
<1> HIDE DEF e, sub
<1>6. /\ DOMAIN sub.work = (DOMAIN ob.work \ {old}) \cup {new}
      /\ \A i \in DOMAIN ob.work \ {old, new} : sub.work[i] = ob.work[i]
      /\ sub.work[new].kind = w.kind /\ sub.work[new].rev = w.rev
      /\ sub.work[new].ts = w.ts /\ sub.work[new].group = w.group
      /\ sub.work[new].thread = w.thread /\ sub.work[new].dep = w.dep
  BY <1>1, <1>2, <1>4, <1>5
<1> QED BY <1>6 DEF sub

\* Nobody waits for a list, so a replaced list has no dependents to repoint.
LEMMA RepointNothing ==
  ASSUME TypeOK, Cards, NEW g \in Group, group[g].list.post # 0, NEW new \in Nat
  PROVE  \A i \in DOMAIN outbox.work :
           Repoint(outbox, group[g].list.post, new).work[i] = outbox.work[i]
<1> SUFFICES ASSUME NEW i \in DOMAIN outbox.work
             PROVE  Repoint(outbox, group[g].list.post, new).work[i] = outbox.work[i]
  OBVIOUS
<1>1. OutboxOK(outbox)
  BY DEF TypeOK
<1>2. outbox.work[i].dep # group[g].list.post
  <2>1. CASE outbox.work[i].dep = 0
    BY <2>1
  <2>2. CASE outbox.work[i].dep # 0
    <3>1. PICK d : d = <<"parent", outbox.work[i].dep, 0>>
      OBVIOUS
    <3>2. d \in DOMAIN outbox.work /\ IsParent(d)
      BY <2>2, <3>1 DEF Cards, Fit, FitAt, IsParent
    <3>3. d[2] # group[g].list.post
      BY <3>2 DEF Cards, Drawn
    <3> QED BY <3>1, <3>3
  <2> QED BY <2>1, <2>2
<1> QED BY <1>1, <1>2 DEF Repoint, OutboxOK

LEMMA ListMissingCards ==
  ASSUME TypeOK, TypeOK', Cards, ListMissing
  PROVE  Cards'
<1> DEFINE id == worker.id
           g == Attempt.group
           list == [post |-> fresh, ts |-> 0, rev |-> group[g].list.rev + 1]
           gr == [group[g] EXCEPT !.list = list]
           w == NewWork(g, "memberList", "post", gr.list.rev, 0, gr.parent.ts,
                        DependencyForParent(gr.parent), "render", gr.ep)
           ob == Repoint(outbox, group[g].list.post, fresh)
           new == ListId(gr)
<1>1. /\ OutboxOK(outbox) /\ group \in [Group -> GroupRecord] /\ fresh \in Nat
      /\ id \in DOMAIN outbox.work /\ worker.pc = "sent" /\ worker.work.kind = "update"
      /\ group' = [group EXCEPT ![g] = gr] /\ fresh' = fresh + 1 /\ worker' = Idle
      /\ outbox' = Substitute(ob, id, new, w) /\ group[g].list.post # 0
  BY PostFacts DEF ListMissing, UpdateMissing, OldList, Attempt
<1>2. g \in Group /\ group[g] \in GroupRecord
  BY <1>1, WorkerFields DEF Attempt, Work, TypeOK
<1>3. list \in SlackObject /\ list.post = fresh
  BY <1>1, <1>2 DEF GroupRecord, SlackObject
<1> HIDE DEF list
<1>4. gr \in GroupRecord /\ gr.parent = group[g].parent /\ gr.list = list
  BY <1>2, <1>3 DEF GroupRecord
<1> HIDE DEF gr
<1> HIDE DEF g
<1>5. /\ gr.list.rev \in Nat /\ gr.parent.ts \in Nat /\ gr.parent.post \in Nat /\ gr.ep \in Nat
      /\ DependencyForParent(gr.parent) \in Nat /\ new \in WorkId /\ ~IsParent(new)
  <2>1. /\ gr.list.rev \in Nat /\ gr.parent.ts \in Nat /\ gr.parent.post \in Nat /\ gr.ep \in Nat
        /\ ListId(gr) \in WorkId /\ ~IsParent(ListId(gr))
    BY <1>4, ParentIdFacts
  <2>2. DependencyForParent(gr.parent) \in Nat
    BY <2>1 DEF DependencyForParent
  <2> QED BY <2>1, <2>2
<1>6. w \in Work /\ w.kind = "post" /\ w.dep = DependencyForParent(gr.parent)
  <2>1. "memberList" \in Object /\ "render" \in Text /\ "post" \in {"post", "update", "reaction"}
        /\ 0 \in Nat
    BY DEF Object, Text
  <2>2. w \in Work
    BY <1>2, <1>5, <2>1, NewWorkType
  <2>3. w.kind = "post" /\ w.dep = DependencyForParent(gr.parent)
    BY DEF NewWork
  <2> QED BY <2>2, <2>3
<1> HIDE DEF w
<1>7. /\ OutboxOK(ob) /\ DOMAIN ob.work = DOMAIN outbox.work
      /\ \A i \in DOMAIN ob.work : ob.work[i] = outbox.work[i]
  BY <1>1, <1>2, RepointOK, RepointNothing
<1> HIDE DEF ob, new
<1>8. /\ DOMAIN outbox'.work = (DOMAIN outbox.work \ {id}) \cup {new}
      /\ \A i \in DOMAIN outbox.work \ {id, new} : outbox'.work[i] = outbox.work[i]
      /\ outbox'.work[new].kind = "post" /\ outbox'.work[new].dep = w.dep
  BY <1>1, <1>5, <1>6, <1>7, SubstituteFacts
<1>9. IsParent(id) => outbox.work[id].kind = "update"
  BY <1>1 DEF Cards, HeldOf
<1>10. ASSUME NEW d, <<"parent", d, 0>> \in DOMAIN outbox.work,
              outbox.work[<<"parent", d, 0>>].kind = "post"
       PROVE  /\ <<"parent", d, 0>> \in DOMAIN outbox'.work
              /\ outbox'.work[<<"parent", d, 0>>].kind = "post"
  <2>1. PICK p : p = <<"parent", d, 0>>
    OBVIOUS
  <2>2. IsParent(p)
    BY <2>1 DEF IsParent
  <2>3. p # id /\ p # new
    BY <1>5, <1>9, <1>10, <2>1, <2>2
  <2>4. p \in DOMAIN outbox'.work /\ outbox'.work[p].kind = "post"
    BY <1>8, <1>10, <2>1, <2>3
  <2> QED BY <2>1, <2>4
<1>11. ASSUME NEW i \in DOMAIN outbox'.work PROVE FitAt(outbox', fresh', i)
  <2>1. CASE i = new
    <3>1. w.dep # 0 => gr.parent.ts = 0 /\ w.dep = group[g].parent.post
      BY <1>4, <1>6 DEF DependencyForParent
    <3>2. w.dep # 0 => /\ <<"parent", w.dep, 0>> \in DOMAIN outbox.work
                       /\ outbox.work[<<"parent", w.dep, 0>>].kind = "post"
      <4>1. CardIn(outbox, g, group[g])
        BY <1>2 DEF Cards
      <4>2. ParentId(group[g]) = <<"parent", group[g].parent.post, 0>>
        BY DEF ParentId
      <4> QED BY <1>4, <3>1, <4>1, <4>2 DEF CardIn, IsOpen
    <3>3. w.dep # 0 => /\ <<"parent", w.dep, 0>> \in DOMAIN outbox'.work
                       /\ outbox'.work[<<"parent", w.dep, 0>>].kind = "post"
      BY <1>10, <3>2
    <3> QED BY <1>5, <1>8, <2>1, <3>3 DEF FitAt
  <2>2. CASE i # new
    <3>1. i \in DOMAIN outbox.work /\ outbox'.work[i] = outbox.work[i]
      BY <1>8, <2>2
    <3>2. FitAt(outbox, fresh, i) /\ i[2] \in Nat
      BY <3>1, PostFacts DEF Cards, Fit
    <3>3. outbox.work[i].dep # 0 =>
            /\ <<"parent", outbox.work[i].dep, 0>> \in DOMAIN outbox'.work
            /\ outbox'.work[<<"parent", outbox.work[i].dep, 0>>].kind = "post"
      BY <1>10, <3>2 DEF FitAt
    <3>4. IsParent(i) => i[2] < fresh'
      BY <1>1, <3>2 DEF FitAt
    <3> QED BY <3>1, <3>2, <3>3, <3>4 DEF FitAt
  <2> QED BY <2>1, <2>2
<1>12. ASSUME NEW h \in Group
       PROVE  /\ group[h] \in GroupRecord /\ group'[h].parent = group[h].parent
              /\ h = g => group'[h].list.post = fresh
              /\ h # g => group'[h].list.post = group[h].list.post
  BY <1>1, <1>2, <1>3, <1>4
<1>13. ASSUME NEW h \in Group PROVE CardIn(outbox', h, group'[h])
  <2>1. CardIn(outbox, h, group[h]) /\ IsParent(ParentId(group[h]))
    BY PostFacts DEF Cards
  <2>2. /\ ParentId(group[h]) \in DOMAIN outbox'.work =>
             /\ ParentId(group[h]) \in DOMAIN outbox.work
             /\ outbox'.work[ParentId(group[h])] = outbox.work[ParentId(group[h])]
        /\ ParentId(group[h]) \in DOMAIN outbox.work
           /\ ParentId(group[h]) \notin DOMAIN outbox'.work =>
             outbox.work[ParentId(group[h])].kind = "update"
    BY <1>5, <1>8, <1>9, <2>1
  <2> QED BY <1>12, <2>1, <2>2, CardGone
<1>14. Drawn'
  <2>1. group[g].parent.post < fresh /\ group[g].parent.post \in Nat
    BY <1>2, PostFacts DEF Cards, Drawn
  <2>2. group'[g].parent.post = group[g].parent.post /\ group'[g].list.post = fresh
        /\ group'[g].parent.post # fresh
    BY <1>1, <1>2, <1>12, <2>1
  <2>3. \A h \in Group \ {g} : /\ group'[h].parent.post = group[h].parent.post
                               /\ group'[h].list.post \in {0, group[h].list.post}
    BY <1>12
  <2>4. \A i \in DOMAIN outbox'.work : IsParent(i) => i \in DOMAIN outbox.work
    BY <1>5, <1>8
  <2>5. fresh' >= fresh /\ fresh' > fresh
    BY <1>1
  <2> QED BY <1>2, <2>2, <2>3, <2>4, <2>5, DrawnStep
<1> QED BY <1>1, <1>11, <1>13, <1>14, IdleHeld DEF Cards, Fit

\* Who was in the deleted card's thread, or waited for it, waits for the new card.
LEMMA ReparentEntries ==
  ASSUME NEW ob, OutboxOK(ob), NEW oldTs, NEW oldPost, NEW new \in Nat, NEW i \in DOMAIN ob.work
  PROVE  LET w == ob.work[i]
             v == Reparent(ob, oldTs, oldPost, new).work[i]
         IN  /\ v.kind = w.kind /\ v.ts = w.ts
             /\ v = w \/ v.dep = new
             /\ w.thread # oldTs /\ w.dep # oldPost => v = w
<1>1. ob.work[i] \in Work
  BY DEF OutboxOK
<1>2. Reparent(ob, oldTs, oldPost, new).work[i] =
        IF ob.work[i].thread = oldTs THEN [ob.work[i] EXCEPT !.thread = 0, !.dep = new]
        ELSE IF ob.work[i].dep = oldPost THEN [ob.work[i] EXCEPT !.dep = new]
        ELSE ob.work[i]
  BY DEF Reparent, OutboxOK
<1> QED BY <1>1, <1>2 DEF Work

LEMMA ParentMissingCards ==
  ASSUME TypeOK, TypeOK', Cards, ParentMissing
  PROVE  Cards'
<1> DEFINE id == worker.id
           g == Attempt.group
           parent == [post |-> fresh, ts |-> 0, rev |-> group[g].parent.rev + 1]
           gr == [group[g] EXCEPT !.parent = parent]
           w == NewWork(g, "parent", "post", gr.parent.rev, 0, 0, 0, "render", gr.ep)
           ob == Reparent(outbox, Attempt.ts, group[g].parent.post, fresh)
           new == ParentId(gr)
<1>1. /\ OutboxOK(outbox) /\ group \in [Group -> GroupRecord] /\ fresh \in Nat
      /\ id \in DOMAIN outbox.work /\ worker.pc = "sent" /\ worker.work.kind = "update"
      /\ group' = [group EXCEPT ![g] = gr] /\ fresh' = fresh + 1 /\ worker' = Idle
      /\ outbox' = Substitute(ob, id, new, w) /\ group[g].parent.post # 0
  BY PostFacts DEF ParentMissing, UpdateMissing, Attempt, IsOpen
<1>2. g \in Group /\ group[g] \in GroupRecord
  BY <1>1, WorkerFields DEF Attempt, Work, TypeOK
<1>3. parent \in SlackObject /\ parent.post = fresh /\ parent.ts = 0
  BY <1>1, <1>2 DEF GroupRecord, SlackObject
<1> HIDE DEF parent
<1>4. gr \in GroupRecord /\ gr.parent = parent /\ gr.list = group[g].list
  BY <1>2, <1>3 DEF GroupRecord
<1> HIDE DEF gr
<1> HIDE DEF g
<1>5. gr.parent.rev \in Nat /\ gr.ep \in Nat /\ new \in WorkId /\ IsParent(new)
      /\ new = <<"parent", fresh, 0>> /\ new[2] = fresh /\ new[3] = 0
  BY <1>3, <1>4, ParentIdFacts
<1>6. /\ w \in Work /\ w.kind = "post" /\ w.dep = 0 /\ w.thread = 0 /\ w.ts = 0
      /\ w.group = g /\ w.rev = gr.parent.rev
  <2>1. "parent" \in Object /\ "render" \in Text /\ "post" \in {"post", "update", "reaction"}
        /\ 0 \in Nat
    BY DEF Object, Text
  <2>2. w \in Work
    BY <1>2, <1>5, <2>1, NewWorkType
  <2>3. /\ w.kind = "post" /\ w.dep = 0 /\ w.thread = 0 /\ w.ts = 0
        /\ w.group = g /\ w.rev = gr.parent.rev
    BY DEF NewWork
  <2> QED BY <2>2, <2>3
<1> HIDE DEF w
<1>7. /\ OutboxOK(ob) /\ DOMAIN ob.work = DOMAIN outbox.work
      /\ \A i \in DOMAIN outbox.work :
           /\ ob.work[i].kind = outbox.work[i].kind /\ ob.work[i].ts = outbox.work[i].ts
           /\ ob.work[i] = outbox.work[i] \/ ob.work[i].dep = fresh
           /\ outbox.work[i].thread # Attempt.ts /\ outbox.work[i].dep # group[g].parent.post
                => ob.work[i] = outbox.work[i]
  BY <1>1, ReparentOK, ReparentEntries
<1>8. Attempt.ts # 0
  BY <1>1 DEF Cards, HeldOf, Attempt
<1>9. ASSUME NEW i \in DOMAIN outbox.work, IsParent(i) PROVE ob.work[i] = outbox.work[i]
  <2>1. outbox.work[i].thread = 0 /\ outbox.work[i].dep = 0
    BY <1>9 DEF Cards, Fit, FitAt
  <2> QED BY <1>1, <1>7, <1>8, <2>1
<1> HIDE DEF ob, new
<1>10. /\ DOMAIN outbox'.work = (DOMAIN outbox.work \ {id}) \cup {new}
       /\ \A i \in DOMAIN outbox.work \ {id, new} : outbox'.work[i] = ob.work[i]
       /\ outbox'.work[new].kind = "post" /\ outbox'.work[new].dep = 0
       /\ outbox'.work[new].thread = 0 /\ outbox'.work[new].ts = 0
       /\ outbox'.work[new].rev = gr.parent.rev /\ outbox'.work[new].group = g
  BY <1>1, <1>5, <1>6, <1>7, SubstituteFacts
<1>11. IsParent(id) => outbox.work[id].kind = "update"
  BY <1>1 DEF Cards, HeldOf
<1>12. fresh > 0
  BY DEF Cards, Drawn
<1>13. ASSUME NEW i \in DOMAIN outbox'.work PROVE FitAt(outbox', fresh', i)
  <2>1. CASE i = new
    BY <1>1, <1>5, <1>10, <1>12, <2>1 DEF FitAt
  <2>2. CASE i # new
    <3>1. i \in DOMAIN outbox.work /\ outbox'.work[i] = ob.work[i]
      BY <1>10, <2>2
    <3>2. FitAt(outbox, fresh, i) /\ i[2] \in Nat
      BY <3>1, PostFacts DEF Cards, Fit
    <3>3. outbox'.work[i].kind = "update" => outbox'.work[i].ts # 0
      BY <1>7, <3>1, <3>2 DEF FitAt
    <3>4. IsParent(i) => /\ 0 < i[2] /\ i[2] < fresh' /\ i[3] = 0
                         /\ outbox'.work[i].dep = 0 /\ outbox'.work[i].thread = 0
                         /\ outbox'.work[i].kind # "reaction"
      BY <1>1, <1>9, <3>1, <3>2 DEF FitAt
    <3>5. outbox'.work[i].dep # 0 =>
            /\ <<"parent", outbox'.work[i].dep, 0>> \in DOMAIN outbox'.work
            /\ outbox'.work[<<"parent", outbox'.work[i].dep, 0>>].kind = "post"
      <4>1. CASE outbox'.work[i].dep = fresh
        BY <1>5, <1>10, <4>1
      <4>2. CASE outbox'.work[i].dep # fresh
        <5>1. outbox'.work[i].dep = outbox.work[i].dep
          BY <1>7, <3>1, <4>2
        <5>2. PICK d : d = <<"parent", outbox.work[i].dep, 0>>
          OBVIOUS
        <5>3. IsParent(d) /\ (outbox.work[i].dep # 0 =>
                d \in DOMAIN outbox.work /\ outbox.work[d].kind = "post")
          BY <3>2, <5>2 DEF FitAt, IsParent
        <5>4. d # new
          BY <1>5, <4>2, <5>1, <5>2
        <5>5. outbox.work[i].dep # 0 =>
                d \in DOMAIN outbox'.work /\ outbox'.work[d].kind = "post"
          BY <1>7, <1>10, <1>11, <5>3, <5>4
        <5> QED BY <5>1, <5>2, <5>5
      <4> QED BY <4>1, <4>2
    <3> QED BY <3>3, <3>4, <3>5 DEF FitAt
  <2> QED BY <2>1, <2>2
<1>14. ASSUME NEW h \in Group
       PROVE  /\ group[h] \in GroupRecord
              /\ h = g => group'[h] = gr
              /\ h # g => group'[h] = group[h]
  BY <1>1, <1>2
<1>15. \A h \in Group : group[h].parent.post < fresh /\ group[h].list.post < fresh
                        /\ group[h].parent.post \in Nat /\ group[h].list.post \in Nat
  BY PostFacts DEF Cards, Drawn
<1>16. ASSUME NEW h \in Group PROVE CardIn(outbox', h, group'[h])
  <2>1. CASE h = g
    <3>1. group'[h] = gr /\ gr.parent.ts = 0 /\ ParentId(gr) = new
      BY <1>3, <1>4, <1>14, <2>1 DEF new
    <3> QED BY <1>10, <2>1, <3>1 DEF CardIn
  <2>2. CASE h # g
    <3>1. CardIn(outbox, h, group[h]) /\ IsParent(ParentId(group[h]))
          /\ ParentId(group[h]) = <<"parent", group[h].parent.post, 0>>
      BY PostFacts DEF Cards
    <3>2. ParentId(group[h]) # new
      <4>1. group[h].parent.post # fresh
        BY <1>1, <1>15
      <4> QED BY <1>5, <3>1, <4>1
    <3>3. /\ ParentId(group[h]) \in DOMAIN outbox'.work =>
               /\ ParentId(group[h]) \in DOMAIN outbox.work
               /\ outbox'.work[ParentId(group[h])] = outbox.work[ParentId(group[h])]
          /\ ParentId(group[h]) \in DOMAIN outbox.work
             /\ ParentId(group[h]) \notin DOMAIN outbox'.work =>
               outbox.work[ParentId(group[h])].kind = "update"
      BY <1>9, <1>10, <1>11, <3>1, <3>2
    <3> QED BY <1>14, <2>2, <3>1, <3>3, CardGone
  <2> QED BY <2>1, <2>2
<1>17. Drawn'
  <2>1. group'[g].parent.post = fresh /\ group'[g].list.post = group[g].list.post
        /\ group'[g].list.post # fresh
    <3>1. group'[g] = gr
      BY <1>2, <1>14
    <3> QED BY <1>1, <1>2, <1>3, <1>4, <1>15, <3>1
  <2>2. \A h \in Group \ {g} : /\ group'[h].parent.post = group[h].parent.post
                               /\ group'[h].list.post \in {0, group[h].list.post}
    BY <1>14
  <2>3. \A i \in DOMAIN outbox'.work : i \in DOMAIN outbox.work \/ i[2] = fresh
    BY <1>5, <1>10
  <2>4. fresh' >= fresh /\ fresh' > fresh
    BY <1>1
  <2> QED BY <1>2, <2>1, <2>2, <2>3, <2>4, DrawnStep
<1> QED BY <1>1, <1>13, <1>16, <1>17, IdleHeld DEF Cards, Fit

\* The entry is settled as pending or as failed, or nothing is found to settle.
LEMMA SettledCards ==
  ASSUME TypeOK, Cards, UNCHANGED <<group, fresh>>, worker' = Idle,
         \/ outbox' = outbox
         \/ /\ worker.id \in DOMAIN outbox.work
            /\ \E phase : outbox' = [outbox EXCEPT !.work[worker.id].phase = phase]
  PROVE  Cards'
<1>1. Alike(outbox, outbox')
  <2>1. OutboxOK(outbox)
    BY DEF TypeOK
  <2>2. CASE outbox' = outbox
    BY <2>2 DEF Alike
  <2>3. CASE /\ worker.id \in DOMAIN outbox.work
             /\ \E phase : outbox' = [outbox EXCEPT !.work[worker.id].phase = phase]
    BY <2>1, <2>3, PhaseAlike
  <2> QED BY <2>2, <2>3
<1> QED BY <1>1, IdleHeld, AlikeCards

LEMMA ForgetListParents ==
  ASSUME group \in [Group -> GroupRecord], NEW g \in Group, NEW ts, ForgetList(g, ts)
  PROVE  \A h \in Group : /\ group'[h].parent = group[h].parent
                          /\ group'[h].list.post \in {0, group[h].list.post}
<1> DEFINE list == IF group[g].list.post # 0 /\ group[g].list.ts = ts THEN NoObject
                   ELSE group[g].list
<1>1. list.post \in {0, group[g].list.post}
  BY DEF NoObject
<1>2. group' = [group EXCEPT ![g].list = list]
  BY DEF ForgetList
<1> HIDE DEF list
<1> QED BY <1>1, <1>2 DEF GroupRecord

LEMMA CommitCards ==
  ASSUME TypeOK, TypeOK', Cards, Commit
  PROVE  Cards'
<1> DEFINE id == worker.id
<1>1. worker.pc = "sent" /\ worker' = Idle
  BY DEF Commit, CompletePost, CompleteUpdate, CompleteReaction, FailWork,
         CommitNothing, RetiredListMissing, DetachedMissing, ListMissing,
         Unreplaceable, ParentMissing, UpdateMissing, Settle
<1>2. group \in [Group -> GroupRecord] /\ (id \in DOMAIN outbox.work => Current.group \in Group)
  BY DEF TypeOK, OutboxOK, Current, Work
<1>3. CASE CompleteUpdate
  <2>1. fresh' = fresh /\ id \in DOMAIN outbox.work /\ worker.work.kind # "post"
    BY <1>3 DEF CompleteUpdate, Settle, Attempt
  <2>2. CASE Superseded
    <3>1. outbox' = [outbox EXCEPT !.work[id].phase = "pending"] /\ group' = group
      BY <1>3, <2>2 DEF CompleteUpdate, Settle
    <3> QED BY <1>1, <2>1, <3>1, SettledCards
  <2>3. CASE ~Superseded
    <3>1. /\ outbox' = Drop(outbox, {id})
          /\ ForgetList(Current.group, Attempt.ts) \/ UNCHANGED group
      BY <1>3, <2>3 DEF CompleteUpdate, Settle
    <3>2. \A h \in Group : /\ group'[h].parent = group[h].parent
                           /\ group'[h].list.post \in {0, group[h].list.post}
      BY <1>2, <2>1, <3>1, ForgetListParents
    <3> QED BY <1>1, <2>1, <3>1, <3>2, DropCards
  <2> QED BY <2>2, <2>3
<1>4. CASE CompleteReaction \/ DetachedMissing
  <2>1. /\ outbox' = Drop(outbox, {id}) /\ UNCHANGED <<group, fresh>>
        /\ id \in DOMAIN outbox.work /\ worker.work.kind # "post"
    BY <1>4 DEF CompleteReaction, DetachedMissing, UpdateMissing, Settle, Attempt
  <2> QED BY <1>1, <2>1, DropCards
<1>5. CASE FailWork \/ Unreplaceable
  <2>1. /\ \E phase : outbox' = [outbox EXCEPT !.work[id].phase = phase]
        /\ id \in DOMAIN outbox.work /\ UNCHANGED <<group, fresh>>
    BY <1>5 DEF FailWork, Unreplaceable, UpdateMissing, Settle
  <2> QED BY <1>1, <2>1, SettledCards
<1>6. CASE CommitNothing
  <2>1. outbox' = outbox /\ UNCHANGED <<group, fresh>>
    BY <1>6 DEF CommitNothing, Settle
  <2> QED BY <1>1, <2>1, SettledCards
<1>7. CASE RetiredListMissing
  <2>1. /\ outbox' = Drop(outbox, {id}) /\ ForgetList(Current.group, Attempt.ts)
        /\ id \in DOMAIN outbox.work /\ fresh' = fresh /\ worker.work.kind # "post"
    BY <1>7 DEF RetiredListMissing, UpdateMissing, Settle, Attempt
  <2>2. \A h \in Group : /\ group'[h].parent = group[h].parent
                         /\ group'[h].list.post \in {0, group[h].list.post}
    BY <1>2, <2>1, ForgetListParents
  <2> QED BY <1>1, <2>1, <2>2, DropCards
<1> QED BY <1>3, <1>4, <1>5, <1>6, <1>7, CompletePostCards, ListMissingCards,
           ParentMissingCards DEF Commit

-----------------------------------------------------------------------------
LEMMA InitCards == Init => Cards
<1> SUFFICES ASSUME Init PROVE Cards
  OBVIOUS
<1>1. /\ DOMAIN outbox.work = {} /\ fresh = 1 /\ worker.pc = "idle"
      /\ \A g \in Group : group[g].parent.post = 0 /\ group[g].list.post = 0
  BY DEF Init, Idle, Absent, NoObject
<1>2. \A g \in Group : CardIn(outbox, g, group[g])
  BY <1>1 DEF CardIn, IsOpen
<1>3. Drawn
  BY <1>1 DEF Drawn
<1> QED BY <1>1, <1>2, <1>3 DEF Cards, Fit, HeldOf

LEMMA NextCards ==
  ASSUME TypeOK, TypeOK', Cards, [Next]_vars
  PROVE  Cards'
<1>1. CASE \E g \in Group : Writers(g)
  BY <1>1, WritersCards
<1>2. CASE \E cooling \in SUBSET MayCool : Pick(cooling)
  BY <1>2, PickCards
<1>3. CASE Vanished \/ CommitFails
  <2>1. UNCHANGED <<group, outbox, fresh>> /\ worker' = Idle
    BY <1>3 DEF Vanished, CommitFails
  <2> QED BY <2>1, SettledCards
<1>4. CASE Call
  BY <1>4, SendCards DEF Call
<1>5. CASE Commit
  BY <1>5, CommitCards
<1>6. CASE Restart
  BY <1>6, RestartCards
<1>7. CASE (\E ts \in DOMAIN slack : DeleteMessage(ts)) \/ UNCHANGED vars
  <2>1. UNCHANGED <<group, outbox, fresh, worker>>
    BY <1>7 DEF DeleteMessage, vars
  <2> QED BY <2>1 DEF Cards, Drawn, HeldOf
<1> QED BY <1>1, <1>2, <1>3, <1>4, <1>5, <1>6, <1>7 DEF Next

\* The card of an open group is never lost between the group and the outbox: until its
\* first post succeeds it is queued as a post, afterwards a queued entry of it is an update
\* of that message, and the entry always carries the group's newest revision, although
\* webhook.go, interactions.go, operations.go and outbox.go all rewrite both.
THEOREM CardsQueued == Spec => []CardQueued
<1>1. Cards => CardQueued
  BY DEF Cards, CardIn, CardQueued
<1> QED BY <1>1, InitCards, NextCards, TypeCorrect, PTL DEF Spec

\* A reply that waits for a card waits for one that is still queued to be posted: closing
\* an episode (closeEpisode), completing a post (completePost) and replacing a deleted
\* message (replaceDeletedMessage) never strand what was queued behind it.
THEOREM NoneDangling == Spec => []NoDanglingDependent
<1>1. Cards => NoDanglingDependent
  BY DEF Cards, Fit, FitAt, NoDanglingDependent
<1> QED BY <1>1, InitCards, NextCards, TypeCorrect, PTL DEF Spec
-----------------------------------------------------------------------------
(* What cards say.  An entry concerns a card when it posts one, revises one  *)
(* or closes one out; the other entries never touch a card.                  *)

CardWork == {"parent", "closeParent"}

OpenCard(i) == \E g \in Group : IsOpen(group[g]) /\ ParentId(group[g]) = i

\* An entry that touches no card: if it revises a message, that is a list.
Plain(i, w) ==
  /\ w.object # "parent" /\ w.text # "closed"
  /\ i[1] # "memberList" => w.rev = 0
  /\ w.object = "memberList" => i[1] = "memberList"
  /\ w.kind = "update" => /\ i[1] = "memberList" /\ w.ts \in DOMAIN slack
                          /\ slack[w.ts].id[1] = "memberList"

\* An entry that revises a card revises the one it posted; a close-out, one that no open
\* group has.
Facing(i, w) ==
  /\ w.object = "parent" <=> IsParent(i)
  /\ w.object \notin {"memberList", "memberListRetire"}
  /\ w.kind # "reaction"
  /\ w.kind = "post" => w.ts = 0
  /\ w.kind = "update" =>
       /\ w.ts \in DOMAIN slack
       /\ IF IsParent(i) THEN slack[w.ts].id = i
          ELSE IsCard(w.ts) /\ ~OpenCard(slack[w.ts].id)
  /\ ~IsParent(i) => w.kind = "update" /\ w.text = "closed" /\ i[2] < fresh

Aimed(i, w) == IF i[1] \in CardWork THEN Facing(i, w) ELSE Plain(i, w)

\* Only the card of an open group is still rendered, but for a card that was mistaken.
Owned(i, w) ==
  /\ OpenCard(i) => w.text = "render"
  /\ OpenCard(i) \/ w.text = "closed" \/ Mistaken(i[2])

EntriesFace ==
  \A i \in DOMAIN outbox.work :
    Aimed(i, outbox.work[i]) /\ (IsParent(i) => Owned(i, outbox.work[i]))

\* m is a message, or its content, of the entry i as w had it.
Says(m, i, w) ==
  /\ w.text = "closed" => m.text = "closed"
  /\ \A g \in Group : IsOpen(group[g]) /\ ParentId(group[g]) = i =>
       m.text = "card" /\ m.ep = group[g].ep /\ m.rev = w.rev

\* The entry of a card, v, after the worker took it as w.
Since(w, v) ==
  /\ v.kind = w.kind
  /\ w.kind = "update" => v.ts = w.ts /\ v.text = w.text
  /\ v.rev >= w.rev
  /\ v.text # w.text => v.rev > w.rev

Sent(answers) == worker.pc = "sent" /\ worker.answer \in answers

HeldFace ==
  LET i == worker.id
      w == worker.work
  IN worker.pc # "idle" =>
       /\ Aimed(i, w)
       /\ \A g \in Group : IsOpen(group[g]) /\ ParentId(group[g]) = i =>
            w.text = "render" /\ w.group = g /\ i \in DOMAIN outbox.work
       /\ i \in DOMAIN outbox.work /\ i[1] \in CardWork => Since(w, outbox.work[i])
       /\ worker.pc = "picked" => Says(worker.content, i, w)
       /\ Sent({"missing"}) => ~Live(w.ts)
       /\ Sent({"ok", "lost"}) /\ w.kind = "post" =>
            /\ worker.ts \in DOMAIN slack /\ slack[worker.ts].id = i
            /\ Says(slack[worker.ts], i, w)
       /\ Sent({"ok", "lost"}) /\ w.kind = "update" => Says(slack[w.ts], i, w)

ShowsCard(gr) ==
  LET t == gr.parent.ts
  IN  /\ t \in DOMAIN slack /\ slack[t].id = ParentId(gr)
      /\ slack[t].text = "card" /\ slack[t].ep = gr.ep
      /\ ParentId(gr) \notin DOMAIN outbox.work => slack[t].rev = gr.parent.rev

GroupFace(g) ==
  LET gr == group[g]
      c  == <<"closeParent", gr.ep, 0>>
  IN /\ gr.ep < fresh
     /\ gr.list.ts # 0 => /\ gr.list.ts \in DOMAIN slack
                          /\ slack[gr.list.ts].id[1] = "memberList"
     /\ IsOpen(gr) =>
          /\ gr.ep # 0
          /\ \A h \in Group \ {g} : group[h].ep # gr.ep
          /\ c \notin DOMAIN outbox.work /\ (worker.pc # "idle" => worker.id # c)
          /\ gr.parent.ts # 0 => ShowsCard(gr)

\* What becomes of a recorded card: it is an open group's, says that it is closed or will
\* be told so, or was mistaken.
Accounted(t) ==
  \/ \E g \in Group : IsOpen(group[g]) /\ group[g].parent.ts = t
  \/ slack[t].text = "closed"
  \/ \E i \in DOMAIN outbox.work : outbox.work[i].ts = t /\ outbox.work[i].text = "closed"
  \/ Mistaken(slack[t].id[2])

SlackFace ==
  \A t \in DOMAIN slack : IsCard(t) =>
    /\ slack[t].id[2] < fresh
    /\ slack[t].live /\ slack[t].recorded => Accounted(t)

Face == EntriesFace /\ HeldFace /\ (\A g \in Group : GroupFace(g)) /\ SlackFace

-----------------------------------------------------------------------------
(* What a writer does to the entries of cards: nothing, but for those of ps;  *)
(* what else it queues touches no card.                                      *)

Edits(ob, new, ps) ==
  \A i \in WorkId :
    IF i[1] \in CardWork
    THEN i \notin ps => /\ i \in DOMAIN ob.work <=> i \in DOMAIN new.work
                        /\ i \in DOMAIN ob.work => new.work[i] = ob.work[i]
    ELSE i \in DOMAIN new.work =>
           Plain(i, new.work[i]) \/ (i \in DOMAIN ob.work /\ new.work[i] = ob.work[i])

LEMMA EditsReflexive ==
  ASSUME NEW ob, NEW ps
  PROVE  Edits(ob, ob, ps)
BY DEF Edits

LEMMA EditsTransitive ==
  ASSUME NEW ob, NEW mid, NEW new, NEW ps, NEW qs \in SUBSET ps, NEW rs \in SUBSET ps,
         Edits(ob, mid, qs), Edits(mid, new, rs)
  PROVE  Edits(ob, new, ps)
<1> SUFFICES ASSUME NEW i \in WorkId
             PROVE  IF i[1] \in CardWork
                    THEN i \notin ps => /\ i \in DOMAIN ob.work <=> i \in DOMAIN new.work
                                        /\ i \in DOMAIN ob.work => new.work[i] = ob.work[i]
                    ELSE i \in DOMAIN new.work =>
                           \/ Plain(i, new.work[i])
                           \/ i \in DOMAIN ob.work /\ new.work[i] = ob.work[i]
  BY DEF Edits
<1>1. CASE i[1] \in CardWork
  <2>1. i \notin ps => i \notin qs /\ i \notin rs
    OBVIOUS
  <2> QED BY <1>1, <2>1 DEF Edits
<1>2. CASE i[1] \notin CardWork
  BY <1>2 DEF Edits
<1> QED BY <1>1, <1>2

\* What an entry says of a card does not depend on its place in the sequence.
LEMMA PutFields ==
  ASSUME NEW ob, NEW id, NEW w \in Work
  PROVE  LET e == Put(ob, id, w).work[id]
         IN  /\ e.object = w.object /\ e.kind = w.kind /\ e.rev = w.rev /\ e.ts = w.ts
             /\ e.text = w.text /\ e.group = w.group /\ e.ep = w.ep
<1> DEFINE seq == IF id \in DOMAIN ob.work THEN ob.work[id].seq ELSE ob.next + 1
           e == [w EXCEPT !.seq = seq]
<1>1. Put(ob, id, w).work[id] = e
  BY DEF Put
<1>2. /\ e.object = w.object /\ e.kind = w.kind /\ e.rev = w.rev /\ e.ts = w.ts
      /\ e.text = w.text /\ e.group = w.group /\ e.ep = w.ep
  <2> HIDE DEF seq
  <2> QED BY DEF Work
<1> HIDE DEF e
<1> QED BY <1>1, <1>2

LEMMA PlainAlike ==
  ASSUME NEW i, NEW w, NEW v, Plain(i, w), v.object = w.object, v.kind = w.kind,
         v.rev = w.rev, v.ts = w.ts, v.text = w.text
  PROVE  Plain(i, v)
BY DEF Plain

LEMMA PutEdits ==
  ASSUME NEW ob, NEW id \in WorkId, NEW w \in Work
  PROVE  /\ id[1] \in CardWork => Edits(ob, Put(ob, id, w), {id})
         /\ id[1] \notin CardWork /\ Plain(id, w) => Edits(ob, Put(ob, id, w), {})
<1>1. PICK new : new = Put(ob, id, w)
  OBVIOUS
<1>2. /\ DOMAIN new.work = DOMAIN ob.work \cup {id}
      /\ \A i \in DOMAIN ob.work : i # id => new.work[i] = ob.work[i]
  BY <1>1, PutFacts
<1>3. Plain(id, w) => Plain(id, new.work[id])
  BY <1>1, PutFields, PlainAlike
<1>4. id[1] \in CardWork => Edits(ob, new, {id})
  BY <1>2 DEF Edits
<1>5. id[1] \notin CardWork /\ Plain(id, w) => Edits(ob, new, {})
  BY <1>2, <1>3 DEF Edits
<1> QED BY <1>1, <1>4, <1>5

LEMMA DropEdits ==
  ASSUME NEW ob, OutboxOK(ob), NEW id
  PROVE  /\ Edits(ob, Drop(ob, {id}), {id})
         /\ id[1] \notin CardWork => Edits(ob, Drop(ob, {id}), {})
<1>1. /\ DOMAIN Drop(ob, {id}).work = DOMAIN ob.work \ {id}
      /\ \A i \in DOMAIN ob.work \ {id} : Drop(ob, {id}).work[i] = ob.work[i]
  BY DEF Drop, OutboxOK
<1> QED BY <1>1 DEF Edits

\* An entry that posts something else than a card, or adds a reaction.
LEMMA PlainPost ==
  ASSUME NEW i, NEW w, w.kind # "update", w.text # "closed", w.object # "parent",
         w.object = "memberList" => i[1] = "memberList",
         i[1] # "memberList" => w.rev = 0
  PROVE  Plain(i, w)
BY DEF Plain

LEMMA ReplyPlain ==
  ASSUME NEW i, NEW g, NEW gr
  PROVE  Plain(i, Reply(g, gr))
<1>1. PICK w : w = Reply(g, gr)
  OBVIOUS
<1>2. w.kind = "post" /\ w.text = "reply" /\ w.object = "eventReply" /\ w.rev = 0
  BY <1>1, NewWorkFacts DEF Reply, NewWork
<1>3. Plain(i, w)
  BY <1>2, PlainPost
<1> QED BY <1>1, <1>3

LEMMA NewMembersEdits ==
  ASSUME NEW ob, NEW g \in Group, NEW gr \in GroupRecord, NEW ep, NEW members
  PROVE  Edits(ob, PutNewMembers(ob, ep, members, Reply(g, gr)), {})
<1> DEFINE w == Reply(g, gr)
           ids == {<<"newMember", ep, m>> : m \in members}
           new == PutNewMembers(ob, ep, members, w)
           seq(i) == IF i \in DOMAIN ob.work THEN ob.work[i].seq ELSE ob.next + i[3]
           e(i) == [w EXCEPT !.seq = seq(i)]
<1>1. /\ DOMAIN new.work = DOMAIN ob.work \cup ids
      /\ \A i \in DOMAIN new.work : new.work[i] = IF i \notin ids THEN ob.work[i] ELSE e(i)
  BY DEF PutNewMembers
<1>2. \A i \in ids : i[1] \notin CardWork
  BY DEF CardWork
<1>3. w \in Work
  BY GroupWork
<1>4. ASSUME NEW i PROVE Plain(i, e(i))
  <2>1. /\ e(i).object = w.object /\ e(i).kind = w.kind /\ e(i).rev = w.rev
        /\ e(i).ts = w.ts /\ e(i).text = w.text
    <3> HIDE DEF seq, w
    <3> QED BY <1>3 DEF Work
  <2>2. Plain(i, w)
    BY ReplyPlain
  <2> HIDE DEF e, w
  <2> QED BY <2>1, <2>2, PlainAlike
<1> HIDE DEF w, ids, new, e
<1>5. Edits(ob, new, {})
  BY <1>1, <1>2, <1>4 DEF Edits
<1> QED BY <1>5 DEF new, w

\* The message of a list is a list.
ListShown(gr) ==
  gr.list.ts # 0 => gr.list.ts \in DOMAIN slack /\ slack[gr.list.ts].id[1] = "memberList"

LEMMA ListEdits ==
  ASSUME NEW ob, NEW gr \in GroupRecord, NEW w \in Work, ListShown(gr),
         w.object # "parent", w.text # "closed", w.kind # "reaction",
         w.kind = "update" => gr.list.ts # 0 /\ w.ts = gr.list.ts
  PROVE  Edits(ob, Put(ob, ListId(gr), w), {})
<1>1. PICK id \in WorkId : id = ListId(gr)
  BY ParentIdFacts
<1>2. id[1] = "memberList" /\ id[1] \notin CardWork
  BY <1>1 DEF ListId, CardWork
<1>3. Plain(id, w)
  BY <1>2 DEF Plain, ListShown
<1> QED BY <1>1, <1>2, <1>3, PutEdits

LEMMA PlaceListEdits ==
  ASSUME NEW ob, OutboxOK(ob), NEW g \in Group, NEW gr \in GroupRecord, fresh \in Nat,
         ListShown(gr)
  PROVE  /\ Edits(ob, PlaceList(ob, g, gr).ob, {})
         /\ ListShown(PlaceList(ob, g, gr).gr)
<1>1. Edits(ob, ShowList(ob, g, gr).ob, {}) /\ ListShown(ShowList(ob, g, gr).gr)
  <2> DEFINE gr2 == IF gr.list.post = 0
                    THEN [gr EXCEPT !.list = [post |-> fresh + 1, ts |-> 0, rev |-> 1]]
                    ELSE [gr EXCEPT !.list.rev = @ + 1]
             kind == IF gr2.list.ts # 0 THEN "update" ELSE "post"
             w == NewWork(g, "memberList", kind, gr2.list.rev, gr2.list.ts, gr2.parent.ts,
                          DependencyForParent(gr2.parent), "render", gr2.ep)
  <2>1. gr2 \in GroupRecord /\ gr2.list.ts \in {0, gr.list.ts}
    BY DEF GroupRecord, SlackObject
  <2>2. ShowList(ob, g, gr).gr = gr2 /\ ShowList(ob, g, gr).ob = Put(ob, ListId(gr2), w)
    BY DEF ShowList, PutList
  <2> HIDE DEF gr2
  <2>3. ListShown(gr2)
    BY <2>1 DEF ListShown
  <2>4. w.kind = kind /\ w.ts = gr2.list.ts /\ w.object = "memberList" /\ w.text = "render"
    BY NewWorkFacts
  <2>5. w \in Work
    <3>1. kind \in {"post", "update", "reaction"}
      OBVIOUS
    <3>2. DependencyForParent(gr2.parent) \in Nat
      BY <2>1, GroupWork
    <3>3. /\ gr2.list.rev \in Nat /\ gr2.list.ts \in Nat /\ gr2.parent.ts \in Nat
          /\ gr2.ep \in Nat
      BY <2>1, ParentIdFacts
    <3>4. "memberList" \in Object /\ "render" \in Text
      BY DEF Object, Text
    <3> HIDE DEF kind
    <3> QED BY <3>1, <3>2, <3>3, <3>4, NewWorkType
  <2> HIDE DEF w
  <2>6. Edits(ob, Put(ob, ListId(gr2), w), {})
    BY <2>1, <2>3, <2>4, <2>5, ListEdits
  <2> QED BY <2>2, <2>3, <2>6
<1>2. Edits(ob, RetireList(ob, g, gr).ob, {}) /\ ListShown(RetireList(ob, g, gr).gr)
  <2>1. CASE Cancellable(ob, gr)
    <3>1. /\ RetireList(ob, g, gr).gr = [gr EXCEPT !.list = NoObject]
          /\ RetireList(ob, g, gr).ob = Drop(ob, {ListId(gr)})
      BY <2>1 DEF RetireList
    <3>2. PICK id : id = ListId(gr)
      OBVIOUS
    <3>3. id[1] \notin CardWork
      BY <3>2 DEF ListId, CardWork
    <3>4. Edits(ob, Drop(ob, {id}), {})
      BY <3>3, DropEdits
    <3>5. [gr EXCEPT !.list = NoObject].list.ts = 0
      BY DEF GroupRecord, NoObject
    <3> QED BY <3>1, <3>2, <3>4, <3>5 DEF ListShown
  <2>2. CASE ~Cancellable(ob, gr)
    <3> DEFINE gr2 == [gr EXCEPT !.list.rev = @ + 1]
               w == IF gr.list.ts # 0
                    THEN NewWork(g, "memberListRetire", "update", gr2.list.rev,
                                 gr.list.ts, 0, 0, "retired", gr.ep)
                    ELSE NewWork(g, "memberListRetire", "post", gr2.list.rev, 0,
                                 gr.parent.ts, DependencyForParent(gr.parent),
                                 "retired", gr.ep)
    <3>1. /\ RetireList(ob, g, gr).gr = gr2
          /\ RetireList(ob, g, gr).ob = Put(ob, ListId(gr), w)
      BY <2>2 DEF RetireList
    <3>2. gr2 \in GroupRecord /\ gr2.list.ts = gr.list.ts /\ gr2.list.rev \in Nat
      BY DEF GroupRecord, SlackObject
    <3> HIDE DEF gr2
    <3>3. /\ gr.list.ts \in Nat /\ gr.parent.ts \in Nat /\ gr.ep \in Nat
          /\ DependencyForParent(gr.parent) \in Nat
      BY ParentIdFacts, GroupWork
    <3>4. /\ "memberListRetire" \in Object /\ "retired" \in Text /\ 0 \in Nat
          /\ {"update", "post"} \subseteq {"post", "update", "reaction"}
      BY DEF Object, Text
    <3>5. /\ w \in Work /\ w.object # "parent" /\ w.text # "closed" /\ w.kind # "reaction"
          /\ w.kind = "update" => gr.list.ts # 0 /\ w.ts = gr.list.ts
      <4>1. CASE gr.list.ts # 0
        <5> DEFINE v == NewWork(g, "memberListRetire", "update", gr2.list.rev,
                                gr.list.ts, 0, 0, "retired", gr.ep)
        <5>1. v \in Work
          BY <3>2, <3>3, <3>4, NewWorkType
        <5>2. v.ts = gr.list.ts /\ v.object = "memberListRetire" /\ v.text = "retired"
              /\ v.kind = "update"
          BY NewWorkFacts
        <5> HIDE DEF v
        <5> QED BY <4>1, <5>1, <5>2 DEF v
      <4>2. CASE gr.list.ts = 0
        <5> DEFINE v == NewWork(g, "memberListRetire", "post", gr2.list.rev, 0,
                                gr.parent.ts, DependencyForParent(gr.parent),
                                "retired", gr.ep)
        <5>1. v \in Work
          BY <3>2, <3>3, <3>4, NewWorkType
        <5>2. v.object = "memberListRetire" /\ v.text = "retired" /\ v.kind = "post"
          BY NewWorkFacts
        <5> HIDE DEF v
        <5> QED BY <4>2, <5>1, <5>2 DEF v
      <4> QED BY <4>1, <4>2
    <3> HIDE DEF w
    <3>6. Edits(ob, Put(ob, ListId(gr), w), {})
      BY <3>5, ListEdits
    <3> QED BY <3>1, <3>2, <3>6 DEF ListShown
  <2> QED BY <2>1, <2>2
<1>3. Edits(ob, ob, {})
  BY EditsReflexive
<1> QED BY <1>1, <1>2, <1>3 DEF PlaceList

\* What closing gr leaves of its card's entry p, and the close-out c that it queues.
Closes(ob, new, gr) ==
  LET p == ParentId(gr)
      c == <<"closeParent", gr.ep, 0>>
  IN IF gr.parent.ts # 0
     THEN /\ p \notin DOMAIN new.work /\ c \in DOMAIN new.work
          /\ new.work[c].object = "eventReply" /\ new.work[c].kind = "update"
          /\ new.work[c].ts = gr.parent.ts /\ new.work[c].text = "closed"
          /\ new.work[c].ep = gr.ep
     ELSE /\ p \in DOMAIN ob.work /\ p \in DOMAIN new.work
          /\ new.work[p].object = ob.work[p].object /\ new.work[p].kind = ob.work[p].kind
          /\ new.work[p].ts = ob.work[p].ts /\ new.work[p].text = "closed"
          /\ new.work[p].rev = ob.work[p].rev + 1 /\ new.work[p].ep = ob.work[p].ep
          /\ c \in DOMAIN ob.work <=> c \in DOMAIN new.work
          /\ c \in DOMAIN ob.work => new.work[c] = ob.work[c]

LEMMA CloseParentEdits ==
  ASSUME NEW ob, OutboxOK(ob), NEW g \in Group, NEW gr \in GroupRecord, IsOpen(gr),
         CardIn(ob, g, gr)
  PROVE  /\ Edits(ob, CloseParent(ob, g, gr), {ParentId(gr), <<"closeParent", gr.ep, 0>>})
         /\ Closes(ob, CloseParent(ob, g, gr), gr)
<1>1. PICK new : new = CloseParent(ob, g, gr)
  OBVIOUS
<1>2. PICK p \in WorkId : p = ParentId(gr) /\ p[1] = "parent"
  BY ParentIdFacts DEF IsParent
<1>3. PICK c \in WorkId : c = <<"closeParent", gr.ep, 0>> /\ c[1] = "closeParent"
  <2>1. gr.ep \in Nat
    BY ParentIdFacts
  <2>2. <<"closeParent", gr.ep, 0>> \in WorkId
    BY <2>1 DEF WorkId, WorkName
  <2> QED BY <2>2
<1>4. p # c /\ c[1] \in CardWork /\ p[1] \in CardWork
  BY <1>2, <1>3 DEF CardWork
<1>5. CASE gr.parent.ts # 0
  <2> DEFINE w == NewWork(g, "eventReply", "update", 0, gr.parent.ts, 0, 0, "closed", gr.ep)
             mid == Drop(ob, {p})
  <2>1. new = Put(mid, c, w)
    BY <1>1, <1>2, <1>3, <1>5 DEF CloseParent
  <2>2. w \in Work /\ w.kind = "update" /\ w.ts = gr.parent.ts /\ w.object = "eventReply"
        /\ w.text = "closed" /\ w.ep = gr.ep
    <3>1. gr.parent.ts \in Nat /\ gr.ep \in Nat
      BY ParentIdFacts
    <3>2. "eventReply" \in Object /\ "closed" \in Text /\ 0 \in Nat
          /\ "update" \in {"post", "update", "reaction"}
      BY DEF Object, Text
    <3>3. w \in Work
      BY <3>1, <3>2, NewWorkType
    <3> QED BY <3>3, NewWorkFacts
  <2>3. Edits(ob, mid, {p}) /\ p \notin DOMAIN mid.work
    BY DropEdits DEF Drop, OutboxOK
  <2> HIDE DEF mid, w
  <2>4. Edits(mid, new, {c})
    BY <1>4, <2>1, <2>2, PutEdits
  <2>5. Edits(ob, new, {p, c})
    BY <2>3, <2>4, EditsTransitive
  <2>6. p \notin DOMAIN new.work
    BY <1>4, <2>3, <2>4 DEF Edits
  <2>7. c \in DOMAIN new.work
    BY <2>1 DEF Put
  <2>8. /\ new.work[c].object = "eventReply" /\ new.work[c].kind = "update"
        /\ new.work[c].ts = gr.parent.ts /\ new.work[c].text = "closed"
        /\ new.work[c].ep = gr.ep
    BY <2>1, <2>2, PutFields
  <2> QED BY <1>1, <1>2, <1>3, <1>5, <2>5, <2>6, <2>7, <2>8 DEF Closes
<1>6. CASE gr.parent.ts = 0
  <2>1. p \in DOMAIN ob.work /\ ob.work[p] \in Work
    BY <1>2, <1>6 DEF CardIn, OutboxOK
  <2> DEFINE e == [ob.work[p] EXCEPT !.text = "closed", !.rev = @ + 1]
  <2>2. new.work = [ob.work EXCEPT ![p] = e]
    BY <1>1, <1>2, <1>6, <2>1 DEF CloseParent, OutboxOK
  <2>3. /\ e.object = ob.work[p].object /\ e.kind = ob.work[p].kind /\ e.ts = ob.work[p].ts
        /\ e.text = "closed" /\ e.rev = ob.work[p].rev + 1 /\ e.ep = ob.work[p].ep
    BY <2>1 DEF Work
  <2> HIDE DEF e
  <2>4. /\ DOMAIN new.work = DOMAIN ob.work
        /\ \A i \in DOMAIN ob.work : new.work[i] = IF i = p THEN e ELSE ob.work[i]
    BY <2>2
  <2>5. Edits(ob, new, {p, c})
    BY <1>4, <2>4 DEF Edits
  <2>6. Closes(ob, new, gr)
    BY <1>2, <1>3, <1>4, <1>6, <2>1, <2>3, <2>4 DEF Closes
  <2> QED BY <1>1, <1>2, <1>3, <2>5, <2>6
<1> QED BY <1>5, <1>6

LEMMA ClosesKept ==
  ASSUME NEW ob, NEW mid, NEW new, NEW gr \in GroupRecord, Closes(ob, mid, gr),
         Edits(mid, new, {})
  PROVE  Closes(ob, new, gr)
<1>1. PICK p \in WorkId : p = ParentId(gr) /\ p[1] = "parent"
  BY ParentIdFacts DEF IsParent
<1>2. PICK c \in WorkId : c = <<"closeParent", gr.ep, 0>> /\ c[1] = "closeParent"
  <2>1. gr.ep \in Nat
    BY ParentIdFacts
  <2>2. <<"closeParent", gr.ep, 0>> \in WorkId
    BY <2>1 DEF WorkId, WorkName
  <2> QED BY <2>2
<1>3. ASSUME NEW i \in {p, c}
      PROVE  /\ i \in DOMAIN mid.work <=> i \in DOMAIN new.work
             /\ i \in DOMAIN mid.work => new.work[i] = mid.work[i]
  <2>1. i[1] \in CardWork
    BY <1>1, <1>2 DEF CardWork
  <2> QED BY <1>1, <1>2, <2>1 DEF Edits
<1> QED BY <1>1, <1>2, <1>3 DEF Closes

LEMMA CloseEpisodeEdits ==
  ASSUME NEW ob, OutboxOK(ob), NEW g \in Group, NEW gr \in GroupRecord, IsOpen(gr),
         CardIn(ob, g, gr), NEW withReply \in BOOLEAN
  PROVE  LET new == CloseEpisode(ob, g, gr, withReply)
         IN  /\ Edits(ob, new, {ParentId(gr), <<"closeParent", gr.ep, 0>>})
             /\ Closes(ob, new, gr)
<1> DEFINE id == <<"closeReply", gr.ep, 0>>
           ob1 == CloseParent(ob, g, gr)
           ob2 == PutIf(withReply, ob1, id, Reply(g, gr))
           new == CloseList(ob2, gr)
           ps == {ParentId(gr), <<"closeParent", gr.ep, 0>>}
<1>1. Edits(ob, ob1, ps) /\ Closes(ob, ob1, gr) /\ OutboxOK(ob1)
  BY CloseParentEdits, CloseParentOK
<1>2. CloseEpisode(ob, g, gr, withReply) = new
  BY DEF CloseEpisode
<1> HIDE DEF ob1, ps
<1>3. Edits(ob1, ob2, {}) /\ OutboxOK(ob2)
  <2>1. id \in WorkId /\ id[1] \notin CardWork /\ Reply(g, gr) \in Work
    BY ParentIdFacts, GroupWork DEF WorkId, WorkName, CardWork
  <2>2. Plain(id, Reply(g, gr))
    BY ReplyPlain
  <2> HIDE DEF id
  <2>3. Edits(ob1, Put(ob1, id, Reply(g, gr)), {}) /\ OutboxOK(Put(ob1, id, Reply(g, gr)))
    BY <1>1, <2>1, <2>2, PutEdits, PutOK
  <2> QED BY <1>1, <2>3, EditsReflexive DEF PutIf
<1> HIDE DEF ob2
<1>4. Edits(ob2, new, {})
  <2>1. PICK i : i = ListId(gr)
    OBVIOUS
  <2>2. i[1] \notin CardWork
    BY <2>1 DEF ListId, CardWork
  <2>3. Edits(ob2, Drop(ob2, {i}), {})
    BY <1>3, <2>2, DropEdits
  <2> QED BY <2>1, <2>3, EditsReflexive DEF CloseList
<1> HIDE DEF new
<1>5. Edits(ob1, new, {})
  BY <1>3, <1>4, EditsTransitive
<1>6. Edits(ob, new, ps)
  BY <1>1, <1>5, EditsTransitive
<1>7. Closes(ob, new, gr)
  BY <1>1, <1>5, ClosesKept
<1> QED BY <1>2, <1>6, <1>7 DEF ps

\* The entry that a refresh of gr's card leaves.
Queued(new, gr) ==
  LET p == ParentId(gr)
  IN  /\ p \in DOMAIN new.work
      /\ new.work[p].object = "parent" /\ new.work[p].text = "render"
      /\ new.work[p].ts = gr.parent.ts /\ new.work[p].ep = gr.ep
      /\ new.work[p].kind = IF gr.parent.ts = 0 THEN "post" ELSE "update"

LEMMA PutParentEdits ==
  ASSUME NEW ob, NEW g \in Group, NEW gr \in GroupRecord
  PROVE  /\ Edits(ob, PutParent(ob, g, gr), {ParentId(gr)})
         /\ Queued(PutParent(ob, g, gr), gr)
<1> DEFINE kind == IF gr.parent.ts # 0 THEN "update" ELSE "post"
           w == NewWork(g, "parent", kind, gr.parent.rev, gr.parent.ts, 0, 0, "render", gr.ep)
<1>1. PICK new : new = PutParent(ob, g, gr)
  OBVIOUS
<1>2. PICK p \in WorkId : p = ParentId(gr) /\ p[1] \in CardWork
  BY ParentIdFacts DEF IsParent, CardWork
<1>3. w \in Work
  <2>1. kind \in {"post", "update", "reaction"} /\ 0 \in Nat
        /\ "parent" \in Object /\ "render" \in Text
    BY DEF Object, Text
  <2>2. gr.ep \in Nat /\ gr.parent.ts \in Nat /\ gr.parent.rev \in Nat
    BY ParentIdFacts
  <2> HIDE DEF kind
  <2> QED BY <2>1, <2>2, NewWorkType
<1>4. w.object = "parent" /\ w.kind = kind /\ w.ts = gr.parent.ts /\ w.text = "render"
      /\ w.ep = gr.ep
  BY NewWorkFacts
<1>5. new = Put(ob, p, w)
  BY <1>1, <1>2 DEF PutParent
<1> HIDE DEF w
<1>6. Edits(ob, new, {p})
  BY <1>2, <1>3, <1>5, PutEdits
<1>7. p \in DOMAIN new.work
  BY <1>5 DEF Put
<1>8. /\ new.work[p].object = "parent" /\ new.work[p].text = "render"
      /\ new.work[p].ts = gr.parent.ts /\ new.work[p].kind = kind /\ new.work[p].ep = gr.ep
  BY <1>3, <1>4, <1>5, PutFields
<1> QED BY <1>1, <1>2, <1>6, <1>7, <1>8 DEF Queued

LEMMA QueuedKept ==
  ASSUME NEW ob, NEW new, NEW gr \in GroupRecord, NEW gr2, gr2.parent = gr.parent,
         gr2.ep = gr.ep, Queued(ob, gr), Edits(ob, new, {})
  PROVE  Queued(new, gr2)
<1>1. PICK p \in WorkId : p = ParentId(gr) /\ p[1] \in CardWork
  BY ParentIdFacts DEF IsParent, CardWork
<1>2. ParentId(gr2) = p
  BY <1>1 DEF ParentId
<1>3. /\ p \in DOMAIN ob.work <=> p \in DOMAIN new.work
      /\ p \in DOMAIN ob.work => new.work[p] = ob.work[p]
  BY <1>1 DEF Edits
<1> QED BY <1>1, <1>2, <1>3 DEF Queued

-----------------------------------------------------------------------------
(* What stays true of a card while the episodes move on.                     *)

\* A group that is open after a step was open before it, for the same card and episode,
\* or its card was drawn in the step.
Proceeds ==
  \A g \in Group : IsOpen(group'[g]) =>
    \/ group'[g].parent.post = fresh
    \/ /\ IsOpen(group[g]) /\ group'[g].parent.post = group[g].parent.post
       /\ group'[g].ep = group[g].ep

\* Messages stay what they are, and cards that were mistaken stay that.
Grows ==
  /\ DOMAIN slack \subseteq DOMAIN slack'
  /\ \A t \in DOMAIN slack : slack'[t].id = slack[t].id
                             /\ slack[t].replaced \subseteq slack'[t].replaced

LEMMA OpenBefore ==
  ASSUME Proceeds, NEW i, i[2] # fresh, NEW g \in Group, IsOpen(group'[g]),
         ParentId(group'[g]) = i
  PROVE  IsOpen(group[g]) /\ ParentId(group[g]) = i /\ group'[g].ep = group[g].ep
<1>1. group'[g].parent.post = i[2]
  BY DEF ParentId
<1>2. /\ IsOpen(group[g]) /\ group'[g].parent.post = group[g].parent.post
      /\ group'[g].ep = group[g].ep
  BY <1>1 DEF Proceeds
<1> QED BY <1>2 DEF ParentId

LEMMA OpenCardBefore ==
  ASSUME Proceeds, NEW i, i[2] # fresh, OpenCard(i)'
  PROVE  OpenCard(i)
<1>1. PICK g \in Group : IsOpen(group'[g]) /\ ParentId(group'[g]) = i
  BY DEF OpenCard
<1> QED BY <1>1, OpenBefore DEF OpenCard

LEMMA MistakenLater ==
  ASSUME Grows, NEW p, Mistaken(p)
  PROVE  Mistaken(p)'
BY DEF Grows, Mistaken

LEMMA SaysLater ==
  ASSUME Proceeds, NEW m, NEW i, NEW w, i[2] # fresh, Says(m, i, w)
  PROVE  Says(m, i, w)'
BY OpenBefore DEF Says

LEMMA PlainLater ==
  ASSUME Grows, NEW i, NEW w, Plain(i, w)
  PROVE  Plain(i, w)'
BY DEF Grows, Plain

LEMMA FacingLater ==
  ASSUME TypeOK, TypeOK', SlackFace, Proceeds, Grows, fresh' >= fresh,
         NEW i \in WorkId, NEW w, Facing(i, w)
  PROVE  Facing(i, w)'
<1>1. fresh \in Nat /\ fresh' \in Nat /\ i[2] \in Nat
  BY DEF TypeOK, WorkId
<1>2. ASSUME w.kind = "update"
      PROVE  /\ w.ts \in DOMAIN slack' /\ slack'[w.ts].id = slack[w.ts].id
             /\ IF IsParent(i) THEN slack'[w.ts].id = i
                ELSE slack'[w.ts].id[1] = "parent" /\ ~OpenCard(slack[w.ts].id)'
  <2>1. w.ts \in DOMAIN slack
    BY <1>2 DEF Facing
  <2>2. w.ts \in DOMAIN slack' /\ slack'[w.ts].id = slack[w.ts].id
    BY <2>1 DEF Grows
  <2>3. PICK k : k = slack[w.ts].id
    OBVIOUS
  <2>4. CASE IsParent(i)
    BY <1>2, <2>2, <2>4 DEF Facing
  <2>5. CASE ~IsParent(i)
    <3>1. IsCard(w.ts) /\ ~OpenCard(k)
      BY <1>2, <2>3, <2>5 DEF Facing
    <3>2. k[2] < fresh /\ k[1] = "parent"
      BY <2>1, <2>3, <3>1 DEF SlackFace, IsCard
    <3>3. k \in WorkId /\ k[2] \in Nat
      <4>1. slack[w.ts] \in SlackMessage
        BY <2>1 DEF TypeOK
      <4> QED BY <2>3, <4>1 DEF SlackMessage, WorkId
    <3>4. k[2] # fresh
      BY <1>1, <3>2, <3>3
    <3>5. ~OpenCard(k)'
      BY <3>1, <3>4, OpenCardBefore
    <3>6. slack'[w.ts].id = k
      BY <2>2, <2>3
    <3> QED BY <2>2, <2>5, <3>2, <3>5, <3>6
  <2> QED BY <2>4, <2>5
<1>3. ~IsParent(i) => w.kind = "update" /\ w.text = "closed" /\ i[2] < fresh'
  BY <1>1 DEF Facing
<1> QED BY <1>2, <1>3 DEF Facing, IsCard

LEMMA AimedLater ==
  ASSUME TypeOK, TypeOK', SlackFace, Proceeds, Grows, fresh' >= fresh,
         NEW i \in WorkId, NEW w, Aimed(i, w)
  PROVE  Aimed(i, w)'
BY PlainLater, FacingLater DEF Aimed

-----------------------------------------------------------------------------
(* The writers: they leave the worker and the messages alone.                *)

LEMMA HeldFields ==
  ASSUME TypeOK, worker.pc # "idle"
  PROVE  worker.id \in WorkId /\ worker.id[2] \in Nat /\ worker.work \in Work
<1>1. worker \in WorkerRecord
  BY DEF TypeOK
<1>2. worker.id \in WorkId /\ worker.work \in Work
  BY <1>1 DEF WorkerRecord, Idle
<1> QED BY <1>2 DEF WorkId

\* What the worker holds was drawn before.
LEMMA HeldDrawn ==
  ASSUME TypeOK, Cards, Face, worker.pc # "idle", worker.id[1] \in CardWork
  PROVE  worker.id[2] # fresh /\ worker.id[2] < fresh
<1>1. worker.id[2] \in Nat /\ fresh \in Nat
  BY HeldFields DEF TypeOK
<1>2. CASE IsParent(worker.id)
  BY <1>1, <1>2 DEF Cards, HeldOf
<1>3. CASE ~IsParent(worker.id)
  <2>1. Facing(worker.id, worker.work)
    BY DEF Face, HeldFace, Aimed
  <2> QED BY <1>1, <1>3, <2>1 DEF Facing
<1> QED BY <1>2, <1>3

\* The same of an entry that is queued.
LEMMA EntryDrawn ==
  ASSUME TypeOK, Cards, Face, NEW i \in DOMAIN outbox.work, i[1] \in CardWork
  PROVE  i \in WorkId /\ i[2] \in Nat /\ i[2] # fresh /\ i[2] < fresh
<1>1. i \in WorkId /\ i[2] \in Nat /\ fresh \in Nat
  BY PostFacts
<1>2. CASE IsParent(i)
  <2>1. FitAt(outbox, fresh, i)
    BY DEF Cards, Fit
  <2>2. i[2] < fresh
    BY <1>2, <2>1 DEF FitAt
  <2> QED BY <1>1, <2>2
<1>3. CASE ~IsParent(i)
  <2>1. Facing(i, outbox.work[i])
    BY DEF Face, EntriesFace, Aimed
  <2> QED BY <1>1, <1>3, <2>1 DEF Facing
<1> QED BY <1>1, <1>2, <1>3

LEMMA HeldLater ==
  ASSUME TypeOK, TypeOK', Cards, Face, Proceeds, slack' = slack, worker' = worker,
         fresh' >= fresh,
         worker.pc # "idle" =>
           \A g \in Group : IsOpen(group'[g]) /\ ParentId(group'[g]) = worker.id =>
             worker.id \in DOMAIN outbox'.work,
         worker.pc # "idle" /\ worker.id \in DOMAIN outbox'.work /\ worker.id[1] \in CardWork =>
           Since(worker.work, outbox'.work[worker.id])
  PROVE  HeldFace'
<1> SUFFICES ASSUME worker.pc # "idle" PROVE HeldFace'
  BY DEF HeldFace
<1>0. PICK i \in WorkId, w \in Work : i = worker.id /\ w = worker.work
  BY HeldFields
<1>1. /\ Aimed(i, w)
      /\ \A g \in Group : IsOpen(group[g]) /\ ParentId(group[g]) = i =>
           w.text = "render" /\ w.group = g /\ i \in DOMAIN outbox.work
      /\ worker.pc = "picked" => Says(worker.content, i, w)
      /\ Sent({"missing"}) => ~Live(w.ts)
      /\ Sent({"ok", "lost"}) /\ w.kind = "post" =>
           /\ worker.ts \in DOMAIN slack /\ slack[worker.ts].id = i
           /\ Says(slack[worker.ts], i, w)
      /\ Sent({"ok", "lost"}) /\ w.kind = "update" => Says(slack[w.ts], i, w)
  BY <1>0 DEF Face, HeldFace
<1>2. Grows
  BY DEF Grows
<1>3. Aimed(i, w)'
  BY <1>1, <1>2, AimedLater DEF Face
<1>4. ASSUME NEW m, Says(m, i, w) PROVE Says(m, i, w)'
  <2>1. CASE i[1] \in CardWork
    <3>1. i[2] # fresh
      BY <1>0, <2>1, HeldDrawn
    <3> QED BY <1>4, <3>1, SaysLater
  <2>2. CASE i[1] \notin CardWork
    <3>1. \A g \in Group : ParentId(group'[g]) # i
      BY <2>2 DEF ParentId, CardWork
    <3> QED BY <1>4, <3>1 DEF Says
  <2> QED BY <2>1, <2>2
<1>5. ASSUME NEW g \in Group, IsOpen(group'[g]), ParentId(group'[g]) = i
      PROVE  w.text = "render" /\ w.group = g /\ i \in DOMAIN outbox'.work
  <2>1. i[1] \in CardWork
    BY <1>5 DEF ParentId, CardWork
  <2>2. i[2] # fresh
    BY <1>0, <2>1, HeldDrawn
  <2>3. IsOpen(group[g]) /\ ParentId(group[g]) = i
    BY <1>5, <2>2, OpenBefore
  <2> QED BY <1>0, <1>1, <1>5, <2>3
<1>6. /\ worker.pc = "picked" => Says(worker.content, i, w)'
      /\ Sent({"ok", "lost"}) /\ w.kind = "post" => Says(slack[worker.ts], i, w)'
      /\ Sent({"ok", "lost"}) /\ w.kind = "update" => Says(slack[w.ts], i, w)'
  <2>1. ASSUME NEW m, m = worker.content, Says(m, i, w) PROVE Says(worker.content, i, w)'
    <3>1. Says(m, i, w)'
      BY <1>4, <2>1
    <3> QED BY <2>1, <3>1
  <2>2. ASSUME NEW m, m = slack[worker.ts], Says(m, i, w) PROVE Says(slack[worker.ts], i, w)'
    <3>1. Says(m, i, w)'
      BY <1>4, <2>2
    <3> QED BY <2>2, <3>1
  <2>3. ASSUME NEW m, m = slack[w.ts], Says(m, i, w) PROVE Says(slack[w.ts], i, w)'
    <3>1. Says(m, i, w)'
      BY <1>4, <2>3
    <3> QED BY <2>3, <3>1
  <2> QED BY <1>1, <2>1, <2>2, <2>3
<1>7. /\ Sent({"missing"})' <=> Sent({"missing"})
      /\ Sent({"ok", "lost"})' <=> Sent({"ok", "lost"})
      /\ Live(w.ts)' <=> Live(w.ts)
  BY DEF Sent, Live
<1>8. /\ worker.id' = i /\ worker.work' = w
      /\ i \in DOMAIN outbox'.work /\ i[1] \in CardWork => Since(w, outbox'.work[i])
  BY <1>0
<1> QED BY <1>0, <1>1, <1>3, <1>5, <1>6, <1>7, <1>8 DEF HeldFace

\* The groups whose cards are not among ps stay open as they were.
Remain(ps) ==
  \A g \in Group : IsOpen(group[g]) /\ ParentId(group[g]) \notin ps =>
    /\ IsOpen(group'[g]) /\ ParentId(group'[g]) = ParentId(group[g])
    /\ group'[g].parent.ts = group[g].parent.ts

LEMMA EntryKept ==
  ASSUME TypeOK, TypeOK', Face, Proceeds, Grows, fresh' >= fresh, NEW ps,
         Edits(outbox, outbox', ps), NEW i \in DOMAIN outbox'.work, i \notin ps,
         NEW v, v = outbox'.work[i]
  PROVE  Aimed(i, v)'
<1>1. i \in WorkId
  BY DEF TypeOK, OutboxOK
<1>2. Aimed(i, v)
  <2>1. CASE i \in DOMAIN outbox.work /\ v = outbox.work[i]
    BY <2>1 DEF Face, EntriesFace
  <2>2. CASE ~(i \in DOMAIN outbox.work /\ v = outbox.work[i])
    BY <1>1, <2>2 DEF Edits, Aimed
  <2> QED BY <2>1, <2>2
<1> QED BY <1>1, <1>2, AimedLater DEF Face

LEMMA OwnedKept ==
  ASSUME TypeOK, TypeOK', Cards, Face, Proceeds, Grows, NEW ps, Remain(ps),
         Edits(outbox, outbox', ps), NEW i \in DOMAIN outbox'.work, i \notin ps, IsParent(i),
         NEW v, v = outbox'.work[i]
  PROVE  Owned(i, v)'
<1>1. i \in WorkId /\ i[1] \in CardWork
  BY DEF TypeOK, OutboxOK, IsParent, CardWork
<1>2. i \in DOMAIN outbox.work /\ v = outbox.work[i]
  BY <1>1 DEF Edits
<1>3. Owned(i, v)
  BY <1>2 DEF Face, EntriesFace
<1>4. i[2] # fresh
  BY <1>1, <1>2, EntryDrawn
<1>5. OpenCard(i)' <=> OpenCard(i)
  <2>1. OpenCard(i)' => OpenCard(i)
    BY <1>4, OpenCardBefore
  <2>2. OpenCard(i) => OpenCard(i)'
    BY DEF OpenCard, Remain
  <2> QED BY <2>1, <2>2
<1>6. Mistaken(i[2]) => Mistaken(i[2])'
  BY MistakenLater
<1> QED BY <1>3, <1>5, <1>6 DEF Owned

LEMMA EntriesLater ==
  ASSUME TypeOK, TypeOK', Cards, Face, Proceeds, Grows, fresh' >= fresh, NEW ps, Remain(ps),
         Edits(outbox, outbox', ps),
         \A v : \A i \in ps : i \in DOMAIN outbox'.work /\ v = outbox'.work[i] =>
           Aimed(i, v)' /\ (IsParent(i) => Owned(i, v)')
  PROVE  EntriesFace'
<1> SUFFICES ASSUME NEW i \in DOMAIN outbox'.work
             PROVE  Aimed(i, outbox.work[i])' /\ (IsParent(i) => Owned(i, outbox.work[i])')
  BY DEF EntriesFace
<1>1. PICK v : v = outbox'.work[i]
  OBVIOUS
<1>2. Aimed(i, v)' /\ (IsParent(i) => Owned(i, v)')
  <2>1. CASE i \in ps
    BY <1>1, <2>1
  <2>2. CASE i \notin ps
    BY <1>1, <2>2, EntryKept, OwnedKept
  <2> QED BY <2>1, <2>2
<1> QED BY <1>1, <1>2

LEMMA GroupLater ==
  ASSUME TypeOK, TypeOK', NEW g \in Group, GroupFace(g), group'[g].ep = group[g].ep,
         group'[g].parent = group[g].parent, group'[g].list = group[g].list,
         slack' = slack, worker' = worker, fresh' >= fresh,
         IsOpen(group[g]) =>
           /\ <<"closeParent", group[g].ep, 0>> \notin DOMAIN outbox'.work
           /\ ParentId(group[g]) \notin DOMAIN outbox'.work =>
                ParentId(group[g]) \notin DOMAIN outbox.work
           /\ \A h \in Group \ {g} : group'[h].ep # group[g].ep
  PROVE  GroupFace(g)'
<1>1. fresh \in Nat /\ fresh' \in Nat /\ group[g].ep \in Nat
  BY DEF TypeOK, GroupRecord
<1>2. group[g].ep < fresh'
  BY <1>1 DEF GroupFace
<1>3. IsOpen(group[g]) /\ group[g].parent.ts # 0 => ShowsCard(group[g])'
  BY DEF GroupFace, ShowsCard, ParentId
<1>4. IsOpen(group'[g]) <=> IsOpen(group[g])
  BY DEF IsOpen
<1> QED BY <1>2, <1>3, <1>4 DEF GroupFace

LEMMA SlackLater ==
  ASSUME TypeOK, TypeOK', Face, fresh' >= fresh, slack' = slack, NEW ps, Remain(ps),
         Edits(outbox, outbox', ps),
         \A i \in ps : i \in DOMAIN outbox.work => outbox.work[i].text # "closed",
         \A g \in Group, t \in DOMAIN slack :
           IsOpen(group[g]) /\ ParentId(group[g]) \in ps /\ group[g].parent.ts = t
             => Accounted(t)'
  PROVE  SlackFace'
<1> SUFFICES ASSUME NEW t \in DOMAIN slack, IsCard(t)
             PROVE  /\ slack[t].id[2] < fresh'
                    /\ slack[t].live /\ slack[t].recorded => Accounted(t)'
  BY DEF SlackFace, IsCard
<1>1. slack[t].id[2] < fresh /\ (slack[t].live /\ slack[t].recorded => Accounted(t))
  BY DEF Face, SlackFace
<1>2. slack[t].id[2] \in Nat /\ fresh \in Nat /\ fresh' \in Nat
  <2>1. slack[t] \in SlackMessage
    BY DEF TypeOK
  <2> QED BY <2>1 DEF SlackMessage, WorkId, TypeOK
<1>3. ASSUME Accounted(t) PROVE Accounted(t)'
  <2>1. ASSUME NEW g \in Group, IsOpen(group[g]), group[g].parent.ts = t PROVE Accounted(t)'
    <3>1. CASE ParentId(group[g]) \in ps
      BY <2>1, <3>1
    <3>2. CASE ParentId(group[g]) \notin ps
      BY <2>1, <3>2 DEF Remain, Accounted
    <3> QED BY <3>1, <3>2
  <2>2. ASSUME NEW i \in DOMAIN outbox.work, outbox.work[i].ts = t,
               outbox.work[i].text = "closed"
        PROVE  Accounted(t)'
    <3>1. i[1] \in CardWork
      BY <2>2 DEF Face, EntriesFace, Aimed, Plain
    <3>2. i \notin ps /\ i \in WorkId
      BY <2>2 DEF TypeOK, OutboxOK
    <3>3. i \in DOMAIN outbox'.work /\ outbox'.work[i] = outbox.work[i]
      BY <3>1, <3>2 DEF Edits
    <3> QED BY <2>2, <3>3 DEF Accounted
  <2>3. CASE slack[t].text = "closed" \/ Mistaken(slack[t].id[2])
    BY <2>3 DEF Accounted, Mistaken
  <2> QED BY <1>3, <2>1, <2>2, <2>3 DEF Accounted
<1> QED BY <1>1, <1>2, <1>3

\* What a writer leaves of a card's entry, and of the groups: all is of the episode that it
\* was of, or of a new one.
Rewritten(i, v) ==
  \/ /\ i \in DOMAIN outbox.work
     /\ v.kind = outbox.work[i].kind /\ v.ts = outbox.work[i].ts /\ v.ep = outbox.work[i].ep
  \/ \E h \in Group : LET gr == group[h] IN
       /\ IsOpen(gr) /\ v.ep = gr.ep /\ v.ts = gr.parent.ts
       /\ v.kind = IF gr.parent.ts = 0 THEN "post" ELSE "update"
       /\ IsParent(i) => i = ParentId(gr)
       /\ ~IsParent(i) => v.kind = "update"
  \/ i = <<"parent", fresh, 0>> /\ v.kind = "post" /\ v.ep = fresh /\ fresh' > fresh

Written ==
  /\ slack' = slack /\ worker' = worker /\ fresh' >= fresh
  /\ \A h \in Group : IsOpen(group'[h]) =>
       \/ /\ IsOpen(group[h]) /\ group'[h].parent.post = group[h].parent.post
          /\ group'[h].parent.ts = group[h].parent.ts /\ group'[h].ep = group[h].ep
       \/ /\ group'[h].parent.post = fresh /\ group'[h].parent.ts = 0
          /\ group'[h].ep = fresh /\ fresh' > fresh
  /\ \A i \in DOMAIN outbox'.work : i[1] \in CardWork => Rewritten(i, outbox'.work[i])

LEMMA RefreshWritten ==
  ASSUME TypeOK, TypeOK', NEW g \in Group,
         slack' = slack, worker' = worker, fresh' >= fresh,
         \A h \in Group \ {g} : group'[h] = group[h],
         IsOpen(group'[g]), Queued(outbox', group'[g]),
         Edits(outbox, outbox', {ParentId(group'[g])}),
         \/ /\ IsOpen(group[g]) /\ group'[g].parent.post = group[g].parent.post
            /\ group'[g].parent.ts = group[g].parent.ts /\ group'[g].ep = group[g].ep
            /\ group'[g].parent.rev >= group[g].parent.rev
         \/ /\ ~IsOpen(group[g]) /\ group'[g].parent.post = fresh /\ group'[g].ep = fresh
            /\ group'[g].parent.ts = 0 /\ fresh' > fresh
  PROVE  Written
<1>0. PICK p : p = ParentId(group'[g])
  OBVIOUS
<1>1. IsParent(p) /\ DOMAIN outbox'.work \subseteq WorkId
  BY <1>0 DEF ParentId, IsParent, TypeOK, OutboxOK
<1>2. ASSUME NEW i \in DOMAIN outbox'.work, i[1] \in CardWork, i # p
      PROVE  Rewritten(i, outbox'.work[i])
  BY <1>0, <1>1, <1>2 DEF Edits, Rewritten
<1>3. Rewritten(p, outbox'.work[p])
  <2>1. /\ outbox'.work[p].ts = group'[g].parent.ts /\ outbox'.work[p].ep = group'[g].ep
        /\ outbox'.work[p].kind = IF group'[g].parent.ts = 0 THEN "post" ELSE "update"
    BY <1>0 DEF Queued
  <2>2. CASE /\ IsOpen(group[g]) /\ group'[g].parent.post = group[g].parent.post
             /\ group'[g].parent.ts = group[g].parent.ts /\ group'[g].ep = group[g].ep
    <3>1. p = ParentId(group[g])
      BY <1>0, <2>2 DEF ParentId
    <3> QED BY <1>1, <2>1, <2>2, <3>1 DEF Rewritten
  <2>3. CASE /\ group'[g].parent.post = fresh /\ group'[g].ep = fresh
             /\ group'[g].parent.ts = 0 /\ fresh' > fresh
    <3>1. p = <<"parent", fresh, 0>>
      BY <1>0, <2>3 DEF ParentId
    <3> QED BY <2>1, <2>3, <3>1 DEF Rewritten
  <2> QED BY <2>2, <2>3
<1> QED BY <1>2, <1>3 DEF Written

\* Notify and ack: the card of a group is rewritten; the group may be a new episode.
LEMMA RefreshFace ==
  ASSUME TypeOK, TypeOK', Cards, Cards', Face, NEW g \in Group,
         slack' = slack, worker' = worker, fresh' >= fresh,
         \A h \in Group \ {g} : group'[h] = group[h],
         IsOpen(group'[g]), Queued(outbox', group'[g]), ListShown(group'[g]),
         Edits(outbox, outbox', {ParentId(group'[g])}),
         \/ /\ IsOpen(group[g]) /\ group'[g].parent.post = group[g].parent.post
            /\ group'[g].parent.ts = group[g].parent.ts /\ group'[g].ep = group[g].ep
            /\ group'[g].parent.rev >= group[g].parent.rev
         \/ /\ ~IsOpen(group[g]) /\ group'[g].parent.post = fresh /\ group'[g].ep = fresh
            /\ group'[g].parent.ts = 0 /\ fresh' > fresh
  PROVE  Face'
<1> DEFINE Stay == /\ IsOpen(group[g]) /\ group'[g].parent.post = group[g].parent.post
                   /\ group'[g].parent.ts = group[g].parent.ts /\ group'[g].ep = group[g].ep
                   /\ group'[g].parent.rev >= group[g].parent.rev
           New == /\ ~IsOpen(group[g]) /\ group'[g].parent.post = fresh
                  /\ group'[g].ep = fresh /\ group'[g].parent.ts = 0 /\ fresh' > fresh
<1>0. PICK p : p = ParentId(group'[g])
  OBVIOUS
<1>1. /\ p \in WorkId /\ IsParent(p) /\ p[1] \in CardWork /\ p[2] = group'[g].parent.post
      /\ fresh \in Nat /\ fresh' \in Nat
      /\ \A h \in Group : group'[h] \in GroupRecord /\ group[h] \in GroupRecord
                          /\ group[h].ep \in Nat /\ group'[h].ep \in Nat
  <2>1. /\ fresh \in Nat /\ fresh' \in Nat
        /\ \A h \in Group : group'[h] \in GroupRecord /\ group[h] \in GroupRecord
    BY DEF TypeOK
  <2> QED BY <1>0, <2>1, ParentIdFacts DEF IsParent, CardWork
<1>2. Stay \/ New
  OBVIOUS
<1>3. /\ Stay => p = ParentId(group[g])
      /\ New => p[2] = fresh
  BY <1>0, <1>1 DEF ParentId
<1> HIDE DEF New
<1>4. Proceeds /\ Grows
  <2>1. ASSUME NEW h \in Group, IsOpen(group'[h])
        PROVE  \/ group'[h].parent.post = fresh
               \/ /\ IsOpen(group[h]) /\ group'[h].parent.post = group[h].parent.post
                  /\ group'[h].ep = group[h].ep
    BY <1>2, <2>1 DEF New
  <2> QED BY <2>1 DEF Proceeds, Grows
<1>5. Remain({p})
  <2> SUFFICES ASSUME NEW h \in Group, IsOpen(group[h]), ParentId(group[h]) # p
               PROVE  group'[h] = group[h]
    BY DEF Remain
  <2>1. h # g
    BY <1>2, <1>3 DEF New
  <2> QED BY <2>1
<1>6. /\ p \in DOMAIN outbox'.work /\ outbox'.work[p].object = "parent"
      /\ outbox'.work[p].text = "render" /\ outbox'.work[p].ts = group'[g].parent.ts
      /\ outbox'.work[p].kind = IF group'[g].parent.ts = 0 THEN "post" ELSE "update"
      /\ outbox'.work[p].rev = group'[g].parent.rev
  BY <1>0 DEF Queued, Cards, CardIn
<1>7. ASSUME Stay, group[g].parent.ts # 0
      PROVE  /\ group[g].parent.ts \in DOMAIN slack /\ slack[group[g].parent.ts].id = p
             /\ slack[group[g].parent.ts].text = "card"
             /\ slack[group[g].parent.ts].ep = group[g].ep
  BY <1>3, <1>7 DEF Face, GroupFace, ShowsCard
<1>8. ASSUME NEW v, v = outbox'.work[p] PROVE Aimed(p, v)' /\ Owned(p, v)'
  <2>1. OpenCard(p)'
    BY <1>0 DEF OpenCard
  <2>2. Owned(p, v)'
    BY <1>6, <1>8, <2>1 DEF Owned
  <2>3. v.kind = "update" => v.ts \in DOMAIN slack /\ slack[v.ts].id = p
    BY <1>2, <1>6, <1>7, <1>8 DEF New
  <2>4. Facing(p, v)'
    BY <1>1, <1>6, <1>8, <2>3 DEF Facing
  <2> QED BY <1>1, <2>2, <2>4 DEF Aimed
<1>9. Edits(outbox, outbox', {p})
  BY <1>0
<1>10. EntriesFace'
  BY <1>4, <1>5, <1>8, <1>9, EntriesLater
<1>11. ASSUME NEW i \in WorkId, i[1] \in CardWork, i # p
       PROVE  /\ i \in DOMAIN outbox.work <=> i \in DOMAIN outbox'.work
              /\ i \in DOMAIN outbox.work => outbox'.work[i] = outbox.work[i]
  BY <1>9, <1>11 DEF Edits
<1>12. HeldFace'
  <2>1. ASSUME worker.pc # "idle", NEW h \in Group, IsOpen(group'[h]),
               ParentId(group'[h]) = worker.id
        PROVE  worker.id \in DOMAIN outbox'.work
    <3>1. CASE worker.id = p
      BY <1>6, <3>1
    <3>2. CASE worker.id # p
      <4>1. worker.id \in WorkId /\ worker.id[1] \in CardWork
        BY <2>1, HeldFields DEF ParentId, CardWork
      <4>2. IsOpen(group[h]) /\ ParentId(group[h]) = worker.id
        BY <1>0, <2>1, <3>2
      <4>3. worker.id \in DOMAIN outbox.work
        BY <2>1, <4>2 DEF Face, HeldFace
      <4> QED BY <1>11, <3>2, <4>1, <4>3
    <3> QED BY <3>1, <3>2
  <2>2. ASSUME worker.pc # "idle", worker.id \in DOMAIN outbox'.work,
               worker.id[1] \in CardWork
        PROVE  Since(worker.work, outbox'.work[worker.id])
    <3>0. worker.id \in WorkId
      BY <2>2, HeldFields
    <3>1. CASE worker.id # p
      <4>1. worker.id \in DOMAIN outbox.work
            /\ outbox'.work[worker.id] = outbox.work[worker.id]
        BY <1>11, <2>2, <3>0, <3>1
      <4> QED BY <2>2, <4>1 DEF Face, HeldFace
    <3>2. CASE worker.id = p
      <4>1. Stay
        BY <1>2, <1>3, <2>2, <3>2, HeldDrawn
      <4>2. worker.work.text = "render" /\ p \in DOMAIN outbox.work
        BY <1>3, <2>2, <3>2, <4>1 DEF Face, HeldFace
      <4>3. Since(worker.work, outbox.work[p])
        BY <2>2, <3>2, <4>2 DEF Face, HeldFace
      <4>4. /\ outbox.work[p].rev = group[g].parent.rev
            /\ outbox.work[p].ts = group[g].parent.ts
            /\ outbox.work[p].kind = IF group[g].parent.ts = 0 THEN "post" ELSE "update"
        BY <1>3, <4>1, <4>2 DEF Cards, CardIn
      <4>5. worker.work.rev \in Nat /\ group[g].parent.rev \in Nat
            /\ group'[g].parent.rev \in Nat
        <5>1. worker.work \in Work
          BY <2>2, HeldFields
        <5> QED BY <1>1, <5>1, ParentIdFacts DEF Work
      <4>6. /\ outbox'.work[p].kind = outbox.work[p].kind
            /\ outbox'.work[p].ts = outbox.work[p].ts
            /\ outbox'.work[p].text = worker.work.text
            /\ outbox'.work[p].rev >= outbox.work[p].rev
        BY <1>6, <4>1, <4>2, <4>4
      <4>7. outbox'.work[p].rev >= worker.work.rev
        BY <1>6, <4>3, <4>4, <4>5, <4>6 DEF Since
      <4> QED BY <3>2, <4>3, <4>6, <4>7 DEF Since
    <3> QED BY <3>1, <3>2
  <2> QED BY <1>4, <2>1, <2>2, HeldLater
<1>13. ASSUME NEW h \in Group PROVE group'[h].ep < fresh' /\ group[h].ep < fresh
  <2>1. group[h].ep < fresh
    BY DEF Face, GroupFace
  <2>2. CASE h # g
    BY <1>1, <2>1, <2>2
  <2>3. CASE h = g
    BY <1>1, <1>2, <2>1, <2>3 DEF New
  <2> QED BY <2>1, <2>2, <2>3
<1>14. ASSUME NEW h \in Group \ {g} PROVE GroupFace(h)'
  <2>1. GroupFace(h)
    BY DEF Face
  <2>2. ASSUME IsOpen(group[h])
        PROVE  /\ <<"closeParent", group[h].ep, 0>> \notin DOMAIN outbox'.work
               /\ ParentId(group[h]) \notin DOMAIN outbox'.work =>
                    ParentId(group[h]) \notin DOMAIN outbox.work
               /\ \A k \in Group \ {h} : group'[k].ep # group[h].ep
    <3>1. PICK c : c = <<"closeParent", group[h].ep, 0>>
      OBVIOUS
    <3>2. c \in WorkId /\ c[1] \in CardWork /\ c # p
      BY <1>1, <3>1 DEF WorkId, WorkName, CardWork, IsParent
    <3>3. c \notin DOMAIN outbox'.work
      BY <1>11, <2>1, <2>2, <3>1, <3>2 DEF GroupFace
    <3>4. ParentId(group[h]) \in WorkId /\ ParentId(group[h])[1] \in CardWork
      BY <1>1, ParentIdFacts DEF IsParent, CardWork
    <3>5. ParentId(group[h]) \notin DOMAIN outbox'.work =>
            ParentId(group[h]) \notin DOMAIN outbox.work
      BY <1>6, <1>11, <3>4
    <3>6. \A k \in Group \ {h} : group'[k].ep # group[h].ep
      <4>1. \A k \in Group \ {h} : group[k].ep # group[h].ep
        BY <2>1, <2>2 DEF GroupFace
      <4>2. group'[g].ep # group[h].ep
        <5>1. Stay => group'[g].ep # group[h].ep
          BY <4>1
        <5>2. New => group'[g].ep = fresh
          BY DEF New
        <5>3. group[h].ep # fresh
          BY <1>1, <1>13
        <5> QED BY <1>2, <5>1, <5>2, <5>3
      <4> QED BY <4>1, <4>2
    <3> QED BY <3>1, <3>3, <3>5, <3>6
  <2> QED BY <2>1, <2>2, GroupLater
<1>15. GroupFace(g)'
  <2>1. GroupFace(g)
    BY DEF Face
  <2>2. PICK c : c = <<"closeParent", group'[g].ep, 0>>
    OBVIOUS
  <2>3. c \in WorkId /\ c[1] \in CardWork /\ c # p /\ c[2] = group'[g].ep
    BY <1>1, <2>2 DEF WorkId, WorkName, CardWork, IsParent
  <2>4. c \notin DOMAIN outbox.work /\ (worker.pc # "idle" => worker.id # c)
    <3>1. CASE Stay
      BY <2>1, <2>2, <3>1 DEF GroupFace
    <3>2. CASE New
      <4>1. c[2] = fresh
        BY <2>3, <3>2 DEF New
      <4> QED BY <2>3, <4>1, EntryDrawn, HeldDrawn
    <3> QED BY <1>2, <3>1, <3>2
  <2>5. c \notin DOMAIN outbox'.work
    BY <1>11, <2>3, <2>4
  <2>6. group'[g].ep # 0
    <3>1. fresh > 0
      BY DEF Cards, Drawn
    <3>2. Stay => group'[g].ep # 0
      BY <2>1 DEF GroupFace
    <3> QED BY <1>1, <1>2, <3>1, <3>2 DEF New
  <2>7. \A k \in Group \ {g} : group'[k].ep # group'[g].ep
    <3> SUFFICES ASSUME NEW k \in Group \ {g} PROVE group[k].ep # group'[g].ep
      OBVIOUS
    <3>1. Stay => group[k].ep # group'[g].ep
      BY <2>1 DEF GroupFace
    <3>2. New => group[k].ep # group'[g].ep
      BY <1>1, <1>13 DEF New
    <3> QED BY <1>2, <3>1, <3>2
  <2>8. group'[g].parent.ts # 0 => ShowsCard(group[g])'
    <3>1. ASSUME group'[g].parent.ts # 0
          PROVE  Stay /\ group[g].parent.ts = group'[g].parent.ts
      BY <1>2, <3>1 DEF New
    <3> QED BY <1>0, <1>6, <1>7, <3>1 DEF ShowsCard
  <2>9. /\ group'[g].list.ts # 0 => /\ group'[g].list.ts \in DOMAIN slack'
                                    /\ slack'[group'[g].list.ts].id[1] = "memberList"
        /\ group'[g].ep < fresh'
    BY <1>13 DEF ListShown
  <2> HIDE DEF Stay
  <2> QED BY <2>2, <2>4, <2>5, <2>6, <2>7, <2>8, <2>9 DEF GroupFace
<1>16. SlackFace'
  <2>1. p \in DOMAIN outbox.work => outbox.work[p].text # "closed"
    <3>1. ASSUME p \in DOMAIN outbox.work PROVE Stay
      BY <1>1, <1>2, <1>3, <3>1, EntryDrawn
    <3>2. Stay => OpenCard(p)
      BY <1>3 DEF OpenCard
    <3>3. p \in DOMAIN outbox.work => Owned(p, outbox.work[p])
      BY <1>1 DEF Face, EntriesFace
    <3> QED BY <3>1, <3>2, <3>3 DEF Owned
  <2>2. ASSUME NEW h \in Group, NEW t \in DOMAIN slack, IsOpen(group[h]),
               ParentId(group[h]) \in {p}, group[h].parent.ts = t
        PROVE  Accounted(t)'
    <3>1. CASE h = g
      <4>1. Stay
        BY <1>2, <2>2, <3>1 DEF New
      <4> QED BY <2>2, <3>1, <4>1 DEF Accounted
    <3>2. CASE h # g
      BY <2>2, <3>2 DEF Accounted
    <3> QED BY <3>1, <3>2
  <2> QED BY <1>5, <1>9, <2>1, <2>2, SlackLater
<1>17. ASSUME NEW h \in Group PROVE GroupFace(h)'
  BY <1>14, <1>15
<1> QED BY <1>10, <1>12, <1>16, <1>17 DEF Face

\* The entries of gr's card and close-out once its episode is closed.
ClosedOut(new, gr) ==
  LET p == ParentId(gr)
      c == <<"closeParent", gr.ep, 0>>
  IN IF gr.parent.ts # 0
     THEN /\ p \notin DOMAIN new.work /\ c \in DOMAIN new.work
          /\ new.work[c].object = "eventReply" /\ new.work[c].kind = "update"
          /\ new.work[c].ts = gr.parent.ts /\ new.work[c].text = "closed"
          /\ new.work[c].ep = gr.ep
     ELSE /\ p \in DOMAIN new.work /\ c \notin DOMAIN new.work
          /\ new.work[p].object = "parent" /\ new.work[p].kind = "post"
          /\ new.work[p].ts = 0 /\ new.work[p].text = "closed"
          /\ new.work[p].rev > gr.parent.rev

LEMMA ClosesOut ==
  ASSUME NEW ob, NEW new, NEW g, NEW gr \in GroupRecord, IsOpen(gr), CardIn(ob, g, gr),
         Closes(ob, new, gr),
         ParentId(gr) \in DOMAIN ob.work => ob.work[ParentId(gr)].object = "parent",
         <<"closeParent", gr.ep, 0>> \notin DOMAIN ob.work
  PROVE  ClosedOut(new, gr)
<1>1. gr.parent.rev \in Nat
  BY ParentIdFacts
<1>2. CASE gr.parent.ts # 0
  BY <1>2 DEF Closes, ClosedOut
<1>3. CASE gr.parent.ts = 0
  BY <1>1, <1>3 DEF Closes, ClosedOut, CardIn
<1> QED BY <1>2, <1>3

LEMMA CloseWritten ==
  ASSUME TypeOK, TypeOK', NEW g \in Group,
         slack' = slack, worker' = worker, fresh' >= fresh,
         \A h \in Group \ {g} : group'[h] = group[h],
         IsOpen(group[g]), ~IsOpen(group'[g]),
         NEW gr \in GroupRecord, ClosedOut(outbox', gr), gr.ep = group[g].ep,
         gr.parent.post = group[g].parent.post, gr.parent.ts = group[g].parent.ts,
         Edits(outbox, outbox', {ParentId(gr), <<"closeParent", gr.ep, 0>>}),
         ParentId(gr) \in DOMAIN outbox'.work =>
           \/ outbox'.work[ParentId(gr)].ep = gr.ep
           \/ /\ ParentId(gr) \in DOMAIN outbox.work
              /\ outbox'.work[ParentId(gr)].kind = outbox.work[ParentId(gr)].kind
              /\ outbox'.work[ParentId(gr)].ts = outbox.work[ParentId(gr)].ts
              /\ outbox'.work[ParentId(gr)].ep = outbox.work[ParentId(gr)].ep
  PROVE  Written
<1>0. PICK p, c : p = ParentId(gr) /\ c = <<"closeParent", gr.ep, 0>>
  OBVIOUS
<1>1. IsParent(p) /\ ~IsParent(c) /\ p = ParentId(group[g]) /\ DOMAIN outbox'.work \subseteq WorkId
  BY <1>0 DEF ParentId, IsParent, TypeOK, OutboxOK
<1>2. ASSUME NEW i \in DOMAIN outbox'.work, i[1] \in CardWork, i \notin {p, c}
      PROVE  Rewritten(i, outbox'.work[i])
  BY <1>0, <1>1, <1>2 DEF Edits, Rewritten
<1>3. p \in DOMAIN outbox'.work => Rewritten(p, outbox'.work[p])
  BY <1>0, <1>1 DEF ClosedOut, Rewritten
<1>4. c \in DOMAIN outbox'.work => Rewritten(c, outbox'.work[c])
  BY <1>0, <1>1 DEF ClosedOut, Rewritten
<1> QED BY <1>2, <1>3, <1>4 DEF Written

\* closeEpisode, by the webhook, a finished silence or the sweeper.
LEMMA CloseFace ==
  ASSUME TypeOK, TypeOK', Cards, Cards', Face, NEW g \in Group,
         slack' = slack, worker' = worker, fresh' >= fresh,
         \A h \in Group \ {g} : group'[h] = group[h],
         IsOpen(group[g]), ~IsOpen(group'[g]), group'[g].ep = group[g].ep,
         ListShown(group'[g]),
         NEW gr \in GroupRecord, ClosedOut(outbox', gr), gr.ep = group[g].ep,
         gr.parent.post = group[g].parent.post, gr.parent.ts = group[g].parent.ts,
         gr.parent.rev >= group[g].parent.rev,
         Edits(outbox, outbox', {ParentId(gr), <<"closeParent", gr.ep, 0>>})
  PROVE  Face'
<1>0. PICK p, c : p = ParentId(gr) /\ c = <<"closeParent", gr.ep, 0>>
  OBVIOUS
<1>1. /\ p \in WorkId /\ IsParent(p) /\ p[1] \in CardWork /\ p = ParentId(group[g])
      /\ c \in WorkId /\ ~IsParent(c) /\ c[1] \in CardWork /\ c[2] = gr.ep /\ c # p
      /\ gr.parent.rev \in Nat /\ gr.ep \in Nat
  <2>1. /\ p \in WorkId /\ IsParent(p) /\ gr.parent.rev \in Nat /\ gr.ep \in Nat
    BY <1>0, ParentIdFacts
  <2>2. p = ParentId(group[g])
    BY <1>0 DEF ParentId
  <2> QED BY <1>0, <2>1, <2>2 DEF WorkId, WorkName, IsParent, CardWork
<1>2. /\ fresh \in Nat /\ fresh' \in Nat
      /\ \A h \in Group : /\ group[h] \in GroupRecord /\ ParentId(group[h]) \in WorkId
                          /\ ParentId(group[h])[1] \in CardWork
                          /\ group[h].ep \in Nat
                          /\ group[h].parent.rev \in Nat
  <2>1. fresh \in Nat /\ fresh' \in Nat /\ \A h \in Group : group[h] \in GroupRecord
    BY DEF TypeOK
  <2> QED BY <2>1, ParentIdFacts DEF IsParent, CardWork
<1>3. \A h \in Group \ {g} : ParentId(group[h]) # p
  <2> SUFFICES ASSUME NEW h \in Group \ {g}, ParentId(group[h]) = p PROVE FALSE
    OBVIOUS
  <2>1. group[h].parent.post = group[g].parent.post
    BY <1>1 DEF ParentId
  <2> QED BY <2>1 DEF Cards, Drawn, IsOpen
<1>4. Proceeds /\ Grows
  <2>1. ASSUME NEW h \in Group, IsOpen(group'[h]) PROVE group'[h] = group[h]
    BY <2>1
  <2> QED BY <2>1 DEF Proceeds, Grows
<1>5. Remain({p, c})
  BY <1>1 DEF Remain
<1>6. Edits(outbox, outbox', {p, c})
  BY <1>0
<1>7. /\ GroupFace(g) /\ c \notin DOMAIN outbox.work
      /\ worker.pc # "idle" => worker.id # c
      /\ gr.ep < fresh
      /\ gr.parent.ts # 0 => gr.parent.ts \in DOMAIN slack /\ slack[gr.parent.ts].id = p
      /\ \A h \in Group \ {g} : group[h].ep # gr.ep
  BY <1>0, <1>1 DEF Face, GroupFace, ShowsCard
<1>8. ~OpenCard(p)'
  BY <1>3 DEF OpenCard
<1>9. ASSUME NEW v, NEW i \in {p, c}, i \in DOMAIN outbox'.work, v = outbox'.work[i]
      PROVE  Aimed(i, v)' /\ (IsParent(i) => Owned(i, v)')
  <2>1. CASE gr.parent.ts # 0
    <3>1. /\ i = c /\ v.object = "eventReply" /\ v.kind = "update" /\ v.ts = gr.parent.ts
          /\ v.text = "closed"
      BY <1>0, <1>9, <2>1 DEF ClosedOut
    <3>2. /\ v.ts \in DOMAIN slack' /\ slack'[v.ts].id = p /\ c[2] < fresh' /\ p[1] = "parent"
      BY <1>1, <1>2, <1>7, <2>1, <3>1 DEF IsParent
    <3>3. Facing(c, v)'
      BY <1>1, <1>8, <3>1, <3>2 DEF Facing, IsCard
    <3> QED BY <1>1, <3>1, <3>3 DEF Aimed
  <2>2. CASE gr.parent.ts = 0
    <3>1. /\ i = p /\ v.object = "parent" /\ v.kind = "post" /\ v.ts = 0 /\ v.text = "closed"
      BY <1>0, <1>9, <2>2 DEF ClosedOut
    <3>2. Facing(p, v)'
      BY <1>1, <3>1 DEF Facing
    <3>3. Owned(p, v)'
      BY <1>8, <3>1 DEF Owned
    <3> QED BY <1>1, <3>1, <3>2, <3>3 DEF Aimed
  <2> QED BY <2>1, <2>2
<1>10. EntriesFace'
  BY <1>4, <1>5, <1>6, <1>9, EntriesLater
<1>11. ASSUME NEW i \in WorkId, i[1] \in CardWork, i \notin {p, c}
       PROVE  /\ i \in DOMAIN outbox.work <=> i \in DOMAIN outbox'.work
              /\ i \in DOMAIN outbox.work => outbox'.work[i] = outbox.work[i]
  BY <1>6, <1>11 DEF Edits
<1>12. HeldFace'
  <2>1. ASSUME worker.pc # "idle", NEW h \in Group, IsOpen(group'[h]),
               ParentId(group'[h]) = worker.id
        PROVE  worker.id \in DOMAIN outbox'.work
    <3>1. h \in Group \ {g} /\ group'[h] = group[h]
      BY <2>1
    <3>2. worker.id \in WorkId /\ worker.id[1] \in CardWork /\ worker.id # p /\ worker.id # c
      BY <1>2, <1>3, <1>7, <2>1, <3>1
    <3>3. worker.id \in DOMAIN outbox.work
      BY <2>1, <3>1 DEF Face, HeldFace
    <3> QED BY <1>11, <3>2, <3>3
  <2>2. ASSUME worker.pc # "idle", worker.id \in DOMAIN outbox'.work,
               worker.id[1] \in CardWork
        PROVE  Since(worker.work, outbox'.work[worker.id])
    <3>0. worker.id \in WorkId /\ worker.work \in Work /\ worker.id # c
      BY <1>7, <2>2, HeldFields
    <3>1. CASE worker.id # p
      <4>1. worker.id \in DOMAIN outbox.work
            /\ outbox'.work[worker.id] = outbox.work[worker.id]
        BY <1>11, <2>2, <3>0, <3>1
      <4> QED BY <2>2, <4>1 DEF Face, HeldFace
    <3>2. CASE worker.id = p
      <4>1. worker.work.text = "render" /\ p \in DOMAIN outbox.work
        BY <1>1, <2>2, <3>2 DEF Face, HeldFace
      <4>2. Since(worker.work, outbox.work[p])
        BY <2>2, <3>2, <4>1 DEF Face, HeldFace
      <4>3. gr.parent.ts = 0
        BY <1>0, <2>2, <3>2 DEF ClosedOut
      <4>4. /\ outbox.work[p].rev = group[g].parent.rev /\ outbox.work[p].kind = "post"
        BY <1>1, <4>1, <4>3 DEF Cards, CardIn
      <4>5. /\ outbox'.work[p].kind = "post" /\ outbox'.work[p].text = "closed"
            /\ outbox'.work[p].rev > gr.parent.rev
        BY <1>0, <4>3 DEF ClosedOut
      <4>6. worker.work.rev \in Nat /\ outbox'.work[p].rev \in Nat
        BY <2>2, <3>0, <3>2 DEF Work, TypeOK, OutboxOK
      <4>7. outbox'.work[p].rev > worker.work.rev
        <5>1. group[g].parent.rev >= worker.work.rev
          BY <4>2, <4>4 DEF Since
        <5>2. group[g].parent.rev \in Nat
          BY <1>2
        <5> QED BY <1>1, <4>5, <4>6, <5>1, <5>2
      <4>8. worker.work.kind = "post"
        BY <4>2, <4>4 DEF Since
      <4> QED BY <3>2, <4>5, <4>6, <4>7, <4>8 DEF Since
    <3> QED BY <3>1, <3>2
  <2> QED BY <1>4, <2>1, <2>2, HeldLater
<1>13. ASSUME NEW h \in Group PROVE GroupFace(h)'
  <2>1. CASE h = g
    BY <1>2, <1>7, <2>1 DEF GroupFace, ListShown
  <2>2. CASE h # g
    <3>1. GroupFace(h) /\ group'[h] = group[h]
      BY <2>2 DEF Face
    <3>2. ASSUME IsOpen(group[h])
          PROVE  /\ <<"closeParent", group[h].ep, 0>> \notin DOMAIN outbox'.work
                 /\ ParentId(group[h]) \notin DOMAIN outbox'.work =>
                      ParentId(group[h]) \notin DOMAIN outbox.work
                 /\ \A k \in Group \ {h} : group'[k].ep # group[h].ep
      <4>1. PICK d : d = <<"closeParent", group[h].ep, 0>>
        OBVIOUS
      <4>2. d \in WorkId /\ d[1] \in CardWork /\ d \notin {p, c}
        <5>1. group[h].ep # gr.ep
          BY <1>7, <2>2
        <5>2. d \in WorkId /\ d[1] \in CardWork /\ ~IsParent(d)
          BY <1>2, <4>1 DEF WorkId, WorkName, CardWork, IsParent
        <5>3. d[2] = group[h].ep
          BY <4>1
        <5> QED BY <1>1, <5>1, <5>2, <5>3
      <4>3. d \notin DOMAIN outbox'.work
        BY <1>11, <3>1, <3>2, <4>1, <4>2 DEF GroupFace
      <4>4. ParentId(group[h]) \notin {p, c}
        <5>1. IsParent(ParentId(group[h]))
          BY <1>2, ParentIdFacts
        <5> QED BY <1>1, <1>3, <2>2, <5>1
      <4>5. ParentId(group[h]) \notin DOMAIN outbox'.work =>
              ParentId(group[h]) \notin DOMAIN outbox.work
        BY <1>2, <1>11, <4>4
      <4>6. \A k \in Group \ {h} : group'[k].ep # group[h].ep
        <5>1. \A k \in Group \ {h} : group[k].ep # group[h].ep
          BY <3>1, <3>2 DEF GroupFace
        <5>2. \A k \in Group : group'[k].ep = group[k].ep
          OBVIOUS
        <5> QED BY <5>1, <5>2
      <4> QED BY <4>1, <4>3, <4>5, <4>6
    <3> QED BY <3>1, <3>2, GroupLater
  <2> QED BY <2>1, <2>2
<1>14. SlackFace'
  <2>1. p \in DOMAIN outbox.work => outbox.work[p].text # "closed"
    <3>1. OpenCard(p)
      BY <1>1 DEF OpenCard
    <3>2. p \in DOMAIN outbox.work => Owned(p, outbox.work[p])
      BY <1>1 DEF Face, EntriesFace
    <3> QED BY <3>1, <3>2 DEF Owned
  <2>2. ASSUME NEW h \in Group, NEW t \in DOMAIN slack, IsOpen(group[h]),
               ParentId(group[h]) \in {p, c}, group[h].parent.ts = t
        PROVE  Accounted(t)'
    <3>1. CASE h = g
      <4>1. t # 0
        BY DEF TypeOK
      <4>2. /\ c \in DOMAIN outbox'.work /\ outbox'.work[c].ts = t
            /\ outbox'.work[c].text = "closed"
        BY <1>0, <2>2, <3>1, <4>1 DEF ClosedOut
      <4> QED BY <4>2 DEF Accounted
    <3>2. CASE h # g
      BY <2>2, <3>2 DEF Accounted
    <3> QED BY <3>1, <3>2
  <2>3. \A i \in {p, c} : i \in DOMAIN outbox.work => outbox.work[i].text # "closed"
    BY <1>7, <2>1
  <2> QED BY <1>5, <1>6, <2>2, <2>3, SlackLater
<1> QED BY <1>10, <1>12, <1>13, <1>14 DEF Face

LEMMA QuietWritten ==
  ASSUME TypeOK, TypeOK', slack' = slack, worker' = worker, fresh' = fresh,
         Edits(outbox, outbox', {}),
         \A g \in Group :
           \/ group'[g].ep = group[g].ep /\ group'[g].parent = group[g].parent
           \/ ~IsOpen(group'[g])
  PROVE  Written
<1>1. DOMAIN outbox'.work \subseteq WorkId /\ fresh \in Nat
  BY DEF TypeOK, OutboxOK
<1>2. ASSUME NEW i \in DOMAIN outbox'.work, i[1] \in CardWork
      PROVE  Rewritten(i, outbox'.work[i])
  BY <1>1, <1>2 DEF Edits, Rewritten
<1> QED BY <1>1, <1>2 DEF Written, IsOpen

\* Escalations, the sweeper's and others: no episode begins or ends.
LEMMA QuietFace ==
  ASSUME TypeOK, TypeOK', Cards, Face, slack' = slack, worker' = worker, fresh' = fresh,
         Edits(outbox, outbox', {}),
         \A g \in Group :
           \/ /\ group'[g].ep = group[g].ep /\ group'[g].parent = group[g].parent
              /\ group'[g].list = group[g].list
           \/ /\ ~IsOpen(group[g]) /\ ~IsOpen(group'[g])
              /\ group'[g].ep = 0 /\ group'[g].list.ts = 0
  PROVE  Face'
<1>1. /\ fresh \in Nat /\ fresh > 0
      /\ \A g \in Group : /\ ParentId(group[g]) \in WorkId
                          /\ ParentId(group[g])[1] \in CardWork
                          /\ group[g].ep \in Nat
  BY PostFacts, ParentIdFacts DEF Cards, Drawn, IsParent, CardWork
<1>2. ASSUME NEW g \in Group
      PROVE  /\ IsOpen(group'[g]) <=> IsOpen(group[g])
             /\ IsOpen(group[g]) => /\ group'[g].ep = group[g].ep
                                    /\ group'[g].parent = group[g].parent
                                    /\ ParentId(group'[g]) = ParentId(group[g])
             /\ group'[g].ep \in {0, group[g].ep}
  BY DEF IsOpen, ParentId
<1>3. Proceeds /\ Grows /\ Remain({})
  BY <1>2 DEF Proceeds, Grows, Remain
<1>4. ASSUME NEW i \in WorkId, i[1] \in CardWork
      PROVE  /\ i \in DOMAIN outbox.work <=> i \in DOMAIN outbox'.work
             /\ i \in DOMAIN outbox.work => outbox'.work[i] = outbox.work[i]
  BY <1>4 DEF Edits
<1>5. EntriesFace'
  BY <1>1, <1>3, EntriesLater
<1>6. HeldFace'
  <2>1. ASSUME worker.pc # "idle", NEW g \in Group, IsOpen(group'[g]),
               ParentId(group'[g]) = worker.id
        PROVE  worker.id \in DOMAIN outbox'.work
    <3>1. worker.id \in DOMAIN outbox.work
      BY <1>2, <2>1 DEF Face, HeldFace
    <3> QED BY <1>1, <1>2, <1>4, <2>1, <3>1
  <2>2. ASSUME worker.pc # "idle", worker.id \in DOMAIN outbox'.work,
               worker.id[1] \in CardWork
        PROVE  Since(worker.work, outbox'.work[worker.id])
    <3>1. /\ worker.id \in DOMAIN outbox.work
          /\ outbox'.work[worker.id] = outbox.work[worker.id]
      BY <1>4, <2>2, HeldFields
    <3> QED BY <2>2, <3>1 DEF Face, HeldFace
  <2> QED BY <1>1, <1>3, <2>1, <2>2, HeldLater
<1>7. ASSUME NEW g \in Group PROVE GroupFace(g)'
  <2>1. GroupFace(g)
    BY DEF Face
  <2>2. CASE /\ group'[g].ep = group[g].ep /\ group'[g].parent = group[g].parent
             /\ group'[g].list = group[g].list
    <3>1. ASSUME IsOpen(group[g])
          PROVE  /\ <<"closeParent", group[g].ep, 0>> \notin DOMAIN outbox'.work
                 /\ ParentId(group[g]) \notin DOMAIN outbox'.work =>
                      ParentId(group[g]) \notin DOMAIN outbox.work
                 /\ \A h \in Group \ {g} : group'[h].ep # group[g].ep
      <4>1. PICK c : c = <<"closeParent", group[g].ep, 0>>
        OBVIOUS
      <4>2. c \in WorkId /\ c[1] \in CardWork
        BY <1>1, <4>1 DEF WorkId, WorkName, CardWork
      <4>3. c \notin DOMAIN outbox'.work
        BY <1>4, <2>1, <3>1, <4>1, <4>2 DEF GroupFace
      <4>4. ParentId(group[g]) \notin DOMAIN outbox'.work =>
              ParentId(group[g]) \notin DOMAIN outbox.work
        BY <1>1, <1>4
      <4>5. \A h \in Group \ {g} : group'[h].ep # group[g].ep
        BY <1>2, <2>1, <3>1 DEF GroupFace
      <4> QED BY <4>1, <4>3, <4>4, <4>5
    <3> QED BY <1>1, <2>1, <2>2, <3>1, GroupLater
  <2>3. CASE /\ ~IsOpen(group[g]) /\ ~IsOpen(group'[g])
             /\ group'[g].ep = 0 /\ group'[g].list.ts = 0
    BY <1>1, <2>3 DEF GroupFace
  <2> QED BY <2>2, <2>3
<1>8. SlackFace'
  BY <1>1, <1>3, SlackLater
<1> QED BY <1>5, <1>6, <1>7, <1>8 DEF Face

LEMMA AckFace ==
  ASSUME TypeOK, TypeOK', Cards, Cards', Face, NEW g \in Group, Ack(g)
  PROVE  Face' /\ Written
<1> DEFINE old == group[g]
           gr  == [old EXCEPT !.ack = TRUE, !.parent.rev = @ + 1]
<1>1. /\ IsOpen(old) /\ group' = [group EXCEPT ![g] = gr] /\ slack' = slack
      /\ outbox' = PutParent(outbox, g, gr) /\ fresh' = fresh /\ worker' = worker
  BY DEF Ack
<1>2. old \in GroupRecord /\ group \in [Group -> GroupRecord] /\ fresh \in Nat
  BY DEF TypeOK
<1>3. /\ gr.ep = old.ep /\ gr.list = old.list /\ gr.parent.post = old.parent.post
      /\ gr.parent.ts = old.parent.ts /\ gr.parent.rev = old.parent.rev + 1
  BY <1>2 DEF GroupRecord, SlackObject
<1> HIDE DEF gr
<1>4. group'[g] = gr /\ \A h \in Group \ {g} : group'[h] = group[h]
  BY <1>1, <1>2
<1>5. gr \in GroupRecord
  BY <1>4 DEF TypeOK
<1>6. /\ Edits(outbox, outbox', {ParentId(group'[g])}) /\ Queued(outbox', group'[g])
  BY <1>1, <1>4, <1>5, PutParentEdits
<1>7. ListShown(group'[g]) /\ IsOpen(group'[g])
  <2>1. ListShown(old)
    BY DEF Face, GroupFace, ListShown
  <2> QED BY <1>1, <1>3, <1>4, <2>1 DEF ListShown, IsOpen
<1>8. /\ IsOpen(group[g]) /\ group'[g].parent.post = group[g].parent.post
      /\ group'[g].parent.ts = group[g].parent.ts /\ group'[g].ep = group[g].ep
      /\ group'[g].parent.rev >= group[g].parent.rev
  <2>1. old.parent.rev \in Nat
    BY <1>2, ParentIdFacts
  <2> QED BY <1>1, <1>3, <1>4, <2>1
<1>9. fresh' >= fresh
  BY <1>1, <1>2
<1> QED BY <1>1, <1>4, <1>6, <1>7, <1>8, <1>9, RefreshFace, RefreshWritten

LEMMA ClosedGroup ==
  ASSUME NEW gr \in GroupRecord
  PROVE  ~IsOpen(CloseGroup(gr)) /\ CloseGroup(gr).ep = gr.ep /\ CloseGroup(gr).list.ts = 0
BY DEF CloseGroup, GroupRecord, NoObject, IsOpen

LEMMA CloseWithReplyFace ==
  ASSUME TypeOK, TypeOK', Cards, Cards', Face, NEW g \in Group, CloseWithReply(g)
  PROVE  Face' /\ Written
<1> DEFINE old == group[g]
<1>1. /\ IsOpen(old) /\ group' = [group EXCEPT ![g] = CloseGroup(old)] /\ slack' = slack
      /\ outbox' = CloseEpisode(outbox, g, old, TRUE) /\ fresh' = fresh /\ worker' = worker
  BY DEF CloseWithReply
<1>2. /\ old \in GroupRecord /\ group \in [Group -> GroupRecord] /\ fresh \in Nat
      /\ OutboxOK(outbox) /\ old.parent.rev \in Nat
  BY ParentIdFacts DEF TypeOK
<1>3. group'[g] = CloseGroup(old) /\ \A h \in Group \ {g} : group'[h] = group[h]
  BY <1>1, <1>2
<1>4. ~IsOpen(group'[g]) /\ group'[g].ep = group[g].ep /\ group'[g].list.ts = 0
  BY <1>2, <1>3, ClosedGroup
<1>5. CardIn(outbox, g, old)
  BY DEF Cards
<1>6. /\ Edits(outbox, outbox', {ParentId(old), <<"closeParent", old.ep, 0>>})
      /\ Closes(outbox, outbox', old)
  BY <1>1, <1>2, <1>5, CloseEpisodeEdits
<1>7. ParentId(old) \in DOMAIN outbox.work => outbox.work[ParentId(old)].object = "parent"
  <2>1. PICK p : p = ParentId(old)
    OBVIOUS
  <2>2. IsParent(p) /\ p[1] \in CardWork
    BY <1>2, <2>1, ParentIdFacts DEF IsParent, CardWork
  <2>3. p \in DOMAIN outbox.work => Facing(p, outbox.work[p])
    BY <2>2 DEF Face, EntriesFace, Aimed
  <2> QED BY <2>1, <2>2, <2>3 DEF Facing
<1>8. <<"closeParent", old.ep, 0>> \notin DOMAIN outbox.work
  BY <1>1 DEF Face, GroupFace
<1>9. ClosedOut(outbox', old)
  BY <1>1, <1>2, <1>5, <1>6, <1>7, <1>8, ClosesOut
<1>10. ListShown(group'[g]) /\ old.parent.rev >= group[g].parent.rev /\ fresh' >= fresh
  BY <1>1, <1>2, <1>4 DEF ListShown
<1> HIDE DEF old
<1>11. old = group[g]
  BY DEF old
<1>12. ParentId(old) \in DOMAIN outbox'.work =>
         /\ ParentId(old) \in DOMAIN outbox.work
         /\ outbox'.work[ParentId(old)].kind = outbox.work[ParentId(old)].kind
         /\ outbox'.work[ParentId(old)].ts = outbox.work[ParentId(old)].ts
         /\ outbox'.work[ParentId(old)].ep = outbox.work[ParentId(old)].ep
  BY <1>6 DEF Closes
<1>13. Written
  BY <1>1, <1>2, <1>3, <1>4, <1>6, <1>9, <1>10, <1>11, <1>12, CloseWritten
<1> QED BY <1>1, <1>2, <1>3, <1>4, <1>6, <1>9, <1>10, <1>11, <1>13, CloseFace

LEMMA EscalateFace ==
  ASSUME TypeOK, TypeOK', Cards, Face, NEW g \in Group, Escalate(g)
  PROVE  Face' /\ Written
<1> DEFINE old == group[g]
           id  == <<"escalation", old.ep, 0>>
           id2 == <<"escalationReaction", old.ep, 0>>
           w   == Reply(g, old)
           w2  == NewWork(g, "reaction", "reaction", 0, old.parent.ts, 0,
                          DependencyForParent(old.parent), "reaction", old.ep)
           mid == Put(outbox, id, w)
<1>1. /\ group' = [group EXCEPT ![g].escalated = TRUE] /\ slack' = slack
      /\ outbox' = Put(mid, id2, w2) /\ fresh' = fresh /\ worker' = worker
  BY DEF Escalate
<1>2. /\ old \in GroupRecord /\ group \in [Group -> GroupRecord]
      /\ old.ep \in Nat /\ old.parent.ts \in Nat /\ DependencyForParent(old.parent) \in Nat
  BY ParentIdFacts, GroupWork DEF TypeOK
<1>3. /\ id \in WorkId /\ id[1] \notin CardWork /\ id2 \in WorkId /\ id2[1] \notin CardWork
  BY <1>2 DEF WorkId, WorkName, CardWork
<1>4. w \in Work /\ Plain(id, w)
  BY <1>2, GroupWork, ReplyPlain
<1>5. w2 \in Work /\ Plain(id2, w2)
  <2>1. "reaction" \in Object /\ "reaction" \in Text /\ 0 \in Nat
    BY DEF Object, Text
  <2>2. w2 \in Work
    BY <1>2, <2>1, NewWorkType
  <2>3. w2.kind = "reaction" /\ w2.text = "reaction" /\ w2.object = "reaction" /\ w2.rev = 0
    BY NewWorkFacts
  <2> HIDE DEF w2, id2
  <2>4. Plain(id2, w2)
    BY <2>3, PlainPost
  <2> QED BY <2>2, <2>4
<1> HIDE DEF w, w2, id, id2
<1>6. Edits(outbox, mid, {})
  BY <1>3, <1>4, PutEdits
<1> HIDE DEF mid
<1>7. Edits(mid, outbox', {})
  BY <1>1, <1>3, <1>5, PutEdits
<1>8. Edits(outbox, outbox', {})
  BY <1>6, <1>7, EditsTransitive
<1>9. ASSUME NEW h \in Group
      PROVE  /\ group'[h].ep = group[h].ep /\ group'[h].parent = group[h].parent
             /\ group'[h].list = group[h].list
  BY <1>1, <1>2 DEF GroupRecord
<1> QED BY <1>1, <1>8, <1>9, QuietFace, QuietWritten

LEMMA ForgetFace ==
  ASSUME TypeOK, TypeOK', Cards, Face, NEW g \in Group, Forget(g)
  PROVE  Face' /\ Written
<1>1. /\ ~IsOpen(group[g]) /\ group' = [group EXCEPT ![g] = Absent]
      /\ outbox' = outbox /\ fresh' = fresh /\ worker' = worker /\ slack' = slack
  BY DEF Forget
<1>2. group'[g] = Absent /\ \A h \in Group \ {g} : group'[h] = group[h]
  BY <1>1, PostFacts
<1>3. Absent.ep = 0 /\ Absent.list.ts = 0 /\ ~IsOpen(Absent)
  BY DEF Absent, NoObject, IsOpen
<1>4. Edits(outbox, outbox', {})
  BY <1>1, EditsReflexive
<1> QED BY <1>1, <1>2, <1>3, <1>4, QuietFace, QuietWritten

LEMMA PutParentCard ==
  ASSUME NEW ob, NEW g \in Group, NEW gr \in GroupRecord
  PROVE  CardIn(PutParent(ob, g, gr), g, gr)
<1> DEFINE kind == IF gr.parent.ts # 0 THEN "update" ELSE "post"
           w == NewWork(g, "parent", kind, gr.parent.rev, gr.parent.ts, 0, 0, "render", gr.ep)
<1>1. PICK new : new = PutParent(ob, g, gr)
  OBVIOUS
<1>2. PICK p \in WorkId : p = ParentId(gr)
  BY ParentIdFacts
<1>3. w \in Work
  <2>1. kind \in {"post", "update", "reaction"} /\ 0 \in Nat
        /\ "parent" \in Object /\ "render" \in Text
    BY DEF Object, Text
  <2>2. gr.ep \in Nat /\ gr.parent.ts \in Nat /\ gr.parent.rev \in Nat
    BY ParentIdFacts
  <2> HIDE DEF kind
  <2> QED BY <2>1, <2>2, NewWorkType
<1>4. /\ w.kind = kind /\ w.ts = gr.parent.ts /\ w.rev = gr.parent.rev /\ w.group = g
  BY NewWorkFacts
<1>5. new = Put(ob, p, w)
  BY <1>1, <1>2 DEF PutParent
<1> HIDE DEF w
<1>6. p \in DOMAIN new.work
  BY <1>5 DEF Put
<1>7. /\ new.work[p].rev = gr.parent.rev /\ new.work[p].group = g
      /\ new.work[p].ts = gr.parent.ts /\ new.work[p].kind = kind
  BY <1>3, <1>4, <1>5, PutFields
<1> QED BY <1>1, <1>2, <1>6, <1>7 DEF CardIn

LEMMA PlaceListParent ==
  ASSUME NEW ob, NEW g, NEW gr \in GroupRecord
  PROVE  PlaceList(ob, g, gr).gr.parent = gr.parent
BY DEF PlaceList, ShowList, RetireList, GroupRecord

LEMMA EditsKept ==
  ASSUME NEW ob, NEW new, Edits(ob, new, {})
  PROVE  Kept(ob, new, {})
<1>1. \A i \in WorkId : IsParent(i) => i[1] \in CardWork
  BY DEF IsParent, CardWork
<1> QED BY <1>1 DEF Edits, Kept

LEMMA NotifyFace ==
  ASSUME TypeOK, TypeOK', Cards, Cards', Face, NEW g \in Group, NEW b \in Batch, Notify(g, b)
  PROVE  Face' /\ Written
<1> DEFINE old    == group[g]
           firing == FiringIn(b)
           base   == IF IsOpen(old) THEN old ELSE NewEpisode
           news   == IF IsOpen(old) THEN firing \ old.delivered ELSE {}
           known  == (base.firing \ DOMAIN b) \cup firing
           status == IF firing # {} THEN "firing"
                     ELSE IF known # {} THEN "incomplete" ELSE "resolved"
           gr     == [base EXCEPT !.parent.rev = @ + 1,
                                  !.firing = known,
                                  !.delivered = DOMAIN b,
                                  !.ack = @ /\ news = {},
                                  !.status = status]
           ob1    == PutParent(outbox, g, gr)
           placed == PlaceList(ob1, g, gr)
           queued == PutNewMembers(placed.ob, gr.ep, news, Reply(g, gr))
           closes == known = {}
<1>1. /\ IsOpen(old) \/ firing # {}
      /\ group' = [group EXCEPT ![g] = IF closes THEN CloseGroup(placed.gr)
                                       ELSE placed.gr]
      /\ outbox' = IF closes THEN CloseEpisode(queued, g, placed.gr, FALSE) ELSE queued
      /\ fresh' = fresh + 2 /\ worker' = worker /\ slack' = slack
  BY DEF Notify
<1>2. fresh \in Nat /\ old \in GroupRecord /\ OutboxOK(outbox)
      /\ group \in [Group -> GroupRecord]
  BY PostFacts
<1>3. DOMAIN b \in SUBSET Member /\ firing \in SUBSET Member /\ firing \subseteq DOMAIN b
  BY DEF Batch, FiringIn
<1>4. base \in GroupRecord
  BY <1>2 DEF NewEpisode, Absent, NoObject, GroupRecord, SlackObject
<1>5. known \in SUBSET Member /\ news \in SUBSET Member
  BY <1>3, <1>4 DEF GroupRecord
<1>6. /\ gr \in GroupRecord /\ gr.parent.post = base.parent.post
      /\ gr.parent.ts = base.parent.ts /\ gr.list = base.list /\ gr.ep = base.ep
      /\ gr.parent.rev = base.parent.rev + 1
  <2> DEFINE ack == base.ack /\ news = {}
             parent == [base.parent EXCEPT !.rev = @ + 1]
  <2>1. ack \in BOOLEAN
    BY <1>4 DEF GroupRecord
  <2>2. parent \in SlackObject /\ parent.post = base.parent.post /\ parent.ts = base.parent.ts
        /\ parent.rev = base.parent.rev + 1
    BY <1>4 DEF GroupRecord, SlackObject
  <2>3. gr = [base EXCEPT !.parent = parent, !.firing = known,
                          !.delivered = DOMAIN b, !.ack = ack, !.status = status]
    BY <1>4 DEF GroupRecord
  <2>4. status \in {"firing", "incomplete", "resolved"}
    OBVIOUS
  <2> HIDE DEF ack, parent, gr, base, known, status
  <2> QED BY <2>1, <2>2, <2>3, <2>4, <1>3, <1>4, <1>5 DEF GroupRecord
<1>7. /\ IsOpen(old) => base = old
      /\ ~IsOpen(old) => /\ base.parent.post = fresh /\ base.parent.ts = 0
                         /\ base.list.ts = 0 /\ base.ep = fresh
  <2>1. CASE IsOpen(old)
    BY <2>1
  <2>2. CASE ~IsOpen(old)
    BY <1>2, <2>2 DEF NewEpisode, Absent, NoObject
  <2> QED BY <2>1, <2>2
<1>8. closes => IsOpen(old)
  BY <1>1
<1> HIDE DEF gr, known, news, base
<1>9. ListShown(gr) /\ IsOpen(gr) /\ base.parent.rev \in Nat /\ gr.parent.rev \in Nat
  <2>1. ListShown(old)
    BY DEF Face, GroupFace, ListShown
  <2>2. fresh # 0
    BY <1>2 DEF Cards, Drawn
  <2>3. base.parent.rev \in Nat /\ gr.parent.rev \in Nat
    BY <1>4, <1>6, ParentIdFacts
  <2> QED BY <1>6, <1>7, <2>1, <2>2, <2>3 DEF ListShown, IsOpen
<1>10. /\ Edits(outbox, ob1, {ParentId(gr)}) /\ Queued(ob1, gr) /\ CardIn(ob1, g, gr)
       /\ OutboxOK(ob1)
  BY <1>2, <1>6, PutParentEdits, PutParentCard, PutParentOK
<1> HIDE DEF ob1
<1>11. /\ Edits(ob1, placed.ob, {}) /\ ListShown(placed.gr) /\ placed.gr.parent = gr.parent
       /\ placed.gr \in GroupRecord /\ OutboxOK(placed.ob) /\ placed.gr.ep = gr.ep
  BY <1>2, <1>6, <1>9, <1>10, PlaceListEdits, PlaceListOK, PlaceListParent, PlaceListTouches
<1> HIDE DEF placed
<1>12. Edits(placed.ob, queued, {}) /\ OutboxOK(queued)
  <2>1. gr.ep \in Nat /\ Reply(g, gr) \in Work
    BY <1>6, GroupWork
  <2> QED BY <1>5, <1>6, <1>11, <2>1, NewMembersEdits, PutNewMembersOK
<1> HIDE DEF queued
<1>13. Edits(ob1, queued, {})
  BY <1>11, <1>12, EditsTransitive
<1>14. ParentId(placed.gr) = ParentId(gr) /\ IsOpen(placed.gr)
  BY <1>9, <1>11 DEF ParentId, IsOpen
<1>15. /\ Edits(outbox, queued, {ParentId(gr)}) /\ Queued(queued, placed.gr)
       /\ CardIn(queued, g, placed.gr)
  <2>1. Edits(outbox, queued, {ParentId(gr)})
    BY <1>10, <1>13, EditsTransitive
  <2>2. Queued(queued, placed.gr)
    BY <1>6, <1>10, <1>11, <1>13, QueuedKept
  <2>3. CardIn(queued, g, placed.gr)
    BY <1>6, <1>10, <1>11, <1>13, CardKept, EditsKept
  <2> QED BY <2>1, <2>2, <2>3
<1>16. /\ group'[g] = IF closes THEN CloseGroup(placed.gr) ELSE placed.gr
       /\ \A h \in Group \ {g} : group'[h] = group[h]
  BY <1>1, <1>2
<1>17. fresh' > fresh /\ fresh' >= fresh
  BY <1>1, <1>2
<1>18. CASE ~closes
  <2>1. group'[g] = placed.gr /\ outbox' = queued
    BY <1>1, <1>16, <1>18
  <2>2. \/ /\ IsOpen(group[g]) /\ group'[g].parent.post = group[g].parent.post
           /\ group'[g].parent.ts = group[g].parent.ts /\ group'[g].ep = group[g].ep
           /\ group'[g].parent.rev >= group[g].parent.rev
        \/ /\ ~IsOpen(group[g]) /\ group'[g].parent.post = fresh /\ group'[g].ep = fresh
           /\ group'[g].parent.ts = 0 /\ fresh' > fresh
    BY <1>6, <1>7, <1>9, <1>11, <1>17, <2>1
  <2>3. /\ IsOpen(group'[g]) /\ Queued(outbox', group'[g]) /\ ListShown(group'[g])
        /\ Edits(outbox, outbox', {ParentId(group'[g])})
    BY <1>11, <1>14, <1>15, <2>1
  <2> QED BY <1>1, <1>16, <1>17, <2>2, <2>3, RefreshFace, RefreshWritten
<1>19. CASE closes
  <2> DEFINE last == placed.gr
  <2>0. last \in GroupRecord /\ IsOpen(last) /\ ListShown(last)
    BY <1>11, <1>14
  <2>1. group'[g] = CloseGroup(last) /\ outbox' = CloseEpisode(queued, g, last, FALSE)
    BY <1>1, <1>16, <1>19
  <2>2. /\ IsOpen(group[g]) /\ last.ep = group[g].ep
        /\ last.parent.post = group[g].parent.post /\ last.parent.ts = group[g].parent.ts
        /\ last.parent.rev >= group[g].parent.rev
    BY <1>6, <1>7, <1>8, <1>9, <1>11, <1>19
  <2>3. PICK p, c : p = ParentId(last) /\ c = <<"closeParent", last.ep, 0>>
    OBVIOUS
  <2>4. /\ p \in WorkId /\ IsParent(p) /\ c \in WorkId /\ c[1] \in CardWork /\ ~IsParent(c)
    BY <2>0, <2>3, ParentIdFacts DEF WorkId, WorkName, IsParent, CardWork
  <2> HIDE DEF last
  <2>5. Edits(queued, outbox', {p, c}) /\ Closes(queued, outbox', last)
    BY <1>12, <1>15, <2>0, <2>1, <2>3, CloseEpisodeEdits DEF last
  <2>6. Edits(outbox, outbox', {p, c})
    <3>1. Edits(outbox, queued, {p})
      BY <1>14, <1>15, <2>3 DEF last
    <3> QED BY <2>5, <3>1, EditsTransitive
  <2>7. c \notin DOMAIN queued.work
    <3>1. c \notin DOMAIN outbox.work
      BY <2>2, <2>3 DEF Face, GroupFace
    <3>2. c # ParentId(gr)
      BY <1>14, <2>3, <2>4 DEF last
    <3> QED BY <1>15, <2>4, <3>1, <3>2 DEF Edits
  <2>8. queued.work[p].object = "parent"
    BY <1>15, <2>3 DEF Queued, last
  <2>9. CardIn(queued, g, last)
    BY <1>15 DEF last
  <2>10. ClosedOut(outbox', last)
    BY <2>0, <2>3, <2>5, <2>7, <2>8, <2>9, ClosesOut
  <2>11. ~IsOpen(group'[g]) /\ group'[g].ep = group[g].ep /\ ListShown(group'[g])
    BY <2>0, <2>1, <2>2, ClosedGroup DEF ListShown
  <2>12. p \in DOMAIN outbox'.work => outbox'.work[p].ep = last.ep
    BY <1>15, <2>3, <2>5 DEF Queued, Closes, last
  <2>13. Written
    BY <1>1, <1>16, <1>17, <2>0, <2>2, <2>3, <2>6, <2>10, <2>11, <2>12, CloseWritten
  <2> QED BY <1>1, <1>16, <1>17, <2>0, <2>2, <2>3, <2>6, <2>10, <2>11, <2>13, CloseFace
<1> QED BY <1>18, <1>19

LEMMA WritersFace ==
  ASSUME TypeOK, TypeOK', Cards, Cards', Face, NEW g \in Group, Writers(g)
  PROVE  Face' /\ Written
BY NotifyFace, AckFace, CloseWithReplyFace, EscalateFace, ForgetFace DEF Writers

-----------------------------------------------------------------------------
(* The worker lets go of an entry: what it leaves queued says the same of the *)
(* cards as before, and what it drops has nothing left to say.               *)

Like(v, w) ==
  /\ v.object = w.object /\ v.text = w.text /\ v.kind = w.kind
  /\ v.ts = w.ts /\ v.rev = w.rev /\ v.ep = w.ep

\* The messages stay what they are, and of their episodes; none is restored.
Unaltered ==
  /\ DOMAIN slack' = DOMAIN slack
  /\ \A t \in DOMAIN slack :
       /\ slack'[t].id = slack[t].id /\ slack'[t].ep = slack[t].ep
       /\ slack'[t].replaced = slack[t].replaced
       /\ slack'[t].live => slack[t].live

\* What the worker leaves when it lets go: groups and entries stay of their episodes, and
\* keep their messages, but for the one that was posted.
Posted == Sent({"ok"}) /\ worker.work.kind = "post"

LetsGo ==
  /\ Unaltered /\ worker' = Idle /\ fresh' >= fresh
  /\ \A h \in Group : IsOpen(group'[h]) =>
       /\ IsOpen(group[h]) /\ group'[h].parent.post = group[h].parent.post
       /\ group'[h].ep = group[h].ep
       /\ \/ group'[h].parent.ts = group[h].parent.ts
          \/ Posted /\ ParentId(group[h]) = worker.id /\ group'[h].parent.ts = worker.ts
  /\ \A i \in DOMAIN outbox'.work : i[1] \in CardWork =>
       LET v == outbox'.work[i]
           w == outbox.work[i]
       IN  /\ i \in DOMAIN outbox.work /\ v.ep = w.ep
           /\ \/ v.kind = w.kind /\ v.ts = w.ts
              \/ /\ Posted /\ i = worker.id
                 /\ v.kind = "update" /\ v.ts = worker.ts

\* Messages show what the entry i had to say.
Done(i) ==
  /\ \A g \in Group : IsOpen(group[g]) /\ ParentId(group[g]) = i =>
       slack[group[g].parent.ts].rev = group[g].parent.rev
  /\ outbox.work[i].text = "closed" =>
       \A t \in DOMAIN slack : IsCard(t) /\ slack[t].live /\ outbox.work[i].ts = t =>
         slack[t].text = "closed"

LEMMA PlainLike ==
  ASSUME NEW i, NEW w, NEW v, Like(v, w), Aimed(i, w)
  PROVE  Aimed(i, v)
BY DEF Like, Aimed, Plain, Facing

LEMMA CommitFace ==
  ASSUME TypeOK, TypeOK', Cards, Face, slack' = slack, worker' = Idle, fresh' >= fresh,
         \A g \in Group : /\ group'[g].ep = group[g].ep
                          /\ group'[g].parent = group[g].parent
                          /\ ListShown(group'[g]),
         \A i \in DOMAIN outbox'.work :
           \/ i \in DOMAIN outbox.work /\ Like(outbox'.work[i], outbox.work[i])
           \/ i[1] \notin CardWork /\ Plain(i, outbox'.work[i]),
         \A i \in DOMAIN outbox.work \ DOMAIN outbox'.work : Done(i)
  PROVE  Face' /\ LetsGo
<1>1. /\ fresh \in Nat /\ fresh' \in Nat /\ fresh > 0
      /\ \A i \in DOMAIN outbox.work : i \in WorkId
      /\ \A i \in DOMAIN outbox'.work : i \in WorkId
      /\ \A g \in Group : /\ ParentId(group[g]) \in WorkId
                          /\ ParentId(group[g])[1] \in CardWork
                          /\ group[g].ep \in Nat
  <2>1. fresh' \in Nat /\ \A i \in DOMAIN outbox'.work : i \in WorkId
    BY DEF TypeOK, OutboxOK
  <2> QED BY <2>1, PostFacts, ParentIdFacts DEF Cards, Drawn, IsParent, CardWork
<1>2. ASSUME NEW g \in Group
      PROVE  /\ IsOpen(group'[g]) <=> IsOpen(group[g])
             /\ ParentId(group'[g]) = ParentId(group[g])
  BY DEF IsOpen, ParentId
<1>3. Proceeds /\ Grows
  BY <1>2 DEF Proceeds, Grows
<1>4. ASSUME NEW i PROVE OpenCard(i)' <=> OpenCard(i)
  BY <1>2 DEF OpenCard
<1>5. ASSUME NEW i \in DOMAIN outbox'.work, NEW v, v = outbox'.work[i]
      PROVE  Aimed(i, v)' /\ (IsParent(i) => Owned(i, v)')
  <2>1. Aimed(i, v)
    <3>1. CASE i \in DOMAIN outbox.work /\ Like(v, outbox.work[i])
      BY <3>1, PlainLike DEF Face, EntriesFace
    <3>2. CASE i[1] \notin CardWork /\ Plain(i, v)
      BY <3>2 DEF Aimed
    <3> QED BY <1>5, <3>1, <3>2
  <2>2. Aimed(i, v)'
    BY <1>1, <1>3, <2>1, AimedLater DEF Face
  <2>3. ASSUME IsParent(i) PROVE Owned(i, v)'
    <3>1. i \in DOMAIN outbox.work /\ v.text = outbox.work[i].text
      BY <1>5, <2>3 DEF Like, IsParent, CardWork
    <3>2. Owned(i, outbox.work[i])
      BY <2>3, <3>1 DEF Face, EntriesFace
    <3>3. Mistaken(i[2]) => Mistaken(i[2])'
      BY <1>3, MistakenLater
    <3> QED BY <1>4, <3>1, <3>2, <3>3 DEF Owned
  <2> QED BY <2>2, <2>3
<1>6. EntriesFace'
  <2> SUFFICES ASSUME NEW i \in DOMAIN outbox'.work
               PROVE  Aimed(i, outbox.work[i])' /\ (IsParent(i) => Owned(i, outbox.work[i])')
    BY DEF EntriesFace
  <2>1. PICK v : v = outbox'.work[i]
    OBVIOUS
  <2>2. Aimed(i, v)' /\ (IsParent(i) => Owned(i, v)')
    BY <1>5, <2>1
  <2> QED BY <2>1, <2>2
<1>7. HeldFace'
  BY DEF HeldFace, Idle
<1>8. ASSUME NEW g \in Group PROVE GroupFace(g)'
  <2>1. GroupFace(g)
    BY DEF Face
  <2>2. ASSUME IsOpen(group[g])
        PROVE  /\ <<"closeParent", group[g].ep, 0>> \notin DOMAIN outbox'.work
               /\ group[g].parent.ts # 0 => ShowsCard(group[g])'
    <3>1. PICK c : c = <<"closeParent", group[g].ep, 0>>
      OBVIOUS
    <3>2. c[1] \in CardWork /\ c \notin DOMAIN outbox.work
      BY <2>1, <2>2, <3>1 DEF GroupFace, CardWork
    <3>3. c \notin DOMAIN outbox'.work
      BY <3>2
    <3>4. ASSUME group[g].parent.ts # 0 PROVE ShowsCard(group[g])'
      <4>1. ShowsCard(group[g])
        BY <2>1, <2>2, <3>4 DEF GroupFace
      <4>2. ParentId(group[g]) \notin DOMAIN outbox'.work =>
              slack[group[g].parent.ts].rev = group[g].parent.rev
        BY <2>2, <4>1 DEF Done, ShowsCard
      <4>3. PICK gr : gr = group'[g]
        OBVIOUS
      <4>4. gr.parent = group[g].parent /\ gr.ep = group[g].ep
            /\ ParentId(gr) = ParentId(group[g])
        BY <1>2, <4>3
      <4>5. ShowsCard(gr)'
        BY <4>1, <4>2, <4>4 DEF ShowsCard
      <4> QED BY <4>3, <4>5
    <3> QED BY <3>1, <3>3, <3>4
  <2>3. group'[g].ep < fresh'
    BY <1>1, <2>1 DEF GroupFace
  <2>4. IsOpen(group[g]) => \A h \in Group \ {g} : group'[h].ep # group'[g].ep
    BY <2>1 DEF GroupFace
  <2>5. IsOpen(group[g]) => group'[g].ep # 0
    BY <2>1 DEF GroupFace
  <2> QED BY <1>2, <2>2, <2>3, <2>4, <2>5 DEF GroupFace, Idle, ListShown
<1>9. SlackFace'
  <2> SUFFICES ASSUME NEW t \in DOMAIN slack, IsCard(t)
               PROVE  /\ slack[t].id[2] < fresh'
                      /\ slack[t].live /\ slack[t].recorded => Accounted(t)'
    BY DEF SlackFace, IsCard
  <2>1. slack[t].id[2] < fresh /\ (slack[t].live /\ slack[t].recorded => Accounted(t))
    BY DEF Face, SlackFace
  <2>2. slack[t].id[2] \in Nat
    <3>1. slack[t] \in SlackMessage
      BY DEF TypeOK
    <3> QED BY <3>1 DEF SlackMessage, WorkId
  <2>3. ASSUME slack[t].live, Accounted(t) PROVE Accounted(t)'
    <3>1. ASSUME NEW g \in Group, IsOpen(group[g]), group[g].parent.ts = t
          PROVE  Accounted(t)'
      BY <1>2, <3>1 DEF Accounted
    <3>2. ASSUME NEW i \in DOMAIN outbox.work, outbox.work[i].ts = t,
                 outbox.work[i].text = "closed"
          PROVE  Accounted(t)'
      <4>1. CASE i \notin DOMAIN outbox'.work
        BY <2>3, <3>2, <4>1 DEF Done, Accounted
      <4>2. CASE i \in DOMAIN outbox'.work
        <5>1. i[1] \in CardWork
          BY <3>2 DEF Face, EntriesFace, Aimed, Plain
        <5>2. Like(outbox'.work[i], outbox.work[i])
          BY <4>2, <5>1
        <5> QED BY <3>2, <4>2, <5>2 DEF Like, Accounted
      <4> QED BY <4>1, <4>2
    <3>3. CASE slack[t].text = "closed" \/ Mistaken(slack[t].id[2])
      BY <3>3 DEF Accounted, Mistaken
    <3> QED BY <2>3, <3>1, <3>2, <3>3 DEF Accounted
  <2> QED BY <1>1, <2>1, <2>2, <2>3
<1>10. LetsGo
  <2>1. Unaltered
    BY DEF Unaltered
  <2>2. ASSUME NEW i \in DOMAIN outbox'.work, i[1] \in CardWork
        PROVE  i \in DOMAIN outbox.work /\ Like(outbox'.work[i], outbox.work[i])
    BY <2>2
  <2> QED BY <1>2, <2>1, <2>2 DEF LetsGo, Like
<1> QED BY <1>6, <1>7, <1>8, <1>9, <1>10 DEF Face

\* The entries stay as they are, but for their phases.
LEMMA SameFace ==
  ASSUME TypeOK, TypeOK', Cards, Face, UNCHANGED <<group, fresh, slack>>, worker' = Idle,
         DOMAIN outbox'.work = DOMAIN outbox.work,
         \A i \in DOMAIN outbox.work : Like(outbox'.work[i], outbox.work[i])
  PROVE  Face' /\ LetsGo
<1>1. \A g \in Group : ListShown(group'[g])
  BY DEF Face, GroupFace, ListShown
<1>2. fresh' >= fresh
  BY DEF TypeOK
<1> QED BY <1>1, <1>2, CommitFace

LEMMA SettledFace ==
  ASSUME TypeOK, TypeOK', Cards, Face, UNCHANGED <<group, fresh, slack>>, worker' = Idle,
         \/ outbox' = outbox
         \/ /\ worker.id \in DOMAIN outbox.work
            /\ \E phase : outbox' = [outbox EXCEPT !.work[worker.id].phase = phase]
  PROVE  Face' /\ LetsGo
<1>1. OutboxOK(outbox)
  BY DEF TypeOK
<1>2. CASE outbox' = outbox
  BY <1>2, SameFace DEF Like
<1>3. CASE /\ worker.id \in DOMAIN outbox.work
           /\ \E phase : outbox' = [outbox EXCEPT !.work[worker.id].phase = phase]
  <2>1. PICK phase : outbox' = [outbox EXCEPT !.work[worker.id].phase = phase]
    BY <1>3
  <2> DEFINE w == [outbox.work[worker.id] EXCEPT !.phase = phase]
  <2>2. outbox'.work = [outbox.work EXCEPT ![worker.id] = w]
    BY <1>1, <1>3, <2>1 DEF OutboxOK
  <2>3. Like(w, outbox.work[worker.id])
    BY <1>1, <1>3 DEF OutboxOK, Work, Like
  <2> HIDE DEF w
  <2>4. \A i \in DOMAIN outbox.work : Like(outbox'.work[i], outbox.work[i])
    BY <2>2, <2>3 DEF Like
  <2> QED BY <2>2, <2>4, SameFace
<1> QED BY <1>2, <1>3

LEMMA RestartFace ==
  ASSUME TypeOK, TypeOK', Cards, Face, Restart
  PROVE  Face' /\ LetsGo
<1> DEFINE f == [i \in DOMAIN outbox.work |->
                   IF outbox.work[i].phase = "inFlight"
                   THEN [outbox.work[i] EXCEPT !.phase = "pending"] ELSE outbox.work[i]]
<1>1. /\ outbox' = [outbox EXCEPT !.work = f] /\ worker' = Idle
      /\ group' = group /\ fresh' = fresh /\ slack' = slack
  BY DEF Restart
<1>2. OutboxOK(outbox)
  BY DEF TypeOK
<1>3. outbox'.work = f
  BY <1>1, <1>2 DEF OutboxOK
<1>4. ASSUME NEW i \in DOMAIN outbox.work PROVE Like(f[i], outbox.work[i])
  BY <1>2 DEF OutboxOK, Work, Like
<1>5. DOMAIN f = DOMAIN outbox.work
  OBVIOUS
<1> HIDE DEF f
<1> QED BY <1>1, <1>3, <1>4, <1>5, SameFace

\* An entry is dropped that has nothing left to say.
LEMMA DropFace ==
  ASSUME TypeOK, TypeOK', Cards, Face, UNCHANGED <<fresh, slack>>, worker' = Idle,
         outbox' = Drop(outbox, {worker.id}), worker.id \in DOMAIN outbox.work,
         Done(worker.id),
         \A g \in Group : /\ group'[g].ep = group[g].ep
                          /\ group'[g].parent = group[g].parent
                          /\ ListShown(group'[g])
  PROVE  Face' /\ LetsGo
<1>1. /\ DOMAIN outbox'.work = DOMAIN outbox.work \ {worker.id}
      /\ \A i \in DOMAIN outbox'.work : outbox'.work[i] = outbox.work[i]
  BY DEF Drop, TypeOK, OutboxOK
<1>2. \A i \in DOMAIN outbox'.work : i \in DOMAIN outbox.work
                                     /\ Like(outbox'.work[i], outbox.work[i])
  BY <1>1 DEF Like
<1>3. fresh' >= fresh
  BY DEF TypeOK
<1>4. \A i \in DOMAIN outbox.work \ DOMAIN outbox'.work : Done(i)
  BY <1>1
<1> QED BY <1>2, <1>3, <1>4, CommitFace

LEMMA ForgetListShown ==
  ASSUME group \in [Group -> GroupRecord], NEW g \in Group, NEW ts, ForgetList(g, ts),
         \A h \in Group : ListShown(group[h])
  PROVE  \A h \in Group : ListShown(group'[h])
<1> DEFINE list == IF group[g].list.post # 0 /\ group[g].list.ts = ts THEN NoObject
                   ELSE group[g].list
<1>1. list.ts \in {0, group[g].list.ts}
  BY DEF NoObject
<1>2. group' = [group EXCEPT ![g].list = list]
  BY DEF ForgetList
<1> HIDE DEF list
<1>3. \A h \in Group : group'[h].list.ts \in {0, group[h].list.ts}
  BY <1>1, <1>2 DEF GroupRecord
<1> QED BY <1>3 DEF ListShown

\* An entry that touches no card has nothing to say.
LEMMA PlainDone ==
  ASSUME Face, NEW i \in DOMAIN outbox.work, i[1] \notin CardWork
  PROVE  Done(i)
<1>1. Plain(i, outbox.work[i])
  BY DEF Face, EntriesFace, Aimed
<1>2. \A g \in Group : ParentId(group[g]) # i
  BY DEF ParentId, CardWork
<1> QED BY <1>1, <1>2 DEF Done, Plain

\* An update was answered: the message says what was sent, or it is gone.
LEMMA UpdatedDone ==
  ASSUME TypeOK, Cards, Face, worker.pc = "sent", worker.work.kind = "update",
         worker.id \in DOMAIN outbox.work,
         \/ worker.answer = "ok" /\ ~Superseded
         \/ /\ worker.answer = "missing" /\ ~IsOpen(group[Attempt.group])
  PROVE  Done(worker.id)
<1>1. PICK i, w, v : i = worker.id /\ w = worker.work /\ v = outbox.work[i]
  OBVIOUS
<1>2. CASE i[1] \notin CardWork
  BY <1>1, <1>2, PlainDone
<1>3. CASE i[1] \in CardWork
  <2>1. v.kind = "update" /\ v.ts = w.ts /\ v.text = w.text /\ v.rev >= w.rev
    BY <1>1, <1>3 DEF Face, HeldFace, Since
  <2>2. \A g \in Group : IsOpen(group[g]) /\ ParentId(group[g]) = i => w.group = g
    BY <1>1 DEF Face, HeldFace
  <2>3. CASE worker.answer = "ok" /\ ~Superseded
    <3>1. Says(slack[w.ts], i, w)
      BY <1>1, <2>3 DEF Face, HeldFace, Sent
    <3>2. v.rev = w.rev
      <4>1. ~(v.rev > w.rev)
        BY <1>1, <2>3 DEF Superseded, Current, Attempt
      <4>2. v.rev \in Nat /\ w.rev \in Nat
        <5>1. w \in Work /\ v \in Work
          BY <1>1, HeldFields DEF TypeOK, OutboxOK
        <5> QED BY <5>1 DEF Work
      <4> QED BY <2>1, <4>1, <4>2
    <3>3. ASSUME NEW g \in Group, IsOpen(group[g]), ParentId(group[g]) = i
          PROVE  slack[group[g].parent.ts].rev = group[g].parent.rev
      <4>1. v.rev = group[g].parent.rev /\ v.ts = group[g].parent.ts
        BY <1>1, <3>3 DEF Cards, CardIn
      <4>2. slack[w.ts].rev = w.rev
        BY <3>1, <3>3 DEF Says
      <4> QED BY <2>1, <3>2, <4>1, <4>2
    <3>4. v.text = "closed" => slack[v.ts].text = "closed"
      BY <2>1, <3>1 DEF Says
    <3> QED BY <1>1, <3>3, <3>4 DEF Done
  <2>4. CASE worker.answer = "missing" /\ ~IsOpen(group[Attempt.group])
    <3>1. ~Live(w.ts)
      BY <1>1, <2>4 DEF Face, HeldFace, Sent
    <3> QED BY <1>1, <2>1, <2>2, <2>4, <3>1 DEF Done, Attempt, Live
  <2> QED BY <2>3, <2>4
<1> QED BY <1>2, <1>3

LEMMA CompleteUpdateFace ==
  ASSUME TypeOK, TypeOK', Cards, Face, CompleteUpdate
  PROVE  Face' /\ LetsGo
<1>1. /\ worker.pc = "sent" /\ worker.answer = "ok" /\ worker.work.kind = "update"
      /\ worker.id \in DOMAIN outbox.work /\ worker' = Idle
      /\ UNCHANGED <<fresh, slack>>
  BY DEF CompleteUpdate, Settle, Attempt
<1>2. /\ group \in [Group -> GroupRecord] /\ Current.group \in Group
      /\ \A g \in Group : ListShown(group[g])
  BY <1>1 DEF TypeOK, OutboxOK, Current, Work, Face, GroupFace, ListShown
<1>3. CASE Superseded
  <2>1. outbox' = [outbox EXCEPT !.work[worker.id].phase = "pending"] /\ group' = group
    BY <1>3 DEF CompleteUpdate, Settle
  <2> QED BY <1>1, <2>1, SettledFace
<1>4. CASE ~Superseded
  <2>1. /\ outbox' = Drop(outbox, {worker.id})
        /\ ForgetList(Current.group, Attempt.ts) \/ UNCHANGED group
    BY <1>4 DEF CompleteUpdate, Settle
  <2>2. \A g \in Group : /\ group'[g].ep = group[g].ep
                         /\ group'[g].parent = group[g].parent
                         /\ ListShown(group'[g])
    BY <1>2, <2>1, ForgetListParents, ForgetListKeeps, ForgetListShown
  <2>3. Done(worker.id)
    BY <1>1, <1>4, UpdatedDone
  <2> QED BY <1>1, <2>1, <2>2, <2>3, DropFace
<1> QED BY <1>3, <1>4

LEMMA ReactionFace ==
  ASSUME TypeOK, TypeOK', Cards, Face, CompleteReaction
  PROVE  Face' /\ LetsGo
<1>1. /\ worker.pc = "sent" /\ worker.work.kind = "reaction" /\ worker' = Idle
      /\ worker.id \in DOMAIN outbox.work /\ UNCHANGED <<fresh, slack, group>>
      /\ outbox' = Drop(outbox, {worker.id})
  BY DEF CompleteReaction, Settle, Attempt
<1>2. worker.id[1] \notin CardWork
  BY <1>1 DEF Face, HeldFace, Aimed, Facing
<1>3. Done(worker.id)
  BY <1>1, <1>2, PlainDone
<1>4. \A g \in Group : ListShown(group'[g])
  BY <1>1 DEF Face, GroupFace, ListShown
<1> QED BY <1>1, <1>3, <1>4, DropFace

LEMMA RetiredFace ==
  ASSUME TypeOK, TypeOK', Cards, Face, RetiredListMissing
  PROVE  Face' /\ LetsGo
<1>1. /\ worker.pc = "sent" /\ worker.work.object = "memberListRetire" /\ worker' = Idle
      /\ worker.id \in DOMAIN outbox.work /\ UNCHANGED <<fresh, slack>>
      /\ outbox' = Drop(outbox, {worker.id}) /\ ForgetList(Current.group, Attempt.ts)
  BY DEF RetiredListMissing, UpdateMissing, Settle, Attempt
<1>2. worker.id[1] \notin CardWork
  BY <1>1 DEF Face, HeldFace, Aimed, Facing
<1>3. Done(worker.id)
  BY <1>1, <1>2, PlainDone
<1>4. /\ group \in [Group -> GroupRecord] /\ Current.group \in Group
      /\ \A g \in Group : ListShown(group[g])
  BY <1>1 DEF TypeOK, OutboxOK, Current, Work, Face, GroupFace, ListShown
<1>5. \A g \in Group : /\ group'[g].ep = group[g].ep
                       /\ group'[g].parent = group[g].parent
                       /\ ListShown(group'[g])
  BY <1>1, <1>4, ForgetListParents, ForgetListKeeps, ForgetListShown
<1> QED BY <1>1, <1>3, <1>5, DropFace

LEMMA DetachedFace ==
  ASSUME TypeOK, TypeOK', Cards, Face, DetachedMissing
  PROVE  Face' /\ LetsGo
<1>1. /\ worker.pc = "sent" /\ worker.answer = "missing" /\ worker.work.kind = "update"
      /\ worker' = Idle /\ worker.id \in DOMAIN outbox.work
      /\ UNCHANGED <<fresh, slack, group>> /\ ~IsOpen(group[Attempt.group])
      /\ outbox' = Drop(outbox, {worker.id})
  BY DEF DetachedMissing, UpdateMissing, Settle, Attempt
<1>2. Done(worker.id)
  BY <1>1, UpdatedDone
<1>3. \A g \in Group : ListShown(group'[g])
  BY <1>1 DEF Face, GroupFace, ListShown
<1> QED BY <1>1, <1>2, <1>3, DropFace

LEMMA SubstituteFields ==
  ASSUME NEW ob, OutboxOK(ob), NEW old \in DOMAIN ob.work, NEW new \in WorkId,
         NEW w \in Work
  PROVE  Like(Substitute(ob, old, new, w).work[new], w)
<1> DEFINE seq == ob.work[old].seq
           kept == Drop(ob, {old})
           put == Put(kept, new, w)
           e == [put.work[new] EXCEPT !.seq = seq]
           sub == Substitute(ob, old, new, w)
<1>1. OutboxOK(kept)
  BY DropOK
<1> HIDE DEF kept
<1>2. OutboxOK(put) /\ new \in DOMAIN put.work /\ Like(put.work[new], w)
  <2>1. OutboxOK(put)
    BY <1>1, PutOK
  <2>2. new \in DOMAIN put.work
    BY DEF Put
  <2>3. Like(put.work[new], w)
    BY PutFields DEF Like
  <2> QED BY <2>1, <2>2, <2>3
<1> HIDE DEF put
<1>3. put.work[new] \in Work
  BY <1>2 DEF OutboxOK
<1>4. Like(e, put.work[new])
  BY <1>3 DEF Work, Like
<1>5. sub.work = [put.work EXCEPT ![new] = e]
  BY <1>2 DEF Substitute, put, kept, OutboxOK
<1> HIDE DEF e, sub
<1>6. Like(sub.work[new], w)
  BY <1>2, <1>4, <1>5 DEF Like
<1> QED BY <1>6 DEF sub

LEMMA ListMissingFace ==
  ASSUME TypeOK, TypeOK', Cards, Face, ListMissing
  PROVE  Face' /\ LetsGo
<1> DEFINE id == worker.id
           g == Attempt.group
           list == [post |-> fresh, ts |-> 0, rev |-> group[g].list.rev + 1]
           gr == [group[g] EXCEPT !.list = list]
           w == NewWork(g, "memberList", "post", gr.list.rev, 0, gr.parent.ts,
                        DependencyForParent(gr.parent), "render", gr.ep)
           ob == Repoint(outbox, group[g].list.post, fresh)
           new == ListId(gr)
<1>1. /\ OutboxOK(outbox) /\ group \in [Group -> GroupRecord] /\ fresh \in Nat
      /\ id \in DOMAIN outbox.work /\ worker.pc = "sent"
      /\ group' = [group EXCEPT ![g] = gr] /\ fresh' = fresh + 1 /\ worker' = Idle
      /\ outbox' = Substitute(ob, id, new, w) /\ group[g].list.post # 0
      /\ worker.work.object = "memberList" /\ slack' = slack
  BY PostFacts DEF ListMissing, UpdateMissing, OldList, Attempt
<1>2. g \in Group /\ group[g] \in GroupRecord
  BY <1>1, WorkerFields DEF Attempt, Work, TypeOK
<1>3. list \in SlackObject /\ list.ts = 0
  BY <1>1, <1>2 DEF GroupRecord, SlackObject
<1> HIDE DEF list
<1>4. gr \in GroupRecord /\ gr.parent = group[g].parent /\ gr.list = list /\ gr.ep = group[g].ep
  BY <1>2, <1>3 DEF GroupRecord
<1> HIDE DEF gr
<1> HIDE DEF g
<1>5. /\ gr.list.rev \in Nat /\ gr.parent.ts \in Nat /\ gr.parent.post \in Nat /\ gr.ep \in Nat
      /\ DependencyForParent(gr.parent) \in Nat /\ new \in WorkId
  <2>1. /\ gr.list.rev \in Nat /\ gr.parent.ts \in Nat /\ gr.parent.post \in Nat /\ gr.ep \in Nat
        /\ ListId(gr) \in WorkId
    BY <1>4, ParentIdFacts
  <2>2. DependencyForParent(gr.parent) \in Nat
    BY <2>1 DEF DependencyForParent
  <2> QED BY <2>1, <2>2
<1>6. w \in Work /\ w.kind = "post" /\ w.object = "memberList" /\ w.text = "render"
  <2>1. "memberList" \in Object /\ "render" \in Text /\ "post" \in {"post", "update", "reaction"}
        /\ 0 \in Nat
    BY DEF Object, Text
  <2>2. w \in Work
    BY <1>2, <1>5, <2>1, NewWorkType
  <2>3. w.kind = "post" /\ w.object = "memberList" /\ w.text = "render"
    BY NewWorkFacts
  <2> QED BY <2>2, <2>3
<1>7. new[1] = "memberList" /\ new[1] \notin CardWork
  BY DEF ListId, CardWork
<1> HIDE DEF w
<1>8. /\ OutboxOK(ob) /\ DOMAIN ob.work = DOMAIN outbox.work
      /\ \A i \in DOMAIN ob.work : ob.work[i] = outbox.work[i]
  BY <1>1, <1>2, RepointOK, RepointNothing
<1> HIDE DEF ob, new
<1>9. /\ DOMAIN outbox'.work = (DOMAIN outbox.work \ {id}) \cup {new}
      /\ \A i \in DOMAIN outbox.work \ {id, new} : outbox'.work[i] = outbox.work[i]
  BY <1>1, <1>5, <1>6, <1>8, SubstituteFacts
<1>10. Like(outbox'.work[new], w)
  BY <1>1, <1>5, <1>6, <1>8, SubstituteFields
<1>11. Plain(new, outbox'.work[new])
  BY <1>6, <1>7, <1>10 DEF Like, Plain
<1>12. id[1] \notin CardWork
  BY <1>1 DEF Face, HeldFace, Aimed, Facing
<1>13. Done(id)
  BY <1>1, <1>12, PlainDone
<1>14. ASSUME NEW i \in DOMAIN outbox'.work
       PROVE  \/ i \in DOMAIN outbox.work /\ Like(outbox'.work[i], outbox.work[i])
              \/ i[1] \notin CardWork /\ Plain(i, outbox'.work[i])
  BY <1>7, <1>9, <1>11 DEF Like
<1>15. \A i \in DOMAIN outbox.work \ DOMAIN outbox'.work : Done(i)
  BY <1>9, <1>13
<1>16. ASSUME NEW h \in Group
       PROVE  /\ group'[h].ep = group[h].ep /\ group'[h].parent = group[h].parent
              /\ ListShown(group'[h])
  <2>1. CASE h = g
    <3>1. group'[h] = gr
      BY <1>1, <1>2, <2>1
    <3> QED BY <1>3, <1>4, <2>1, <3>1 DEF ListShown
  <2>2. CASE h # g
    <3>1. group'[h] = group[h] /\ GroupFace(h)
      BY <1>1, <2>2 DEF Face
    <3> QED BY <3>1 DEF GroupFace, ListShown
  <2> QED BY <2>1, <2>2
<1>17. fresh' >= fresh
  BY <1>1
<1> QED BY <1>1, <1>14, <1>15, <1>16, <1>17, CommitFace

LEMMA ReparentLike ==
  ASSUME NEW ob, OutboxOK(ob), NEW oldTs, NEW oldPost, NEW new \in Nat, NEW i \in DOMAIN ob.work
  PROVE  Like(Reparent(ob, oldTs, oldPost, new).work[i], ob.work[i])
<1>1. ob.work[i] \in Work
  BY DEF OutboxOK
<1>2. Reparent(ob, oldTs, oldPost, new).work[i] =
        IF ob.work[i].thread = oldTs THEN [ob.work[i] EXCEPT !.thread = 0, !.dep = new]
        ELSE IF ob.work[i].dep = oldPost THEN [ob.work[i] EXCEPT !.dep = new]
        ELSE ob.work[i]
  BY DEF Reparent, OutboxOK
<1> QED BY <1>1, <1>2 DEF Work, Like

\* A card was deleted: the open card of its group is replaced, though it may be another.
\* Of the deleted message d, its entry i, the group g and the entry n of the new card:
Replaces(g, i, d, n) ==
  /\ worker' = Idle /\ fresh' = fresh + 1 /\ used' = used
  /\ worker.answer = "missing" /\ g \in Group /\ IsOpen(group[g])
  /\ IsParent(i) /\ i \in DOMAIN outbox.work /\ outbox.work[i].ts = d
  /\ d \in DOMAIN slack /\ slack[d].id = i /\ ~slack[d].live
  /\ \A h \in Group : IsOpen(group[h]) /\ ParentId(group[h]) = i => h = g
  /\ group'[g].parent.post = fresh /\ group'[g].parent.ts = 0
  /\ group'[g].ep = group[g].ep /\ \A h \in Group \ {g} : group'[h] = group[h]
  /\ n = <<"parent", fresh, 0>> /\ n \in DOMAIN outbox'.work
  /\ outbox'.work[n].ep = group[g].ep /\ outbox'.work[n].kind = "post"
  /\ \A j \in DOMAIN outbox'.work \ {n} :
       j \in DOMAIN outbox.work /\ j # i /\ Like(outbox'.work[j], outbox.work[j])
  /\ DOMAIN slack' = DOMAIN slack
  /\ \A t \in DOMAIN slack :
       /\ slack'[t].id = slack[t].id /\ slack'[t].ep = slack[t].ep
       /\ slack'[t].live = slack[t].live
       /\ slack'[t].replaced = IF t = d THEN slack[t].replaced \cup {group[g].parent.post}
                               ELSE slack[t].replaced

LEMMA ParentMissingFace ==
  ASSUME TypeOK, TypeOK', Cards, Face, ParentMissing
  PROVE  Face' /\ \E h, i, d, n : Replaces(h, i, d, n)
<1> DEFINE g == Attempt.group
           parent == [post |-> fresh, ts |-> 0, rev |-> group[g].parent.rev + 1]
           gr == [group[g] EXCEPT !.parent = parent]
           w == NewWork(g, "parent", "post", gr.parent.rev, 0, 0, 0, "render", gr.ep)
           ob == Reparent(outbox, Attempt.ts, group[g].parent.post, fresh)
           new == ParentId(gr)
<1>0. PICK id, dead : id = worker.id /\ dead = worker.work.ts
  OBVIOUS
<1>1. /\ OutboxOK(outbox) /\ group \in [Group -> GroupRecord] /\ fresh \in Nat
      /\ id \in DOMAIN outbox.work /\ worker.pc = "sent" /\ worker.answer = "missing"
      /\ worker.work.kind = "update" /\ worker.work.object = "parent"
      /\ group' = [group EXCEPT ![g] = gr] /\ fresh' = fresh + 1 /\ worker' = Idle
      /\ outbox' = Substitute(ob, id, new, w) /\ IsOpen(group[g])
      /\ slack' = [slack EXCEPT ![dead].replaced = @ \cup {group[g].parent.post}]
  BY <1>0, PostFacts DEF ParentMissing, UpdateMissing, Attempt, IsOpen
<1>2. g \in Group /\ group[g] \in GroupRecord
  BY <1>1, WorkerFields DEF Attempt, Work, TypeOK
<1>3. parent \in SlackObject /\ parent.post = fresh /\ parent.ts = 0
  BY <1>1, <1>2 DEF GroupRecord, SlackObject
<1> HIDE DEF parent
<1>4. gr \in GroupRecord /\ gr.parent = parent /\ gr.list = group[g].list /\ gr.ep = group[g].ep
  BY <1>2, <1>3 DEF GroupRecord
<1> HIDE DEF gr
<1>5. gr.parent.rev \in Nat /\ gr.ep \in Nat /\ new \in WorkId /\ IsParent(new)
      /\ new = <<"parent", fresh, 0>> /\ new[2] = fresh /\ new[3] = 0 /\ new[1] \in CardWork
  BY <1>3, <1>4, ParentIdFacts DEF IsParent, CardWork
<1>6. /\ w \in Work /\ w.kind = "post" /\ w.object = "parent" /\ w.text = "render" /\ w.ts = 0
      /\ w.ep = gr.ep
  <2>1. "parent" \in Object /\ "render" \in Text /\ "post" \in {"post", "update", "reaction"}
        /\ 0 \in Nat
    BY DEF Object, Text
  <2>2. w \in Work
    BY <1>2, <1>5, <2>1, NewWorkType
  <2> QED BY <2>2, NewWorkFacts
<1> HIDE DEF w
<1>7. /\ OutboxOK(ob) /\ DOMAIN ob.work = DOMAIN outbox.work
      /\ \A i \in DOMAIN outbox.work : Like(ob.work[i], outbox.work[i])
  BY <1>1, ReparentOK, ReparentLike
<1>8. group[g].parent.post = ParentId(group[g])[2]
      /\ ParentId(group[g]) = <<"parent", group[g].parent.post, 0>>
      /\ group[g].parent.post \in Nat
  BY <1>2, ParentIdFacts
<1>9. PICK v : v = outbox.work[id]
  OBVIOUS
<1>10. /\ IsParent(id) /\ id[1] \in CardWork /\ dead \in DOMAIN slack /\ slack[dead].id = id
       /\ ~slack[dead].live /\ v.ts = dead /\ id # new
       /\ \A h \in Group : IsOpen(group[h]) /\ ParentId(group[h]) = id => h = g
  <2>1. Aimed(id, worker.work)
    BY <1>0, <1>1 DEF Face, HeldFace
  <2>2. id[1] \in CardWork /\ IsParent(id)
    BY <1>1, <2>1 DEF Aimed, Plain, Facing
  <2>3. dead \in DOMAIN slack /\ slack[dead].id = id
    BY <1>0, <1>1, <2>1, <2>2 DEF Aimed, Facing
  <2>4. ~slack[dead].live
    BY <1>0, <1>1, <2>3 DEF Face, HeldFace, Sent, Live
  <2>5. v.ts = dead
    BY <1>0, <1>1, <1>9, <2>2 DEF Face, HeldFace, Since
  <2>6. \A h \in Group : IsOpen(group[h]) /\ ParentId(group[h]) = id => h = g
    BY <1>0, <1>1 DEF Face, HeldFace, Attempt
  <2>7. id # new
    BY <1>1, <1>5, <2>2, EntryDrawn
  <2> QED BY <2>2, <2>3, <2>4, <2>5, <2>6, <2>7
<1> HIDE DEF ob, new, g
<1>11. /\ DOMAIN outbox'.work = (DOMAIN outbox.work \ {id}) \cup {new}
       /\ \A i \in DOMAIN outbox.work \ {id, new} : outbox'.work[i] = ob.work[i]
       /\ Like(outbox'.work[new], w)
  BY <1>1, <1>5, <1>6, <1>7, SubstituteFacts, SubstituteFields
<1>12. new \notin DOMAIN outbox.work
  BY <1>5, EntryDrawn
<1>13. \A i \in DOMAIN outbox'.work \ {new} : /\ i \in DOMAIN outbox.work
                                              /\ Like(outbox'.work[i], outbox.work[i])
  BY <1>7, <1>11
<1>14. /\ DOMAIN slack' = DOMAIN slack
       /\ \A t \in DOMAIN slack :
            /\ slack'[t].id = slack[t].id /\ slack'[t].text = slack[t].text
            /\ slack'[t].ep = slack[t].ep /\ slack'[t].rev = slack[t].rev
            /\ slack'[t].live = slack[t].live /\ slack'[t].recorded = slack[t].recorded
            /\ slack[t].replaced \subseteq slack'[t].replaced
       /\ group[g].parent.post \in slack'[dead].replaced
  <2>1. slack[dead] \in SlackMessage
    BY <1>10 DEF TypeOK
  <2> QED BY <1>1, <1>10, <2>1 DEF TypeOK, SlackMessage
<1>15. /\ group'[g] = gr /\ \A h \in Group \ {g} : group'[h] = group[h]
       /\ \A h \in Group : group'[h].ep = group[h].ep /\ group'[h].list = group[h].list
  BY <1>1, <1>2, <1>4
<1>16. Proceeds /\ Grows
  <2>1. ASSUME NEW h \in Group, IsOpen(group'[h])
        PROVE  \/ group'[h].parent.post = fresh
               \/ /\ IsOpen(group[h]) /\ group'[h].parent.post = group[h].parent.post
                  /\ group'[h].ep = group[h].ep
    BY <1>3, <1>4, <1>15, <2>1
  <2> QED BY <1>14, <2>1 DEF Proceeds, Grows
<1>17. IsOpen(group'[g]) /\ ParentId(group'[g]) = new
  <2>1. fresh # 0
    BY <1>1 DEF Cards, Drawn
  <2> QED BY <1>3, <1>4, <1>15, <2>1 DEF new, IsOpen
\* The open card is given up: it is the deleted one, or it was mistaken for it.
<1>18. PICK post : post = group[g].parent.post /\ post = ParentId(group[g])[2]
  BY <1>8
<1>19. ParentId(group[g]) # id => Mistaken(post)'
  <2>1. ASSUME id[2] = post PROVE ParentId(group[g]) = id
    <3>1. id[3] = 0 /\ id \in WorkId
      BY <1>1, <1>10, PostFacts DEF Cards, Fit, FitAt
    <3>2. id = <<"parent", id[2], 0>>
      BY <1>10, <3>1 DEF WorkId, IsParent
    <3> QED BY <1>8, <1>18, <2>1, <3>2
  <2>2. post \in slack'[dead].replaced /\ slack'[dead].id = id /\ dead \in DOMAIN slack'
    BY <1>10, <1>14, <1>18
  <2> QED BY <2>1, <2>2 DEF Mistaken
<1>20. ASSUME NEW i \in DOMAIN outbox'.work, NEW u, u = outbox'.work[i]
       PROVE  Aimed(i, u)' /\ (IsParent(i) => Owned(i, u)')
  <2>1. CASE i = new
    <3>1. /\ u.kind = "post" /\ u.object = "parent" /\ u.text = "render" /\ u.ts = 0
      BY <1>6, <1>11, <1>20, <2>1 DEF Like
    <3>2. OpenCard(i)'
      BY <1>2, <1>17, <2>1 DEF OpenCard
    <3>3. Owned(i, u)'
      BY <3>1, <3>2 DEF Owned
    <3>4. Facing(i, u)'
      BY <1>5, <2>1, <3>1 DEF Facing
    <3> QED BY <1>5, <2>1, <3>3, <3>4 DEF Aimed
  <2>2. CASE i # new
    <3>1. i \in DOMAIN outbox.work /\ Like(u, outbox.work[i]) /\ i \in WorkId
      BY <1>13, <1>20, <2>2, PostFacts
    <3>2. Aimed(i, u)
      BY <3>1, PlainLike DEF Face, EntriesFace
    <3>3. fresh' >= fresh
      BY <1>1
    <3>4. Aimed(i, u)'
      BY <1>16, <3>1, <3>2, <3>3, AimedLater DEF Face
    <3>5. ASSUME IsParent(i) PROVE Owned(i, u)'
      <4>1. Owned(i, outbox.work[i]) /\ u.text = outbox.work[i].text
        BY <3>1, <3>5 DEF Face, EntriesFace, Like
      <4>2. OpenCard(i)' => OpenCard(i)
        <5>1. i[2] # fresh
          BY <3>1, <3>5, EntryDrawn DEF IsParent, CardWork
        <5> QED BY <1>16, <5>1, OpenCardBefore
      <4>3. OpenCard(i) => OpenCard(i)' \/ Mistaken(i[2])'
        <5>1. ASSUME NEW h \in Group, IsOpen(group[h]), ParentId(group[h]) = i
              PROVE  OpenCard(i)' \/ Mistaken(i[2])'
          <6>1. CASE h # g
            <7>1. group'[h] = group[h]
              BY <1>15, <6>1
            <7>2. OpenCard(i)'
              BY <5>1, <7>1 DEF OpenCard
            <7> QED BY <7>2
          <6>2. CASE h = g
            <7>1. i # id
              BY <1>10, <1>11, <1>20, <2>2
            <7> QED BY <1>18, <1>19, <5>1, <6>2, <7>1
          <6> QED BY <6>1, <6>2
        <5> QED BY <5>1 DEF OpenCard
      <4>4. Mistaken(i[2]) => Mistaken(i[2])'
        BY <1>16, MistakenLater
      <4> QED BY <4>1, <4>2, <4>3, <4>4 DEF Owned
    <3> QED BY <3>4, <3>5
  <2> QED BY <2>1, <2>2
<1>21. EntriesFace'
  <2> SUFFICES ASSUME NEW i \in DOMAIN outbox'.work
               PROVE  Aimed(i, outbox.work[i])' /\ (IsParent(i) => Owned(i, outbox.work[i])')
    BY DEF EntriesFace
  <2>1. PICK u : u = outbox'.work[i]
    OBVIOUS
  <2>2. Aimed(i, u)' /\ (IsParent(i) => Owned(i, u)')
    BY <1>20, <2>1
  <2> QED BY <2>1, <2>2
<1>22. HeldFace'
  BY <1>1 DEF HeldFace, Idle
<1>23. ASSUME NEW h \in Group PROVE GroupFace(h)'
  <2>1. GroupFace(h) /\ group[h].ep \in Nat
    BY PostFacts, ParentIdFacts DEF Face
  <2>2. group'[h].ep < fresh'
    BY <1>1, <1>15, <2>1 DEF GroupFace
  <2>3. group'[h].list.ts # 0 => /\ group'[h].list.ts \in DOMAIN slack'
                                 /\ slack'[group'[h].list.ts].id[1] = "memberList"
    BY <1>14, <1>15, <2>1 DEF GroupFace
  <2>4. ASSUME IsOpen(group'[h]) PROVE IsOpen(group[h])
    BY <1>1, <1>15, <2>4
  <2>5. ASSUME IsOpen(group[h])
        PROVE  <<"closeParent", group'[h].ep, 0>> \notin DOMAIN outbox'.work
    <3>1. PICK c : c = <<"closeParent", group'[h].ep, 0>>
      OBVIOUS
    <3>2. c \notin DOMAIN outbox.work
      BY <1>15, <2>1, <2>5, <3>1 DEF GroupFace
    <3>3. c # new
      BY <1>5, <3>1
    <3> QED BY <1>11, <3>1, <3>2, <3>3
  <2>6. ASSUME IsOpen(group[h]), group'[h].parent.ts # 0 PROVE ShowsCard(group[h])'
    <3>1. h # g /\ group'[h] = group[h]
      BY <1>3, <1>4, <1>15, <2>6
    <3>2. ShowsCard(group[h])
      BY <2>1, <2>6, <3>1 DEF GroupFace
    <3>3. ParentId(group[h]) # id
      BY <1>10, <2>6, <3>1
    <3>4. ParentId(group[h]) \notin DOMAIN outbox'.work =>
            ParentId(group[h]) \notin DOMAIN outbox.work
      BY <1>11, <3>3
    <3>5. PICK k : k = group[h]
      OBVIOUS
    <3>6. ShowsCard(k)'
      BY <1>14, <3>2, <3>4, <3>5 DEF ShowsCard
    <3> QED BY <3>1, <3>5, <3>6
  <2>7. IsOpen(group[h]) => group[h].ep # 0 /\ \A k \in Group \ {h} : group[k].ep # group[h].ep
    BY <2>1 DEF GroupFace
  <2>8. worker'.pc = "idle"
    BY <1>1 DEF Idle
  <2> QED BY <1>15, <2>2, <2>3, <2>4, <2>5, <2>6, <2>7, <2>8 DEF GroupFace
<1>24. SlackFace'
  <2> SUFFICES ASSUME NEW t \in DOMAIN slack, IsCard(t)
               PROVE  /\ slack[t].id[2] < fresh'
                      /\ slack[t].live /\ slack[t].recorded => Accounted(t)'
    BY <1>14 DEF SlackFace, IsCard
  <2>1. slack[t].id[2] < fresh /\ (slack[t].live /\ slack[t].recorded => Accounted(t))
    BY DEF Face, SlackFace
  <2>2. slack[t].id[2] \in Nat
    <3>1. slack[t] \in SlackMessage
      BY DEF TypeOK
    <3> QED BY <3>1 DEF SlackMessage, WorkId
  <2>3. ASSUME slack[t].live, Accounted(t) PROVE Accounted(t)'
    <3>1. ASSUME NEW h \in Group, IsOpen(group[h]), group[h].parent.ts = t
          PROVE  Accounted(t)'
      <4>1. CASE h # g
        <5>1. group'[h] = group[h]
          BY <1>15, <4>1
        <5> QED BY <3>1, <5>1 DEF Accounted
      <4>2. CASE h = g
        <5>1. slack[t].id = ParentId(group[g])
          <6>1. t # 0
            BY DEF TypeOK
          <6> QED BY <3>1, <4>2, <6>1 DEF Face, GroupFace, ShowsCard
        <5>2. ParentId(group[g]) # id
          <6>1. ASSUME ParentId(group[g]) = id PROVE v.ts = t
            BY <1>1, <1>2, <1>9, <3>1, <4>2, <6>1 DEF Cards, CardIn
          <6> QED BY <1>10, <2>3, <6>1
        <5>3. slack'[t].id = slack[t].id
          BY <1>14
        <5>4. slack'[t].id[2] = post
          BY <1>18, <5>1, <5>3
        <5> QED BY <1>19, <5>2, <5>4 DEF Accounted
      <4> QED BY <4>1, <4>2
    <3>2. ASSUME NEW i \in DOMAIN outbox.work, outbox.work[i].ts = t,
                 outbox.work[i].text = "closed"
          PROVE  Accounted(t)'
      <4>1. i # id
        BY <1>9, <1>10, <2>3, <3>2
      <4>2. i \in DOMAIN outbox'.work /\ Like(outbox'.work[i], outbox.work[i])
        BY <1>11, <1>12, <1>13, <4>1
      <4> QED BY <3>2, <4>2 DEF Like, Accounted
    <3>3. CASE slack[t].text = "closed"
      BY <1>14, <3>3 DEF Accounted
    <3>4. CASE Mistaken(slack[t].id[2])
      <4>1. Mistaken(slack[t].id[2])'
        <5>1. PICK q : q = slack[t].id[2]
          OBVIOUS
        <5>2. slack'[t].id[2] = q
          BY <1>14, <5>1
        <5>3. Mistaken(q)'
          BY <1>16, <3>4, <5>1, MistakenLater
        <5> QED BY <5>2, <5>3
      <4> QED BY <4>1 DEF Accounted
    <3> QED BY <2>3, <3>1, <3>2, <3>3, <3>4 DEF Accounted
  <2> QED BY <1>1, <2>1, <2>2, <2>3
<1>25. \E h, i, d, n : Replaces(h, i, d, n)
  <2>1. PICK k, n : k = g /\ n = new
    OBVIOUS
  <2>2. \A t \in DOMAIN slack :
          slack'[t].replaced = IF t = dead THEN slack[t].replaced \cup {group[k].parent.post}
                               ELSE slack[t].replaced
    <3>1. slack[dead] \in SlackMessage
      BY <1>10 DEF TypeOK
    <3> QED BY <1>1, <1>10, <2>1, <3>1 DEF TypeOK, SlackMessage
  <2>3. outbox'.work[n].ep = group[k].ep /\ outbox'.work[n].kind = "post"
    BY <1>4, <1>6, <1>11, <2>1 DEF Like
  <2>4. used' = used
    BY DEF ParentMissing
  <2>5. \A j \in DOMAIN outbox'.work \ {n} :
          j \in DOMAIN outbox.work /\ j # id /\ Like(outbox'.work[j], outbox.work[j])
    BY <1>11, <1>13, <2>1
  <2>6. n = <<"parent", fresh, 0>> /\ n \in DOMAIN outbox'.work
    BY <1>5, <1>11, <2>1
  <2>7. /\ group'[k].parent.post = fresh /\ group'[k].parent.ts = 0
        /\ group'[k].ep = group[k].ep /\ \A h \in Group \ {k} : group'[h] = group[h]
    BY <1>3, <1>4, <1>15, <2>1
  <2>8. /\ worker' = Idle /\ fresh' = fresh + 1 /\ worker.answer = "missing"
        /\ k \in Group /\ IsOpen(group[k]) /\ id \in DOMAIN outbox.work
    BY <1>1, <1>2, <2>1
  <2>9. outbox.work[id].ts = dead
    BY <1>9, <1>10
  <2>10. \A t \in DOMAIN slack : /\ slack'[t].id = slack[t].id /\ slack'[t].ep = slack[t].ep
                                 /\ slack'[t].live = slack[t].live
    BY <1>14
  <2>11. /\ IsParent(id) /\ dead \in DOMAIN slack /\ slack[dead].id = id /\ ~slack[dead].live
         /\ \A h \in Group : IsOpen(group[h]) /\ ParentId(group[h]) = id => h = k
         /\ DOMAIN slack' = DOMAIN slack
    BY <1>10, <1>14, <2>1
  <2>12. Replaces(k, id, dead, n)
    BY <2>2, <2>3, <2>4, <2>5, <2>6, <2>7, <2>8, <2>9, <2>10, <2>11 DEF Replaces
  <2> QED BY <2>12
<1> QED BY <1>21, <1>22, <1>23, <1>24, <1>25 DEF Face

-----------------------------------------------------------------------------
(* The worker reads and calls.                                               *)

LEMMA PickFace ==
  ASSUME TypeOK, TypeOK', Cards, Face, NEW cooling, Pick(cooling)
  PROVE  Face'
<1>1. /\ worker.pc = "idle" /\ UNCHANGED <<group, outbox, fresh, slack, used>>
      /\ \E i \in Candidates(cooling) :
           worker' = [pc |-> "picked", id |-> i, work |-> outbox.work[i],
                      content |-> Rendered(outbox.work[i])]
  BY DEF Pick
<1>2. PICK i \in DOMAIN outbox.work :
        worker' = [pc |-> "picked", id |-> i, work |-> outbox.work[i],
                   content |-> Rendered(outbox.work[i])]
  BY <1>1 DEF Candidates
<1>3. PICK w : w = outbox.work[i]
  OBVIOUS
<1>4. i \in WorkId /\ w \in Work /\ w.rev \in Nat
  BY <1>3 DEF TypeOK, OutboxOK, Work
<1>5. Proceeds /\ Grows /\ fresh' >= fresh
  BY <1>1 DEF Proceeds, Grows, TypeOK
<1>6. Aimed(i, w)
  BY <1>3 DEF Face, EntriesFace
<1>7. Aimed(i, w)'
  BY <1>4, <1>5, <1>6, AimedLater DEF Face
<1>8. ASSUME NEW g \in Group, IsOpen(group[g]), ParentId(group[g]) = i
      PROVE  /\ w.text = "render" /\ w.group = g /\ w.rev = group[g].parent.rev
             /\ w.object = "parent"
  <2>1. IsParent(i) /\ i[1] \in CardWork
    BY <1>8 DEF ParentId, IsParent, CardWork
  <2>2. w.text = "render"
    BY <1>3, <1>8, <2>1 DEF Face, EntriesFace, Owned, OpenCard
  <2>3. w.group = g /\ w.rev = group[g].parent.rev
    BY <1>3, <1>8 DEF Cards, CardIn
  <2>4. w.object = "parent"
    BY <1>6, <2>1 DEF Aimed, Facing
  <2> QED BY <2>2, <2>3, <2>4
<1>9. Says(Rendered(w), i, w)
  <2>1. w.text = "closed" => Rendered(w).text = "closed"
    BY DEF Rendered
  <2>2. ASSUME NEW g \in Group, IsOpen(group[g]), ParentId(group[g]) = i
        PROVE  /\ Rendered(w).text = "card" /\ Rendered(w).ep = group[g].ep
               /\ Rendered(w).rev = w.rev
    BY <1>8, <2>2 DEF Rendered
  <2> QED BY <2>1, <2>2 DEF Says
<1>10. PICK m : m = Rendered(w)
  OBVIOUS
<1>11. /\ worker'.pc = "picked" /\ worker'.id = i /\ worker'.work = w /\ worker'.content = m
  BY <1>2, <1>3, <1>10
<1>12. Says(m, i, w)'
  BY <1>1, <1>9, <1>10 DEF Says
<1>13. Since(w, w)
  BY <1>4 DEF Since
<1>14. HeldFace'
  <2>1. ~Sent({"missing"})' /\ ~Sent({"ok", "lost"})'
    BY <1>11 DEF Sent
  <2>2. \A g \in Group : IsOpen(group'[g]) /\ ParentId(group'[g]) = i =>
          w.text = "render" /\ w.group = g /\ i \in DOMAIN outbox'.work
    BY <1>1, <1>8
  <2>3. outbox'.work[i] = w
    BY <1>1, <1>3
  <2> QED BY <1>7, <1>11, <1>12, <1>13, <2>1, <2>2, <2>3 DEF HeldFace
<1>15. EntriesFace'
  <2>1. EntriesFace
    BY DEF Face
  <2> QED BY <1>1, <2>1 DEF EntriesFace, Aimed, Plain, Facing, Owned, OpenCard, Mistaken, IsCard
<1>16. ASSUME NEW g \in Group PROVE GroupFace(g)'
  <2>1. GroupFace(g)
    BY DEF Face
  <2>2. IsOpen(group[g]) => i # <<"closeParent", group[g].ep, 0>>
    BY <2>1 DEF GroupFace
  <2> QED BY <1>1, <1>11, <2>1, <2>2 DEF GroupFace, ShowsCard
<1>17. SlackFace'
  <2>1. SlackFace
    BY DEF Face
  <2> QED BY <1>1, <2>1 DEF SlackFace, Accounted, Mistaken, IsCard
<1> QED BY <1>14, <1>15, <1>16, <1>17 DEF Face

LEMMA DeleteFace ==
  ASSUME TypeOK, TypeOK', Cards, Face, NEW ts \in DOMAIN slack, DeleteMessage(ts)
  PROVE  Face'
<1>1. /\ UNCHANGED <<group, outbox, fresh, worker>>
      /\ slack' = [slack EXCEPT ![ts].live = FALSE]
  BY DEF DeleteMessage
<1>2. /\ DOMAIN slack' = DOMAIN slack
      /\ \A t \in DOMAIN slack :
           /\ slack'[t].id = slack[t].id /\ slack'[t].text = slack[t].text
           /\ slack'[t].ep = slack[t].ep /\ slack'[t].rev = slack[t].rev
           /\ slack'[t].live => slack[t].live
           /\ slack'[t].recorded = slack[t].recorded /\ slack'[t].replaced = slack[t].replaced
  <2>1. slack[ts] \in SlackMessage
    BY DEF TypeOK
  <2> QED BY <1>1, <2>1 DEF TypeOK, SlackMessage
<1>3. Proceeds /\ Grows /\ fresh' >= fresh
  BY <1>1, <1>2 DEF Proceeds, Grows, TypeOK
<1>4. ASSUME NEW i \in WorkId, NEW w, Aimed(i, w) PROVE Aimed(i, w)'
  BY <1>3, <1>4, AimedLater DEF Face
<1>5. EntriesFace'
  <2> SUFFICES ASSUME NEW i \in DOMAIN outbox'.work
               PROVE  Aimed(i, outbox.work[i])' /\ (IsParent(i) => Owned(i, outbox.work[i])')
    BY DEF EntriesFace
  <2>1. PICK w : w = outbox.work[i]
    OBVIOUS
  <2>2. i \in WorkId /\ Aimed(i, w) /\ (IsParent(i) => Owned(i, w))
    BY <1>1, <2>1, PostFacts DEF Face, EntriesFace
  <2>3. IsParent(i) => Owned(i, w)'
    BY <1>1, <1>2, <2>2 DEF Owned, OpenCard, Mistaken
  <2>4. Aimed(i, w)'
    BY <1>4, <2>2
  <2> QED BY <1>1, <2>1, <2>3, <2>4
<1>6. HeldFace'
  <2> SUFFICES ASSUME worker.pc # "idle" PROVE HeldFace'
    BY <1>1 DEF HeldFace
  <2>1. PICK i \in WorkId, w \in Work : i = worker.id /\ w = worker.work
    BY HeldFields
  <2>2. Aimed(i, w)'
    BY <1>4, <2>1 DEF Face, HeldFace
  <2>3. /\ Sent({"missing"}) => ~Live(w.ts)
        /\ Sent({"ok", "lost"}) /\ w.kind = "post" =>
             /\ worker.ts \in DOMAIN slack /\ slack[worker.ts].id = i
             /\ Says(slack[worker.ts], i, w)
        /\ Sent({"ok", "lost"}) /\ w.kind = "update" => Says(slack[w.ts], i, w)
    BY <2>1 DEF Face, HeldFace
  <2>4. ASSUME NEW t \in DOMAIN slack, Says(slack[t], i, w) PROVE Says(slack[t], i, w)'
    BY <1>1, <1>2, <2>4 DEF Says
  <2>5. ASSUME w.kind = "update" PROVE w.ts \in DOMAIN slack
    BY <2>1, <2>5 DEF Face, HeldFace, Aimed, Plain, Facing
  <2>6. /\ Sent({"missing"})' <=> Sent({"missing"})
        /\ Sent({"ok", "lost"})' <=> Sent({"ok", "lost"})
        /\ Live(w.ts)' => Live(w.ts)
    BY <1>1, <1>2 DEF Sent, Live
  <2>7. /\ Sent({"ok", "lost"}) /\ w.kind = "post" =>
             /\ worker.ts \in DOMAIN slack' /\ slack'[worker.ts].id = i
             /\ Says(slack[worker.ts], i, w)'
        /\ Sent({"ok", "lost"}) /\ w.kind = "update" => Says(slack[w.ts], i, w)'
    <3>1. ASSUME Sent({"ok", "lost"}), w.kind = "post"
          PROVE  /\ worker.ts \in DOMAIN slack' /\ slack'[worker.ts].id = i
                 /\ Says(slack[worker.ts], i, w)'
      <4>1. PICK t \in DOMAIN slack : t = worker.ts /\ slack[t].id = i /\ Says(slack[t], i, w)
        BY <2>3, <3>1
      <4>2. Says(slack[t], i, w)'
        BY <2>4, <4>1
      <4> QED BY <1>1, <1>2, <4>1, <4>2
    <3> QED BY <2>3, <2>4, <2>5, <3>1
  <2>8. /\ \A g \in Group : IsOpen(group'[g]) /\ ParentId(group'[g]) = i =>
             w.text = "render" /\ w.group = g /\ i \in DOMAIN outbox'.work
        /\ i \in DOMAIN outbox'.work /\ i[1] \in CardWork => Since(w, outbox'.work[i])
        /\ worker.pc = "picked" => Says(worker.content, i, w)'
    BY <1>1, <2>1 DEF Face, HeldFace, Says
  <2> QED BY <1>1, <2>1, <2>2, <2>3, <2>6, <2>7, <2>8 DEF HeldFace
<1>7. ASSUME NEW g \in Group PROVE GroupFace(g)'
  <2>1. GroupFace(g)
    BY DEF Face
  <2> QED BY <1>1, <1>2, <2>1 DEF GroupFace, ShowsCard
<1>8. SlackFace'
  <2>1. SlackFace
    BY DEF Face
  <2>2. ASSUME NEW t \in DOMAIN slack, Accounted(t) PROVE Accounted(t)'
    BY <1>1, <1>2, <2>2 DEF Accounted, Mistaken
  <2> QED BY <1>1, <1>2, <2>1, <2>2 DEF SlackFace, IsCard
<1> QED BY <1>5, <1>6, <1>7, <1>8 DEF Face

\* A call leaves the other messages alone: it appends one or rewrites the one it revises.
LEMMA EffectFacts ==
  ASSUME slack \in Seq(SlackMessage), NEW id, NEW w, NEW content, NEW new,
         new = Effect(id, w, content), w.kind = "update" => w.ts \in DOMAIN slack
  PROVE  /\ DOMAIN slack \subseteq DOMAIN new
         /\ \A t \in DOMAIN slack :
              /\ new[t].id = slack[t].id /\ new[t].replaced = slack[t].replaced
              /\ new[t].live = slack[t].live /\ new[t].recorded = slack[t].recorded
              /\ ~(w.kind = "update" /\ t = w.ts) => new[t] = slack[t]
         /\ \A t \in DOMAIN new \ DOMAIN slack :
              /\ w.kind = "post" /\ t = Len(slack) + 1 /\ new[t].id = id
              /\ ~new[t].recorded /\ new[t].replaced = {} /\ new[t].ep = content.ep
         /\ w.kind = "post" => /\ Len(slack) + 1 \in DOMAIN new
                               /\ new[Len(slack) + 1].id = id
                               /\ new[Len(slack) + 1].text = content.text
                               /\ new[Len(slack) + 1].ep = content.ep
                               /\ new[Len(slack) + 1].rev = content.rev
         /\ w.kind = "update" => /\ new[w.ts].text = content.text
                                 /\ new[w.ts].ep = content.ep
                                 /\ new[w.ts].rev = content.rev
<1>1. CASE w.kind = "post"
  <2> DEFINE m == Message(id, w, content)
  <2>1. new = Append(slack, m)
    BY <1>1 DEF Effect
  <2>2. /\ m.id = id /\ m.recorded = FALSE /\ m.text = content.text /\ m.ep = content.ep
        /\ m.rev = content.rev /\ m.replaced = {}
    BY DEF Message
  <2> HIDE DEF m
  <2>3. /\ DOMAIN new = DOMAIN slack \cup {Len(slack) + 1}
        /\ \A t \in DOMAIN slack : new[t] = slack[t]
        /\ new[Len(slack) + 1] = m
    BY <2>1
  <2> QED BY <1>1, <2>2, <2>3
<1>2. CASE w.kind = "update"
  <2> DEFINE m == [slack[w.ts] EXCEPT !.text = content.text, !.ep = content.ep,
                                      !.rev = content.rev]
  <2>1. slack[w.ts] \in SlackMessage
    BY <1>2
  <2>2. new = [slack EXCEPT ![w.ts] = m]
    BY <1>2, <2>1 DEF Effect, SlackMessage
  <2>3. /\ m.id = slack[w.ts].id /\ m.replaced = slack[w.ts].replaced
        /\ m.live = slack[w.ts].live /\ m.recorded = slack[w.ts].recorded
        /\ m.text = content.text /\ m.ep = content.ep /\ m.rev = content.rev
    BY <2>1 DEF SlackMessage
  <2> HIDE DEF m
  <2> QED BY <1>2, <2>2, <2>3
<1>3. CASE w.kind \notin {"post", "update"}
  <2>1. new = slack
    BY <1>3 DEF Effect
  <2> QED BY <1>3, <2>1
<1> QED BY <1>1, <1>2, <1>3

LEMMA SendFace ==
  ASSUME TypeOK, TypeOK', Cards, Face, NEW answer, Send(answer)
  PROVE  Face'
<1>0. worker.pc = "picked" /\ worker.id \in DOMAIN outbox.work
  BY DEF Send
<1>1. PICK i \in WorkId, w \in Work : i = worker.id /\ w = worker.work
  BY <1>0, HeldFields
<1>2. PICK m : m = worker.content
  OBVIOUS
<1>3. /\ i \in DOMAIN outbox.work /\ Answers(w)[answer] /\ group' = group /\ fresh' = fresh
      /\ outbox' = [outbox EXCEPT !.work[i].phase = "inFlight", !.work[i].tried = TRUE]
      /\ slack' = IF answer \in {"ok", "lost"} THEN Effect(i, w, m) ELSE slack
      /\ worker' = [pc |-> "sent", id |-> i, work |-> w, answer |-> answer,
                    ts |-> Len(slack) + 1]
  BY <1>1, <1>2 DEF Send
<1>4. /\ worker'.pc = "sent" /\ worker'.id = i /\ worker'.work = w
      /\ worker'.answer = answer /\ worker'.ts = Len(slack) + 1
  BY <1>3
<1>5. /\ DOMAIN outbox'.work = DOMAIN outbox.work
      /\ \A j \in DOMAIN outbox.work : Like(outbox'.work[j], outbox.work[j])
  <2> DEFINE e == [outbox.work[i] EXCEPT !.phase = "inFlight", !.tried = TRUE]
  <2>1. OutboxOK(outbox) /\ outbox.work[i] \in Work
    BY <1>3 DEF TypeOK, OutboxOK
  <2>2. outbox'.work = [outbox.work EXCEPT ![i] = e]
    BY <1>3, <2>1 DEF OutboxOK
  <2>3. Like(e, outbox.work[i])
    BY <2>1 DEF Work, Like
  <2> HIDE DEF e
  <2> QED BY <2>2, <2>3 DEF Like
<1>6. /\ Aimed(i, w) /\ Says(m, i, w)
      /\ \A g \in Group : IsOpen(group[g]) /\ ParentId(group[g]) = i =>
           w.text = "render" /\ w.group = g /\ i \in DOMAIN outbox.work
      /\ i[1] \in CardWork => Since(w, outbox.work[i])
  BY <1>0, <1>1, <1>2 DEF Face, HeldFace
<1>7. w.kind = "update" => w.ts \in DOMAIN slack
  BY <1>6 DEF Aimed, Plain, Facing
<1>8. slack \in Seq(SlackMessage) /\ Len(slack) \in Nat /\ DOMAIN slack = 1..Len(slack)
  BY DEF TypeOK
<1>9. /\ DOMAIN slack \subseteq DOMAIN slack'
      /\ \A t \in DOMAIN slack :
           /\ slack'[t].id = slack[t].id /\ slack'[t].replaced = slack[t].replaced
           /\ slack'[t].live = slack[t].live /\ slack'[t].recorded = slack[t].recorded
           /\ slack'[t] # slack[t] =>
                /\ w.kind = "update" /\ t = w.ts
                /\ slack'[t].text = m.text /\ slack'[t].ep = m.ep /\ slack'[t].rev = m.rev
      /\ \A t \in DOMAIN slack' \ DOMAIN slack : slack'[t].id = i /\ ~slack'[t].recorded
  <2>1. CASE answer \in {"ok", "lost"}
    <3>1. slack' = Effect(i, w, m)
      BY <1>3, <2>1
    <3> QED BY <1>7, <1>8, <3>1, EffectFacts
  <2>2. CASE answer \notin {"ok", "lost"}
    <3>1. slack' = slack
      BY <1>3, <2>2
    <3> QED BY <3>1
  <2> QED BY <2>1, <2>2
<1>10. Proceeds /\ Grows /\ fresh' >= fresh
  BY <1>3, <1>9 DEF Proceeds, Grows, TypeOK
<1>11. ASSUME NEW j \in WorkId, NEW v, Aimed(j, v) PROVE Aimed(j, v)'
  BY <1>10, <1>11, AimedLater DEF Face
<1>12. EntriesFace'
  <2> SUFFICES ASSUME NEW j \in DOMAIN outbox'.work
               PROVE  Aimed(j, outbox.work[j])' /\ (IsParent(j) => Owned(j, outbox.work[j])')
    BY DEF EntriesFace
  <2>1. PICK v : v = outbox'.work[j]
    OBVIOUS
  <2>2. j \in WorkId /\ j \in DOMAIN outbox.work /\ Like(v, outbox.work[j])
    BY <1>5, <2>1, PostFacts
  <2>3. Aimed(j, v)
    BY <2>2, PlainLike DEF Face, EntriesFace
  <2>4. Aimed(j, v)'
    BY <1>11, <2>2, <2>3
  <2>5. IsParent(j) => Owned(j, v)
    BY <2>2 DEF Face, EntriesFace, Owned, Like
  <2>6. Mistaken(j[2]) => Mistaken(j[2])'
    BY <1>10, MistakenLater
  <2>7. IsParent(j) => Owned(j, v)'
    BY <1>3, <2>5, <2>6 DEF Owned, OpenCard
  <2> QED BY <2>1, <2>4, <2>7
<1>13. HeldFace'
  <2>1. Aimed(i, w)'
    BY <1>6, <1>11
  <2>2. \A g \in Group : IsOpen(group'[g]) /\ ParentId(group'[g]) = i =>
          w.text = "render" /\ w.group = g /\ i \in DOMAIN outbox'.work
    BY <1>3, <1>5, <1>6
  <2>3. i[1] \in CardWork => Since(w, outbox'.work[i])
    BY <1>3, <1>5, <1>6 DEF Since, Like
  <2>4. Sent({"missing"})' => ~Live(w.ts)'
    <3>1. ASSUME answer = "missing" PROVE ~Live(w.ts)'
      <4>1. slack' = slack /\ ~Live(w.ts)
        BY <1>3, <3>1 DEF Answers
      <4> QED BY <4>1 DEF Live
    <3> QED BY <1>4, <3>1 DEF Sent
  <2>5. ASSUME Sent({"ok", "lost"})', w.kind \in {"post", "update"}
        PROVE  LET t == IF w.kind = "post" THEN worker'.ts ELSE w.ts
               IN  /\ t \in DOMAIN slack' /\ (w.kind = "post" => slack'[t].id = i)
                   /\ slack'[t].text = m.text /\ slack'[t].ep = m.ep /\ slack'[t].rev = m.rev
    <3>1. slack' = Effect(i, w, m)
      BY <1>3, <1>4, <2>5 DEF Sent
    <3>2. CASE w.kind = "post"
      BY <1>4, <1>8, <3>1, <3>2, EffectFacts
    <3>3. CASE w.kind = "update"
      BY <1>7, <1>8, <3>1, <3>3, EffectFacts
    <3> QED BY <2>5, <3>2, <3>3
  <2>6. ASSUME NEW u, u.text = m.text, u.ep = m.ep, u.rev = m.rev PROVE Says(u, i, w)'
    BY <1>3, <1>6, <2>6 DEF Says
  <2>7. /\ Sent({"ok", "lost"})' /\ w.kind = "post" =>
             /\ worker'.ts \in DOMAIN slack' /\ slack'[worker'.ts].id = i
             /\ Says(slack[worker.ts], i, w)'
        /\ Sent({"ok", "lost"})' /\ w.kind = "update" => Says(slack[w.ts], i, w)'
    <3>1. PICK u, x : u = slack'[worker'.ts] /\ x = slack'[w.ts]
      OBVIOUS
    <3>2. Sent({"ok", "lost"})' /\ w.kind = "post" =>
            worker'.ts \in DOMAIN slack' /\ u.id = i /\ Says(u, i, w)'
      BY <2>5, <2>6, <3>1
    <3>3. Sent({"ok", "lost"})' /\ w.kind = "update" => Says(x, i, w)'
      BY <2>5, <2>6, <3>1
    <3> QED BY <3>1, <3>2, <3>3
  <2> QED BY <1>4, <2>1, <2>2, <2>3, <2>4, <2>7 DEF HeldFace
<1>14. ASSUME NEW g \in Group PROVE GroupFace(g)'
  <2>1. GroupFace(g)
    BY DEF Face
  <2>2. ASSUME IsOpen(group[g]), group[g].parent.ts # 0 PROVE ShowsCard(group[g])'
    <3>1. ShowsCard(group[g])
      BY <2>1, <2>2 DEF GroupFace
    <3>2. PICK k, t : k = group[g] /\ t = group[g].parent.ts
      OBVIOUS
    <3>3. CASE slack'[t] = slack[t]
      <4>1. ShowsCard(k)'
        BY <1>5, <1>9, <3>1, <3>2, <3>3 DEF ShowsCard
      <4> QED BY <1>3, <3>2, <4>1
    <3>4. CASE slack'[t] # slack[t]
      <4>1. /\ t \in DOMAIN slack /\ w.kind = "update" /\ t = w.ts /\ slack'[t].id = slack[t].id
            /\ slack'[t].text = m.text /\ slack'[t].ep = m.ep /\ slack[t].id = ParentId(k)
        BY <1>9, <3>1, <3>2, <3>4 DEF ShowsCard
      <4>2. i = ParentId(k)
        <5>1. i[1] \in CardWork
          <6>1. slack[t].id[1] # "memberList"
            BY <4>1 DEF ParentId
          <6> QED BY <1>6, <4>1, <6>1 DEF Aimed, Plain
        <5>2. OpenCard(slack[t].id)
          BY <2>2, <3>2, <4>1 DEF OpenCard
        <5> QED BY <1>6, <4>1, <5>1, <5>2 DEF Aimed, Facing
      <4>3. m.text = "card" /\ m.ep = k.ep
        BY <1>6, <2>2, <3>2, <4>2 DEF Says
      <4>4. ParentId(k) \in DOMAIN outbox'.work
        BY <1>3, <1>5, <4>2
      <4>5. ShowsCard(k)'
        BY <1>9, <3>2, <4>1, <4>3, <4>4 DEF ShowsCard
      <4> QED BY <1>3, <3>2, <4>5
    <3> QED BY <3>3, <3>4
  <2>3. worker.pc # "idle" /\ worker.id = i /\ worker'.id = i
    BY <1>0, <1>1, <1>4
  <2> QED BY <1>3, <1>5, <1>9, <2>1, <2>2, <2>3 DEF GroupFace
<1>15. SlackFace'
  <2> SUFFICES ASSUME NEW t \in DOMAIN slack', IsCard(t)'
               PROVE  /\ slack'[t].id[2] < fresh'
                      /\ slack'[t].live /\ slack'[t].recorded => Accounted(t)'
    BY DEF SlackFace
  <2>1. CASE t \notin DOMAIN slack
    <3>1. slack'[t].id = i /\ ~slack'[t].recorded
      BY <1>9, <2>1
    <3>2. i[1] \in CardWork
      BY <3>1 DEF IsCard, CardWork
    <3>3. i[2] < fresh
      BY <1>0, <1>1, <3>2, HeldDrawn
    <3> QED BY <1>3, <3>1, <3>3
  <2>2. CASE t \in DOMAIN slack
    <3>1. IsCard(t) /\ slack'[t].id = slack[t].id
      BY <1>9, <2>2 DEF IsCard
    <3>2. slack[t].id[2] < fresh /\ (slack[t].live /\ slack[t].recorded => Accounted(t))
      BY <2>2, <3>1 DEF Face, SlackFace
    <3>3. ASSUME NEW p, p = slack[t].id[2], Mistaken(p) PROVE Accounted(t)'
      <4>1. Mistaken(p)'
        BY <1>10, <3>3, MistakenLater
      <4>2. slack'[t].id[2] = p
        BY <3>1, <3>3
      <4> QED BY <4>1, <4>2 DEF Accounted
    <3>4. ASSUME NEW g \in Group, IsOpen(group[g]), group[g].parent.ts = t PROVE Accounted(t)'
      BY <1>3, <3>4 DEF Accounted
    <3>5. ASSUME NEW j \in DOMAIN outbox.work, outbox.work[j].ts = t,
                 outbox.work[j].text = "closed"
          PROVE  Accounted(t)'
      BY <1>5, <3>5 DEF Accounted, Like
    <3>6. ASSUME slack[t].text = "closed" PROVE Accounted(t)'
      <4>1. CASE slack'[t] = slack[t]
        BY <3>6, <4>1 DEF Accounted
      <4>2. CASE slack'[t] # slack[t]
        <5>1. w.kind = "update" /\ t = w.ts /\ slack'[t].text = m.text
          BY <1>9, <2>2, <4>2
        <5>2. i[1] \in CardWork
          BY <1>6, <3>1, <5>1 DEF Aimed, Plain, IsCard
        <5>3. w.text = "closed" => Accounted(t)'
          BY <1>6, <5>1 DEF Says, Accounted
        <5>4. CASE ~IsParent(i)
          BY <1>6, <5>2, <5>3, <5>4 DEF Aimed, Facing
        <5>5. CASE IsParent(i)
          <6>1. slack[t].id = i
            BY <1>6, <5>1, <5>2, <5>5 DEF Aimed, Facing
          <6>2. PICK v : v = outbox.work[i]
            OBVIOUS
          <6>3. v.ts = t /\ v.text = w.text
            BY <1>6, <5>1, <5>2, <6>2 DEF Since
          <6>4. Owned(i, v)
            BY <1>3, <5>5, <6>2 DEF Face, EntriesFace
          <6>5. ASSUME OpenCard(i) PROVE Accounted(t)'
            <7>1. PICK g \in Group : IsOpen(group[g]) /\ ParentId(group[g]) = i
              BY <6>5 DEF OpenCard
            <7>2. group[g].parent.ts = t
              BY <1>3, <6>2, <6>3, <7>1 DEF Cards, CardIn
            <7> QED BY <3>4, <7>1, <7>2
          <6>6. CASE v.text = "closed"
            BY <5>3, <6>3, <6>6
          <6>7. CASE Mistaken(i[2])
            BY <3>3, <6>1, <6>7
          <6> QED BY <6>4, <6>5, <6>6, <6>7 DEF Owned
        <5> QED BY <5>4, <5>5
      <4> QED BY <4>1, <4>2
    <3>7. Accounted(t) => Accounted(t)'
      BY <3>3, <3>4, <3>5, <3>6 DEF Accounted
    <3> QED BY <1>3, <1>9, <2>2, <3>1, <3>2, <3>7
  <2> QED BY <2>1, <2>2
<1> QED BY <1>12, <1>13, <1>14, <1>15 DEF Face

LEMMA ResolvedLike ==
  ASSUME OutboxOK(outbox), NEW ts, NEW i \in DOMAIN outbox.work
  PROVE  LET w == outbox.work[i]
             v == Resolved(outbox, ts).work[i]
         IN  /\ v.object = w.object /\ v.text = w.text /\ v.kind = w.kind /\ v.rev = w.rev
             /\ v.ep = w.ep
             /\ w.kind # "reaction" => v.ts = w.ts
<1>1. outbox.work[i] \in Work
  BY DEF OutboxOK
<1>2. Resolved(outbox, ts).work[i] = Resolve(outbox.work[i], ts)
  BY DEF Resolved, OutboxOK
<1> QED BY <1>1, <1>2 DEF Resolve, Work

LEMMA RecordPostFields ==
  ASSUME NEW gr \in GroupRecord, NEW ts
  PROVE  LET new == RecordPost(gr, ts)
         IN  /\ new.ep = gr.ep
             /\ new.list.ts = gr.list.ts \/ (ListId(gr) = worker.id /\ new.list.ts = ts)
<1> DEFINE pts == IF gr.parent.post # 0 /\ ParentId(gr) = worker.id THEN ts ELSE gr.parent.ts
           lts == IF gr.list.post # 0 /\ ListId(gr) = worker.id THEN ts ELSE gr.list.ts
           parent == [gr.parent EXCEPT !.ts = pts]
           list == [gr.list EXCEPT !.ts = lts]
<1>1. gr.list \in SlackObject
  BY DEF GroupRecord
<1>2. RecordPost(gr, ts) = [gr EXCEPT !.parent = parent, !.list = list]
  BY DEF RecordPost, GroupRecord
<1>3. lts = gr.list.ts \/ (ListId(gr) = worker.id /\ lts = ts)
  OBVIOUS
<1> HIDE DEF pts, lts
<1>4. list.ts = lts
  BY <1>1 DEF SlackObject
<1> HIDE DEF parent, list
<1>5. RecordPost(gr, ts).list = list /\ RecordPost(gr, ts).ep = gr.ep
  BY <1>2 DEF GroupRecord
<1> QED BY <1>3, <1>4, <1>5

\* What completePost does to the entries: the one of the post becomes the update that was
\* queued meanwhile, or it is dropped; the replies behind it learn their thread.
LEMMA CompletedEntries ==
  ASSUME TypeOK, CompletePost, NEW i, NEW ts, i = worker.id, ts = worker.ts
  PROVE  /\ \A j \in DOMAIN outbox.work \ {i} :
              LET w == outbox.work[j]
                  v == outbox'.work[j]
              IN  /\ j \in DOMAIN outbox'.work
                  /\ v.object = w.object /\ v.text = w.text /\ v.kind = w.kind /\ v.rev = w.rev
                  /\ v.ep = w.ep
                  /\ w.kind # "reaction" => v.ts = w.ts
         /\ DOMAIN outbox'.work \subseteq DOMAIN outbox.work
         /\ i \in DOMAIN outbox'.work <=> Superseded
         /\ Superseded => LET w == outbox.work[i]
                              v == outbox'.work[i]
                          IN  /\ v.object = w.object /\ v.text = w.text /\ v.rev = w.rev
                              /\ v.kind = "update" /\ v.ts = ts /\ v.ep = w.ep
<1> DEFINE r == Resolved(outbox, ts)
<1>1. OutboxOK(outbox) /\ i \in DOMAIN outbox.work
  BY DEF CompletePost, TypeOK
<1>2. OutboxOK(r) /\ DOMAIN r.work = DOMAIN outbox.work
  <2>1. ts \in Nat
    BY WorkerFields DEF TypeOK, CompletePost
  <2> QED BY <1>1, <2>1, ResolvedOK
<1>3. ASSUME NEW j \in DOMAIN outbox.work
      PROVE  LET w == outbox.work[j]
                 v == r.work[j]
             IN  /\ v.object = w.object /\ v.text = w.text /\ v.kind = w.kind /\ v.rev = w.rev
                 /\ v.ep = w.ep
                 /\ w.kind # "reaction" => v.ts = w.ts
  BY <1>1, ResolvedLike
<1>4. CASE Superseded
  <2> DEFINE e == [r.work[i] EXCEPT !.kind = "update", !.ts = ts, !.phase = "pending"]
  <2>1. r.work[i] \in Work
    BY <1>1, <1>2 DEF OutboxOK
  <2>2. /\ e.kind = "update" /\ e.ts = ts /\ e.rev = r.work[i].rev
        /\ e.object = r.work[i].object /\ e.text = r.work[i].text /\ e.ep = r.work[i].ep
    BY <2>1 DEF Work
  <2>3. outbox'.work = [r.work EXCEPT ![i] = e]
    BY <1>1, <1>2, <1>4 DEF CompletePost, OutboxOK
  <2> HIDE DEF e, r
  <2> QED BY <1>1, <1>2, <1>3, <1>4, <2>2, <2>3
<1>5. CASE ~Superseded
  <2>1. outbox' = Drop(r, {i})
    BY <1>5 DEF CompletePost
  <2> HIDE DEF r
  <2>2. /\ DOMAIN outbox'.work = DOMAIN r.work \ {i}
        /\ \A j \in DOMAIN r.work \ {i} : outbox'.work[j] = r.work[j]
    BY <1>2, <2>1 DEF Drop, OutboxOK
  <2> QED BY <1>2, <1>3, <1>5, <2>2
<1> QED BY <1>4, <1>5

LEMMA CompletePostFace ==
  ASSUME TypeOK, TypeOK', Cards, Face, CompletePost
  PROVE  Face' /\ LetsGo
<1>1. /\ worker.pc = "sent" /\ worker.answer = "ok" /\ worker.work.kind = "post"
      /\ worker.id \in DOMAIN outbox.work /\ worker' = Idle /\ fresh' = fresh
  BY DEF CompletePost, Attempt
<1>2. PICK i \in WorkId, w \in Work : i = worker.id /\ w = worker.work
  BY <1>1, HeldFields
<1>3. PICK ts, g, v : ts = worker.ts /\ g = Current.group /\ v = outbox.work[i]
  OBVIOUS
<1>4. /\ i \in DOMAIN outbox.work /\ w.kind = "post"
      /\ group \in [Group -> GroupRecord] /\ fresh \in Nat /\ fresh > 0
      /\ group' = [group EXCEPT ![g] = RecordPost(group[g], ts)]
      /\ slack' = [slack EXCEPT ![ts].recorded = TRUE]
  BY <1>1, <1>2, <1>3, PostFacts DEF CompletePost, Cards, Drawn
<1>5. v \in Work /\ g = v.group /\ g \in Group /\ v.rev \in Nat /\ w.rev \in Nat
  BY <1>2, <1>3, <1>4 DEF TypeOK, OutboxOK, Current, Work
<1>6. /\ Aimed(i, w) /\ Aimed(i, v)
      /\ \A h \in Group : IsOpen(group[h]) /\ ParentId(group[h]) = i =>
           w.text = "render" /\ w.group = h
      /\ i[1] \in CardWork => Since(w, v)
      /\ ts \in DOMAIN slack /\ slack[ts].id = i /\ Says(slack[ts], i, w)
  <2>1. Sent({"ok", "lost"})
    BY <1>1 DEF Sent
  <2> QED BY <1>1, <1>2, <1>3, <1>4, <2>1 DEF Face, HeldFace, EntriesFace
<1>7. Superseded <=> v.rev > w.rev
  BY <1>2, <1>3 DEF Superseded, Current, Attempt
<1>8. i[1] \in CardWork => /\ v.kind = "post" /\ v.ts = 0 /\ IsParent(i)
                           /\ v.object = "parent"
  BY <1>4, <1>6 DEF Since, Aimed, Facing
<1>9. i[1] \in CardWork /\ ~Superseded => v.rev = w.rev /\ v.text = w.text
  BY <1>5, <1>6, <1>7 DEF Since
<1>10. /\ DOMAIN slack' = DOMAIN slack /\ slack'[ts].recorded
       /\ \A t \in DOMAIN slack :
            /\ slack'[t].id = slack[t].id /\ slack'[t].text = slack[t].text
            /\ slack'[t].ep = slack[t].ep /\ slack'[t].rev = slack[t].rev
            /\ slack'[t].live = slack[t].live /\ slack'[t].replaced = slack[t].replaced
            /\ t # ts => slack'[t].recorded = slack[t].recorded
  <2>1. slack[ts] \in SlackMessage
    BY <1>6 DEF TypeOK
  <2> QED BY <1>4, <1>6, <2>1 DEF TypeOK, SlackMessage
<1>11. /\ \A j \in DOMAIN outbox.work \ {i} :
            LET x == outbox.work[j]
                y == outbox'.work[j]
            IN  /\ j \in DOMAIN outbox'.work
                /\ y.object = x.object /\ y.text = x.text /\ y.kind = x.kind /\ y.rev = x.rev
                /\ y.ep = x.ep
                /\ x.kind # "reaction" => y.ts = x.ts
       /\ DOMAIN outbox'.work \subseteq DOMAIN outbox.work
       /\ i \in DOMAIN outbox'.work <=> Superseded
       /\ Superseded => LET y == outbox'.work[i]
                        IN  /\ y.object = v.object /\ y.text = v.text /\ y.rev = v.rev
                            /\ y.kind = "update" /\ y.ts = ts /\ y.ep = v.ep
  BY <1>2, <1>3, CompletedEntries
<1>12. ASSUME NEW h \in Group
       PROVE  /\ group'[h].ep = group[h].ep
              /\ group'[h].parent.post = group[h].parent.post
              /\ group'[h].parent.rev = group[h].parent.rev
              /\ IsOpen(group'[h]) <=> IsOpen(group[h])
              /\ ParentId(group'[h]) = ParentId(group[h])
              /\ group'[h].parent.ts = IF IsOpen(group[h]) /\ ParentId(group[h]) = i THEN ts
                                       ELSE group[h].parent.ts
              /\ group'[h].list.ts # 0 =>
                   /\ group'[h].list.ts \in DOMAIN slack'
                   /\ slack'[group'[h].list.ts].id[1] = "memberList"
  <2> DEFINE shown == group'[h].list.ts # 0 =>
                        /\ group'[h].list.ts \in DOMAIN slack'
                        /\ slack'[group'[h].list.ts].id[1] = "memberList"
  <2>1. ListShown(group[h]) /\ group[h] \in GroupRecord
    BY <1>4 DEF Face, GroupFace, ListShown
  <2>2. IsOpen(group[h]) /\ ParentId(group[h]) = i => h = g
    <3>1. CardIn(outbox, h, group[h])
      BY DEF Cards
    <3>2. i \in DOMAIN outbox.work /\ v = outbox.work[i] /\ g = v.group
      BY <1>3, <1>4, <1>5
    <3> QED BY <3>1, <3>2 DEF CardIn
  <2>3. CASE h # g
    <3>1. group'[h] = group[h]
      BY <1>4, <2>3
    <3>2. shown
      BY <1>10, <2>1, <3>1 DEF ListShown
    <3> QED BY <2>2, <2>3, <3>1, <3>2
  <2>4. CASE h = g
    <3>1. group'[h] = RecordPost(group[h], ts)
      BY <1>4, <2>4
    <3>2. /\ group'[h].ep = group[h].ep
          /\ group'[h].list.ts = group[h].list.ts \/ (ListId(group[h]) = i /\ group'[h].list.ts = ts)
      BY <1>2, <2>1, <3>1, RecordPostFields
    <3>3. /\ group'[h].parent.post = group[h].parent.post
          /\ group'[h].parent.rev = group[h].parent.rev
          /\ group'[h].parent.ts = IF IsOpen(group[h]) /\ ParentId(group[h]) = i THEN ts
                                   ELSE group[h].parent.ts
      BY <1>2, <2>1, <3>1, RecordPostFacts
    <3>4. shown
      <4>1. ListId(group[h]) = i => slack[ts].id[1] = "memberList"
        BY <1>6 DEF ListId
      <4> QED BY <1>6, <1>10, <2>1, <3>2, <4>1 DEF ListShown
    <3> QED BY <3>2, <3>3, <3>4 DEF IsOpen, ParentId
  <2> QED BY <2>3, <2>4
<1>13. Proceeds /\ Grows /\ fresh' >= fresh
  BY <1>1, <1>4, <1>10, <1>12 DEF Proceeds, Grows
<1>14. ASSUME NEW j \in DOMAIN outbox'.work, NEW y, y = outbox'.work[j]
       PROVE  Aimed(j, y)' /\ (IsParent(j) => Owned(j, y)')
  <2>1. j \in DOMAIN outbox.work /\ j \in WorkId
    BY <1>11, PostFacts
  <2>2. PICK x : x = outbox.work[j]
    OBVIOUS
  <2>3. Aimed(j, x) /\ (IsParent(j) => Owned(j, x))
    BY <2>1, <2>2 DEF Face, EntriesFace
  <2>4. y.text = x.text
    BY <1>3, <1>11, <1>14, <2>1, <2>2
  <2>5. Aimed(j, y)
    <3>1. CASE j # i
      <4>1. /\ y.object = x.object /\ y.text = x.text /\ y.kind = x.kind /\ y.rev = x.rev
            /\ x.kind # "reaction" => y.ts = x.ts
        BY <1>11, <1>14, <2>1, <2>2, <3>1
      <4> QED BY <2>3, <4>1 DEF Aimed, Plain, Facing
    <3>2. CASE j = i
      <4>1. /\ x = v /\ y.object = v.object /\ y.text = v.text /\ y.rev = v.rev
            /\ y.kind = "update" /\ y.ts = ts /\ v.rev > w.rev
        BY <1>3, <1>7, <1>11, <1>14, <2>2, <3>2
      <4>2. CASE i[1] \in CardWork
        BY <1>6, <1>8, <3>2, <4>1, <4>2 DEF Aimed, Facing
      <4>3. CASE i[1] \notin CardWork
        <5>1. Plain(i, v) /\ Plain(i, w)
          BY <1>6, <4>3 DEF Aimed
        <5>2. i[1] = "memberList"
          BY <1>5, <4>1, <5>1 DEF Plain
        <5> QED BY <1>6, <3>2, <4>1, <4>3, <5>1, <5>2 DEF Aimed, Plain
      <4> QED BY <4>2, <4>3
    <3> QED BY <3>1, <3>2
  <2>6. Aimed(j, y)'
    BY <1>13, <2>1, <2>5, AimedLater DEF Face
  <2>7. OpenCard(j)' <=> OpenCard(j)
    BY <1>12 DEF OpenCard
  <2>8. Mistaken(j[2]) => Mistaken(j[2])'
    BY <1>13, MistakenLater
  <2>9. IsParent(j) => Owned(j, y)'
    BY <2>3, <2>4, <2>7, <2>8 DEF Owned
  <2> QED BY <2>6, <2>9
<1>15. EntriesFace'
  <2> SUFFICES ASSUME NEW j \in DOMAIN outbox'.work
               PROVE  Aimed(j, outbox.work[j])' /\ (IsParent(j) => Owned(j, outbox.work[j])')
    BY DEF EntriesFace
  <2>1. PICK y : y = outbox'.work[j]
    OBVIOUS
  <2>2. Aimed(j, y)' /\ (IsParent(j) => Owned(j, y)')
    BY <1>14, <2>1
  <2> QED BY <2>1, <2>2
<1>16. HeldFace'
  BY <1>1 DEF HeldFace, Idle
<1>17. ASSUME NEW h \in Group PROVE GroupFace(h)'
  <2>1. GroupFace(h)
    BY DEF Face
  <2>2. ASSUME IsOpen(group[h]), group'[h].parent.ts # 0 PROVE ShowsCard(group[h])'
    <3>1. PICK k, gr : k = group[h] /\ gr = group'[h]
      OBVIOUS
    <3>2. /\ gr.ep = k.ep /\ gr.parent.rev = k.parent.rev /\ ParentId(gr) = ParentId(k)
          /\ gr.parent.ts = IF ParentId(k) = i THEN ts ELSE k.parent.ts
      BY <1>12, <2>2, <3>1
    <3>3. CASE ParentId(k) = i
      <4>1. i[1] \in CardWork
        BY <3>3 DEF ParentId, CardWork
      <4>2. /\ slack[ts].text = "card" /\ slack[ts].ep = k.ep /\ slack[ts].rev = w.rev
        BY <1>6, <2>2, <3>1, <3>3 DEF Says
      <4>3. v.rev = k.parent.rev
        BY <1>3, <1>4, <2>2, <3>1, <3>3 DEF Cards, CardIn
      <4>4. i \notin DOMAIN outbox'.work => slack[ts].rev = k.parent.rev
        BY <1>9, <1>11, <4>1, <4>2, <4>3
      <4>5. ShowsCard(gr)'
        BY <1>6, <1>10, <3>2, <3>3, <4>2, <4>4 DEF ShowsCard
      <4> QED BY <3>1, <4>5
    <3>4. CASE ParentId(k) # i
      <4>1. ShowsCard(k)
        BY <2>1, <2>2, <3>1, <3>2, <3>4 DEF GroupFace
      <4>2. ParentId(k) \notin DOMAIN outbox'.work => ParentId(k) \notin DOMAIN outbox.work
        BY <1>11, <3>4
      <4>3. ShowsCard(gr)'
        BY <1>10, <3>2, <3>4, <4>1, <4>2 DEF ShowsCard
      <4> QED BY <3>1, <4>3
    <3> QED BY <3>3, <3>4
  <2>3. <<"closeParent", group[h].ep, 0>> \notin DOMAIN outbox.work =>
          <<"closeParent", group[h].ep, 0>> \notin DOMAIN outbox'.work
    BY <1>11
  <2>4. worker'.pc = "idle"
    BY <1>1 DEF Idle
  <2>5. group'[h].list.ts # 0 => /\ group'[h].list.ts \in DOMAIN slack'
                                 /\ slack'[group'[h].list.ts].id[1] = "memberList"
    BY <1>12
  <2>6. /\ group[h].ep < fresh
        /\ IsOpen(group[h]) => /\ group[h].ep # 0
                               /\ <<"closeParent", group[h].ep, 0>> \notin DOMAIN outbox.work
                               /\ \A k \in Group \ {h} : group[k].ep # group[h].ep
    BY <2>1 DEF GroupFace
  <2>7. \A k \in Group : group'[k].ep = group[k].ep
    BY <1>12
  <2>8. IsOpen(group'[h]) <=> IsOpen(group[h])
    BY <1>12
  <2> QED BY <1>1, <2>2, <2>3, <2>4, <2>5, <2>6, <2>7, <2>8 DEF GroupFace
<1>18. SlackFace'
  <2> SUFFICES ASSUME NEW t \in DOMAIN slack, IsCard(t)
               PROVE  /\ slack[t].id[2] < fresh
                      /\ slack[t].live /\ slack'[t].recorded => Accounted(t)'
    BY <1>1, <1>10 DEF SlackFace, IsCard
  <2>1. slack[t].id[2] < fresh /\ (slack[t].live /\ slack[t].recorded => Accounted(t))
    BY DEF Face, SlackFace
  <2>2. ASSUME NEW p, p = slack[t].id[2], Mistaken(p) PROVE Accounted(t)'
    <3>1. Mistaken(p)'
      BY <1>13, <2>2, MistakenLater
    <3>2. slack'[t].id[2] = p
      BY <1>10, <2>2
    <3> QED BY <3>1, <3>2 DEF Accounted
  <2>3. slack[t].text = "closed" => Accounted(t)'
    BY <1>10 DEF Accounted
  <2>4. CASE t = ts
    <3>1. IsParent(i) /\ i[1] \in CardWork
      BY <1>6, <2>4 DEF IsCard, IsParent, CardWork
    <3>2. Owned(i, v)
      BY <1>3, <1>4, <3>1 DEF Face, EntriesFace
    <3>3. ASSUME OpenCard(i) PROVE Accounted(t)'
      <4>1. PICK h \in Group : IsOpen(group[h]) /\ ParentId(group[h]) = i
        BY <3>3 DEF OpenCard
      <4>2. IsOpen(group'[h]) /\ group'[h].parent.ts = t
        BY <1>12, <2>4, <4>1
      <4> QED BY <4>2 DEF Accounted
    <3>4. ASSUME v.text = "closed" PROVE Accounted(t)'
      <4>1. CASE Superseded
        BY <1>11, <2>4, <3>4, <4>1 DEF Accounted
      <4>2. CASE ~Superseded
        BY <1>6, <1>9, <2>3, <2>4, <3>1, <3>4, <4>2 DEF Says
      <4> QED BY <4>1, <4>2
    <3>5. Mistaken(i[2]) => Accounted(t)'
      BY <1>6, <2>2, <2>4
    <3> QED BY <2>1, <3>2, <3>3, <3>4, <3>5 DEF Owned
  <2>5. CASE t # ts
    <3>1. ASSUME NEW h \in Group, IsOpen(group[h]), group[h].parent.ts = t
          PROVE  Accounted(t)'
      <4>1. t # 0
        BY DEF TypeOK
      <4>2. ParentId(group[h]) # i
        <5>1. ASSUME ParentId(group[h]) = i PROVE FALSE
          <6>1. i[1] \in CardWork
            BY <5>1 DEF ParentId, CardWork
          <6>2. v.ts = t
            BY <1>3, <1>4, <3>1, <5>1 DEF Cards, CardIn
          <6> QED BY <1>8, <4>1, <6>1, <6>2
        <5> QED BY <5>1
      <4>3. IsOpen(group'[h]) /\ group'[h].parent.ts = t
        BY <1>12, <3>1, <4>2
      <4> QED BY <4>3 DEF Accounted
    <3>2. ASSUME NEW j \in DOMAIN outbox.work, outbox.work[j].ts = t,
                 outbox.work[j].text = "closed"
          PROVE  Accounted(t)'
      <4>1. j[1] \in CardWork /\ Facing(j, outbox.work[j])
        BY <3>2 DEF Face, EntriesFace, Aimed, Plain
      <4>2. j # i
        <5>1. t # 0
          BY DEF TypeOK
        <5> QED BY <1>3, <1>8, <3>2, <4>1, <5>1
      <4>3. outbox.work[j].kind # "reaction"
        BY <4>1 DEF Facing
      <4> QED BY <1>11, <3>2, <4>2, <4>3 DEF Accounted
    <3>3. Accounted(t) => Accounted(t)'
      BY <2>2, <2>3, <3>1, <3>2 DEF Accounted
    <3> QED BY <1>10, <2>1, <2>5, <3>3
  <2> QED BY <2>1, <2>4, <2>5
<1>19. LetsGo
  <2>1. Unaltered /\ Posted
    BY <1>1, <1>10 DEF Unaltered, Posted, Sent
  <2>2. ASSUME NEW j \in DOMAIN outbox'.work, j[1] \in CardWork, NEW y, y = outbox'.work[j],
               NEW x, x = outbox.work[j]
        PROVE  /\ j \in DOMAIN outbox.work /\ y.ep = x.ep
               /\ \/ y.kind = x.kind /\ y.ts = x.ts
                  \/ j = worker.id /\ y.kind = "update" /\ y.ts = worker.ts
    <3>1. j \in DOMAIN outbox.work
      BY <1>11
    <3>2. CASE j = i
      BY <1>2, <1>3, <1>11, <2>2, <3>1, <3>2
    <3>3. CASE j # i
      <4>1. x.kind # "reaction"
        BY <2>2, <3>1 DEF Face, EntriesFace, Aimed, Facing
      <4> QED BY <1>11, <2>2, <3>1, <3>3, <4>1
    <3> QED BY <3>2, <3>3
  <2>3. ASSUME NEW h \in Group, IsOpen(group'[h])
        PROVE  /\ IsOpen(group[h]) /\ group'[h].parent.post = group[h].parent.post
               /\ group'[h].ep = group[h].ep
               /\ \/ group'[h].parent.ts = group[h].parent.ts
                  \/ ParentId(group[h]) = worker.id /\ group'[h].parent.ts = worker.ts
    BY <1>2, <1>3, <1>12, <2>3
  <2> QED BY <1>1, <1>13, <2>1, <2>2, <2>3 DEF LetsGo
<1> QED BY <1>15, <1>16, <1>17, <1>18, <1>19 DEF Face

LEMMA CommitKeepsFace ==
  ASSUME TypeOK, TypeOK', Cards, Face, Commit
  PROVE  Face' /\ (LetsGo \/ \E h, i, d, n : Replaces(h, i, d, n))
<1>1. CASE FailWork
  <2>1. /\ UNCHANGED <<group, fresh, slack>> /\ worker' = Idle
        /\ worker.id \in DOMAIN outbox.work
    BY <1>1 DEF FailWork, Settle
  <2>2. \E phase : outbox' = [outbox EXCEPT !.work[worker.id].phase = phase]
    BY <1>1 DEF FailWork, Settle
  <2> QED BY <2>1, <2>2, SettledFace
<1>2. CASE CommitNothing
  <2>1. UNCHANGED <<group, fresh, slack, outbox>> /\ worker' = Idle
    BY <1>2 DEF CommitNothing, Settle
  <2> QED BY <2>1, SettledFace
<1>3. CASE Unreplaceable
  <2>1. /\ UNCHANGED <<group, fresh, slack>> /\ worker' = Idle
        /\ worker.id \in DOMAIN outbox.work
    BY <1>3 DEF Unreplaceable, UpdateMissing, Settle
  <2>2. \E phase : outbox' = [outbox EXCEPT !.work[worker.id].phase = phase]
    BY <1>3 DEF Unreplaceable, Settle
  <2> QED BY <2>1, <2>2, SettledFace
<1> QED BY <1>1, <1>2, <1>3, CompletePostFace, CompleteUpdateFace, ReactionFace,
           RetiredFace, DetachedFace, ListMissingFace, ParentMissingFace DEF Commit

-----------------------------------------------------------------------------
LEMMA InitFace == Init => Face
<1> SUFFICES ASSUME Init PROVE Face
  OBVIOUS
<1>1. /\ DOMAIN outbox.work = {} /\ fresh = 1 /\ worker.pc = "idle" /\ DOMAIN slack = {}
      /\ \A g \in Group : /\ group[g].parent.post = 0 /\ group[g].list.ts = 0
                          /\ group[g].ep = 0
  BY DEF Init, Idle, Absent, NoObject
<1>2. EntriesFace /\ HeldFace /\ SlackFace
  BY <1>1 DEF EntriesFace, HeldFace, SlackFace
<1>3. \A g \in Group : GroupFace(g)
  BY <1>1 DEF GroupFace, IsOpen
<1> QED BY <1>2, <1>3 DEF Face

LEMMA NextFace ==
  ASSUME TypeOK, TypeOK', Cards, Cards', Face, [Next]_vars
  PROVE  Face'
<1>1. CASE \E g \in Group : Writers(g)
  BY <1>1, WritersFace
<1>2. CASE \E cooling \in SUBSET MayCool : Pick(cooling)
  BY <1>2, PickFace
<1>3. CASE Vanished \/ CommitFails
  <2>1. UNCHANGED <<group, outbox, fresh, slack>> /\ worker' = Idle
    BY <1>3 DEF Vanished, CommitFails
  <2> QED BY <2>1, SettledFace
<1>4. CASE Call
  BY <1>4, SendFace DEF Call
<1>5. CASE Commit
  BY <1>5, CommitKeepsFace
<1>6. CASE Restart
  BY <1>6, RestartFace
<1>7. CASE \E ts \in DOMAIN slack : DeleteMessage(ts)
  BY <1>7, DeleteFace
<1>8. CASE UNCHANGED vars
  <2>1. group' = group /\ outbox' = outbox /\ fresh' = fresh /\ worker' = worker /\ slack' = slack
    BY <1>8 DEF vars
  <2>2. EntriesFace'
    BY <2>1 DEF Face, EntriesFace, Aimed, Plain, Facing, Owned, OpenCard, Mistaken, IsCard
  <2>3. HeldFace'
    BY <2>1 DEF Face, HeldFace, Aimed, Plain, Facing, OpenCard, IsCard, Says, Sent, Live
  <2>4. \A g \in Group : GroupFace(g)'
    BY <2>1 DEF Face, GroupFace, ShowsCard
  <2>5. SlackFace'
    BY <2>1 DEF Face, SlackFace, Accounted, Mistaken, IsCard
  <2> QED BY <2>2, <2>3, <2>4, <2>5 DEF Face
<1> QED BY <1>1, <1>2, <1>3, <1>4, <1>5, <1>6, <1>7, <1>8 DEF Next

LEMMA FaceIsCurrent ==
  ASSUME TypeOK, Face
  PROVE  CardsCurrent
<1>1. CardFresh
  <2> SUFFICES ASSUME NEW g \in Group, IsOpen(group[g]), Live(group[g].parent.ts),
                      ParentId(group[g]) \notin DOMAIN outbox.work
               PROVE  /\ slack[group[g].parent.ts].text = "card"
                      /\ slack[group[g].parent.ts].ep = group[g].ep
                      /\ slack[group[g].parent.ts].rev = group[g].parent.rev
    BY DEF CardFresh
  <2>1. group[g].parent.ts # 0
    BY DEF Live, TypeOK
  <2>2. ShowsCard(group[g])
    BY <2>1 DEF Face, GroupFace
  <2> QED BY <2>2 DEF ShowsCard
<1>2. ClosedCardFinal
  <2> SUFFICES ASSUME NEW t \in DOMAIN slack, IsCard(t), slack[t].live, slack[t].recorded,
                      \A g \in Group : IsOpen(group[g]) => group[g].ep # slack[t].ep
               PROVE  \/ slack[t].text = "closed"
                      \/ \E i \in DOMAIN outbox.work :
                           outbox.work[i].ts = t /\ outbox.work[i].text = "closed"
                      \/ Mistaken(slack[t].id[2])
    BY DEF ClosedCardFinal
  <2>1. Accounted(t)
    BY DEF Face, SlackFace
  <2>2. t # 0
    BY DEF TypeOK
  <2>3. ASSUME NEW g \in Group, IsOpen(group[g]), group[g].parent.ts = t PROVE FALSE
    <3>1. ShowsCard(group[g])
      BY <2>2, <2>3 DEF Face, GroupFace
    <3> QED BY <2>3, <3>1 DEF ShowsCard
  <2> QED BY <2>1, <2>3 DEF Accounted
<1> QED BY <1>1, <1>2 DEF CardsCurrent

\* Cards say how their episodes stand: with nothing queued for it, the card of an open
\* group shows its newest revision, and the recorded card of an episode that is over says
\* so, is about to be told, or was given up for another card that was deleted
\* (replaceDeletedMessage), whatever webhook.go, interactions.go and operations.go rewrite
\* between the pick, the call to Slack and the commit of an entry in outbox.go.
THEOREM CardsStayCurrent == Spec => []CardsCurrent
<1>1. TypeOK /\ Face => CardsCurrent
  BY FaceIsCurrent
<1> QED BY <1>1, InitCards, NextCards, InitFace, NextFace, TypeCorrect, PTL DEF Spec
-----------------------------------------------------------------------------
(* How many cards an episode has.  Every card is accounted for: it is the    *)
(* episode's one, or a lost answer, a crash or a failed write paid for it.   *)

Faults == used["fault"] + used["crash"] + used["commit"]

\* A card that no longer counts: another was posted in its place, or it was mistaken.
GivenUp(t) == slack[t].replaced # {} \/ Mistaken(slack[t].id[2])

CardsOf(e) == {t \in DOMAIN slack : IsCard(t) /\ slack[t].ep = e /\ ~GivenUp(t)}

\* The entry whose post was answered, until the worker commits that.
Answered(i) == worker.pc = "sent" /\ worker.answer = "ok" /\ worker.id = i

\* The cards of e that are still to be posted.
PostsOf(e) ==
  {i \in DOMAIN outbox.work :
     /\ IsParent(i) /\ outbox.work[i].kind = "post" /\ outbox.work[i].ep = e
     /\ ~Mistaken(i[2]) /\ ~Answered(i)}

Within(cards, posts, n) ==
  /\ IsFiniteSet(cards) /\ IsFiniteSet(posts)
  /\ Cardinality(cards) + Cardinality(posts) <= n

\* A group is open for the episode of its card.
OpenSays ==
  \A g \in Group : LET gr == group[g] IN IsOpen(gr) =>
    /\ ~Mistaken(gr.parent.post)
    /\ ParentId(gr) \in DOMAIN outbox.work => outbox.work[ParentId(gr)].ep = gr.ep
    /\ gr.parent.ts # 0 => slack[gr.parent.ts].replaced = {}

\* To revise card t for episode e does not change whose card it is.
Retells(t, e) == Mistaken(slack[t].id[2]) \/ slack[t].ep = e

EntriesSay ==
  \A i \in DOMAIN outbox.work : LET w == outbox.work[i] IN
    i[1] \in CardWork /\ w.kind = "update" => Retells(w.ts, w.ep)

HeldSays ==
  LET i  == worker.id
      w  == worker.work
      ep == outbox.work[i].ep
  IN worker.pc # "idle" /\ i[1] \in CardWork =>
       /\ worker.pc = "picked" /\ w.kind = "update" => Retells(w.ts, worker.content.ep)
       /\ worker.pc = "picked" /\ w.kind = "post" /\ i \in DOMAIN outbox.work =>
            worker.content.ep = ep \/ Mistaken(i[2])
       /\ Sent({"ok", "lost"}) /\ w.kind = "post" =>
            /\ slack[worker.ts].replaced = {}
            /\ i \in DOMAIN outbox.work => Retells(worker.ts, ep)

\* Only a deleted card is replaced, and only by what was drawn.
ReplacedGone ==
  \A t \in DOMAIN slack : /\ slack[t].replaced # {} => ~slack[t].live
                          /\ \A p \in slack[t].replaced : p < fresh

\* The episodes of cards were drawn.
EpisodesDrawn ==
  /\ \A t \in DOMAIN slack : IsCard(t) => GivenUp(t) \/ slack[t].ep < fresh
  /\ \A i \in DOMAIN outbox.work : IsParent(i) => outbox.work[i].ep < fresh

Paid == \A e \in Nat : Within(CardsOf(e), PostsOf(e), 1 + Faults)

Shares ==
  OpenSays /\ EntriesSay /\ HeldSays /\ ReplacedGone /\ EpisodesDrawn /\ Paid

-----------------------------------------------------------------------------
LEMMA Fewer ==
  ASSUME NEW A, IsFiniteSet(A), NEW C \in SUBSET A
  PROVE  /\ IsFiniteSet(C) /\ Cardinality(A) \in Nat /\ Cardinality(C) \in Nat
         /\ Cardinality(C) <= Cardinality(A)
<1>1. IsFiniteSet(C) /\ Cardinality(C) <= Cardinality(A)
  BY FS_Subset
<1> QED BY <1>1, FS_CardinalityType

LEMMA OneMore ==
  ASSUME NEW A, IsFiniteSet(A), NEW x, NEW C \in SUBSET (A \cup {x})
  PROVE  /\ IsFiniteSet(C) /\ Cardinality(A) \in Nat /\ Cardinality(C) \in Nat
         /\ Cardinality(C) <= Cardinality(A) + 1
<1>1. PICK B : B = A \cup {x}
  OBVIOUS
<1>2. /\ Cardinality(B) \in {Cardinality(A), Cardinality(A) + 1}
      /\ Cardinality(A) \in Nat
  BY <1>1, FS_AddElement, FS_CardinalityType
<1>3. IsFiniteSet(B)
  BY <1>1, FS_AddElement
<1>4. IsFiniteSet(C) /\ Cardinality(C) \in Nat /\ Cardinality(C) <= Cardinality(B)
  BY <1>1, <1>3, Fewer
<1> QED BY <1>2, <1>4

LEMMA OneLess ==
  ASSUME NEW A, IsFiniteSet(A), NEW x \in A, NEW C \in SUBSET (A \ {x})
  PROVE  /\ IsFiniteSet(C) /\ Cardinality(A) \in Nat /\ Cardinality(C) \in Nat
         /\ Cardinality(C) + 1 <= Cardinality(A)
<1>1. PICK B : B = A \ {x}
  OBVIOUS
<1>2. IsFiniteSet(B) /\ Cardinality(B) = Cardinality(A) - 1 /\ Cardinality(A) \in Nat
  BY <1>1, FS_RemoveElement, FS_CardinalityType
<1>3. IsFiniteSet(C) /\ Cardinality(C) \in Nat /\ Cardinality(C) <= Cardinality(B)
  BY <1>1, <1>2, Fewer
<1> QED BY <1>2, <1>3

\* Cards and posts become fewer.
LEMMA WithinLess ==
  ASSUME NEW A, NEW B, NEW n \in Nat, NEW m \in Nat, m >= n, Within(A, B, n),
         NEW C \in SUBSET A, NEW D \in SUBSET B
  PROVE  Within(C, D, m)
<1>1. /\ IsFiniteSet(C) /\ Cardinality(A) \in Nat /\ Cardinality(C) \in Nat
      /\ Cardinality(C) <= Cardinality(A)
  BY Fewer DEF Within
<1>2. /\ IsFiniteSet(D) /\ Cardinality(B) \in Nat /\ Cardinality(D) \in Nat
      /\ Cardinality(D) <= Cardinality(B)
  BY Fewer DEF Within
<1>3. Cardinality(A) + Cardinality(B) <= n
  BY DEF Within
<1>4. Cardinality(C) + Cardinality(D) <= m
  BY <1>1, <1>2, <1>3
<1> QED BY <1>1, <1>2, <1>4 DEF Within

\* A fault pays for one more card, or for one more that is to be posted.
LEMMA OneMoreCard ==
  ASSUME NEW A, NEW B, NEW n \in Nat, Within(A, B, n), NEW x,
         NEW C \in SUBSET (A \cup {x}), NEW D \in SUBSET B
  PROVE  Within(C, D, n + 1)
<1>1. IsFiniteSet(A) /\ IsFiniteSet(B) /\ Cardinality(A) + Cardinality(B) <= n
  BY DEF Within
<1>2. /\ IsFiniteSet(C) /\ Cardinality(A) \in Nat /\ Cardinality(C) \in Nat
      /\ Cardinality(C) <= Cardinality(A) + 1
  BY <1>1, OneMore
<1>3. /\ IsFiniteSet(D) /\ Cardinality(B) \in Nat /\ Cardinality(D) \in Nat
      /\ Cardinality(D) <= Cardinality(B)
  BY <1>1, Fewer
<1>4. Cardinality(C) + Cardinality(D) <= n + 1
  BY <1>1, <1>2, <1>3
<1> QED BY <1>2, <1>3, <1>4 DEF Within

LEMMA OneMorePost ==
  ASSUME NEW A, NEW B, NEW n \in Nat, Within(A, B, n), NEW x,
         NEW C \in SUBSET A, NEW D \in SUBSET (B \cup {x})
  PROVE  Within(C, D, n + 1)
<1>1. IsFiniteSet(A) /\ IsFiniteSet(B) /\ Cardinality(A) + Cardinality(B) <= n
  BY DEF Within
<1>2. /\ IsFiniteSet(C) /\ Cardinality(A) \in Nat /\ Cardinality(C) \in Nat
      /\ Cardinality(C) <= Cardinality(A)
  BY <1>1, Fewer
<1>3. /\ IsFiniteSet(D) /\ Cardinality(B) \in Nat /\ Cardinality(D) \in Nat
      /\ Cardinality(D) <= Cardinality(B) + 1
  BY <1>1, OneMore
<1>4. Cardinality(C) + Cardinality(D) <= n + 1
  BY <1>1, <1>2, <1>3
<1> QED BY <1>2, <1>3, <1>4 DEF Within

\* One comes for one that goes: a post becomes a card; a card is replaced; a post is.
LEMMA PostToCard ==
  ASSUME NEW A, NEW B, NEW n \in Nat, Within(A, B, n), NEW x, NEW y \in B,
         NEW C \in SUBSET (A \cup {x}), NEW D \in SUBSET (B \ {y})
  PROVE  Within(C, D, n)
<1>1. IsFiniteSet(A) /\ IsFiniteSet(B) /\ Cardinality(A) + Cardinality(B) <= n
  BY DEF Within
<1>2. /\ IsFiniteSet(C) /\ Cardinality(A) \in Nat /\ Cardinality(C) \in Nat
      /\ Cardinality(C) <= Cardinality(A) + 1
  BY <1>1, OneMore
<1>3. /\ IsFiniteSet(D) /\ Cardinality(B) \in Nat /\ Cardinality(D) \in Nat
      /\ Cardinality(D) + 1 <= Cardinality(B)
  BY <1>1, OneLess
<1>4. Cardinality(C) + Cardinality(D) <= n
  BY <1>1, <1>2, <1>3
<1> QED BY <1>2, <1>3, <1>4 DEF Within

LEMMA CardToPost ==
  ASSUME NEW A, NEW B, NEW n \in Nat, Within(A, B, n), NEW x, NEW y \in A,
         NEW C \in SUBSET (A \ {y}), NEW D \in SUBSET (B \cup {x})
  PROVE  Within(C, D, n)
<1>1. IsFiniteSet(A) /\ IsFiniteSet(B) /\ Cardinality(A) + Cardinality(B) <= n
  BY DEF Within
<1>2. /\ IsFiniteSet(C) /\ Cardinality(A) \in Nat /\ Cardinality(C) \in Nat
      /\ Cardinality(C) + 1 <= Cardinality(A)
  BY <1>1, OneLess
<1>3. /\ IsFiniteSet(D) /\ Cardinality(B) \in Nat /\ Cardinality(D) \in Nat
      /\ Cardinality(D) <= Cardinality(B) + 1
  BY <1>1, OneMore
<1>4. Cardinality(C) + Cardinality(D) <= n
  BY <1>1, <1>2, <1>3
<1> QED BY <1>2, <1>3, <1>4 DEF Within

LEMMA PostToPost ==
  ASSUME NEW A, NEW B, NEW n \in Nat, Within(A, B, n), NEW x, NEW y \in B,
         NEW C \in SUBSET A, NEW D \in SUBSET ((B \ {y}) \cup {x})
  PROVE  Within(C, D, n)
<1>1. IsFiniteSet(A) /\ IsFiniteSet(B) /\ Cardinality(A) + Cardinality(B) <= n
  BY DEF Within
<1>2. /\ IsFiniteSet(C) /\ Cardinality(A) \in Nat /\ Cardinality(C) \in Nat
      /\ Cardinality(C) <= Cardinality(A)
  BY <1>1, Fewer
<1>3. PICK E : E = B \ {y}
  OBVIOUS
<1>4. /\ IsFiniteSet(E) /\ Cardinality(B) \in Nat /\ Cardinality(E) \in Nat
      /\ Cardinality(E) + 1 <= Cardinality(B)
  BY <1>1, <1>3, OneLess
<1>5. IsFiniteSet(D) /\ Cardinality(D) \in Nat /\ Cardinality(D) <= Cardinality(E) + 1
  BY <1>3, <1>4, OneMore
<1>6. Cardinality(C) + Cardinality(D) <= n
  BY <1>1, <1>2, <1>4, <1>5
<1> QED BY <1>2, <1>5, <1>6 DEF Within

LEMMA WithinOne ==
  ASSUME NEW x, NEW C, C = {}, NEW D \in SUBSET {x}, NEW n \in Nat
  PROVE  Within(C, D, 1 + n)
<1>1. PICK A : A = {}
  OBVIOUS
<1>2. Within(A, A, n)
  BY <1>1, FS_EmptySet DEF Within
<1>3. C \in SUBSET A /\ D \in SUBSET (A \cup {x}) /\ n + 1 = 1 + n
  BY <1>1
<1>4. Within(C, D, n + 1)
  BY <1>2, <1>3, OneMorePost
<1> QED BY <1>3, <1>4

LEMMA FaultsType ==
  ASSUME TypeOK, TypeOK'
  PROVE  Faults \in Nat /\ Faults' \in Nat
<1>1. used \in [Moves -> Nat] /\ used' \in [Moves -> Nat]
  BY DEF TypeOK
<1>2. "fault" \in Moves /\ "crash" \in Moves /\ "commit" \in Moves
  BY DEF Moves
<1> QED BY <1>1, <1>2 DEF Faults

LEMMA SpendFaults ==
  ASSUME TypeOK, TypeOK', NEW m \in Moves, Spend(m)
  PROVE  Faults' = IF m \in {"fault", "crash", "commit"} THEN Faults + 1 ELSE Faults
<1>1. \A n \in Moves : used'[n] = IF n = m THEN used[n] + 1 ELSE used[n]
  BY DEF Spend, TypeOK
<1>2. \A n \in Moves : used[n] \in Nat
  BY DEF TypeOK
<1>3. "fault" \in Moves /\ "crash" \in Moves /\ "commit" \in Moves
  BY DEF Moves
<1> QED BY <1>1, <1>2, <1>3 DEF Faults

LEMMA WritersFaults ==
  ASSUME TypeOK, TypeOK', NEW g \in Group, Writers(g)
  PROVE  Faults' = Faults
<1>1. used' = used => Faults' = Faults
  BY DEF Faults
<1>2. /\ "notify" \in Moves \ {"fault", "crash", "commit"}
      /\ "ack" \in Moves \ {"fault", "crash", "commit"}
      /\ "close" \in Moves \ {"fault", "crash", "commit"}
      /\ "escalate" \in Moves \ {"fault", "crash", "commit"}
  BY DEF Moves
<1>3. \A m \in Moves \ {"fault", "crash", "commit"} : Spend(m) => Faults' = Faults
  BY SpendFaults
<1>4. used' = used \/ Spend("notify") \/ Spend("ack") \/ Spend("close") \/ Spend("escalate")
  BY DEF Writers, Notify, Ack, CloseWithReply, Escalate, Forget
<1> QED BY <1>1, <1>2, <1>3, <1>4

LEMMA UnalteredCards ==
  ASSUME Unaltered
  PROVE  /\ \A p : Mistaken(p)' <=> Mistaken(p)
         /\ \A t \in DOMAIN slack : GivenUp(t)' <=> GivenUp(t)
         /\ \A e : CardsOf(e)' = CardsOf(e)
         /\ \A e : \A t \in DOMAIN slack : Retells(t, e)' <=> Retells(t, e)
<1>1. ASSUME NEW p PROVE Mistaken(p)' <=> Mistaken(p)
  BY DEF Mistaken, Unaltered
<1>2. ASSUME NEW t \in DOMAIN slack PROVE Mistaken(slack[t].id[2])' <=> Mistaken(slack[t].id[2])
  <2>1. PICK p : p = slack[t].id[2]
    OBVIOUS
  <2>2. slack'[t].id[2] = p
    BY <2>1 DEF Unaltered
  <2>3. Mistaken(p)' <=> Mistaken(p)
    BY <1>1
  <2> QED BY <2>1, <2>2, <2>3
<1>3. ASSUME NEW t \in DOMAIN slack PROVE GivenUp(t)' <=> GivenUp(t)
  BY <1>2 DEF GivenUp, Unaltered
<1>4. ASSUME NEW e PROVE CardsOf(e)' = CardsOf(e)
  BY <1>3 DEF CardsOf, Unaltered, IsCard
<1>5. ASSUME NEW t \in DOMAIN slack, NEW e PROVE Retells(t, e)' <=> Retells(t, e)
  BY <1>2 DEF Retells, Unaltered
<1> QED BY <1>1, <1>3, <1>4, <1>5

\* No card is to be posted that was not, or a fault pays for it.
Pays ==
  \/ Faults' = Faults /\ \A e \in Nat : PostsOf(e)' \subseteq PostsOf(e)
  \/ Faults' = Faults + 1 /\ \E x : \A e \in Nat : PostsOf(e)' \subseteq PostsOf(e) \cup {x}

LEMMA UnalteredPaid ==
  ASSUME TypeOK, TypeOK', Paid, Unaltered, Pays
  PROVE  Paid'
<1>1. Faults \in Nat /\ Faults' \in Nat
  BY FaultsType
<1>2. PICK n \in Nat, m \in Nat : n = 1 + Faults /\ m = 1 + Faults'
  <2>1. PICK a \in Nat, b \in Nat : a = Faults /\ b = Faults'
    BY <1>1
  <2>2. 1 + a \in Nat /\ 1 + b \in Nat
    OBVIOUS
  <2> QED BY <2>1, <2>2
<1>3. ASSUME NEW e \in Nat PROVE Within(CardsOf(e), PostsOf(e), 1 + Faults)'
  <2>1. PICK A, B, D : A = CardsOf(e) /\ B = PostsOf(e) /\ D = PostsOf(e)'
    OBVIOUS
  <2>2. Within(A, B, n) /\ CardsOf(e)' = A
    BY <1>2, <2>1, UnalteredCards DEF Paid
  <2>3. CASE Faults' = Faults /\ D \subseteq B
    <3>1. m >= n
      BY <1>1, <1>2, <2>3
    <3>2. Within(A, D, m)
      BY <2>2, <2>3, <3>1, WithinLess
    <3> QED BY <1>2, <2>1, <2>2, <3>2 DEF Within
  <2>4. ASSUME NEW x, Faults' = Faults + 1, D \subseteq B \cup {x}
        PROVE  Within(CardsOf(e), PostsOf(e), 1 + Faults)'
    <3>1. m = n + 1
      BY <1>1, <1>2, <2>4
    <3>2. Within(A, D, m)
      <4>1. A \in SUBSET A /\ D \in SUBSET (B \cup {x})
        BY <2>4
      <4>2. Within(A, D, n + 1)
        BY <2>2, <4>1, OneMorePost
      <4> QED BY <3>1, <4>2
    <3> QED BY <1>2, <2>1, <2>2, <3>2 DEF Within
  <2> QED BY <2>1, <2>3, <2>4 DEF Pays
<1> QED BY <1>3 DEF Paid

\* The entry whose post was answered is not to be posted again.
Finishes ==
  \A i \in DOMAIN outbox'.work :
    Answered(i) /\ IsParent(i) => outbox'.work[i].kind # "post"

LEMMA EntryFields ==
  ASSUME TypeOK, Face, NEW i \in DOMAIN outbox.work, i[1] \in CardWork
  PROVE  /\ outbox.work[i].ep \in Nat
         /\ outbox.work[i].kind = "update" => outbox.work[i].ts \in DOMAIN slack
<1>1. outbox.work[i] \in Work
  BY DEF TypeOK, OutboxOK
<1>2. Facing(i, outbox.work[i])
  BY DEF Face, EntriesFace, Aimed
<1> QED BY <1>1, <1>2 DEF Work, Facing

LEMMA ParentIsCard ==
  ASSUME NEW i, IsParent(i)
  PROVE  i[1] \in CardWork
BY DEF IsParent, CardWork

LEMMA UnalteredGone ==
  ASSUME TypeOK, TypeOK', ReplacedGone, Unaltered, fresh' >= fresh
  PROVE  ReplacedGone'
<1> SUFFICES ASSUME NEW t \in DOMAIN slack'
             PROVE  /\ slack'[t].replaced # {} => ~slack'[t].live
                    /\ \A p \in slack'[t].replaced : p < fresh'
  BY DEF ReplacedGone
<1>1. t \in DOMAIN slack /\ slack'[t].replaced = slack[t].replaced
      /\ (slack'[t].live => slack[t].live)
  BY DEF Unaltered
<1>2. slack[t].replaced \subseteq Nat
  <2>1. slack[t] \in SlackMessage
    BY <1>1 DEF TypeOK
  <2> QED BY <2>1 DEF SlackMessage
<1>3. ASSUME NEW p \in slack[t].replaced PROVE p < fresh'
  <2>1. p < fresh /\ p \in Nat /\ fresh \in Nat /\ fresh' \in Nat
    BY <1>1, <1>2 DEF ReplacedGone, TypeOK
  <2> QED BY <2>1
<1> QED BY <1>1, <1>3 DEF ReplacedGone

LEMMA UnalteredDrawn ==
  ASSUME TypeOK, TypeOK', EpisodesDrawn, Unaltered, fresh' >= fresh,
         \A i \in DOMAIN outbox'.work : IsParent(i) => outbox'.work[i].ep < fresh'
  PROVE  EpisodesDrawn'
<1> SUFFICES ASSUME NEW t \in DOMAIN slack', IsCard(t)'
             PROVE  GivenUp(t)' \/ slack'[t].ep < fresh'
  BY DEF EpisodesDrawn
<1>1. t \in DOMAIN slack /\ IsCard(t) /\ slack'[t].ep = slack[t].ep
  BY DEF Unaltered, IsCard
<1>2. GivenUp(t)' <=> GivenUp(t)
  BY <1>1, UnalteredCards
<1>3. slack[t].ep \in Nat /\ fresh \in Nat /\ fresh' \in Nat
  <2>1. slack[t] \in SlackMessage
    BY <1>1 DEF TypeOK
  <2> QED BY <2>1 DEF SlackMessage, TypeOK
<1>4. GivenUp(t) \/ slack[t].ep < fresh
  BY <1>1 DEF EpisodesDrawn
<1> QED BY <1>1, <1>2, <1>3, <1>4

LEMMA LetsGoShares ==
  ASSUME TypeOK, TypeOK', Cards, Face, Shares, LetsGo,
         Faults' = Faults + 1 \/ (Faults' = Faults /\ Finishes)
  PROVE  Shares'
<1>0. Unaltered /\ fresh' >= fresh
  BY DEF LetsGo
<1>1. ASSUME NEW i \in DOMAIN outbox'.work, i[1] \in CardWork, NEW v, v = outbox'.work[i],
             NEW w, w = outbox.work[i]
      PROVE  /\ i \in DOMAIN outbox.work /\ v.ep = w.ep
             /\ \/ v.kind = w.kind /\ v.ts = w.ts
                \/ Posted /\ i = worker.id /\ v.kind = "update" /\ v.ts = worker.ts
  BY <1>1 DEF LetsGo
<1>2. Pays
  <2>1. ASSUME NEW e \in Nat, NEW i \in PostsOf(e)'
        PROVE  i \in PostsOf(e) \/ (Answered(i) /\ ~Finishes)
    <3>1. PICK v, w : v = outbox'.work[i] /\ w = outbox.work[i]
      OBVIOUS
    <3>2. /\ i \in DOMAIN outbox'.work /\ IsParent(i) /\ v.kind = "post" /\ v.ep = e
          /\ ~Mistaken(i[2])'
      BY <2>1, <3>1 DEF PostsOf
    <3>3. i \in DOMAIN outbox.work /\ w.ep = e /\ w.kind = "post"
      BY <1>1, <3>1, <3>2, ParentIsCard
    <3>4. ~Mistaken(i[2])
      BY <1>0, <3>2, UnalteredCards
    <3>5. CASE ~Answered(i)
      BY <3>1, <3>2, <3>3, <3>4, <3>5 DEF PostsOf
    <3>6. CASE Answered(i)
      BY <3>1, <3>2, <3>6 DEF Finishes
    <3> QED BY <3>5, <3>6
  <2>2. CASE Faults' = Faults + 1
    <3>1. PICK x : x = worker.id
      OBVIOUS
    <3>2. \A e \in Nat : PostsOf(e)' \subseteq PostsOf(e) \cup {x}
      BY <2>1, <3>1 DEF Answered
    <3> QED BY <2>2, <3>2 DEF Pays
  <2>3. CASE Faults' = Faults /\ Finishes
    BY <2>1, <2>3 DEF Pays
  <2> QED BY <2>2, <2>3
<1>3. Posted /\ worker.id[1] \in CardWork =>
        /\ worker.ts \in DOMAIN slack /\ slack[worker.ts].replaced = {}
        /\ worker.id \in DOMAIN outbox.work => Retells(worker.ts, outbox.work[worker.id].ep)
  <2>1. Posted => worker.pc # "idle" /\ Sent({"ok", "lost"}) /\ worker.work.kind = "post"
    BY DEF Posted, Sent
  <2>2. Posted => worker.ts \in DOMAIN slack
    BY <2>1 DEF Face, HeldFace
  <2> QED BY <2>1, <2>2 DEF Shares, HeldSays
<1>4. OpenSays'
  <2> SUFFICES ASSUME NEW g \in Group, IsOpen(group'[g])
               PROVE  /\ ~Mistaken(group[g].parent.post)'
                      /\ ParentId(group'[g]) \in DOMAIN outbox'.work =>
                           outbox'.work[ParentId(group'[g])].ep = group'[g].ep
                      /\ group'[g].parent.ts # 0 => slack'[group'[g].parent.ts].replaced = {}
    BY DEF OpenSays
  <2>1. PICK old, new : old = group[g] /\ new = group'[g]
    OBVIOUS
  <2>2. /\ IsOpen(old) /\ new.parent.post = old.parent.post /\ new.ep = old.ep
        /\ \/ new.parent.ts = old.parent.ts
           \/ Posted /\ ParentId(old) = worker.id /\ new.parent.ts = worker.ts
    BY <2>1 DEF LetsGo
  <2>3. PICK p, i : p = old.parent.post /\ i = ParentId(old)
    OBVIOUS
  <2>4. ParentId(new) = i /\ i[1] \in CardWork
    BY <2>2, <2>3 DEF ParentId, CardWork
  <2>5. /\ ~Mistaken(p)
        /\ i \in DOMAIN outbox.work => outbox.work[i].ep = old.ep
        /\ old.parent.ts # 0 => slack[old.parent.ts].replaced = {}
    BY <2>1, <2>2, <2>3 DEF Shares, OpenSays
  <2>6. ~Mistaken(p)'
    BY <1>0, <2>5, UnalteredCards
  <2>7. i \in DOMAIN outbox'.work => outbox'.work[i].ep = new.ep
    BY <1>1, <2>2, <2>4, <2>5
  <2>8. ASSUME new.parent.ts # 0 PROVE slack'[new.parent.ts].replaced = {}
    <3>1. CASE new.parent.ts = old.parent.ts
      <4>1. old.parent.ts \in DOMAIN slack
        BY <2>1, <2>2, <2>8, <3>1 DEF Face, GroupFace, ShowsCard
      <4> QED BY <1>0, <2>5, <2>8, <3>1, <4>1 DEF Unaltered
    <3>2. CASE Posted /\ ParentId(old) = worker.id /\ new.parent.ts = worker.ts
      BY <1>0, <1>3, <2>3, <2>4, <3>2 DEF Unaltered
    <3> QED BY <2>2, <3>1, <3>2
  <2> QED BY <2>1, <2>2, <2>3, <2>4, <2>6, <2>7, <2>8
<1>5. EntriesSay'
  <2> SUFFICES ASSUME NEW i \in DOMAIN outbox'.work, i[1] \in CardWork,
                      outbox'.work[i].kind = "update"
               PROVE  Retells(outbox.work[i].ts, outbox.work[i].ep)'
    BY DEF EntriesSay
  <2>1. PICK v, w : v = outbox'.work[i] /\ w = outbox.work[i]
    OBVIOUS
  <2>2. /\ i \in DOMAIN outbox.work /\ v.ep = w.ep
        /\ \/ v.kind = w.kind /\ v.ts = w.ts
           \/ Posted /\ i = worker.id /\ v.kind = "update" /\ v.ts = worker.ts
    BY <1>1, <2>1
  <2>3. v.ts \in DOMAIN slack /\ Retells(v.ts, v.ep)
    <3>1. CASE v.kind = w.kind /\ v.ts = w.ts
      BY <2>1, <2>2, <3>1, EntryFields DEF Shares, EntriesSay
    <3>2. CASE Posted /\ i = worker.id /\ v.kind = "update" /\ v.ts = worker.ts
      BY <1>3, <2>1, <2>2, <3>2
    <3> QED BY <2>2, <3>1, <3>2
  <2>4. PICK t, e : t = v.ts /\ e = v.ep
    OBVIOUS
  <2>5. Retells(t, e)'
    BY <1>0, <2>3, <2>4, UnalteredCards
  <2> QED BY <2>1, <2>4, <2>5
<1>6. HeldSays'
  BY DEF LetsGo, HeldSays, Idle
<1>7. ASSUME NEW i \in DOMAIN outbox'.work, IsParent(i) PROVE outbox'.work[i].ep < fresh'
  <2>1. i \in DOMAIN outbox.work /\ outbox'.work[i].ep = outbox.work[i].ep
    BY <1>1, <1>7, ParentIsCard
  <2>2. outbox.work[i].ep < fresh /\ outbox.work[i].ep \in Nat
    BY <1>7, <2>1, EntryFields, ParentIsCard DEF Shares, EpisodesDrawn
  <2>3. fresh \in Nat /\ fresh' \in Nat
    BY DEF TypeOK
  <2> QED BY <1>0, <2>1, <2>2, <2>3
<1>8. EpisodesDrawn'
  BY <1>0, <1>7, UnalteredDrawn DEF Shares
<1>9. ReplacedGone'
  BY <1>0, UnalteredGone DEF Shares
<1>10. Paid'
  BY <1>0, <1>2, UnalteredPaid DEF Shares
<1> QED BY <1>4, <1>5, <1>6, <1>8, <1>9, <1>10 DEF Shares

LEMMA CommitFinishes ==
  ASSUME TypeOK, Face, Commit, LetsGo
  PROVE  Finishes /\ Faults' = Faults
<1>1. used' = used
  BY DEF Commit, CompletePost, CompleteUpdate, CompleteReaction, FailWork, CommitNothing,
         RetiredListMissing, DetachedMissing, ListMissing, Unreplaceable, ParentMissing, Settle
<1>2. ASSUME NEW i \in DOMAIN outbox'.work, Answered(i), IsParent(i)
      PROVE  outbox'.work[i].kind # "post"
  <2>1. PICK v, w : v = outbox'.work[i] /\ w = worker.work
    OBVIOUS
  <2>2. worker.pc = "sent" /\ worker.answer = "ok" /\ worker.id = i /\ i[1] \in CardWork
    BY <1>2, ParentIsCard DEF Answered
  <2>3. /\ i \in DOMAIN outbox.work
        /\ v.kind = outbox.work[i].kind \/ v.kind = "update"
    BY <1>2, <2>1, <2>2 DEF LetsGo
  <2>4. outbox.work[i].kind = w.kind /\ w.kind # "reaction"
    BY <2>1, <2>2, <2>3 DEF Face, HeldFace, Since, Aimed, Facing
  <2>5. CASE CompletePost
    <3>1. i \in DOMAIN outbox'.work <=> Superseded
      BY <2>2, <2>5, CompletedEntries
    <3>2. v.kind = "update"
      BY <1>2, <2>1, <2>2, <2>5, <3>1, CompletedEntries
    <3> QED BY <2>1, <3>2
  <2>6. CASE CompleteUpdate
    <3>1. w.kind = "update"
      BY <2>1, <2>6 DEF CompleteUpdate, Attempt
    <3> QED BY <2>1, <2>3, <2>4, <3>1
  <2>7. ~CompleteReaction /\ ~CommitNothing /\ ~FailWork /\ ~UpdateMissing
    BY <2>1, <2>2, <2>3, <2>4 DEF CompleteReaction, CommitNothing, FailWork, UpdateMissing, Attempt
  <2> QED BY <2>5, <2>6, <2>7 DEF Commit, RetiredListMissing, DetachedMissing, ListMissing,
                                  Unreplaceable, ParentMissing
<1> QED BY <1>1, <1>2 DEF Finishes, Faults

\* What is rewritten as a card to be posted was one of its episode.
LEMMA RewrittenPost ==
  ASSUME TypeOK, Cards, Face, Shares, NEW i, IsParent(i), i[2] # fresh, NEW v,
         v.kind = "post", Rewritten(i, v)
  PROVE  /\ i \in DOMAIN outbox.work /\ outbox.work[i].kind = "post"
         /\ outbox.work[i].ep = v.ep
<1>1. ASSUME NEW h \in Group, NEW gr, gr = group[h], IsOpen(gr), v.ep = gr.ep,
             v.kind = IF gr.parent.ts = 0 THEN "post" ELSE "update", i = ParentId(gr)
      PROVE  /\ i \in DOMAIN outbox.work /\ outbox.work[i].kind = "post"
             /\ outbox.work[i].ep = v.ep
  <2>1. gr.parent.ts = 0
    BY <1>1
  <2>2. CardIn(outbox, h, gr)
    BY <1>1 DEF Cards
  <2>3. i \in DOMAIN outbox.work /\ outbox.work[i].kind = "post"
    BY <1>1, <2>1, <2>2 DEF CardIn
  <2> QED BY <1>1, <2>3 DEF Shares, OpenSays
<1>2. i # <<"parent", fresh, 0>>
  OBVIOUS
<1> QED BY <1>1, <1>2 DEF Rewritten

LEMMA WrittenShares ==
  ASSUME TypeOK, TypeOK', Cards, Face, Face', Shares, Written, Faults' = Faults
  PROVE  Shares'
<1>0. /\ slack' = slack /\ worker' = worker /\ fresh' >= fresh /\ Unaltered
      /\ fresh \in Nat /\ fresh' \in Nat
  BY DEF Written, Unaltered, TypeOK
<1>1. ASSUME NEW i \in DOMAIN outbox'.work, i[1] \in CardWork PROVE Rewritten(i, outbox'.work[i])
  BY <1>1 DEF Written
<1>2. ASSUME NEW g \in Group, IsOpen(group[g])
      PROVE  /\ group[g].ep < fresh /\ group[g].ep \in Nat /\ ParentId(group[g])[2] # fresh
             /\ group[g].parent.post # fresh
  <2>1. /\ group[g].parent.post \in Nat /\ group[g].parent.post < fresh
        /\ ParentId(group[g])[2] = group[g].parent.post /\ group[g].ep \in Nat
    BY PostFacts, ParentIdFacts, GroupWork DEF Cards, Drawn
  <2>2. GroupFace(g)
    BY DEF Face
  <2>3. group[g].ep < fresh
    BY <2>2 DEF GroupFace
  <2>4. group[g].parent.post # fresh
    BY <1>0, <2>1
  <2> QED BY <2>1, <2>3, <2>4
\* What is queued as a card to be posted was queued before, or is of a new episode.
<1>3. ASSUME NEW i \in DOMAIN outbox'.work, IsParent(i), NEW v, v = outbox'.work[i],
             v.kind = "post"
      PROVE  \/ /\ i \in DOMAIN outbox.work /\ outbox.work[i].kind = "post"
                /\ outbox.work[i].ep = v.ep
             \/ i = <<"parent", fresh, 0>> /\ v.ep = fresh /\ fresh' > fresh
  <2>1. Rewritten(i, v)
    BY <1>1, <1>3, ParentIsCard
  <2>2. CASE i[2] # fresh
    BY <1>3, <2>1, <2>2, RewrittenPost
  <2>3. CASE i[2] = fresh
    <3>1. i \notin DOMAIN outbox.work
      BY <1>3, <2>3, EntryDrawn, ParentIsCard
    <3>2. \A h \in Group : IsOpen(group[h]) => i # ParentId(group[h])
      BY <1>2, <2>3
    <3> QED BY <1>3, <2>1, <3>1, <3>2 DEF Rewritten
  <2> QED BY <2>2, <2>3
<1>4. Paid'
  <2> SUFFICES ASSUME NEW e \in Nat PROVE Within(CardsOf(e), PostsOf(e), 1 + Faults)'
    BY DEF Paid
  <2>1. PICK a \in Nat : a = Faults
    BY FaultsType
  <2>2. PICK A, B, D : A = CardsOf(e) /\ B = PostsOf(e) /\ D = PostsOf(e)'
    OBVIOUS
  <2>3. PICK n \in Nat : n = 1 + a
    OBVIOUS
  <2>4. CardsOf(e)' = A /\ Within(A, B, n)
    BY <1>0, <2>1, <2>2, <2>3, UnalteredCards DEF Shares, Paid
  <2>5. ASSUME NEW i \in D, e # fresh PROVE i \in B
    <3>1. PICK v : v = outbox'.work[i]
      OBVIOUS
    <3>2. /\ i \in DOMAIN outbox'.work /\ IsParent(i) /\ v.kind = "post" /\ v.ep = e
          /\ ~Mistaken(i[2])' /\ ~Answered(i)'
      BY <2>2, <2>5, <3>1 DEF PostsOf
    <3>3. i \in DOMAIN outbox.work /\ outbox.work[i].kind = "post" /\ outbox.work[i].ep = e
      BY <1>3, <2>5, <3>1, <3>2
    <3>4. ~Mistaken(i[2]) /\ ~Answered(i)
      BY <1>0, <3>2, UnalteredCards DEF Answered
    <3> QED BY <2>2, <3>2, <3>3, <3>4 DEF PostsOf
  <2>6. CASE e # fresh
    <3>1. Within(A, D, n)
      BY <2>4, <2>5, <2>6, WithinLess
    <3> QED BY <2>1, <2>2, <2>3, <2>4, <3>1 DEF Within
  <2>7. CASE e = fresh
    <3>1. ASSUME NEW t \in A PROVE FALSE
      <4>1. t \in DOMAIN slack /\ IsCard(t) /\ slack[t].ep = fresh /\ ~GivenUp(t)
        BY <2>2, <2>7, <3>1 DEF CardsOf
      <4>2. fresh < fresh
        BY <4>1 DEF Shares, EpisodesDrawn
      <4> QED BY <1>0, <4>2
    <3>2. PICK x : x = <<"parent", fresh, 0>>
      OBVIOUS
    <3>3. ASSUME NEW i \in D PROVE i = x
      <4>1. PICK v : v = outbox'.work[i]
        OBVIOUS
      <4>2. i \in DOMAIN outbox'.work /\ IsParent(i) /\ v.kind = "post" /\ v.ep = fresh
        BY <2>2, <2>7, <3>3, <4>1 DEF PostsOf
      <4>3. ~(i \in DOMAIN outbox.work /\ outbox.work[i].ep = fresh)
        BY <1>0, <4>2 DEF Shares, EpisodesDrawn
      <4> QED BY <1>3, <3>2, <4>1, <4>2, <4>3
    <3>4. A = {} /\ D \subseteq {x}
      BY <3>1, <3>3
    <3>5. Within(A, D, 1 + a)
      BY <3>4, WithinOne
    <3> QED BY <2>1, <2>2, <2>4, <3>5 DEF Within
  <2> QED BY <2>6, <2>7
<1>5. OpenSays'
  <2> SUFFICES ASSUME NEW g \in Group, IsOpen(group'[g])
               PROVE  /\ ~Mistaken(group[g].parent.post)'
                      /\ ParentId(group'[g]) \in DOMAIN outbox'.work =>
                           outbox'.work[ParentId(group'[g])].ep = group'[g].ep
                      /\ group'[g].parent.ts # 0 => slack'[group'[g].parent.ts].replaced = {}
    BY DEF OpenSays
  <2>1. PICK old, new, i, p : /\ old = group[g] /\ new = group'[g] /\ i = ParentId(new)
                              /\ p = new.parent.post
    OBVIOUS
  <2>2. IsParent(i) /\ i[1] \in CardWork /\ i[2] = p
    BY <2>1 DEF ParentId, IsParent, CardWork
  <2>3. CASE /\ IsOpen(old) /\ p = old.parent.post
             /\ new.parent.ts = old.parent.ts /\ new.ep = old.ep
    <3>1. i = ParentId(old) /\ p # fresh
      BY <1>2, <2>1, <2>3 DEF ParentId
    <3>2. /\ ~Mistaken(p)
          /\ i \in DOMAIN outbox.work => outbox.work[i].ep = old.ep
          /\ old.parent.ts # 0 => slack[old.parent.ts].replaced = {}
      BY <2>1, <2>3, <3>1 DEF Shares, OpenSays
    <3>3. ~Mistaken(p)'
      BY <1>0, <3>2, UnalteredCards
    <3>4. ASSUME i \in DOMAIN outbox'.work, NEW v, v = outbox'.work[i] PROVE v.ep = old.ep
      <4>1. Rewritten(i, v)
        BY <1>1, <2>2, <3>4
      <4>2. ASSUME NEW h \in Group, IsOpen(group[h]), i = ParentId(group[h]) PROVE h = g
        <5>1. group[h].parent.post = old.parent.post
          BY <3>1, <4>2 DEF ParentId
        <5> QED BY <2>1, <2>3, <4>2, <5>1 DEF Cards, Drawn, IsOpen
      <4>3. i # <<"parent", fresh, 0>>
        BY <2>2, <3>1
      <4> QED BY <2>1, <2>2, <3>2, <4>1, <4>2, <4>3 DEF Rewritten
    <3> QED BY <1>0, <2>1, <2>3, <3>2, <3>3, <3>4
  <2>4. CASE p = fresh /\ new.parent.ts = 0 /\ new.ep = fresh
    <3>1. ~Mistaken(p)
      <4>1. ASSUME NEW d \in DOMAIN slack, p \in slack[d].replaced PROVE FALSE
        BY <1>0, <2>4, <4>1 DEF Shares, ReplacedGone
      <4> QED BY <4>1 DEF Mistaken
    <3>2. ~Mistaken(p)'
      BY <1>0, <3>1, UnalteredCards
    <3>3. ASSUME i \in DOMAIN outbox'.work, NEW v, v = outbox'.work[i] PROVE v.ep = fresh
      <4>1. Rewritten(i, v)
        BY <1>1, <2>2, <3>3
      <4>2. i \notin DOMAIN outbox.work
        BY <2>2, <2>4, EntryDrawn
      <4>3. \A h \in Group : IsOpen(group[h]) => i # ParentId(group[h])
        BY <1>2, <2>2, <2>4
      <4> QED BY <2>2, <4>1, <4>2, <4>3 DEF Rewritten
    <3> QED BY <2>1, <2>4, <3>2, <3>3
  <2> QED BY <2>1, <2>3, <2>4 DEF Written
<1>6. ASSUME NEW t, NEW e PROVE Retells(t, e)' <=> Retells(t, e)
  BY <1>0 DEF Retells, Mistaken
<1>7. EntriesSay'
  <2> SUFFICES ASSUME NEW i \in DOMAIN outbox'.work, i[1] \in CardWork,
                      outbox'.work[i].kind = "update"
               PROVE  Retells(outbox.work[i].ts, outbox.work[i].ep)'
    BY DEF EntriesSay
  <2>1. PICK v, t, e : v = outbox'.work[i] /\ t = v.ts /\ e = v.ep
    OBVIOUS
  <2>2. Rewritten(i, v)
    BY <1>1, <2>1
  <2>3. Retells(t, e)
    <3>1. CASE /\ i \in DOMAIN outbox.work /\ v.kind = outbox.work[i].kind
               /\ v.ts = outbox.work[i].ts /\ v.ep = outbox.work[i].ep
      BY <2>1, <3>1 DEF Shares, EntriesSay
    <3>2. ASSUME NEW h \in Group, IsOpen(group[h]), v.ep = group[h].ep,
                 v.ts = group[h].parent.ts,
                 v.kind = IF group[h].parent.ts = 0 THEN "post" ELSE "update"
          PROVE  Retells(t, e)
      <4>1. group[h].parent.ts # 0
        BY <2>1, <3>2
      <4>2. ShowsCard(group[h])
        BY <3>2, <4>1 DEF Face, GroupFace
      <4> QED BY <2>1, <3>2, <4>2 DEF ShowsCard, Retells
    <3> QED BY <2>1, <2>2, <3>1, <3>2 DEF Rewritten
  <2>4. Retells(t, e)'
    BY <1>6, <2>3
  <2> QED BY <2>1, <2>4
<1>8. HeldSays'
  <2> SUFFICES ASSUME worker.pc # "idle", worker.id[1] \in CardWork PROVE HeldSays'
    BY <1>0 DEF HeldSays
  <2>1. PICK i, w, v : i = worker.id /\ w = worker.work /\ v = outbox'.work[i]
    OBVIOUS
  <2>2. i[2] # fresh /\ Aimed(i, w)
    BY <2>1, HeldDrawn DEF Face, HeldFace
  <2>3. ASSUME i \in DOMAIN outbox'.work, w.kind = "post"
        PROVE  i \in DOMAIN outbox.work /\ outbox.work[i].ep = v.ep
    <3>1. Since(w, v)
      BY <1>0, <2>1, <2>3 DEF Face, HeldFace
    <3>2. IsParent(i) /\ v.kind = "post"
      BY <2>1, <2>2, <2>3, <3>1 DEF Since, Aimed, Facing
    <3> QED BY <1>3, <2>1, <2>2, <2>3, <3>2
  <2>4. PICK t, u, e, a : t = w.ts /\ u = worker.ts /\ e = worker.content.ep /\ a = v.ep
    OBVIOUS
  <2>5. /\ worker.pc = "picked" /\ w.kind = "update" => Retells(t, e)
        /\ worker.pc = "picked" /\ w.kind = "post" /\ i \in DOMAIN outbox'.work =>
             e = a \/ Mistaken(i[2])
        /\ Sent({"ok", "lost"}) /\ w.kind = "post" =>
             /\ slack[u].replaced = {}
             /\ i \in DOMAIN outbox'.work => Retells(u, a)
    BY <2>1, <2>3, <2>4 DEF Shares, HeldSays
  <2>6. /\ Retells(t, e)' <=> Retells(t, e)
        /\ Retells(u, a)' <=> Retells(u, a)
        /\ Mistaken(i[2])' <=> Mistaken(i[2])
        /\ Sent({"ok", "lost"})' <=> Sent({"ok", "lost"})
    BY <1>0, <1>6, UnalteredCards DEF Sent
  <2> QED BY <1>0, <2>1, <2>4, <2>5, <2>6 DEF HeldSays
<1>9. ASSUME NEW i \in DOMAIN outbox'.work, IsParent(i) PROVE outbox'.work[i].ep < fresh'
  <2>1. PICK v : v = outbox'.work[i]
    OBVIOUS
  <2>2. Rewritten(i, v)
    BY <1>1, <1>9, <2>1, ParentIsCard
  <2>3. ASSUME i \in DOMAIN outbox.work, v.ep = outbox.work[i].ep PROVE v.ep < fresh'
    <3>1. outbox.work[i].ep < fresh /\ outbox.work[i].ep \in Nat
      BY <1>9, <2>3, EntryFields, ParentIsCard DEF Shares, EpisodesDrawn
    <3> QED BY <1>0, <2>3, <3>1
  <2>4. ASSUME NEW h \in Group, IsOpen(group[h]), v.ep = group[h].ep PROVE v.ep < fresh'
    <3>1. v.ep < fresh /\ v.ep \in Nat
      BY <1>2, <2>4
    <3> QED BY <1>0, <3>1
  <2>5. CASE v.ep = fresh /\ fresh' > fresh
    BY <1>0, <2>1, <2>5
  <2> QED BY <2>1, <2>2, <2>3, <2>4, <2>5 DEF Rewritten
<1>10. EpisodesDrawn'
  BY <1>0, <1>9, UnalteredDrawn DEF Shares
<1>11. ReplacedGone'
  BY <1>0, UnalteredGone DEF Shares
<1> QED BY <1>4, <1>5, <1>7, <1>8, <1>10, <1>11 DEF Shares

\* A card is replaced: the episode has one more to post, and one that counted no longer does.
LEMMA ReplacesShares ==
  ASSUME TypeOK, TypeOK', Cards, Face, Shares, NEW g, NEW i, NEW d, NEW n, Replaces(g, i, d, n)
  PROVE  Shares'
<1>1. PICK gr, id, post, e0, c : /\ gr = group[g] /\ id = ParentId(gr) /\ post = gr.parent.post
                                 /\ e0 = gr.ep /\ c = gr.parent.ts
  OBVIOUS
<1>2. /\ g \in Group /\ IsOpen(gr) /\ worker' = Idle /\ fresh' = fresh + 1 /\ used' = used
      /\ IsParent(i) /\ i \in DOMAIN outbox.work /\ outbox.work[i].ts = d
      /\ d \in DOMAIN slack /\ slack[d].id = i /\ ~slack[d].live
      /\ \A h \in Group : IsOpen(group[h]) /\ ParentId(group[h]) = i => h = g
      /\ DOMAIN slack' = DOMAIN slack
      /\ \A j : ~Answered(j)
  BY <1>1 DEF Replaces, Answered
<1>3. \A t \in DOMAIN slack :
        /\ slack'[t].id = slack[t].id /\ slack'[t].ep = slack[t].ep
        /\ slack'[t].live = slack[t].live
        /\ slack'[t].replaced = IF t = d THEN slack[t].replaced \cup {post}
                                ELSE slack[t].replaced
  BY <1>1 DEF Replaces
<1>4. /\ n = <<"parent", fresh, 0>> /\ n \in DOMAIN outbox'.work
      /\ outbox'.work[n].ep = e0 /\ outbox'.work[n].kind = "post"
      /\ group'[g].parent.post = fresh /\ group'[g].parent.ts = 0 /\ group'[g].ep = e0
      /\ \A h \in Group \ {g} : group'[h] = group[h]
      /\ \A j \in DOMAIN outbox'.work \ {n} :
           j \in DOMAIN outbox.work /\ j # i /\ Like(outbox'.work[j], outbox.work[j])
  BY <1>1 DEF Replaces
<1>5. /\ fresh \in Nat /\ fresh' \in Nat /\ fresh < fresh'
      /\ post \in Nat /\ post < fresh /\ post < fresh' /\ post # fresh /\ post # 0
      /\ e0 \in Nat /\ e0 < fresh /\ e0 < fresh'
      /\ id = <<"parent", post, 0>> /\ IsParent(id) /\ id[2] = post
  <2>1. fresh \in Nat /\ fresh' = fresh + 1 /\ post \in Nat /\ e0 \in Nat /\ post < fresh
    BY <1>1, <1>2, PostFacts, GroupWork DEF Cards, Drawn
  <2>2. GroupFace(g)
    BY <1>2 DEF Face
  <2>3. e0 < fresh
    BY <1>1, <2>2 DEF GroupFace
  <2>4. /\ fresh' \in Nat /\ fresh < fresh' /\ post < fresh' /\ post # fresh /\ e0 < fresh'
    BY <2>1, <2>3
  <2>5. id = <<"parent", post, 0>> /\ post # 0
    BY <1>1, <1>2 DEF ParentId, IsOpen
  <2>6. IsParent(id) /\ id[2] = post
    BY <2>5 DEF IsParent
  <2> QED BY <2>1, <2>3, <2>4, <2>5, <2>6
<1>6. ASSUME NEW p PROVE Mistaken(p)' <=> (Mistaken(p) \/ (p = post /\ i[2] # post))
  <2>1. ASSUME Mistaken(p)' PROVE Mistaken(p) \/ (p = post /\ i[2] # post)
    <3>1. PICK t \in DOMAIN slack' : p \in slack'[t].replaced /\ slack'[t].id[2] # p
      BY <2>1 DEF Mistaken
    <3>2. t \in DOMAIN slack /\ slack[t].id[2] # p /\ (p \in slack[t].replaced \/ (t = d /\ p = post))
      BY <1>2, <1>3, <3>1
    <3> QED BY <1>2, <3>2 DEF Mistaken
  <2>2. ASSUME Mistaken(p) PROVE Mistaken(p)'
    <3>1. PICK t \in DOMAIN slack : p \in slack[t].replaced /\ slack[t].id[2] # p
      BY <2>2 DEF Mistaken
    <3>2. t \in DOMAIN slack' /\ p \in slack'[t].replaced /\ slack'[t].id[2] # p
      BY <1>2, <1>3, <3>1
    <3> QED BY <3>2 DEF Mistaken
  <2>3. ASSUME p = post, i[2] # post PROVE Mistaken(p)'
    <3>1. d \in DOMAIN slack' /\ p \in slack'[d].replaced /\ slack'[d].id[2] # p
      BY <1>2, <1>3, <2>3
    <3> QED BY <3>1 DEF Mistaken
  <2> QED BY <2>1, <2>2, <2>3
<1>7. ASSUME NEW t \in DOMAIN slack
      PROVE  /\ GivenUp(t) => GivenUp(t)'
             /\ \A e : Retells(t, e) => Retells(t, e)'
  <2>1. PICK p : p = slack[t].id[2]
    OBVIOUS
  <2>2. slack'[t].id[2] = p /\ (Mistaken(p) => Mistaken(p)')
    BY <1>3, <1>6, <2>1
  <2> QED BY <1>3, <2>1, <2>2 DEF GivenUp, Retells
<1>8. ~Mistaken(post) /\ (id \in DOMAIN outbox.work => outbox.work[id].ep = e0)
      /\ (c # 0 => slack[c].replaced = {})
  BY <1>1, <1>2 DEF Shares, OpenSays
<1>9. ASSUME c # 0 PROVE c \in CardsOf(e0) /\ slack[c].id = id
  <2>1. GroupFace(g)
    BY <1>2 DEF Face
  <2>2. c \in DOMAIN slack /\ slack[c].id = id /\ slack[c].ep = e0
    BY <1>1, <1>2, <1>9, <2>1 DEF GroupFace, ShowsCard
  <2>3. ~GivenUp(c) /\ IsCard(c)
    BY <1>5, <1>8, <1>9, <2>2 DEF GivenUp, IsCard, IsParent
  <2> QED BY <2>2, <2>3 DEF CardsOf
\* One that counted: the card that is replaced, or the one that was mistaken for it.
<1>10. \/ \E y \in CardsOf(e0) : GivenUp(y)'
       \/ id \in PostsOf(e0) /\ Mistaken(post)'
  <2>1. CASE i = id
    <3>1. CardIn(outbox, g, gr)
      BY <1>1, <1>2 DEF Cards
    <3>2. c = d
      BY <1>1, <1>2, <2>1, <3>1 DEF CardIn
    <3>3. d # 0
      BY <1>2 DEF TypeOK
    <3>4. post \in slack'[d].replaced
      BY <1>2, <1>3
    <3> QED BY <1>9, <3>2, <3>3, <3>4 DEF GivenUp
  <2>2. CASE i # id
    <3>1. i[2] # post
      <4>1. i \in WorkId /\ i[1] = "parent" /\ i[3] = 0
        BY <1>2, PostFacts DEF Cards, Fit, FitAt, IsParent
      <4>2. i = <<i[1], i[2], i[3]>>
        BY <4>1 DEF WorkId
      <4> QED BY <1>5, <2>2, <4>1, <4>2
    <3>2. Mistaken(post)'
      BY <1>6, <3>1
    <3>3. CASE c # 0
      <4>1. c \in DOMAIN slack
        BY <1>9, <3>3 DEF CardsOf
      <4>2. slack'[c].id[2] = post
        BY <1>3, <1>5, <1>9, <3>3, <4>1
      <4>3. GivenUp(c)'
        BY <3>2, <4>2 DEF GivenUp
      <4> QED BY <1>9, <3>3, <4>3
    <3>4. CASE c = 0
      <4>1. id \in DOMAIN outbox.work /\ outbox.work[id].kind = "post"
        BY <1>1, <1>2, <3>4 DEF Cards, CardIn
      <4> QED BY <1>2, <1>5, <1>8, <3>2, <4>1 DEF PostsOf
    <3> QED BY <3>3, <3>4
  <2> QED BY <2>1, <2>2
<1>11. ASSUME NEW e, NEW t \in CardsOf(e)' PROVE t \in CardsOf(e) /\ ~GivenUp(t)'
  <2>1. t \in DOMAIN slack /\ IsCard(t) /\ slack[t].ep = e /\ ~GivenUp(t)'
    BY <1>2, <1>3, <1>11 DEF CardsOf, IsCard
  <2>2. ~GivenUp(t)
    BY <1>7, <2>1
  <2> QED BY <2>1, <2>2 DEF CardsOf
<1>12. ASSUME NEW e, NEW j \in PostsOf(e)', ~(j = n /\ e = e0)
       PROVE  j \in PostsOf(e) /\ ~Mistaken(j[2])'
  <2>1. PICK v, w : v = outbox'.work[j] /\ w = outbox.work[j]
    OBVIOUS
  <2>2. /\ j \in DOMAIN outbox'.work /\ IsParent(j) /\ v.kind = "post" /\ v.ep = e
        /\ ~Mistaken(j[2])'
    BY <1>12, <2>1 DEF PostsOf
  <2>3. j # n
    BY <1>4, <1>12, <2>1, <2>2
  <2>4. j \in DOMAIN outbox.work /\ w.kind = "post" /\ w.ep = e
    BY <1>4, <2>1, <2>2, <2>3 DEF Like
  <2>5. ~Mistaken(j[2])
    BY <1>6, <2>2
  <2> QED BY <1>2, <2>1, <2>2, <2>4, <2>5 DEF PostsOf
<1>13. Paid'
  <2> SUFFICES ASSUME NEW e \in Nat PROVE Within(CardsOf(e), PostsOf(e), 1 + Faults)'
    BY DEF Paid
  <2>1. PICK a \in Nat : a = Faults /\ a = Faults'
    BY <1>2, FaultsType DEF Faults
  <2>2. PICK k \in Nat : k = 1 + a
    OBVIOUS
  <2>3. PICK A, B, C, D : /\ A = CardsOf(e) /\ B = PostsOf(e)
                          /\ C = CardsOf(e)' /\ D = PostsOf(e)'
    OBVIOUS
  <2>4. Within(A, B, k) /\ C \subseteq A
    BY <1>11, <2>1, <2>2, <2>3 DEF Shares, Paid
  <2>6. \A t \in C : ~GivenUp(t)'
    BY <1>11, <2>3
  <2>5. Within(C, D, k)
    <3>1. CASE e # e0
      <4>1. D \subseteq B
        BY <1>12, <2>3, <3>1
      <4> QED BY <2>4, <4>1, WithinLess
    <3>2. CASE e = e0
      <4>0. D \subseteq B \cup {n}
        BY <1>12, <2>3, <3>2
      <4>1. \A j \in D : j = n \/ ~Mistaken(j[2])'
        BY <1>12, <2>3, <3>2
      <4>2. ASSUME NEW y \in A, GivenUp(y)' PROVE Within(C, D, k)
        <5>1. C \subseteq A \ {y}
          BY <2>4, <2>6, <4>2
        <5> QED BY <2>4, <4>0, <5>1, CardToPost
      <4>3. ASSUME id \in B, Mistaken(post)' PROVE Within(C, D, k)
        <5>1. D \subseteq (B \ {id}) \cup {n}
          BY <1>5, <4>0, <4>1, <4>3
        <5> QED BY <2>4, <4>3, <5>1, PostToPost
      <4> QED BY <1>10, <2>3, <3>2, <4>2, <4>3
    <3> QED BY <3>1, <3>2
  <2> QED BY <2>1, <2>2, <2>3, <2>5 DEF Within
<1>14. OpenSays'
  <2> SUFFICES ASSUME NEW h \in Group, IsOpen(group'[h])
               PROVE  /\ ~Mistaken(group[h].parent.post)'
                      /\ ParentId(group'[h]) \in DOMAIN outbox'.work =>
                           outbox'.work[ParentId(group'[h])].ep = group'[h].ep
                      /\ group'[h].parent.ts # 0 => slack'[group'[h].parent.ts].replaced = {}
    BY DEF OpenSays
  <2>1. CASE h = g
    <3>1. ~Mistaken(fresh)
      <4>1. ASSUME NEW t \in DOMAIN slack, fresh \in slack[t].replaced PROVE FALSE
        <5>1. fresh < fresh
          BY <4>1 DEF Shares, ReplacedGone
        <5> QED BY <1>5, <5>1
      <4> QED BY <4>1 DEF Mistaken
    <3>2. PICK p : p = fresh
      OBVIOUS
    <3>3. ~Mistaken(p)'
      BY <1>5, <1>6, <3>1, <3>2
    <3>4. ParentId(group'[g]) = n
      BY <1>4 DEF ParentId
    <3> QED BY <1>4, <2>1, <3>2, <3>3, <3>4
  <2>2. CASE h # g
    <3>1. PICK hr, p, t : hr = group[h] /\ p = hr.parent.post /\ t = hr.parent.ts
      OBVIOUS
    <3>2. group'[h] = hr /\ IsOpen(hr)
      BY <1>4, <2>2, <3>1
    <3>3. /\ ~Mistaken(p)
          /\ ParentId(hr) \in DOMAIN outbox.work => outbox.work[ParentId(hr)].ep = hr.ep
          /\ t # 0 => slack[t].replaced = {}
      BY <3>1, <3>2 DEF Shares, OpenSays
    <3>4. p # post /\ p < fresh /\ p \in Nat
      BY <1>1, <1>2, <2>2, <3>1, <3>2, PostFacts DEF Cards, Drawn, IsOpen
    <3>5. ~Mistaken(p)'
      BY <1>6, <3>3, <3>4
    <3>6. ParentId(hr) # n
      BY <1>4, <1>5, <3>1, <3>4 DEF ParentId
    <3>7. ParentId(hr) \in DOMAIN outbox'.work => outbox'.work[ParentId(hr)].ep = hr.ep
      BY <1>4, <3>3, <3>6 DEF Like
    <3>8. ASSUME t # 0 PROVE slack'[t].replaced = {}
      <4>1. GroupFace(h)
        BY DEF Face
      <4>2. t \in DOMAIN slack /\ slack[t].id = ParentId(hr)
        BY <3>1, <3>2, <3>8, <4>1 DEF GroupFace, ShowsCard
      <4>3. t # d
        BY <1>2, <2>2, <3>1, <3>2, <4>2
      <4> QED BY <1>3, <3>3, <3>8, <4>2, <4>3
    <3> QED BY <3>1, <3>2, <3>5, <3>7, <3>8
  <2> QED BY <2>1, <2>2
<1>15. EntriesSay'
  <2> SUFFICES ASSUME NEW j \in DOMAIN outbox'.work, j[1] \in CardWork,
                      outbox'.work[j].kind = "update"
               PROVE  Retells(outbox.work[j].ts, outbox.work[j].ep)'
    BY DEF EntriesSay
  <2>1. PICK v, t, e : v = outbox'.work[j] /\ t = v.ts /\ e = v.ep
    OBVIOUS
  <2>2. /\ j \in DOMAIN outbox.work /\ outbox.work[j].kind = "update"
        /\ outbox.work[j].ts = t /\ outbox.work[j].ep = e
    BY <1>4, <2>1 DEF Like
  <2>3. t \in DOMAIN slack /\ Retells(t, e)
    BY <2>2, EntryFields DEF Shares, EntriesSay
  <2>4. Retells(t, e)'
    BY <1>7, <2>3
  <2> QED BY <2>1, <2>4
<1>16. HeldSays'
  BY <1>2 DEF HeldSays, Idle
<1>17. ReplacedGone'
  <2> SUFFICES ASSUME NEW t \in DOMAIN slack'
               PROVE  /\ slack'[t].replaced # {} => ~slack'[t].live
                      /\ \A p \in slack'[t].replaced : p < fresh'
    BY DEF ReplacedGone
  <2>1. t \in DOMAIN slack /\ (slack[t].replaced # {} => ~slack[t].live)
        /\ \A p \in slack[t].replaced : p < fresh
    BY <1>2 DEF Shares, ReplacedGone
  <2>2. slack[t].replaced \subseteq Nat
    <3>1. slack[t] \in SlackMessage
      BY <2>1 DEF TypeOK
    <3> QED BY <3>1 DEF SlackMessage
  <2>3. ASSUME NEW p \in slack'[t].replaced PROVE p < fresh'
    <3>1. p = post \/ (p \in Nat /\ p < fresh)
      BY <1>3, <2>1, <2>2
    <3> QED BY <1>5, <3>1
  <2>4. slack'[t].replaced # {} => ~slack'[t].live
    BY <1>2, <1>3, <2>1
  <2> QED BY <2>3, <2>4
<1>18. EpisodesDrawn'
  <2>1. ASSUME NEW t \in DOMAIN slack', IsCard(t)' PROVE GivenUp(t)' \/ slack'[t].ep < fresh'
    <3>1. t \in DOMAIN slack /\ IsCard(t) /\ slack'[t].ep = slack[t].ep
      BY <1>2, <1>3, <2>1 DEF IsCard
    <3>2. slack[t].ep \in Nat
      <4>1. slack[t] \in SlackMessage
        BY <3>1 DEF TypeOK
      <4> QED BY <4>1 DEF SlackMessage
    <3>3. GivenUp(t) \/ slack[t].ep < fresh
      BY <3>1 DEF Shares, EpisodesDrawn
    <3>4. slack[t].ep < fresh => slack'[t].ep < fresh'
      BY <1>5, <3>1, <3>2
    <3> QED BY <1>7, <3>1, <3>3, <3>4
  <2>2. ASSUME NEW j \in DOMAIN outbox'.work, IsParent(j) PROVE outbox'.work[j].ep < fresh'
    <3>1. CASE j = n
      BY <1>4, <1>5, <3>1
    <3>2. CASE j # n
      <4>1. j \in DOMAIN outbox.work /\ outbox'.work[j].ep = outbox.work[j].ep
        BY <1>4, <2>2, <3>2 DEF Like
      <4>2. outbox.work[j].ep < fresh /\ outbox.work[j].ep \in Nat
        BY <2>2, <4>1, EntryFields, ParentIsCard DEF Shares, EpisodesDrawn
      <4> QED BY <1>5, <4>1, <4>2
    <3> QED BY <3>1, <3>2
  <2> QED BY <2>1, <2>2 DEF EpisodesDrawn
<1> QED BY <1>13, <1>14, <1>15, <1>16, <1>17, <1>18 DEF Shares

\* What is rendered for a card is of the episode that its entry is of, but for a mistaken one.
LEMMA RenderedEpisode ==
  ASSUME TypeOK, Cards, Face, Shares, NEW i \in DOMAIN outbox.work, i[1] \in CardWork,
         NEW w, w = outbox.work[i]
  PROVE  Rendered(w).ep = w.ep \/ (IsParent(i) /\ Mistaken(i[2]))
<1>1. Facing(i, w) /\ (IsParent(i) => Owned(i, w))
  BY DEF Face, EntriesFace, Aimed
<1>2. CASE w.text # "render"
  BY <1>2 DEF Rendered
<1>3. CASE w.text = "render"
  <2>1. IsParent(i) /\ w.object = "parent" /\ (OpenCard(i) \/ Mistaken(i[2]))
    BY <1>1, <1>3 DEF Facing, Owned
  <2>2. Rendered(w).ep = group[w.group].ep
    BY <1>3, <2>1 DEF Rendered
  <2>3. ASSUME NEW g \in Group, IsOpen(group[g]), ParentId(group[g]) = i
        PROVE  Rendered(w).ep = w.ep
    <3>1. w.group = g
      BY <2>3 DEF Cards, CardIn
    <3>2. w.ep = group[g].ep
      BY <2>3 DEF Shares, OpenSays
    <3> QED BY <2>2, <3>1, <3>2
  <2> QED BY <2>1, <2>3 DEF OpenCard
<1> QED BY <1>2, <1>3

\* Nothing changes that the count depends on.
LEMMA QuietShares ==
  ASSUME TypeOK, TypeOK', Face, Shares, Unaltered, group' = group, outbox' = outbox,
         fresh' = fresh, Faults' = Faults, HeldSays', \A i : Answered(i)' <=> Answered(i)
  PROVE  Shares'
<1>0. fresh' >= fresh
  BY DEF TypeOK
<1>1. ASSUME NEW e \in Nat PROVE PostsOf(e)' \subseteq PostsOf(e)
  BY UnalteredCards DEF PostsOf
<1>2. Paid'
  BY <1>1, UnalteredPaid DEF Shares, Pays
<1>3. OpenSays'
  <2> SUFFICES ASSUME NEW g \in Group, IsOpen(group[g])
               PROVE  /\ ~Mistaken(group[g].parent.post)'
                      /\ ParentId(group[g]) \in DOMAIN outbox.work =>
                           outbox.work[ParentId(group[g])].ep = group[g].ep
                      /\ group[g].parent.ts # 0 => slack'[group[g].parent.ts].replaced = {}
    BY DEF OpenSays
  <2>1. PICK p, t : p = group[g].parent.post /\ t = group[g].parent.ts
    OBVIOUS
  <2>2. /\ ~Mistaken(p) /\ (t # 0 => slack[t].replaced = {})
        /\ ParentId(group[g]) \in DOMAIN outbox.work =>
             outbox.work[ParentId(group[g])].ep = group[g].ep
    BY <2>1 DEF Shares, OpenSays
  <2>3. p = group'[g].parent.post /\ ~Mistaken(p)'
    BY <2>1, <2>2, UnalteredCards
  <2>4. GroupFace(g)
    BY DEF Face
  <2>5. t # 0 => t \in DOMAIN slack
    BY <2>1, <2>4 DEF GroupFace, ShowsCard
  <2> QED BY <2>1, <2>2, <2>3, <2>5 DEF Unaltered
<1>4. EntriesSay'
  <2> SUFFICES ASSUME NEW i \in DOMAIN outbox'.work, i[1] \in CardWork,
                      outbox'.work[i].kind = "update"
               PROVE  Retells(outbox.work[i].ts, outbox.work[i].ep)'
    BY DEF EntriesSay
  <2>1. PICK t, e : t = outbox.work[i].ts /\ e = outbox.work[i].ep
    OBVIOUS
  <2>2. t \in DOMAIN slack /\ Retells(t, e)
    BY <2>1, EntryFields DEF Shares, EntriesSay
  <2>3. Retells(t, e)'
    BY <2>2, UnalteredCards
  <2> QED BY <2>1, <2>3
<1>5. ReplacedGone'
  BY <1>0, UnalteredGone DEF Shares
<1>6. EpisodesDrawn'
  BY <1>0, UnalteredDrawn DEF Shares, EpisodesDrawn
<1> QED BY <1>2, <1>3, <1>4, <1>5, <1>6 DEF Shares

LEMMA PickShares ==
  ASSUME TypeOK, TypeOK', Cards, Face, Shares, NEW cooling, Pick(cooling)
  PROVE  Shares'
<1>1. /\ worker.pc = "idle" /\ UNCHANGED <<group, outbox, fresh, slack, used>>
      /\ \E i \in Candidates(cooling) :
           worker' = [pc |-> "picked", id |-> i, work |-> outbox.work[i],
                      content |-> Rendered(outbox.work[i])]
  BY DEF Pick
<1>2. PICK i \in DOMAIN outbox.work :
        worker' = [pc |-> "picked", id |-> i, work |-> outbox.work[i],
                   content |-> Rendered(outbox.work[i])]
  BY <1>1 DEF Candidates
<1>3. PICK w, e : w = outbox.work[i] /\ e = Rendered(w).ep
  OBVIOUS
<1>4. /\ worker'.pc = "picked" /\ worker'.id = i /\ worker'.work = w
      /\ worker'.content.ep = e /\ outbox'.work[i] = w
  BY <1>1, <1>2, <1>3
<1>5. ASSUME i[1] \in CardWork
      PROVE  /\ w.kind = "update" => Retells(w.ts, e)
             /\ e = w.ep \/ Mistaken(i[2])
  <2>1. e = w.ep \/ (IsParent(i) /\ Mistaken(i[2]))
    BY <1>3, <1>5, RenderedEpisode
  <2>2. w.kind = "update" => Retells(w.ts, w.ep)
    BY <1>3, <1>5 DEF Shares, EntriesSay
  <2>3. w.kind = "update" /\ IsParent(i) => slack[w.ts].id = i
    BY <1>3, <1>5 DEF Face, EntriesFace, Aimed, Facing
  <2> QED BY <2>1, <2>2, <2>3 DEF Retells
<1>6. HeldSays'
  <2>1. ~Sent({"ok", "lost"})'
    BY <1>4 DEF Sent
  <2>2. \A p : Mistaken(p)' <=> Mistaken(p)
    BY <1>1 DEF Mistaken
  <2>3. Retells(w.ts, e) => Retells(w.ts, e)'
    BY <1>1 DEF Retells, Mistaken
  <2> QED BY <1>1, <1>4, <1>5, <2>1, <2>2, <2>3 DEF HeldSays
<1>7. Unaltered
  BY <1>1 DEF Unaltered
<1>8. \A j : Answered(j)' <=> Answered(j)
  BY <1>1, <1>4 DEF Answered
<1>9. Faults' = Faults
  BY <1>1 DEF Faults
<1> QED BY <1>1, <1>6, <1>7, <1>8, <1>9, QuietShares

\* Neither does a deletion change anything, nor a step that is none.
LEMMA StillShares ==
  ASSUME TypeOK, TypeOK', Face, Shares, Unaltered, group' = group, outbox' = outbox,
         fresh' = fresh, worker' = worker, Faults' = Faults
  PROVE  Shares'
<1>1. HeldSays'
  <2> SUFFICES ASSUME worker.pc # "idle", worker.id[1] \in CardWork PROVE HeldSays'
    BY DEF HeldSays
  <2>1. PICK i, w : i = worker.id /\ w = worker.work
    OBVIOUS
  <2>2. PICK t, u, e, a : t = w.ts /\ u = worker.ts /\ e = worker.content.ep
                          /\ a = outbox.work[i].ep
    OBVIOUS
  <2>3. /\ w.kind = "update" => t \in DOMAIN slack
        /\ Sent({"ok", "lost"}) /\ w.kind = "post" => u \in DOMAIN slack
    BY <2>1, <2>2 DEF Face, HeldFace, Aimed, Facing
  <2>4. /\ worker.pc = "picked" /\ w.kind = "update" => Retells(t, e)
        /\ worker.pc = "picked" /\ w.kind = "post" /\ i \in DOMAIN outbox.work =>
             e = a \/ Mistaken(i[2])
        /\ Sent({"ok", "lost"}) /\ w.kind = "post" =>
             /\ slack[u].replaced = {}
             /\ i \in DOMAIN outbox.work => Retells(u, a)
    BY <2>1, <2>2 DEF Shares, HeldSays
  <2>5. /\ t \in DOMAIN slack => (Retells(t, e)' <=> Retells(t, e))
        /\ u \in DOMAIN slack => (Retells(u, a)' <=> Retells(u, a))
                                 /\ slack'[u].replaced = slack[u].replaced
        /\ Mistaken(i[2])' <=> Mistaken(i[2])
        /\ Sent({"ok", "lost"})' <=> Sent({"ok", "lost"})
    BY UnalteredCards DEF Sent, Unaltered
  <2> QED BY <2>1, <2>2, <2>3, <2>4, <2>5 DEF HeldSays
<1>2. \A j : Answered(j)' <=> Answered(j)
  BY DEF Answered
<1> QED BY <1>1, <1>2, QuietShares

LEMMA DeleteShares ==
  ASSUME TypeOK, TypeOK', Face, Shares, NEW ts \in DOMAIN slack, DeleteMessage(ts)
  PROVE  Shares'
<1>1. /\ UNCHANGED <<group, outbox, fresh, worker>> /\ Spend("delete")
      /\ slack' = [slack EXCEPT ![ts].live = FALSE]
  BY DEF DeleteMessage
<1>2. Unaltered
  <2>1. slack[ts] \in SlackMessage
    BY DEF TypeOK
  <2> QED BY <1>1, <2>1 DEF TypeOK, SlackMessage, Unaltered
<1>3. Faults' = Faults
  <2>1. "delete" \in Moves
    BY DEF Moves
  <2> QED BY <1>1, <2>1, SpendFaults
<1> QED BY <1>1, <1>2, <1>3, StillShares

\* A call posts a card of the entry's episode, and a lost answer pays for it; or it revises
\* a card, which stays of its episode.
LEMMA SendShares ==
  ASSUME TypeOK, TypeOK', Cards, Face, Shares, NEW answer, Send(answer)
  PROVE  Shares'
<1>0. worker.pc = "picked" /\ worker.id \in DOMAIN outbox.work
  BY DEF Send
<1>1. PICK i, w, m, x : /\ i = worker.id /\ w = worker.work /\ m = worker.content
                        /\ x = Len(slack) + 1 /\ i \in WorkId /\ w \in Work
  BY <1>0, HeldFields
<1>2. /\ i \in DOMAIN outbox.work /\ group' = group /\ fresh' = fresh /\ Price(answer)
      /\ outbox' = [outbox EXCEPT !.work[i].phase = "inFlight", !.work[i].tried = TRUE]
      /\ slack' = IF answer \in {"ok", "lost"} THEN Effect(i, w, m) ELSE slack
      /\ worker' = [pc |-> "sent", id |-> i, work |-> w, answer |-> answer, ts |-> x]
  BY <1>1 DEF Send
<1>3. /\ worker'.pc = "sent" /\ worker'.id = i /\ worker'.work = w
      /\ worker'.answer = answer /\ worker'.ts = x
  BY <1>2
<1>4. /\ DOMAIN outbox'.work = DOMAIN outbox.work
      /\ \A j \in DOMAIN outbox.work : Like(outbox'.work[j], outbox.work[j])
  <2> DEFINE e == [outbox.work[i] EXCEPT !.phase = "inFlight", !.tried = TRUE]
  <2>1. OutboxOK(outbox) /\ outbox.work[i] \in Work
    BY <1>2 DEF TypeOK, OutboxOK
  <2>2. outbox'.work = [outbox.work EXCEPT ![i] = e]
    BY <1>2, <2>1 DEF OutboxOK
  <2>3. Like(e, outbox.work[i])
    BY <2>1 DEF Work, Like
  <2> HIDE DEF e
  <2> QED BY <2>2, <2>3 DEF Like
<1>5. Aimed(i, w) /\ (i[1] \in CardWork => Since(w, outbox.work[i]))
  BY <1>0, <1>1 DEF Face, HeldFace
<1>6. w.kind = "update" => w.ts \in DOMAIN slack
  BY <1>5 DEF Aimed, Plain, Facing
<1>7. /\ DOMAIN slack \subseteq DOMAIN slack' /\ x \notin DOMAIN slack
      /\ \A t \in DOMAIN slack :
           /\ slack'[t].id = slack[t].id /\ slack'[t].replaced = slack[t].replaced
           /\ slack'[t].live = slack[t].live
           /\ slack'[t].ep # slack[t].ep =>
                w.kind = "update" /\ t = w.ts /\ slack'[t].ep = m.ep
      /\ \A t \in DOMAIN slack' \ DOMAIN slack :
           /\ t = x /\ w.kind = "post" /\ answer \in {"ok", "lost"}
           /\ slack'[t].id = i /\ slack'[t].replaced = {} /\ slack'[t].ep = m.ep
      /\ w.kind = "post" /\ answer \in {"ok", "lost"} => x \in DOMAIN slack'
  <2>1. slack \in Seq(SlackMessage) /\ x \notin DOMAIN slack
    BY <1>1 DEF TypeOK
  <2>2. CASE answer \in {"ok", "lost"}
    <3>1. slack' = Effect(i, w, m)
      BY <1>2, <2>2
    <3> QED BY <1>1, <1>6, <2>1, <2>2, <3>1, EffectFacts
  <2>3. CASE answer \notin {"ok", "lost"}
    <3>1. slack' = slack
      BY <1>2, <2>3
    <3> QED BY <2>1, <2>3, <3>1
  <2> QED BY <2>2, <2>3
<1>8. ASSUME NEW p PROVE Mistaken(p)' <=> Mistaken(p)
  <2>1. ASSUME Mistaken(p)' PROVE Mistaken(p)
    <3>1. PICK t \in DOMAIN slack' : p \in slack'[t].replaced /\ slack'[t].id[2] # p
      BY <2>1 DEF Mistaken
    <3>2. t \in DOMAIN slack /\ p \in slack[t].replaced /\ slack[t].id[2] # p
      BY <1>7, <3>1
    <3> QED BY <3>2 DEF Mistaken
  <2>2. ASSUME Mistaken(p) PROVE Mistaken(p)'
    <3>1. PICK t \in DOMAIN slack : p \in slack[t].replaced /\ slack[t].id[2] # p
      BY <2>2 DEF Mistaken
    <3>2. t \in DOMAIN slack' /\ p \in slack'[t].replaced /\ slack'[t].id[2] # p
      BY <1>7, <3>1
    <3> QED BY <3>2 DEF Mistaken
  <2> QED BY <2>1, <2>2
<1>9. ASSUME NEW t \in DOMAIN slack
      PROVE  /\ Mistaken(slack[t].id[2])' <=> Mistaken(slack[t].id[2])
             /\ GivenUp(t)' <=> GivenUp(t)
  <2>1. PICK p : p = slack[t].id[2]
    OBVIOUS
  <2>2. p = slack'[t].id[2] /\ (Mistaken(p)' <=> Mistaken(p))
    BY <1>7, <1>8, <2>1
  <2> QED BY <1>7, <2>1, <2>2 DEF GivenUp
<1>10. /\ i[1] \in CardWork /\ w.kind = "update" => Retells(w.ts, m.ep)
       /\ i[1] \in CardWork /\ w.kind = "post" =>
            m.ep = outbox.work[i].ep \/ Mistaken(i[2])
  BY <1>0, <1>1 DEF Shares, HeldSays
\* A card that is revised stays of its episode, unless it was mistaken.
<1>11. ASSUME NEW t \in DOMAIN slack, IsCard(t)
       PROVE  slack'[t].ep = slack[t].ep \/ Mistaken(slack[t].id[2])
  <2>1. CASE w.kind = "update" /\ t = w.ts /\ slack'[t].ep = m.ep
    <3>1. i[1] \in CardWork
      BY <1>5, <1>11, <2>1 DEF Aimed, Plain, IsCard
    <3> QED BY <1>10, <2>1, <3>1 DEF Retells
  <2> QED BY <1>7, <2>1
<1>12. ASSUME NEW t \in DOMAIN slack, IsCard(t), NEW e PROVE Retells(t, e)' <=> Retells(t, e)
  BY <1>9, <1>11, <1>12 DEF Retells
<1>13. ASSUME NEW e, NEW t \in CardsOf(e)'
       PROVE  \/ t \in CardsOf(e)
              \/ /\ t = x /\ w.kind = "post" /\ answer \in {"ok", "lost"}
                 /\ IsParent(i) /\ m.ep = e /\ ~Mistaken(i[2])
  <2>1. t \in DOMAIN slack' /\ slack'[t].id[1] = "parent" /\ slack'[t].ep = e /\ ~GivenUp(t)'
    BY <1>13 DEF CardsOf, IsCard
  <2>2. CASE t \in DOMAIN slack
    <3>1. IsCard(t) /\ ~GivenUp(t)
      BY <1>7, <1>9, <2>1, <2>2 DEF IsCard
    <3>2. slack[t].ep = e
      BY <1>11, <2>1, <2>2, <3>1 DEF GivenUp
    <3> QED BY <2>2, <3>1, <3>2 DEF CardsOf
  <2>3. CASE t \notin DOMAIN slack
    <3>1. /\ t = x /\ w.kind = "post" /\ answer \in {"ok", "lost"}
          /\ slack'[t].id = i /\ slack'[t].ep = m.ep
      BY <1>7, <2>1, <2>3
    <3>2. PICK p : p = i[2]
      OBVIOUS
    <3>3. ~Mistaken(p)'
      BY <2>1, <3>1, <3>2 DEF GivenUp
    <3>4. ~Mistaken(p)
      BY <1>8, <3>3
    <3> QED BY <2>1, <3>1, <3>2, <3>4 DEF IsParent
  <2> QED BY <2>2, <2>3
<1>14. ASSUME NEW e, NEW j \in PostsOf(e)'
       PROVE  j \in PostsOf(e) /\ (answer = "ok" => j # i)
  <2>1. /\ j \in DOMAIN outbox'.work /\ IsParent(j) /\ outbox'.work[j].kind = "post"
        /\ outbox'.work[j].ep = e /\ ~Mistaken(j[2])' /\ ~Answered(j)'
    BY <1>14 DEF PostsOf
  <2>2. j \in DOMAIN outbox.work /\ outbox.work[j].kind = "post" /\ outbox.work[j].ep = e
    BY <1>4, <2>1 DEF Like
  <2>3. ~Mistaken(j[2]) /\ ~Answered(j)
    BY <1>0, <1>8, <2>1 DEF Answered
  <2>4. answer = "ok" => j # i
    BY <1>3, <2>1 DEF Answered
  <2> QED BY <2>1, <2>2, <2>3, <2>4 DEF PostsOf
<1>15. /\ answer = "lost" => Faults' = Faults + 1
       /\ Faults' = Faults \/ Faults' = Faults + 1
  <2>1. "fault" \in Moves /\ "permanent" \in Moves
    BY DEF Moves
  <2>2. Spend("fault") => Faults' = Faults + 1
    BY <2>1, SpendFaults
  <2>3. Spend("permanent") => Faults' = Faults
    BY <2>1, SpendFaults
  <2>4. used' = used => Faults' = Faults
    BY DEF Faults
  <2>5. CASE answer \in {"lost", "transient"}
    BY <1>2, <2>2, <2>5 DEF Price
  <2>6. CASE answer = "permanent"
    BY <1>2, <2>3, <2>6 DEF Price
  <2>7. CASE answer \notin {"lost", "transient", "permanent"}
    BY <1>2, <2>4, <2>7 DEF Price
  <2> QED BY <2>5, <2>6, <2>7
<1>16. Paid'
  <2> SUFFICES ASSUME NEW e \in Nat PROVE Within(CardsOf(e), PostsOf(e), 1 + Faults)'
    BY DEF Paid
  <2>1. PICK a \in Nat, b \in Nat : a = Faults /\ b = Faults'
    BY FaultsType
  <2>2. PICK k \in Nat, l \in Nat : k = 1 + a /\ l = 1 + b
    OBVIOUS
  <2>3. PICK A, B, C, D : /\ A = CardsOf(e) /\ B = PostsOf(e)
                          /\ C = CardsOf(e)' /\ D = PostsOf(e)'
    OBVIOUS
  <2>4. Within(A, B, k)
    BY <2>1, <2>2, <2>3 DEF Shares, Paid
  <2>5. (l = k \/ l = k + 1) /\ (answer = "lost" => l = k + 1)
    <3>1. (b = a \/ b = a + 1) /\ (answer = "lost" => b = a + 1)
      BY <1>15, <2>1
    <3> QED BY <2>2, <3>1
  <2>6. D \subseteq B /\ (answer = "ok" => D \subseteq B \ {i})
    BY <1>14, <2>3
  <2>7. CASE C \subseteq A
    <3>1. l >= k
      BY <2>5
    <3> QED BY <2>1, <2>2, <2>3, <2>4, <2>6, <2>7, <3>1, WithinLess DEF Within
  <2>8. CASE ~(C \subseteq A)
    <3>1. /\ C \subseteq A \cup {x} /\ w.kind = "post" /\ answer \in {"ok", "lost"}
          /\ IsParent(i) /\ m.ep = e /\ ~Mistaken(i[2])
      BY <1>13, <2>3, <2>8
    <3>2. i[1] \in CardWork
      BY <3>1, ParentIsCard
    <3>3. i \in B
      <4>1. outbox.work[i].kind = "post" /\ outbox.work[i].ep = e
        BY <1>5, <1>10, <3>1, <3>2 DEF Since
      <4>2. ~Answered(i)
        BY <1>0 DEF Answered
      <4> QED BY <1>2, <2>3, <3>1, <4>1, <4>2 DEF PostsOf
    <3>4. Within(C, D, l)
      <4>1. CASE answer = "ok"
        <5>1. Within(C, D, k)
          <6>1. C \in SUBSET (A \cup {x}) /\ i \in B /\ D \in SUBSET (B \ {i})
            BY <2>6, <3>1, <3>3, <4>1
          <6> QED BY <2>4, <6>1, PostToCard
        <5>2. l >= k /\ C \subseteq C /\ D \subseteq D
          BY <2>5
        <5> QED BY <5>1, <5>2, WithinLess
      <4>2. CASE answer = "lost"
        <5>1. l = k + 1 /\ C \in SUBSET (A \cup {x}) /\ D \in SUBSET B
          BY <2>5, <2>6, <3>1, <4>2
        <5>2. Within(C, D, k + 1)
          BY <2>4, <5>1, OneMoreCard
        <5> QED BY <5>1, <5>2
      <4> QED BY <3>1, <4>1, <4>2
    <3> QED BY <2>1, <2>2, <2>3, <3>4 DEF Within
  <2> QED BY <2>7, <2>8
<1>17. OpenSays'
  <2> SUFFICES ASSUME NEW g \in Group, IsOpen(group[g])
               PROVE  /\ ~Mistaken(group[g].parent.post)'
                      /\ ParentId(group[g]) \in DOMAIN outbox'.work =>
                           outbox'.work[ParentId(group[g])].ep = group[g].ep
                      /\ group[g].parent.ts # 0 => slack'[group[g].parent.ts].replaced = {}
    BY <1>2 DEF OpenSays
  <2>1. PICK p, t : p = group[g].parent.post /\ t = group[g].parent.ts
    OBVIOUS
  <2>2. /\ ~Mistaken(p) /\ (t # 0 => slack[t].replaced = {})
        /\ ParentId(group[g]) \in DOMAIN outbox.work =>
             outbox.work[ParentId(group[g])].ep = group[g].ep
    BY <2>1 DEF Shares, OpenSays
  <2>3. p = group'[g].parent.post /\ ~Mistaken(p)'
    BY <1>2, <1>8, <2>1, <2>2
  <2>4. GroupFace(g)
    BY DEF Face
  <2>5. t # 0 => t \in DOMAIN slack
    BY <2>1, <2>4 DEF GroupFace, ShowsCard
  <2> QED BY <1>4, <1>7, <2>1, <2>2, <2>3, <2>5 DEF Like
<1>18. EntriesSay'
  <2> SUFFICES ASSUME NEW j \in DOMAIN outbox'.work, j[1] \in CardWork,
                      outbox'.work[j].kind = "update"
               PROVE  Retells(outbox.work[j].ts, outbox.work[j].ep)'
    BY DEF EntriesSay
  <2>1. PICK t, e : t = outbox'.work[j].ts /\ e = outbox'.work[j].ep
    OBVIOUS
  <2>2. /\ j \in DOMAIN outbox.work /\ outbox.work[j].kind = "update"
        /\ outbox.work[j].ts = t /\ outbox.work[j].ep = e
    BY <1>4, <2>1 DEF Like
  <2>3. Retells(t, e)
    BY <2>2 DEF Shares, EntriesSay
  <2>4. t \in DOMAIN slack /\ IsCard(t)
    BY <2>2 DEF Face, EntriesFace, Aimed, Facing, IsCard, IsParent
  <2>5. Retells(t, e)'
    BY <1>12, <2>3, <2>4
  <2> QED BY <2>1, <2>5
<1>19. HeldSays'
  <2>1. PICK a : a = outbox'.work[i].ep
    OBVIOUS
  <2>2. ASSUME i[1] \in CardWork, w.kind = "post", Sent({"ok", "lost"})'
        PROVE  slack'[x].replaced = {} /\ Retells(x, a)'
    <3>1. answer \in {"ok", "lost"}
      BY <1>3, <2>2 DEF Sent
    <3>2. slack'[x].id = i /\ slack'[x].replaced = {} /\ slack'[x].ep = m.ep
      BY <1>7, <2>2, <3>1
    <3>3. PICK p : p = i[2]
      OBVIOUS
    <3>4. m.ep = a \/ Mistaken(p)'
      BY <1>2, <1>4, <1>8, <1>10, <2>1, <2>2, <3>3 DEF Like
    <3> QED BY <3>2, <3>3, <3>4 DEF Retells
  <2> QED BY <1>3, <2>1, <2>2 DEF HeldSays
<1>20. ReplacedGone'
  BY <1>2, <1>7 DEF Shares, ReplacedGone
<1>21. EpisodesDrawn'
  <2>1. ASSUME NEW t \in DOMAIN slack', IsCard(t)' PROVE GivenUp(t)' \/ slack'[t].ep < fresh'
    <3>1. CASE t \in DOMAIN slack
      <4>1. IsCard(t)
        BY <1>7, <2>1, <3>1 DEF IsCard
      <4>2. GivenUp(t) \/ slack[t].ep < fresh
        BY <3>1, <4>1 DEF Shares, EpisodesDrawn
      <4>3. slack'[t].ep = slack[t].ep \/ GivenUp(t)
        BY <1>11, <3>1, <4>1 DEF GivenUp
      <4> QED BY <1>2, <1>9, <3>1, <4>2, <4>3
    <3>2. CASE t \notin DOMAIN slack
      <4>1. w.kind = "post" /\ slack'[t].id = i /\ slack'[t].ep = m.ep
        BY <1>7, <3>2
      <4>2. IsParent(i) /\ i[1] \in CardWork
        BY <2>1, <4>1, ParentIsCard DEF IsCard, IsParent
      <4>3. PICK p : p = i[2]
        OBVIOUS
      <4>4. m.ep = outbox.work[i].ep \/ Mistaken(p)'
        BY <1>8, <1>10, <4>1, <4>2, <4>3
      <4>5. Mistaken(p)' => GivenUp(t)'
        BY <4>1, <4>3 DEF GivenUp
      <4>6. outbox.work[i].ep < fresh
        BY <1>2, <4>2 DEF Shares, EpisodesDrawn
      <4> QED BY <1>2, <4>1, <4>4, <4>5, <4>6
    <3> QED BY <3>1, <3>2
  <2>2. \A j \in DOMAIN outbox'.work : IsParent(j) => outbox'.work[j].ep < fresh'
    BY <1>2, <1>4 DEF Shares, EpisodesDrawn, Like
  <2> QED BY <2>1, <2>2 DEF EpisodesDrawn
<1> QED BY <1>16, <1>17, <1>18, <1>19, <1>20, <1>21 DEF Shares

-----------------------------------------------------------------------------
LEMMA InitShares == Init => Shares
<1> SUFFICES ASSUME Init PROVE Shares
  OBVIOUS
<1>1. /\ DOMAIN outbox.work = {} /\ worker.pc = "idle" /\ DOMAIN slack = {}
      /\ \A g \in Group : group[g].parent.post = 0
      /\ used["fault"] = 0 /\ used["crash"] = 0 /\ used["commit"] = 0
  BY DEF Init, Idle, Absent, NoObject, Moves
<1>2. OpenSays /\ EntriesSay /\ HeldSays /\ ReplacedGone /\ EpisodesDrawn
  BY <1>1 DEF OpenSays, IsOpen, EntriesSay, HeldSays, ReplacedGone, EpisodesDrawn
<1>3. Paid
  <2> SUFFICES ASSUME NEW e \in Nat PROVE Within(CardsOf(e), PostsOf(e), 1 + Faults)
    BY DEF Paid
  <2>1. CardsOf(e) = {} /\ PostsOf(e) = {}
    BY <1>1 DEF CardsOf, PostsOf
  <2>2. Faults = 0
    BY <1>1 DEF Faults
  <2>3. PICK A : A = {}
    OBVIOUS
  <2>4. Within(A, A, 1 + 0)
    BY <2>3, WithinOne
  <2> QED BY <2>1, <2>2, <2>3, <2>4 DEF Within
<1> QED BY <1>2, <1>3 DEF Shares

LEMMA NextShares ==
  ASSUME TypeOK, TypeOK', Cards, Cards', Face, Face', Shares, [Next]_vars
  PROVE  Shares'
<1>1. ASSUME NEW g \in Group, Writers(g) PROVE Shares'
  <2>1. Written /\ Faults' = Faults
    BY <1>1, WritersFace, WritersFaults
  <2> QED BY <2>1, WrittenShares
<1>2. CASE \E cooling \in SUBSET MayCool : Pick(cooling)
  BY <1>2, PickShares
<1>3. CASE Vanished
  <2>1. UNCHANGED <<group, outbox, fresh, slack, used>> /\ worker' = Idle
        /\ worker.pc = "picked"
    BY <1>3 DEF Vanished
  <2>2. LetsGo
    BY <2>1, SettledFace
  <2>3. Faults' = Faults /\ Finishes
    BY <2>1 DEF Faults, Finishes, Answered
  <2> QED BY <2>2, <2>3, LetsGoShares
<1>4. CASE Call
  BY <1>4, SendShares DEF Call
<1>5. CASE Commit
  <2>1. CASE LetsGo
    BY <1>5, <2>1, CommitFinishes, LetsGoShares
  <2>2. ASSUME NEW h, NEW i, NEW d, NEW n, Replaces(h, i, d, n) PROVE Shares'
    BY <2>2, ReplacesShares
  <2> QED BY <1>5, <2>1, <2>2, CommitKeepsFace
<1>6. CASE CommitFails
  <2>1. UNCHANGED <<group, outbox, fresh, slack>> /\ worker' = Idle /\ Spend("commit")
    BY <1>6 DEF CommitFails
  <2>2. LetsGo
    BY <2>1, SettledFace
  <2>3. Faults' = Faults + 1
    BY <2>1, SpendFaults DEF Moves
  <2> QED BY <2>2, <2>3, LetsGoShares
<1>7. CASE Restart
  <2>1. LetsGo
    BY <1>7, RestartFace
  <2>2. Spend("crash") /\ "crash" \in Moves
    BY <1>7 DEF Restart, Moves
  <2>3. Faults' = Faults + 1
    BY <2>2, SpendFaults
  <2> QED BY <2>1, <2>3, LetsGoShares
<1>8. CASE \E ts \in DOMAIN slack : DeleteMessage(ts)
  BY <1>8, DeleteShares
<1>9. CASE UNCHANGED vars
  <2>1. UNCHANGED <<group, outbox, fresh, worker, slack, used>>
    BY <1>9 DEF vars
  <2>2. Unaltered /\ Faults' = Faults
    BY <2>1 DEF Unaltered, Faults
  <2> QED BY <2>1, <2>2, StillShares
<1> QED BY <1>1, <1>2, <1>3, <1>4, <1>5, <1>6, <1>7, <1>8, <1>9 DEF Next

LEMMA SharesPay ==
  ASSUME TypeOK, Shares
  PROVE  OneCardPerFault
<1> SUFFICES ASSUME NEW e \in 1..fresh
             PROVE  Cardinality({t \in DOMAIN slack :
                                   /\ IsCard(t) /\ slack[t].live /\ slack[t].ep = e
                                   /\ ~Mistaken(slack[t].id[2])})
                      <= 1 + used["fault"] + used["crash"] + used["commit"]
  BY DEF OneCardPerFault
<1>1. PICK S : S = {t \in DOMAIN slack : /\ IsCard(t) /\ slack[t].live /\ slack[t].ep = e
                                        /\ ~Mistaken(slack[t].id[2])}
  OBVIOUS
<1>2. PICK A, B : A = CardsOf(e) /\ B = PostsOf(e)
  OBVIOUS
<1>3. S \subseteq A
  BY <1>1, <1>2 DEF CardsOf, GivenUp, Shares, ReplacedGone
<1>4. Within(A, B, 1 + Faults)
  <2>1. e \in Nat
    BY DEF TypeOK
  <2> QED BY <1>2, <2>1 DEF Shares, Paid
<1>5. IsFiniteSet(A) /\ IsFiniteSet(B) /\ Cardinality(A) + Cardinality(B) <= 1 + Faults
  BY <1>4 DEF Within
<1>6. Cardinality(S) <= Cardinality(A) /\ Cardinality(S) \in Nat /\ Cardinality(A) \in Nat
  BY <1>3, <1>5, Fewer
<1>7. Cardinality(B) \in Nat
  BY <1>5, FS_CardinalityType
<1>8. PICK f \in Nat, c \in Nat, k \in Nat :
        f = used["fault"] /\ c = used["crash"] /\ k = used["commit"]
  BY DEF TypeOK, Moves
<1>9. Faults = f + c + k
  BY <1>8 DEF Faults
<1>10. Cardinality(S) <= 1 + f + c + k
  BY <1>5, <1>6, <1>7, <1>8, <1>9
<1> QED BY <1>1, <1>8, <1>10

\* An episode has one card, and each further one is paid for by a lost answer, a crash or a
\* failed write: completePost, failWork and RecoverInFlight of outbox.go never queue a post
\* again that was answered and committed, and what replaceDeletedMessage posts stands in
\* for a card that is gone or was mistaken for one.
THEOREM CardsPaidFor == Spec => []OneCardPerFault
<1>1. TypeOK /\ Shares => OneCardPerFault
  BY SharesPay
<1> QED BY <1>1, InitCards, NextCards, InitFace, NextFace, InitShares, NextShares,
           TypeCorrect, PTL DEF Spec
===============================================================================
