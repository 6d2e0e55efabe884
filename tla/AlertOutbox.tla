---------------------------- MODULE AlertOutbox ----------------------------
(***************************************************************************)
(* The durable Slack outbox of cmd/alert-proxy.  Webhooks, acknowledgements,*)
(* the lifecycle sweeper and finished silences edit ONE document (a         *)
(* ConfigMap written with optimistic concurrency, so each edit is one step):*)
(* the alert groups and the outbox of Slack calls they owe.  A single       *)
(* outbox worker reads that document, talks to Slack without holding        *)
(* anything, and commits what it learned in a later edit.  Everything       *)
(* between its read and its commit is a race with the other writers.        *)
(*                                                                         *)
(* Identifiers (EpisodeID, PostID, Slack timestamps) are naturals drawn in  *)
(* order; 0 is Go's empty string.  A group is open exactly when its parent  *)
(* has a PostID: closeEpisode sets Parent to nil and normalizeState refuses *)
(* an open group without one.  A group that was never seen, or that the     *)
(* sweeper dropped, has episode 0.                                          *)
(***************************************************************************)
EXTENDS Integers, FiniteSets, Sequences

CONSTANTS
  Group,        \* Alertmanager group keys
  Members,      \* the alerts of a group are numbered 1..Members (fingerprints, sorted)
  MaxRendered,  \* maxRenderedMembers: alerts shown on the card itself
  Scenarios     \* bounds: how often the environment may do each thing, per scenario

Moves == {"notify", "ack", "close", "escalate", "fault", "permanent",
          "delete", "crash", "commit"}

ASSUME ParameterAssumption ==
  /\ Members \in Nat \ {0}
  /\ MaxRendered \in Nat
  /\ Scenarios \subseteq [Moves -> Nat]

VARIABLES
  group,   \* durable: State.Groups
  outbox,  \* durable: State.Outbox and State.NextOutboxSequence
  fresh,   \* the next random identifier
  worker,  \* volatile: what the outbox worker holds across its Slack call
  slack,   \* external: the messages Slack holds; a timestamp is an index
  reacted, \* external: the messages that have the bot's reaction
  used     \* how often the environment did each thing so far

vars == <<group, outbox, fresh, worker, slack, reacted, used>>

Member == 1..Members

WorkName == {"parent", "memberList", "closeParent", "closeReply", "newMember",
             "escalation", "escalationReaction"}

\* <<name, post or episode it belongs to, member>>: the keys of State.Outbox
WorkId == WorkName \X Nat \X Nat

Object == {"parent", "memberList", "memberListRetire", "eventReply", "reaction"}

\* "render" is a nil ImmutablePayload: the text is rendered when the work is sent.
Text == {"render", "card", "list", "closed", "retired", "reply", "reaction"}

Work == [seq : Nat, group : Group, object : Object,
         kind : {"post", "update", "reaction"}, rev : Nat, ts : Nat,
         thread : Nat, dep : Nat, text : Text, ep : Nat,
         phase : {"pending", "inFlight", "failed"}, tried : BOOLEAN]

SlackObject == [post : Nat, ts : Nat, rev : Nat]

NoObject == [post |-> 0, ts |-> 0, rev |-> 0]

Absent == [ep |-> 0, parent |-> NoObject, list |-> NoObject, firing |-> {},
           delivered |-> {}, ack |-> FALSE, escalated |-> FALSE,
           status |-> "resolved"]

IsOpen(gr) == gr.parent.post # 0

Idle == [pc |-> "idle"]

\* The bound on every unbounded behaviour: some scenario allows one more of m.
Spend(m) ==
  /\ used' = [used EXCEPT ![m] = @ + 1]
  /\ \E limit \in Scenarios : \A n \in Moves : used'[n] <= limit[n]

-----------------------------------------------------------------------------
(* The outbox as a map with a sequence counter.                            *)

\* Slip: the sequence counter is not advanced.
Put_SameSequence(ob, id, w) ==
  [work |-> [i \in DOMAIN ob.work \cup {id} |->
               IF i = id THEN [w EXCEPT !.seq = ob.next + 1] ELSE ob.work[i]],
   next |-> ob.next]

\* putOutbox: a rewritten entry keeps its place in the sequence.
Put(ob, id, w) ==
  LET old == id \in DOMAIN ob.work
      seq == IF old THEN ob.work[id].seq ELSE ob.next + 1
  IN [work |-> [i \in DOMAIN ob.work \cup {id} |->
                  IF i = id THEN [w EXCEPT !.seq = seq] ELSE ob.work[i]],
      next |-> IF old THEN ob.next ELSE ob.next + 1]

Drop(ob, ids) ==
  [ob EXCEPT !.work = [i \in DOMAIN ob.work \ ids |-> ob.work[i]]]

PutIf(cond, ob, id, w) == IF cond THEN Put(ob, id, w) ELSE ob

\* One reply per new alert, in fingerprint order.  Only the order of sequence
\* numbers is ever used, so every alert gets a slot of its own.
PutNewMembers(ob, ep, members, w) ==
  LET id(m) == <<"newMember", ep, m>>
      ids   == {id(m) : m \in members}
  IN [work |-> [i \in DOMAIN ob.work \cup ids |->
                  IF i \notin ids THEN ob.work[i]
                  ELSE [w EXCEPT !.seq = IF i \in DOMAIN ob.work
                                         THEN ob.work[i].seq ELSE ob.next + i[3]]],
      next |-> IF members = {} THEN ob.next ELSE ob.next + Members]

NewWork(g, object, kind, rev, ts, thread, dep, text, ep) ==
  [seq |-> 0, group |-> g, object |-> object, kind |-> kind, rev |-> rev,
   ts |-> ts, thread |-> thread, dep |-> dep, text |-> text, ep |-> ep,
   phase |-> "pending", tried |-> FALSE]

\* dependencyForParent
DependencyForParent(parent) == IF parent.ts # 0 THEN 0 ELSE parent.post

\* A reply in the thread of gr's card, or waiting for that card to be posted.
Reply(g, gr) ==
  NewWork(g, "eventReply", "post", 0, 0, gr.parent.ts,
          DependencyForParent(gr.parent), "reply", gr.ep)

ParentId(gr) == <<"parent", gr.parent.post, 0>>
ListId(gr) == <<"memberList", gr.list.post, 0>>

PutParent(ob, g, gr) ==
  Put(ob, ParentId(gr),
      NewWork(g, "parent", IF gr.parent.ts # 0 THEN "update" ELSE "post",
              gr.parent.rev, gr.parent.ts, 0, 0, "render", gr.ep))

PutList(ob, g, gr) ==
  Put(ob, ListId(gr),
      NewWork(g, "memberList", IF gr.list.ts # 0 THEN "update" ELSE "post",
              gr.list.rev, gr.list.ts, gr.parent.ts,
              DependencyForParent(gr.parent), "render", gr.ep))
-----------------------------------------------------------------------------
(* closeEpisode: the card's last text is fixed, its list is forgotten.     *)

CloseGroup(gr) ==
  [gr EXCEPT !.parent = NoObject, !.list = NoObject, !.firing = {}]

\* Slip: a card that was not posted yet is simply cancelled.
CloseParent_Cancelled(ob, g, gr) ==
  IF gr.parent.ts # 0
  THEN Put(Drop(ob, {ParentId(gr)}), <<"closeParent", gr.ep, 0>>,
           NewWork(g, "eventReply", "update", 0, gr.parent.ts, 0, 0, "closed", gr.ep))
  ELSE Drop(ob, {ParentId(gr)})

CloseParent(ob, g, gr) ==
  IF gr.parent.ts # 0
  THEN Put(Drop(ob, {ParentId(gr)}), <<"closeParent", gr.ep, 0>>,
           NewWork(g, "eventReply", "update", 0, gr.parent.ts, 0, 0, "closed", gr.ep))
  ELSE IF ParentId(gr) \in DOMAIN ob.work
       THEN [ob EXCEPT !.work[ParentId(gr)].text = "closed",
                       !.work[ParentId(gr)].rev = @ + 1]
       ELSE ob

CloseList(ob, gr) ==
  IF /\ gr.list.post # 0
     /\ ListId(gr) \in DOMAIN ob.work
     /\ ob.work[ListId(gr)].phase # "inFlight"
  THEN Drop(ob, {ListId(gr)}) ELSE ob

CloseEpisode(ob, g, gr, withReply) ==
  CloseList(PutIf(withReply, CloseParent(ob, g, gr), <<"closeReply", gr.ep, 0>>,
                  Reply(g, gr)), gr)
-----------------------------------------------------------------------------
(* WebhookProcessor.Process, for a delivery that is not a recorded          *)
(* duplicate (a duplicate leaves every variable of this module alone).      *)

Batch == UNION {[S -> {"firing", "resolved"}] : S \in (SUBSET Member) \ {{}}}

FiringIn(b) == {m \in DOMAIN b : b[m] = "firing"}

NewEpisode ==
  [Absent EXCEPT !.ep = fresh, !.parent = [post |-> fresh, ts |-> 0, rev |-> 1]]

\* retireMemberList cancels a list that was not posted and is not in flight.
Cancellable(ob, gr) ==
  /\ gr.list.ts = 0
  /\ ListId(gr) \in DOMAIN ob.work => ob.work[ListId(gr)].phase # "inFlight"

RetireList(ob, g, gr) ==
  IF Cancellable(ob, gr)
  THEN [gr |-> [gr EXCEPT !.list = NoObject], ob |-> Drop(ob, {ListId(gr)})]
  ELSE LET gr2 == [gr EXCEPT !.list.rev = @ + 1]
           w == IF gr.list.ts # 0
                THEN NewWork(g, "memberListRetire", "update", gr2.list.rev,
                             gr.list.ts, 0, 0, "retired", gr.ep)
                ELSE NewWork(g, "memberListRetire", "post", gr2.list.rev, 0,
                             gr.parent.ts, DependencyForParent(gr.parent),
                             "retired", gr.ep)
       IN [gr |-> gr2, ob |-> Put(ob, ListId(gr), w)]

ShowList(ob, g, gr) ==
  LET gr2 == IF gr.list.post = 0
             THEN [gr EXCEPT !.list = [post |-> fresh + 1, ts |-> 0, rev |-> 1]]
             ELSE [gr EXCEPT !.list.rev = @ + 1]
  IN [gr |-> gr2, ob |-> PutList(ob, g, gr2)]

\* The overflow list follows the size of the latest batch.
PlaceList(ob, g, gr) ==
  IF Cardinality(gr.delivered) > MaxRendered THEN ShowList(ob, g, gr)
  ELSE IF gr.list.post # 0 THEN RetireList(ob, g, gr)
  ELSE [gr |-> gr, ob |-> ob]

Notify(g, b) ==
  LET old    == group[g]
      firing == FiringIn(b)
      base   == IF IsOpen(old) THEN old ELSE NewEpisode
      news   == IF IsOpen(old) THEN firing \ old.delivered ELSE {}
      known  == (base.firing \ DOMAIN b) \cup firing
      gr     == [base EXCEPT !.parent.rev = @ + 1,
                             !.firing = known,
                             !.delivered = DOMAIN b,
                             !.ack = @ /\ news = {},
                             !.status = IF firing # {} THEN "firing"
                                        ELSE IF known # {} THEN "incomplete"
                                        ELSE "resolved"]
      placed == PlaceList(PutParent(outbox, g, gr), g, gr)
      queued == PutNewMembers(placed.ob, gr.ep, news, Reply(g, gr))
      closes == known = {}
  IN /\ IsOpen(old) \/ firing # {}    \* an orphan resolution is only recorded
     /\ Spend("notify")
     /\ group' = [group EXCEPT ![g] = IF closes THEN CloseGroup(placed.gr)
                                       ELSE placed.gr]
     /\ outbox' = IF closes THEN CloseEpisode(queued, g, placed.gr, FALSE) ELSE queued
     /\ fresh' = fresh + 2
     /\ UNCHANGED <<worker, slack, reacted>>
-----------------------------------------------------------------------------
(* The other writers of the document.                                      *)

\* InteractionHandler.ack
Ack(g) ==
  LET gr == [group[g] EXCEPT !.ack = TRUE, !.parent.rev = @ + 1]
  IN /\ IsOpen(group[g])
     /\ Spend("ack")
     /\ group' = [group EXCEPT ![g] = gr]
     /\ outbox' = PutParent(outbox, g, gr)
     /\ UNCHANGED <<fresh, worker, slack, reacted>>

\* A finished silence (OperationWorker.complete) or the stale branch of Sweep:
\* both close the open episode with a reply in its thread.
CloseWithReply(g) ==
  /\ IsOpen(group[g])
  /\ Spend("close")
  /\ group' = [group EXCEPT ![g] = CloseGroup(group[g])]
  /\ outbox' = CloseEpisode(outbox, g, group[g], TRUE)
  /\ UNCHANGED <<fresh, worker, slack, reacted>>

\* The escalation branch of Sweep: a reply and a reaction on the card, once.
Escalate(g) ==
  LET gr       == group[g]
      reaction == NewWork(g, "reaction", "reaction", 0, gr.parent.ts, 0,
                          DependencyForParent(gr.parent), "reaction", gr.ep)
  IN /\ IsOpen(gr) /\ ~gr.ack /\ ~gr.escalated /\ gr.status = "firing"
     /\ Spend("escalate")
     /\ group' = [group EXCEPT ![g].escalated = TRUE]
     /\ outbox' = Put(Put(outbox, <<"escalation", gr.ep, 0>>, Reply(g, gr)),
                      <<"escalationReaction", gr.ep, 0>>, reaction)
     /\ UNCHANGED <<fresh, worker, slack, reacted>>

\* Slip: only work in flight is counted.
HasGroupOutbox_InFlight(g) ==
  \E i \in DOMAIN outbox.work :
    outbox.work[i].group = g /\ outbox.work[i].phase = "inFlight"

HasGroupOutbox(g) ==
  \E i \in DOMAIN outbox.work :
    outbox.work[i].group = g /\ outbox.work[i].phase # "failed"

\* Sweep drops a group that closed more than an hour ago and owes nothing.
Forget(g) ==
  /\ group[g].ep # 0 /\ ~IsOpen(group[g])
  /\ ~HasGroupOutbox(g)
  /\ group' = [group EXCEPT ![g] = Absent]
  /\ UNCHANGED <<outbox, fresh, worker, slack, reacted, used>>
-----------------------------------------------------------------------------
(* OutboxWorker.ProcessNext, first half: read the document, choose, render. *)

\* The work whose backoff may still be running when the worker looks.
MayCool == {i \in DOMAIN outbox.work :
              outbox.work[i].phase = "pending" /\ outbox.work[i].tried}

\* Slip: an entry in backoff is skipped without blocking its group.
Blocked_Never(i, cooling) == FALSE

\* A cooling entry blocks the entries of its group queued behind it.
Blocked(i, cooling) ==
  \E j \in cooling : /\ outbox.work[j].group = outbox.work[i].group
                     /\ outbox.work[j].seq < outbox.work[i].seq

Unresolved(w) == w.dep # 0 /\ w.thread = 0

Candidates(cooling) ==
  {i \in DOMAIN outbox.work \ cooling :
     /\ outbox.work[i].phase # "failed"
     /\ ~Unresolved(outbox.work[i])
     /\ ~Blocked(i, cooling)}

\* What the message will say: a queued text, or the group as this read shows it.
Rendered(w) ==
  IF w.text # "render" THEN [text |-> w.text, ep |-> w.ep, rev |-> w.rev]
  ELSE IF w.object = "parent"
       THEN [text |-> "card", ep |-> group[w.group].ep, rev |-> group[w.group].parent.rev]
       ELSE [text |-> "list", ep |-> group[w.group].ep, rev |-> group[w.group].list.rev]

Pick(cooling) ==
  /\ worker.pc = "idle"
  /\ \E i \in Candidates(cooling) :
       /\ \A j \in Candidates(cooling) : outbox.work[i].seq <= outbox.work[j].seq
       /\ worker' = [pc |-> "picked", id |-> i, work |-> outbox.work[i],
                     content |-> Rendered(outbox.work[i])]
  /\ UNCHANGED <<group, outbox, fresh, slack, reacted, used>>

(* Second half: mark it in flight, call Slack.  Two fields of a message are  *)
(* history: recorded, its timestamp reached the document; replaced, the      *)
(* cards given up because this message was found deleted.                    *)

Live(ts) == ts \in DOMAIN slack /\ slack[ts].live

\* What Slack may answer to a call for w, and what the environment pays for it.
\* "lost": Slack acted, the worker saw an error (or a post without a timestamp).
\* "already": already_reacted, the reaction of an earlier attempt is there.
Answers(w) ==
  LET again == w.kind = "reaction" /\ w.ts \in reacted
      acts  == w.kind = "post" \/ (Live(w.ts) /\ ~again)
  IN [ok |-> acts, lost |-> acts, already |-> Live(w.ts) /\ again,
      missing |-> w.kind # "post" /\ ~Live(w.ts), transient |-> TRUE, permanent |-> TRUE]

Price(answer) ==
  CASE answer \in {"lost", "transient"} -> Spend("fault")
    [] answer = "permanent" -> Spend("permanent")
    [] OTHER -> UNCHANGED used

Message(id, w, content) ==
  [id |-> id, thread |-> w.thread, live |-> TRUE, recorded |-> FALSE,
   replaced |-> {}, text |-> content.text, ep |-> content.ep, rev |-> content.rev]

Effect(id, w, content) ==
  CASE w.kind = "post" -> Append(slack, Message(id, w, content))
    [] w.kind = "update" -> [slack EXCEPT ![w.ts].text = content.text,
                                          ![w.ts].ep = content.ep,
                                          ![w.ts].rev = content.rev]
    [] OTHER -> slack

Vanished ==    \* "outbox work disappeared"
  /\ worker.pc = "picked" /\ worker.id \notin DOMAIN outbox.work
  /\ worker' = Idle
  /\ UNCHANGED <<group, outbox, fresh, slack, reacted, used>>

Send(answer) ==
  LET w == worker.work IN
  /\ worker.pc = "picked" /\ worker.id \in DOMAIN outbox.work
  /\ Answers(w)[answer]
  /\ Price(answer)
  /\ outbox' = [outbox EXCEPT !.work[worker.id].phase = "inFlight",
                              !.work[worker.id].tried = TRUE]
  /\ slack' = IF answer \in {"ok", "lost"}
              THEN Effect(worker.id, w, worker.content) ELSE slack
  /\ reacted' = IF w.kind = "reaction" /\ answer \in {"ok", "lost"}
                THEN reacted \cup {w.ts} ELSE reacted
  /\ worker' = [pc |-> "sent", id |-> worker.id, work |-> w, answer |-> answer,
                ts |-> Len(slack) + 1]
  /\ UNCHANGED <<group, fresh>>
-----------------------------------------------------------------------------
(* The worker's commit: one edit per kind of answer.                       *)

Attempt == worker.work
Current == outbox.work[worker.id]

Settle(ob) ==
  /\ outbox' = ob
  /\ worker' = Idle
  /\ UNCHANGED <<fresh, slack, reacted, used>>

\* Slip: a reaction learns its message but keeps its dependency.
Resolve_KeepsReaction(w, ts) ==
  IF w.dep = 0 \/ worker.id \notin {<<"parent", w.dep, 0>>, <<"memberList", w.dep, 0>>}
  THEN w
  ELSE IF w.kind = "reaction" THEN [w EXCEPT !.ts = ts]
       ELSE [w EXCEPT !.thread = ts, !.dep = 0]

\* completePost's effect on the entries that waited for this post.
Resolve(w, ts) ==
  IF w.dep = 0 \/ worker.id \notin {<<"parent", w.dep, 0>>, <<"memberList", w.dep, 0>>}
  THEN w
  ELSE IF w.kind = "reaction" THEN [w EXCEPT !.ts = ts, !.dep = 0]
       ELSE [w EXCEPT !.thread = ts, !.dep = 0]

Resolved(ob, ts) ==
  [ob EXCEPT !.work = [i \in DOMAIN ob.work |-> Resolve(ob.work[i], ts)]]

\* Slip: the revision is not compared.
Superseded_Never == FALSE

\* A revision queued during the call becomes an update of the new message.
Superseded == Current.rev > Attempt.rev

\* Slip: any post of the group is taken for its card.
RecordPost_AnyPost(gr, ts) ==
  IF gr.parent.post # 0 THEN [gr EXCEPT !.parent.ts = ts] ELSE gr

\* Slip: the timestamp is not written back to the group.
RecordPost_Forgotten(gr, ts) == gr

RecordPost(gr, ts) ==
  [gr EXCEPT !.parent.ts = IF gr.parent.post # 0 /\ ParentId(gr) = worker.id
                           THEN ts ELSE @,
             !.list.ts = IF gr.list.post # 0 /\ ListId(gr) = worker.id
                         THEN ts ELSE @]

CompletePost ==
  LET g == Current.group
      r == Resolved(outbox, worker.ts)
  IN /\ worker.pc = "sent" /\ worker.answer = "ok" /\ Attempt.kind = "post"
     /\ worker.id \in DOMAIN outbox.work
     /\ group' = [group EXCEPT ![g] = RecordPost(@, worker.ts)]
     /\ outbox' = IF Superseded
                  THEN [r EXCEPT !.work[worker.id].kind = "update",
                                 !.work[worker.id].ts = worker.ts,
                                 !.work[worker.id].phase = "pending"]
                  ELSE Drop(r, {worker.id})
     /\ slack' = [slack EXCEPT ![worker.ts].recorded = TRUE]
     /\ worker' = Idle
     /\ UNCHANGED <<fresh, reacted, used>>

\* The list that a retirement emptied is forgotten with it.
ForgetList(g, ts) ==
  group' = [group EXCEPT ![g].list =
              IF @.post # 0 /\ @.ts = ts THEN NoObject ELSE @]

CompleteUpdate ==
  /\ worker.pc = "sent" /\ worker.answer = "ok" /\ Attempt.kind = "update"
  /\ worker.id \in DOMAIN outbox.work
  /\ IF Superseded
     THEN /\ Settle([outbox EXCEPT !.work[worker.id].phase = "pending"])
          /\ UNCHANGED group
     ELSE /\ Settle(Drop(outbox, {worker.id}))
          /\ IF "memberListRetire" = Attempt.object /\ Current.object = Attempt.object
             THEN ForgetList(Current.group, Attempt.ts) ELSE UNCHANGED group

\* completeOneShot, and dropWork when the message or the scope is missing.
CompleteReaction ==
  /\ worker.pc = "sent" /\ worker.answer \in {"ok", "missing"}
  /\ Attempt.kind = "reaction"
  /\ worker.id \in DOMAIN outbox.work
  /\ Settle(Drop(outbox, {worker.id}))
  /\ UNCHANGED group

\* failWork; already_reacted is no permanent error.
FailWork ==
  /\ worker.pc = "sent" /\ worker.answer \in {"lost", "already", "transient", "permanent"}
  /\ worker.id \in DOMAIN outbox.work
  /\ Settle([outbox EXCEPT !.work[worker.id].phase =
               IF worker.answer = "permanent" THEN "failed" ELSE "pending"])
  /\ UNCHANGED group

\* Every commit finds nothing to do when the entry is gone.
CommitNothing ==
  /\ worker.pc = "sent" /\ worker.id \notin DOMAIN outbox.work
  /\ Settle(outbox)
  /\ UNCHANGED group

\* The document could not be written: the entry stays in flight.
CommitFails ==
  /\ worker.pc = "sent"
  /\ Spend("commit")
  /\ worker' = Idle
  /\ UNCHANGED <<group, outbox, fresh, slack, reacted>>
-----------------------------------------------------------------------------
(* message_not_found on an update: completeMemberListRetirement and         *)
(* replaceDeletedMessage.                                                   *)

UpdateMissing ==
  /\ worker.pc = "sent" /\ worker.answer = "missing" /\ Attempt.kind = "update"
  /\ worker.id \in DOMAIN outbox.work

RetiredListMissing ==
  /\ UpdateMissing /\ Attempt.object = "memberListRetire"
  /\ Settle(Drop(outbox, {worker.id}))
  /\ ForgetList(Current.group, Attempt.ts)

DetachedMissing ==
  /\ UpdateMissing /\ Attempt.object # "memberListRetire"
  /\ ~IsOpen(group[Attempt.group])
  /\ Settle(Drop(outbox, {worker.id}))
  /\ UNCHANGED group

\* Put the replacement in the place of the deleted message.
Substitute(ob, old, new, w) ==
  LET seq == ob.work[old].seq
      put == Put(Drop(ob, {old}), new, w)
  IN [put EXCEPT !.work[new].seq = seq]

OldList(gr) == gr.list.post # 0 /\ gr.list.ts = Attempt.ts

Repoint(ob, old, new) ==
  [ob EXCEPT !.work = [i \in DOMAIN ob.work |->
     IF ob.work[i].dep = old THEN [ob.work[i] EXCEPT !.dep = new] ELSE ob.work[i]]]

ListMissing ==
  LET g  == Attempt.group
      gr == [group[g] EXCEPT !.list = [post |-> fresh, ts |-> 0, rev |-> @.rev + 1]]
      w  == NewWork(g, "memberList", "post", gr.list.rev, 0, gr.parent.ts,
                    DependencyForParent(gr.parent), "render", gr.ep)
  IN /\ UpdateMissing /\ Attempt.object = "memberList"
     /\ IsOpen(group[g]) /\ OldList(group[g])
     /\ group' = [group EXCEPT ![g] = gr]
     /\ outbox' = Substitute(Repoint(outbox, group[g].list.post, fresh),
                             worker.id, ListId(gr), w)
     /\ fresh' = fresh + 1
     /\ worker' = Idle
     /\ UNCHANGED <<slack, reacted, used>>

Unreplaceable ==
  /\ UpdateMissing /\ IsOpen(group[Attempt.group])
  /\ Attempt.object \notin {"parent", "memberListRetire"}
  /\ ~(Attempt.object = "memberList" /\ OldList(group[Attempt.group]))
  /\ Settle([outbox EXCEPT !.work[worker.id].phase = "failed"])
  /\ UNCHANGED group

\* Everything aimed at the deleted card's thread waits for the new card.
Reparent(ob, oldTs, oldPost, new) ==
  [ob EXCEPT !.work = [i \in DOMAIN ob.work |->
     IF ob.work[i].thread = oldTs THEN [ob.work[i] EXCEPT !.thread = 0, !.dep = new]
     ELSE IF ob.work[i].dep = oldPost THEN [ob.work[i] EXCEPT !.dep = new]
     ELSE ob.work[i]]]

ParentMissing ==
  LET g  == Attempt.group
      gr == [group[g] EXCEPT !.parent = [post |-> fresh, ts |-> 0, rev |-> @.rev + 1]]
      w  == NewWork(g, "parent", "post", gr.parent.rev, 0, 0, 0, "render", gr.ep)
  IN /\ UpdateMissing /\ Attempt.object = "parent" /\ IsOpen(group[g])
     /\ group' = [group EXCEPT ![g] = gr]
     /\ outbox' = Substitute(Reparent(outbox, Attempt.ts, group[g].parent.post, fresh),
                             worker.id, ParentId(gr), w)
     /\ fresh' = fresh + 1
     /\ worker' = Idle
     /\ slack' = [slack EXCEPT ![Attempt.ts].replaced = @ \cup {group[g].parent.post}]
     /\ UNCHANGED <<reacted, used>>
-----------------------------------------------------------------------------
(* The process dies and starts again: RecoverInFlight runs before anything. *)

Restart ==
  /\ Spend("crash")
  /\ worker' = Idle
  /\ outbox' = [outbox EXCEPT !.work = [i \in DOMAIN outbox.work |->
       IF outbox.work[i].phase = "inFlight"
       THEN [outbox.work[i] EXCEPT !.phase = "pending"] ELSE outbox.work[i]]]
  /\ UNCHANGED <<group, fresh, slack, reacted>>

\* Somebody deletes a message in Slack.
DeleteMessage(ts) ==
  /\ Live(ts)
  /\ Spend("delete")
  /\ slack' = [slack EXCEPT ![ts].live = FALSE]
  /\ UNCHANGED <<group, outbox, fresh, worker, reacted>>
-----------------------------------------------------------------------------
Init ==
  /\ group = [g \in Group |-> Absent]
  /\ outbox = [work |-> [i \in {} |-> Idle], next |-> 0]
  /\ fresh = 1
  /\ worker = Idle
  /\ slack = <<>> /\ reacted = {}
  /\ used = [m \in Moves |-> 0]

Writers(g) ==
  \/ \E b \in Batch : Notify(g, b)
  \/ Ack(g)
  \/ CloseWithReply(g)
  \/ Escalate(g)
  \/ Forget(g)

Commit ==
  \/ CompletePost
  \/ CompleteUpdate
  \/ CompleteReaction
  \/ FailWork
  \/ CommitNothing
  \/ RetiredListMissing
  \/ DetachedMissing
  \/ ListMissing
  \/ Unreplaceable
  \/ ParentMissing

Call == \E answer \in {"ok", "lost", "already", "missing", "transient", "permanent"} : Send(answer)

Next ==
  \/ \E g \in Group : Writers(g)
  \/ \E cooling \in SUBSET MayCool : Pick(cooling)
  \/ Vanished
  \/ Call
  \/ Commit
  \/ CommitFails
  \/ Restart
  \/ \E ts \in DOMAIN slack : DeleteMessage(ts)

Spec == Init /\ [][Next]_vars

(* The worker's loop runs on a ticker and a backoff always ends, so a pick   *)
(* with nothing cooling is eventually made; a Slack call has a timeout.      *)
Fairness ==
  /\ WF_vars(Pick({}))
  /\ WF_vars(Vanished)
  /\ WF_vars(Call)
  /\ WF_vars(Commit)

FairSpec == Spec /\ Fairness
-----------------------------------------------------------------------------
(* Properties.                                                             *)

IsCard(t) == slack[t].id[1] = "parent"

Content == [text : Text, ep : Nat, rev : Nat]

Answer == {"ok", "lost", "already", "missing", "transient", "permanent"}

GroupRecord == [ep : Nat, parent : SlackObject, list : SlackObject,
                firing : SUBSET Member, delivered : SUBSET Member,
                ack : BOOLEAN, escalated : BOOLEAN,
                status : {"firing", "incomplete", "resolved"}]

SlackMessage == [id : WorkId, thread : Nat, live : BOOLEAN, recorded : BOOLEAN,
                 replaced : SUBSET Nat, text : Text, ep : Nat, rev : Nat]

WorkerRecord ==
  [pc : {"idle"}]
    \cup [pc : {"picked"}, id : WorkId, work : Work, content : Content]
    \cup [pc : {"sent"}, id : WorkId, work : Work, answer : Answer, ts : Nat]

OutboxOK(ob) ==
  /\ DOMAIN ob = {"work", "next"}
  /\ DOMAIN ob.work \subseteq WorkId
  /\ ob.next \in Nat
  /\ \A i \in DOMAIN ob.work : ob.work[i] \in Work /\ ob.work[i].seq <= ob.next

\* Every record is well formed and the sequence counter is ahead of every entry.
TypeOK ==
  /\ group \in [Group -> GroupRecord]
  /\ OutboxOK(outbox)
  /\ fresh \in Nat
  /\ worker \in WorkerRecord
  /\ slack \in Seq(SlackMessage) /\ reacted \subseteq Nat
  /\ used \in [Moves -> Nat]

\* The card of an open group never gets lost between the group and the outbox:
\* until it is posted its first post is queued, and a queued revision of it is
\* the newest one (webhook.go, interactions.go and outbox.go all write both).
CardQueued ==
  \A g \in Group : LET gr == group[g] IN
    IsOpen(gr) =>
      /\ gr.parent.ts = 0 => ParentId(gr) \in DOMAIN outbox.work
      /\ ParentId(gr) \in DOMAIN outbox.work =>
           LET w == outbox.work[ParentId(gr)] IN
           /\ w.rev = gr.parent.rev /\ w.ts = gr.parent.ts
           /\ w.kind = IF gr.parent.ts = 0 THEN "post" ELSE "update"

\* A reply that waits for a post waits for one that is still queued: replacing,
\* closing or completing a post never strands the replies behind it.
NoDanglingDependent ==
  \A i \in DOMAIN outbox.work : LET d == outbox.work[i].dep IN
    d # 0 => \/ <<"parent", d, 0>> \in DOMAIN outbox.work
             \/ ~Unresolved(outbox.work[i])

\* With nothing queued for it, the card of an open group shows the newest
\* revision, whatever was rewritten while the worker was talking to Slack.
CardFresh ==
  \A g \in Group : LET gr == group[g] IN
    IsOpen(gr) /\ Live(gr.parent.ts) /\ ParentId(gr) \notin DOMAIN outbox.work =>
      /\ slack[gr.parent.ts].text = "card"
      /\ slack[gr.parent.ts].ep = gr.ep
      /\ slack[gr.parent.ts].rev = gr.parent.rev

\* Card p was given up for a deleted card that was not p: a close-out queued for an
\* earlier episode's card was taken for the open episode's (DetachedCloseOutDropped).
Mistaken(p) == \E d \in DOMAIN slack : p \in slack[d].replaced /\ slack[d].id[2] # p

\* A recorded card of an episode that is over says so, or its close-out is queued:
\* a late update never leaves a closed episode looking open.
ClosedCardFinal ==
  \A t \in DOMAIN slack :
    /\ IsCard(t) /\ slack[t].live /\ slack[t].recorded
    /\ \A g \in Group : IsOpen(group[g]) => group[g].ep # slack[t].ep
    => \/ slack[t].text = "closed"
       \/ \E i \in DOMAIN outbox.work :
            outbox.work[i].ts = t /\ outbox.work[i].text = "closed"
       \/ Mistaken(slack[t].id[2])

\* Cards say how their episodes stand, while they are open and afterwards: nothing
\* that was queued, in flight or retried is shown in place of what came later.
CardsCurrent == CardFresh /\ ClosedCardFinal

\* The thread of e's card was moved under the card that was mistaken for it.
Moved(e) ==
  \E d \in DOMAIN slack :
    slack[d].ep = e /\ \E p \in slack[d].replaced : slack[d].id[2] # p

\* A reply is never posted to the channel at large, nor under another episode's card.
RepliesInOwnThread ==
  \A t \in DOMAIN slack : slack[t].text = "reply" =>
    /\ slack[t].thread \in DOMAIN slack
    /\ IsCard(slack[t].thread)
    /\ slack[slack[t].thread].ep = slack[t].ep \/ Moved(slack[t].ep)

\* Nothing is said in an episode's thread after the reply that ends it.
CloseReplyLast ==
  \A t, u \in DOMAIN slack :
    t < u /\ slack[t].id[1] = "closeReply" /\ slack[u].text = "reply"
    /\ slack[u].ep = slack[t].ep => slack[u].id = slack[t].id

\* A thread tells its episode's story, in the end with its end.
ThreadsInOrder == RepliesInOwnThread /\ CloseReplyLast

\* Each further card of an episode is paid for by a lost answer, a crash, or a
\* failed write: otherwise the episode has one card.
OneCardPerFault ==
  \A e \in 1..fresh :
    Cardinality({t \in DOMAIN slack : /\ IsCard(t) /\ slack[t].live /\ slack[t].ep = e
                                     /\ ~Mistaken(slack[t].id[2])})
      <= 1 + used["fault"] + used["crash"] + used["commit"]

\* The close-out of an episode whose card was deleted is dropped, and disturbs
\* nothing (the comment in replaceDeletedMessage: "A detached close-out is already
\* over; a deleted message does not need replacement").
DetachedCloseOutDropped ==
  [][/\ worker.pc = "sent" /\ worker.answer = "missing"
     /\ worker.work.text = "closed" /\ worker' = Idle /\ UNCHANGED used
     => worker.id \notin DOMAIN outbox'.work /\ UNCHANGED group]_vars

\* A reaction whose first call was applied and not recorded: Slack answers every
\* further call already_reacted, which is retried like any other error.
Repeats(w) == w.kind = "reaction" /\ w.ts \in reacted /\ w.phase # "failed"

\* It is never done and never given up, and everything of its group queued behind it waits.
Starved(w) ==
  \E i \in DOMAIN outbox.work :
    /\ Repeats(outbox.work[i])
    /\ outbox.work[i].group = w.group /\ outbox.work[i].seq <= w.seq

\* What the outbox can still do nothing about: a permanent failure, what is starved, and
\* the replies behind a card that is either.
Stuck(w) == w.phase = "failed" \/ Starved(w)

Settled ==
  \A i \in DOMAIN outbox.work : LET w == outbox.work[i] IN
    \/ Stuck(w)
    \/ Unresolved(w) /\ \E p \in {<<"parent", w.dep, 0>>, <<"memberList", w.dep, 0>>} :
                          p \in DOMAIN outbox.work /\ Stuck(outbox.work[p])

\* Once the environment rests, everything the outbox owes is delivered or has
\* failed for good: no backoff, blocked group or unresolved reply waits forever, but
\* for the groups starved by a reaction that Slack has already.
EventuallySettled == <>[]Settled

\* The comment in ProcessNext (outbox.go:207-208): what "cannot ever succeed in sequence"
\* must "not ... starve newer parent close-outs".
CloseOutsNotStarved ==
  []<>(\A i \in DOMAIN outbox.work :
         i[1] = "closeParent" => outbox.work[i].phase = "failed")

\* An undelivered rendering still has a group to render (the sweeper keeps it).
RenderableWork ==
  \A i \in DOMAIN outbox.work :
    outbox.work[i].text = "render" /\ outbox.work[i].phase # "failed"
      => group[outbox.work[i].group].ep # 0
=============================================================================
