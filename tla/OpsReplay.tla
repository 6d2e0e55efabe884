------------------------------ MODULE OpsReplay ------------------------------
(***************************************************************************)
(* internal/opsalerts: how the alert dashboard reads its state out of Slack. *)
(*                                                                         *)
(* There is no database.  Every operator action is a reply of the bot in the *)
(* alert's thread, whose metadata hold the complete record of the action, and*)
(* the queue is what replaying these records in the order of their Slack     *)
(* timestamps gives.  This module has the records, what makes one a valid    *)
(* successor of those before it, the replay, the overlay of the rules of a   *)
(* whole family of alerts, and what an action may be prepared from: operators*)
(* without state.  OpsAlerts is the service that uses them.                  *)
(*                                                                         *)
(* The alerts of one instance share a source and a channel and all match the *)
(* expressions of each other's rules; a day ends at 06:00 UTC, when rules    *)
(* expire.  Texts, identifiers, expressions and the operator's name are left *)
(* out.  A Slack timestamp is a position in the channel.                     *)
(***************************************************************************)
EXTENDS Integers, Sequences, FiniteSets

LOCAL INSTANCE FiniteSetsExt

CONSTANTS
  Alert,      \* parent messages of the channel: occurrences
  RequestIDs  \* identifiers browsers give their requests

ASSUME RequestAssumption == RequestIDs \subseteq Nat \ {0}

NoID == 0

\* validateAction: the kinds of action, and those that take a whole family.
Forms ==
  {<<kind, "occurrence">> : kind \in {"acknowledge", "unacknowledge", "close",
                                      "reopen", "snooze", "unsnooze", "investigate"}}
    \cup {<<kind, "regex">> : kind \in {"acknowledge", "unacknowledge", "snooze"}}

NoInvestigation == [id |-> NoID, status |-> "none"]

Fresh == [ack |-> NoID, closed |-> NoID]

\* An occurrence nobody acted on; its revision is the parent's timestamp.
NewOccurrence == [rev |-> 0, state |-> Fresh, inv |-> NoInvestigation, invTs |-> 0]

\* workflowRevision: the last action on the alert and the family rule on display.
Revision(base, rule) == <<base, rule>>

CreatesRule(r) == r.kind = "acknowledge" /\ r.scope = "regex"

Find(S, id) == {x \in S : x.id = id}

Threads == Alert \cup RequestIDs
-----------------------------------------------------------------------------
(* Replay of the action records.                                             *)

\* A message of the channel; rec is the record of an action.
Message(type, thread, id, rec) ==
  [type |-> type, thread |-> thread, id |-> id, rec |-> rec, readable |-> TRUE]

\* enrichInvestigation: Chai's replies between the question and "before".
Enriched(o, chai, before) ==
  IF o.inv # NoInvestigation /\ \E ts \in chai : o.invTs < ts /\ ts < before
  THEN [o EXCEPT !.inv.status = "reply_received"]
  ELSE o

\* The rule an action was prepared under existed, and had not been cancelled then.
ObservationHolds(r, c, historical) ==
  /\ \/ historical /\ Find(c.records, r.observed) = {}
     \/ \E made \in Find(c.records, r.observed) :
           CreatesRule(made) /\ made.at <= r.at /\ made.day = r.day
  /\ \A p \in c.records : p.unwip = r.observed => r.at <= p.at

\* The workflow state a record must carry, given the one before it.
ExpectedState(state, r) ==
  CASE r.kind = "acknowledge" /\ r.scope = "occurrence" -> [state EXCEPT !.ack = r.id]
    [] r.kind = "unacknowledge" /\ r.scope = "occurrence" -> [state EXCEPT !.ack = NoID]
    [] r.kind = "close" -> [state EXCEPT !.closed = r.id]
    [] r.kind = "reopen" -> [state EXCEPT !.closed = NoID]
    [] OTHER -> state

\* What each kind of action requires of the occurrence and of the rules.
KindHolds(o, r, c, historical) ==
  CASE r.kind = "acknowledge" ->
         r.scope = "occurrence" => o.state.ack = NoID \/ r.observed # NoID
    [] r.kind = "unacknowledge" /\ r.scope = "regex" ->
         \/ historical
         \/ \E rule \in Find(c.wip, r.unwip) : rule.day = r.day
         \/ Find(c.wip, r.unwip) = {} /\ r.observed = r.unwip
    [] r.kind = "unacknowledge" -> o.state.ack # NoID \/ r.observed # NoID
    [] r.kind = "close" -> o.state.closed = NoID
    [] r.kind = "reopen" -> o.state.closed # NoID
    [] r.kind = "unsnooze" ->
         \/ historical
         \/ \E rule \in Find(c.rules, r.unsnooze) :
               /\ rule.scope = "occurrence" => rule.alert = r.alert
               /\ rule.day = r.day
    [] r.kind = "investigate" -> o.inv.status \in {"none", "reply_received"}
    [] OTHER -> TRUE

\* validateTransition
ValidTransition(o, r, c, historical) ==
  /\ r.expected = Revision(o.rev, r.observed)
  /\ r.observed # NoID => ObservationHolds(r, c, historical)
  /\ KindHolds(o, r, c, historical)
  /\ r.state = ExpectedState(o.state, r)
  /\ IF r.kind = "investigate" THEN r.inv = [id |-> r.id, status |-> "sent"]
     ELSE r.inv.id = o.inv.id

\* What a valid record does to the replayed state; ts is its timestamp.
Apply(c, r, ts, historical) ==
  LET settled == {p \in c.pending : \/ p.id = r.id
                                    \/ /\ {r.kind, p.kind} = {"investigate"}
                                       /\ p.alert = r.alert}
      individual == r.kind \in {"acknowledge", "unacknowledge"} /\ r.scope # "regex"
  IN [occ |-> [c.occ EXCEPT
                ![r.alert] = [rev |-> ts, state |-> r.state, inv |-> r.inv,
                              invTs |-> IF r.kind = "investigate" THEN ts ELSE @.invTs]],
      records |-> c.records \cup {r},
      wip |-> {w \in c.wip : w.id # r.unwip} \cup
                {[id |-> r.id, day |-> r.day, rev |-> ts] : x \in {y \in {r} : CreatesRule(y)}},
      rules |-> IF historical THEN c.rules ELSE
                  {s \in c.rules : s.id # r.unsnooze} \cup
                  {[id |-> r.id, scope |-> r.scope, alert |-> r.alert, day |-> r.day] :
                     x \in {y \in {r} : y.kind = "snooze"}},
      override |-> [c.override EXCEPT ![r.alert] = IF individual THEN ts ELSE @],
      pending |-> c.pending \ settled,
      fault |-> c.fault]

\* What a replay starts from: the alerts of the history window and what is pending.
Blank(alerts, pending) ==
  [occ |-> [a \in alerts |-> NewOccurrence], records |-> {}, wip |-> {}, rules |-> {},
   override |-> [a \in alerts |-> 0], pending |-> pending, fault |-> NoID]

Actions(slack, threads, alerts) ==
  {ts \in UNION {threads[a] : a \in alerts} : slack[ts].type = "action"}

ChaiIn(slack, threads, a) == {ts \in threads[a] : slack[ts].type = "chai"}

RecordAt(slack, ts) == CHOOSE r \in slack[ts].rec : TRUE

\* The record at ts in its turn: one that is not a valid successor, or contradicts one of
\* the same request, stops the replay ("fault" names its request).
Take(c, slack, threads, ts, day) ==
  LET r == RecordAt(slack, ts)
      o == Enriched(c.occ[r.alert], ChaiIn(slack, threads, r.alert), ts)
      historical == r.day < day
      saved == Find(c.records, r.id)
  IN IF c.fault # NoID \/ (saved = {r} /\ slack[ts].readable) THEN c
     ELSE IF saved = {} /\ slack[ts].readable /\ ValidTransition(o, r, c, historical)
          THEN Apply(c, r, ts, historical)
     ELSE [c EXCEPT !.fault = r.id]

\* The replayed state after each timestamp.
Run(slack, threads, alerts, pending, day) ==
  LET acts == Actions(slack, threads, alerts)
      after[ts \in 0..Len(slack)] ==
        IF ts = 0 THEN Blank(alerts, pending)
        ELSE LET c == after[ts - 1]
             IN IF ts \in acts THEN Take(c, slack, threads, ts, day) ELSE c
  IN after

\* Service.replay.  threads has the timestamps read of each thread.
Replay(slack, threads, alerts, pending, day) ==
  LET done == Run(slack, threads, alerts, pending, day)[Len(slack)]
  IN [occ |-> [a \in alerts |->
                 Enriched(done.occ[a], ChaiIn(slack, threads, a), Len(slack) + 1)],
      records |-> done.records,
      wip |-> {w \in done.wip : w.day = day},
      rules |-> done.rules,
      override |-> done.override,
      pending |-> {p \in done.pending : p.alert \in alerts},
      fault |-> done.fault]

\* replayConversations: questions found in the threads in view, the threads with
\* one that cannot be read, and the attempts that are still unconfirmed.
ReplayChats(slack, threads, inView, attempts) ==
  LET chats == {ts \in UNION {threads[t] : t \in inView} : slack[ts].type = "chat"}
      found == {slack[ts].id : ts \in {u \in chats : slack[u].readable}}
  IN [asked |-> found,
      issues |-> {slack[ts].thread : ts \in {u \in chats : ~slack[u].readable}},
      attempts |-> {p \in attempts : p.id \notin found}]
-----------------------------------------------------------------------------
(* Snapshot: the rules of the day over the replayed occurrences.             *)

\* The newest family assignment that no later individual action overrides.
FamilyRule(c, a, day) ==
  LET on == {w \in c.wip : w.day = day /\ c.override[a] < w.rev}
  IN IF on = {} THEN NoID ELSE (CHOOSE w \in on : \A v \in on : v.rev <= w.rev).id

ActiveSnooze(c, a, day) ==
  LET on == {s.id : s \in {x \in c.rules : /\ x.day = day
                                           /\ x.scope = "occurrence" => x.alert = a}}
  IN IF on = {} THEN NoID ELSE Max(on)

\* effectiveOccurrence
Effective(c, a, day) ==
  LET o == c.occ[a]
      rule == FamilyRule(c, a, day)
      snooze == ActiveSnooze(c, a, day)
      ack == IF rule # NoID /\ o.state.closed = NoID THEN rule ELSE o.state.ack
      tried == {p \in c.pending : p.alert = a /\ p.kind = "investigate"}
  IN [rev |-> Revision(o.rev, rule), rule |-> rule, ack |-> ack,
      closed |-> o.state.closed, snooze |-> snooze,
      inv |-> IF tried = {} THEN o.inv.status ELSE (CHOOSE p \in tried : TRUE).status,
      view |-> CASE o.state.closed # NoID -> "closed"
                 [] snooze # NoID -> "snoozed"
                 [] ack # NoID -> "acknowledged"
                 [] OTHER -> "feed"]

\* prepareAction: why an action is refused on the alert as displayed (e).
Refuses(q, e, c) ==
  CASE q.kind = "acknowledge" -> q.scope # "regex" /\ e.ack # NoID /\ e.rule = NoID
    [] q.kind = "unacknowledge" ->
         IF q.scope = "regex" THEN e.rule = NoID ELSE e.ack = NoID
    [] q.kind = "close" -> e.closed # NoID
    [] q.kind = "reopen" -> e.closed = NoID
    [] q.kind = "snooze" -> e.snooze # NoID
    [] q.kind = "unsnooze" -> e.snooze = NoID
    [] q.kind = "investigate" ->
         \/ e.inv \notin {"none", "failed", "reply_received"}
         \/ \E p \in c.pending : /\ p.alert = q.alert /\ p.kind = "investigate"
                                 /\ p.status # "failed"

\* prepareAction: the record, with the complete new state of the alert.
Prepared(q, e, c, at, day) ==
  LET o == c.occ[q.alert]
  IN [id |-> q.id, alert |-> q.alert, kind |-> q.kind, scope |-> q.scope,
      expected |-> q.expected, observed |-> e.rule, at |-> at, day |-> day,
      unwip |-> IF q.kind = "unacknowledge" /\ q.scope = "regex" THEN e.rule ELSE NoID,
      unsnooze |-> IF q.kind = "unsnooze" THEN e.snooze ELSE NoID,
      state |-> ExpectedState(o.state, [kind |-> q.kind, scope |-> q.scope, id |-> q.id]),
      inv |-> IF q.kind = "investigate" THEN [id |-> q.id, status |-> "sent"] ELSE o.inv]
=============================================================================
