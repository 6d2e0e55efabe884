------------------------------ MODULE OpsAlerts ------------------------------
(***************************************************************************)
(* internal/opsalerts.Service with the Slack archive of                      *)
(* cmd/ops-alert-dashboard: actions and questions of operators, written once *)
(* to Slack, and the queue that is recovered from Slack.                     *)
(*                                                                         *)
(* One token (Service.serial) serialises everything that reads or writes     *)
(* Slack: a full synchronisation, the refresh of one conversation, an action *)
(* and a question.  Between its calls to Slack the environment moves: Chai   *)
(* answers, a post whose outcome was unknown lands, the day ends, an alert   *)
(* leaves the history window.  A crash loses everything but Slack.           *)
(*                                                                         *)
(* Requests keep the revision their operator saw, and may be sent again at   *)
(* any time (the browser retains them).  The operators' names, the preview   *)
(* and the bounded set of conversations under refresh are left out: any      *)
(* thread may be refreshed at any time.                                      *)
(***************************************************************************)
EXTENDS OpsReplay

LOCAL INSTANCE FiniteSetsExt

CONSTANTS
  Days,             \* bound: the days a behaviour may last
  Scenarios,        \* bounds: what operators do in a scenario, and how often the
                    \* environment may do each thing
  ClockReadsAgree   \* 06:00 does not fall between two readings of the clock in one Act

Moves == {"ask", "fault", "icon", "lost", "scope", "crash", "day", "age", "chai", "chat",
          "garble"}

ASSUME ServiceAssumption ==
  /\ Days \in Nat
  /\ Scenarios \subseteq [forms : SUBSET Forms, limits : [Moves -> Nat]]
  /\ ClockReadsAgree \in BOOLEAN

VARIABLES
  slack,    \* external: the messages of the channel, in the order of their timestamps
  flight,   \* external: posts of unknown outcome that may still land
  icons,    \* external: the alerts' reactions of the bot
  day,      \* external: the day, which ends at 06:00 UTC
  age,      \* external: where each alert is in the history window
  asked,    \* browsers: the requests made so far
  told,     \* browsers: the requests that were answered with success
  cache,    \* volatile: Service.cache
  remembered, \* volatile: decorationState.Icons
  disabled, \* volatile: decorationState.Disabled
  holder,   \* volatile: what the holder of Service.serial is doing
  prepared, \* volatile: how many records were prepared; orders their times
  used      \* how often the environment did each thing so far

world == <<slack, flight, icons, day, age>>
vars == <<world, asked, told, cache, remembered, disabled, holder, prepared, used>>

Emoji == {"eyes", "zzz", "white_check_mark"}

\* NewService
EmptyCache ==
  [phase |-> "catching_up", synced |-> FALSE,
   threads |-> [t \in Threads |-> {}], meta |-> [t \in Threads |-> <<0, 0>>],
   known |-> {}, view |-> Blank({}, {}),
   chats |-> [asked |-> {}, issues |-> {}, attempts |-> {}]]

Idle == [pc |-> "free", id |-> NoID, counts |-> [t \in Threads |-> <<0, 0>>], rec |-> {}]

FormsAsked(requests) == {<<q.kind, q.scope>> : q \in {x \in requests : x.type = "action"}}

SpendAsking(m, requests) ==
  /\ used' = [used EXCEPT ![m] = @ + 1]
  /\ \E scenario \in Scenarios :
        /\ FormsAsked(requests) \subseteq scenario.forms
        /\ \A n \in Moves : used'[n] <= scenario.limits[n]

Spend(m) == SpendAsking(m, asked)

Request(id) == CHOOSE q \in asked : q.id = id

\* The messages of a thread, and the metadata History returns for its parent.
InThread(t) == {ts \in DOMAIN slack : slack[ts].thread = t}

Meta(t) == <<Cardinality(InThread(t)), Max(InThread(t) \cup {0})>>

\* Service.retained: with the day of padding that rules need, and without.
Padded == {a \in Alert : age[a] # "gone"}

Retained == {a \in Alert : age[a] = "visible"}

ChatRoots == {t \in RequestIDs : InThread(t) # {}}

\* cache.Conversations: threads in view with a question or an investigation.
Conversations ==
  {t \in cache.known \cap (Retained \cup RequestIDs) :
     \E ts \in cache.threads[t] :
        /\ slack[ts].readable
        /\ slack[ts].type = "chat" \/ \E r \in slack[ts].rec : r.kind = "investigate"}

\* What every path that replays ends with: the cache of complete threads.
Replayed(c, threads, roots) ==
  [c EXCEPT
    !.threads = threads, !.known = roots,
    !.view = Replay(slack, threads, roots \cap Alert, c.view.pending, day),
    !.chats = ReplayChats(slack, threads, roots \cap (Retained \cup RequestIDs),
                          c.chats.attempts)]

\* Slip: a queue is published although a record in it made no sense.
Complete_Always(c) == TRUE

\* The replay took every record.
Complete(c) == c.view.fault = NoID

\* degrade: the last complete queue stays, without writes.
Degraded(c) == [c EXCEPT !.phase = IF c.synced THEN "degraded" ELSE "catching_up"]

\* Slip: a sibling's action does not wait for an unconfirmed family cancellation.
Blocked_OwnAlertOnly(q, c) ==
  \E p \in c.view.pending : p.status = "uncertain" /\ p.alert = q.alert

\* Act: an unconfirmed post on the alert, or of a family cancellation anywhere.
Blocked(q, c) ==
  \E p \in c.view.pending :
     /\ p.status = "uncertain"
     /\ p.alert = q.alert \/ <<p.kind, p.scope>> = <<"unacknowledge", "regex">>

-----------------------------------------------------------------------------
(* Browsers.                                                                 *)

\* Identifiers are used in their order; which one a request has says nothing.
FreshID(id) == {q.id : q \in asked} = {i \in RequestIDs : i < id}

\* An operator acts on an alert as the snapshot shows it.
Ask(id, a, form) ==
  /\ FreshID(id)
  /\ a \in Retained \cap DOMAIN cache.view.occ /\ form \in Forms
  /\ asked' = asked \cup {[type |-> "action", id |-> id, alert |-> a, kind |-> form[1],
                           scope |-> form[2], expected |-> Effective(cache.view, a, day).rev]}
  /\ SpendAsking("ask", asked')
  /\ UNCHANGED <<world, told, cache, remembered, disabled, holder, prepared>>

\* A question about an alert, one that opens a thread of its own (t = id), or one that
\* follows up in such a thread.
AskChai(id, t) ==
  /\ FreshID(id)
  /\ t \in (Retained \cap DOMAIN cache.view.occ) \cup Conversations \cup {id}
  /\ asked' = asked \cup {[type |-> "chat", id |-> id, alert |-> t, kind |-> "chat",
                           scope |-> "", expected |-> <<0, NoID>>]}
  /\ SpendAsking("chat", asked')
  /\ UNCHANGED <<world, told, cache, remembered, disabled, holder, prepared>>

-----------------------------------------------------------------------------
(* Act                                                                       *)

\* reloadTarget: the target's thread is read again, and everything replayed.
Reloaded(q) ==
  Replayed(cache, [cache.threads EXCEPT ![q.alert] = InThread(q.alert)],
           cache.known \cap (Padded \cup RequestIDs))

\* The service may write, and the alert is one of its queue.
Actionable(id) ==
  /\ holder.pc = "free" /\ cache.phase = "ready"
  /\ \E q \in asked : /\ q.id = id /\ q.type = "action"
                      /\ q.alert \in DOMAIN cache.view.occ \cap Retained

\* The alert has changed since the operator saw it, or the action makes no sense.
Conflicts(q, e, c) == q.expected # e.rev \/ Refuses(q, e, c)

\* Nothing is written: the request is recorded already, awaits confirmation, or is in
\* conflict with what happened since.
ActAnswers(id) ==
  LET q == Request(id)
      c == Reloaded(q)
      recorded == Find(c.view.records, id) # {}
  IN
  /\ Actionable(id) /\ Complete(c)
  /\ recorded \/ Blocked(q, c) \/ Conflicts(q, Effective(c.view, q.alert, day), c.view)
  /\ cache' = c
  /\ told' = told \cup {x \in {id} : recorded}
  /\ UNCHANGED <<world, asked, remembered, disabled, holder, prepared, used>>

ActPrepares(id) ==
  LET q == Request(id)
      c == Reloaded(q)
      e == Effective(c.view, q.alert, day)
  IN
  /\ Actionable(id) /\ Complete(c)
  /\ Find(c.view.records, id) = {} /\ ~Blocked(q, c) /\ ~Conflicts(q, e, c.view)
  /\ cache' = c
  /\ prepared' = prepared + 1
  /\ \E now \in day..(IF ClockReadsAgree \/ day = Days THEN day ELSE day + 1) :
       /\ day' = now
       /\ holder' = [Idle EXCEPT !.pc = "posting", !.id = id,
            !.rec = {Message("action", q.alert, id,
                       {Prepared(q, e, c.view, prepared + 1, now)})}]
  /\ UNCHANGED <<slack, flight, icons, age, asked, told, remembered, disabled, used>>

\* The target's thread cannot be read, or cannot be replayed.
ActStops(id) ==
  /\ Actionable(id)
  /\ \/ ~Complete(Reloaded(Request(id))) /\ UNCHANGED used
     \/ Spend("fault")
  /\ cache' = Degraded(cache)
  /\ UNCHANGED <<world, asked, told, remembered, disabled, holder, prepared>>
-----------------------------------------------------------------------------
(* Converse                                                                  *)

\* The question or attempt is not in a thread that exists.
OpensThread(id, thread) == thread = id

\* An unconfirmed question in the same thread, or one that opens a thread too.
ChatBlocked(q) ==
  \E p \in cache.chats.attempts :
     /\ p.status = "uncertain"
     /\ \/ p.id = q.id
        \/ OpensThread(p.id, p.thread) /\ OpensThread(q.id, q.alert)
        \/ ~OpensThread(p.id, p.thread) /\ p.thread = q.alert

Conversable(id) ==
  /\ holder.pc = "free" /\ cache.phase = "ready"
  /\ \E q \in asked : q.id = id /\ q.type = "chat"

ConverseAnswers(id) ==
  /\ Conversable(id) /\ id \in cache.chats.asked
  /\ told' = told \cup {id}
  /\ UNCHANGED <<world, asked, cache, remembered, disabled, holder, prepared, used>>

ConversePrepares(id) ==
  LET t == Request(id).alert IN
  /\ Conversable(id) /\ id \notin cache.chats.asked
  /\ ~ChatBlocked(Request(id))
  /\ cache.chats.issues \cap (Retained \cup RequestIDs) = {}
  /\ t \in Alert => t \in DOMAIN cache.view.occ \cap Retained
  /\ t \in RequestIDs \ {id} => t \in Conversations
  /\ holder' = [Idle EXCEPT !.pc = "posting", !.id = id,
       !.rec = {Message("chat", t, id, {})}]
  /\ UNCHANGED <<world, asked, told, cache, remembered, disabled, prepared, used>>

\* SyncConversation: one thread is read again; a failure leaves everything as it is.
RefreshConversation(t) ==
  LET c == Replayed(cache, [cache.threads EXCEPT ![t] = InThread(t)],
                    cache.known \cap (Padded \cup RequestIDs))
  IN
  /\ holder.pc = "free" /\ cache.phase = "ready" /\ t \in Conversations /\ Complete(c)
  /\ cache' = [c EXCEPT !.meta[t] = Meta(t)]
  /\ UNCHANGED <<world, asked, told, remembered, disabled, holder, prepared, used>>
-----------------------------------------------------------------------------
(* slackArchive.Post and what its caller does with the outcome.              *)

Posting == holder.pc = "posting"

\* The cache after a confirmed post: it is part of its thread, whose parent
\* metadata are counted up, and everything is replayed.
WithOwnPost(m) ==
  LET ts == Len(slack')
      t == m.thread
      threads == [cache.threads EXCEPT ![t] = @ \cup {ts}]
      c == [cache EXCEPT !.meta[t] = <<@[1] + 1, ts>>]
      roots == (cache.known \cup {t}) \cap (Padded \cup RequestIDs)
  IN [c EXCEPT
       !.threads = threads, !.known = roots,
       !.view = Replay(slack', threads, roots \cap Alert, c.view.pending, day),
       !.chats = ReplayChats(slack', threads, roots \cap (Retained \cup RequestIDs),
                             c.chats.attempts)]

\* Slip: an attempt whose outcome is unknown is forgotten.
Attempted_UncertainForgotten(c, q, status) ==
  IF q.type = "chat"
  THEN [c EXCEPT !.chats.attempts = {p \in @ : p.id # q.id} \cup
          {[id |-> q.id, thread |-> q.alert, status |-> "failed"]}]
  ELSE [c EXCEPT !.view.pending = {p \in @ : p.id # q.id} \cup
          {[id |-> q.id, alert |-> q.alert, kind |-> q.kind, scope |-> q.scope,
            status |-> "failed"]}]

\* failedDelivery and failedConversation: the attempt is kept with its outcome.
Attempted(c, q, status) ==
  IF q.type = "chat"
  THEN [c EXCEPT !.chats.attempts = {p \in @ : p.id # q.id} \cup
          {[id |-> q.id, thread |-> q.alert, status |-> status]}]
  ELSE [c EXCEPT !.view.pending = {p \in @ : p.id # q.id} \cup
          {[id |-> q.id, alert |-> q.alert, kind |-> q.kind, scope |-> q.scope,
            status |-> status]}]

\* Slip: the cache is not brought up to date with the post.
Posted_NotCached ==
  /\ Posting
  /\ \E m \in holder.rec :
       /\ slack' = Append(slack, m)
       /\ told' = told \cup {m.id}
       /\ holder' = [Idle EXCEPT !.pc = "decorating"]
  /\ UNCHANGED <<flight, icons, day, age, asked, cache, remembered, disabled, prepared, used>>

\* The post is confirmed by reading it back.  A question that the replay does not show is
\* taken to be unconfirmed.
Posted ==
  /\ Posting
  /\ \E m \in holder.rec :
       LET c == WithOwnPost(m)
           shown == m.type = "action" \/ m.thread \notin Alert \ Retained
           unconfirmed == IF m.type = "action" THEN cache
                          ELSE Attempted(cache, Request(m.id), "uncertain")
       IN
       /\ slack' = Append(slack, m)
       /\ IF Complete(c) /\ shown
          THEN /\ cache' = c
               /\ told' = told \cup {m.id}
               /\ holder' = [Idle EXCEPT !.pc = IF m.type = "action" THEN "decorating" ELSE "free"]
          ELSE /\ cache' = IF Complete(c) THEN unconfirmed ELSE Degraded(unconfirmed)
               /\ holder' = Idle /\ UNCHANGED told
  /\ UNCHANGED <<flight, icons, day, age, asked, remembered, disabled, prepared, used>>

\* Slack refuses the message.
PostRefused ==
  /\ Posting /\ Spend("fault")
  /\ cache' = Attempted(cache, Request(holder.id), "failed")
  /\ holder' = Idle
  /\ UNCHANGED <<world, asked, told, remembered, disabled, prepared>>

\* The write or its readback fails without an answer: the message may be there, may
\* be on its way, or may be lost.
PostUncertain ==
  /\ Posting /\ Spend("fault")
  /\ \/ (\E m \in holder.rec : slack' = Append(slack, m)) /\ UNCHANGED flight
     \/ flight' = flight \cup holder.rec /\ UNCHANGED slack
     \/ UNCHANGED <<slack, flight>>
  /\ cache' = Attempted(cache, Request(holder.id), "uncertain")
  /\ holder' = Idle
  /\ UNCHANGED <<icons, day, age, asked, told, remembered, disabled, prepared>>

\* Slack saves the message without its metadata: the readback does not confirm it.
PostGarbled ==
  /\ Posting /\ Spend("garble")
  /\ \E m \in holder.rec : slack' = Append(slack, [m EXCEPT !.readable = FALSE])
  /\ cache' = Attempted(cache, Request(holder.id), "uncertain")
  /\ holder' = Idle
  /\ UNCHANGED <<flight, icons, day, age, asked, told, remembered, disabled, prepared>>
-----------------------------------------------------------------------------
(* Sync                                                                      *)

SyncStart ==
  /\ holder.pc = "free"
  /\ cache' = [cache EXCEPT !.phase = "catching_up"]
  /\ holder' = [Idle EXCEPT !.pc = "sync", !.counts = [t \in Threads |-> Meta(t)]]
  /\ UNCHANGED <<world, asked, told, remembered, disabled, prepared, used>>

SyncFails ==
  /\ holder.pc = "sync" /\ Spend("fault")
  /\ cache' = Degraded(cache)
  /\ holder' = Idle
  /\ UNCHANGED <<world, asked, told, remembered, disabled, prepared>>

\* Slip: only the newest reply decides whether a thread is read again.
Changed_NewestOnly(t) ==
  \/ t \notin cache.known \/ t \in cache.chats.issues
  \/ cache.meta[t][2] # holder.counts[t][2]

\* A thread is read again if it is new, unreadable, or its parent's metadata changed.
Changed(t) ==
  \/ t \notin cache.known \/ t \in cache.chats.issues
  \/ cache.meta[t] # holder.counts[t]

SyncEnd ==
  LET roots == Padded \cup {t \in RequestIDs : holder.counts[t][1] > 0}
      threads == [t \in Threads |-> IF t \notin roots THEN {}
                                    ELSE IF Changed(t) THEN InThread(t) ELSE cache.threads[t]]
      c == Replayed(cache, threads, roots)
  IN
  /\ holder.pc = "sync"
  /\ IF ~Complete(c)
     THEN cache' = Degraded(cache) /\ holder' = Idle
     ELSE /\ cache' = [c EXCEPT !.phase = "ready", !.synced = TRUE, !.meta = holder.counts]
          /\ holder' = [Idle EXCEPT !.pc = "decorating"]
  /\ UNCHANGED <<world, asked, told, remembered, disabled, prepared, used>>
-----------------------------------------------------------------------------
(* decorate: the bot's reactions on the alerts in view.                      *)

Desired(a) == LET view == Effective(cache.view, a, day).view
              IN CASE view = "acknowledged" -> {"eyes"} [] view = "snoozed" -> {"zzz"}
                   [] view = "closed" -> {"white_check_mark"} [] OTHER -> {}

\* Slip: a restarted bot takes it that it has no reactions yet.
KnownIcons_Startup(a) == IF remembered[a] = {"unknown"} THEN {} ELSE remembered[a]

\* initialReactions: after a restart the reactions in the history are what is known.
KnownIcons(a) == IF remembered[a] = {"unknown"} THEN icons[a] ELSE remembered[a]

Decorated == Retained \cap DOMAIN cache.view.occ

Changes ==
  {c \in Decorated \X Emoji : (c[2] \in Desired(c[1])) # (c[2] \in KnownIcons(c[1]))}

After(shown, a, done) ==
  {e \in Emoji : IF <<a, e>> \in done THEN e \in Desired(a) ELSE e \in shown}

\* The changes done reach Slack; those in confirmed are known to.
DecorateWith(done, confirmed) ==
  /\ holder.pc = "decorating" /\ ~disabled
  /\ icons' = [a \in Alert |-> After(icons[a], a, done)]
  /\ remembered' = [a \in Alert |-> IF a \in Decorated THEN After(KnownIcons(a), a, confirmed)
                                    ELSE {"unknown"}]
  /\ holder' = Idle
  /\ UNCHANGED <<slack, flight, day, age, asked, told, cache, prepared>>

Decorate == DecorateWith(Changes, Changes) /\ UNCHANGED <<disabled, used>>

\* Some changes fail, or the rate limit ends them.
DecorateFails ==
  /\ Spend("icon") /\ UNCHANGED disabled
  /\ \E done \in (SUBSET Changes) \ {Changes} : DecorateWith(done, done)

\* The answer to a change that Slack made is lost.
DecorateLost ==
  /\ Spend("lost") /\ UNCHANGED disabled
  /\ \E done \in SUBSET Changes : \E lost \in done : DecorateWith(done, done \ {lost})

\* Slack answers that the bot may not change reactions: it does not try again until a restart.
DecorateRefused ==
  /\ Spend("scope") /\ disabled' = TRUE
  /\ \E done \in (SUBSET Changes) \ {Changes} : DecorateWith(done, done)

\* Only the alerts that left the view are forgotten.
DecorateSkips ==
  /\ holder.pc = "decorating" /\ disabled
  /\ remembered' = [a \in Alert |-> IF a \in Decorated THEN remembered[a] ELSE {"unknown"}]
  /\ holder' = Idle
  /\ UNCHANGED <<world, asked, told, cache, disabled, prepared, used>>
-----------------------------------------------------------------------------
(* The environment.                                                          *)

Lands(m) ==
  /\ m \in flight
  /\ slack' = Append(slack, m) /\ flight' = flight \ {m}
  /\ UNCHANGED <<icons, day, age, asked, told, cache, remembered, disabled, holder, prepared, used>>

\* Chai answers in a thread with a question.
ChaiReplies(t) ==
  /\ \E ts \in InThread(t) : slack[ts].type = "chat" \/ \E r \in slack[ts].rec : r.kind = "investigate"
  /\ Spend("chai")
  /\ slack' = Append(slack, Message("chai", t, NoID, {}))
  /\ UNCHANGED <<flight, icons, day, age, asked, told, cache, remembered, disabled, holder, prepared>>

NextDay ==
  /\ day < Days /\ Spend("day")
  /\ day' = day + 1
  /\ age' = [a \in Alert |-> IF age[a] = "fading" THEN "old" ELSE age[a]]
  /\ UNCHANGED <<slack, flight, icons, asked, told, cache, remembered, disabled, holder, prepared>>

\* An alert leaves the visible window; a day later nothing of it is read any more.
Ages(a) ==
  /\ age[a] \in {"visible", "old"} /\ Spend("age")
  /\ age' = [age EXCEPT ![a] = IF @ = "visible" THEN "fading" ELSE "gone"]
  /\ UNCHANGED <<slack, flight, icons, day, asked, told, cache, remembered, disabled, holder, prepared>>

\* Some of the posts, in any order.
Arrivals(posts) ==
  {late \in UNION {[1..n -> posts] : n \in 0..Cardinality(posts)} :
     \A i, j \in DOMAIN late : late[i] = late[j] => i = j}

\* A restart takes longer than a post can stay on its way.
Crash ==
  /\ Spend("crash")
  /\ \E landed \in Arrivals(flight \cup holder.rec) : slack' = slack \o landed
  /\ flight' = {}
  /\ cache' = EmptyCache /\ holder' = Idle
  /\ remembered' = [a \in Alert |-> {"unknown"}] /\ disabled' = FALSE
  /\ UNCHANGED <<icons, day, age, asked, told, prepared>>
-----------------------------------------------------------------------------
Init ==
  /\ slack = <<>> /\ flight = {} /\ day = 0 /\ prepared = 0
  /\ icons = [a \in Alert |-> {}] /\ age = [a \in Alert |-> "visible"]
  /\ asked = {} /\ told = {}
  /\ cache = EmptyCache /\ holder = Idle
  /\ remembered = [a \in Alert |-> {"unknown"}] /\ disabled = FALSE
  /\ used = [m \in Moves |-> 0]

Holder == Posted \/ PostRefused \/ PostUncertain \/ PostGarbled
            \/ SyncEnd \/ SyncFails
            \/ Decorate \/ DecorateFails \/ DecorateLost \/ DecorateRefused \/ DecorateSkips

Environment ==
  \/ \E m \in flight : Lands(m)
  \/ \E t \in Threads : ChaiReplies(t)
  \/ \E a \in Alert : Ages(a)
  \/ NextDay \/ Crash

Next ==
  \/ \E id \in RequestIDs :
        \/ \E a \in Alert, form \in Forms : Ask(id, a, form)
        \/ \E t \in Threads : AskChai(id, t)
        \/ ActAnswers(id) \/ ActPrepares(id) \/ ActStops(id)
        \/ ConverseAnswers(id) \/ ConversePrepares(id)
  \/ SyncStart \/ Holder
  \/ \E t \in Threads : RefreshConversation(t)
  \/ Environment

Spec == Init /\ [][Next]_vars

\* The holder of the token moves on.
HolderMoves ==
  /\ holder.pc # "free"
  /\ holder' \in {[Idle EXCEPT !.pc = pc] : pc \in {"free", "decorating"}}

\* synchronize has a ticker, whoever has the token ends its calls (every one of them
\* has a timeout), and waiting for the token is first come, first served.
FairSpec == Spec /\ WF_vars(SyncStart) /\ WF_holder(HolderMoves)
-----------------------------------------------------------------------------
(* Properties.                                                               *)

Recorded(id) == {ts \in DOMAIN slack : slack[ts].id = id}

TypeOK ==
  /\ \A ts \in DOMAIN slack : slack[ts].thread \in Threads /\ slack[ts].id \in RequestIDs \cup {NoID}
  /\ \A m \in flight : m.id \in RequestIDs
  /\ icons \in [Alert -> SUBSET Emoji]
  /\ remembered \in [Alert -> (SUBSET Emoji) \cup {{"unknown"}}]
  /\ disabled \in BOOLEAN
  /\ day \in 0..Days
  /\ age \in [Alert -> {"visible", "fading", "old", "gone"}]
  /\ told \subseteq RequestIDs
  /\ cache.phase \in {"catching_up", "ready", "degraded"}
  /\ cache.known \subseteq Threads
  /\ \A t \in Threads : cache.threads[t] \subseteq InThread(t)
  /\ DOMAIN cache.view.occ \subseteq Alert
  /\ cache.view.fault = NoID
  /\ holder.pc \in {"free", "posting", "sync", "decorating"}
  /\ holder.pc = "posting" <=> holder.rec # {}

\* An investigation of an alert that has been investigated before.
Reinvestigates(q) ==
  /\ q.kind = "investigate"
  /\ \E ts \in DOMAIN slack : \E r \in slack[ts].rec :
        r.kind = "investigate" /\ r.alert = q.alert /\ r.id # q.id

\* No request is in Slack twice, whatever became of the answers to its posts, and no
\* matter how often it is sent again, also after a restart.  Except that the guard of an
\* unconfirmed second investigation is lost when the record of the first is replayed.
RecordedOnce ==
  \A q \in asked : Cardinality(Recorded(q.id)) <= 1 \/ Reinvestigates(q)

\* service.go:34, "pendingDelivery prevents blind retries after an ambiguous transport
\* failure": what is being posted is neither in Slack nor on its way.
NeverBlindlyRetried ==
  holder.pc = "posting" => /\ Recorded(holder.id) = {}
                           /\ \A m \in flight : m.id # holder.id

\* An operator who was told that an action succeeded finds it in every later queue
\* that claims to be complete, until its alert leaves the window.
AnsweredIsKept ==
  \A q \in asked :
    q.id \in told /\ cache.phase = "ready" =>
      IF q.type = "chat" THEN q.id \in cache.chats.asked \/ q.alert \in Alert \ Retained
      ELSE Find(cache.view.records, q.id) # {} \/ q.alert \notin Padded

\* What a synchronisation would find in Slack now.
Everything == Replay(slack, [t \in Threads |-> InThread(t)], Padded, {}, day)

Unreadable == \E ts \in DOMAIN slack : slack[ts].type = "action" /\ ~slack[ts].readable

RepeatedUnsnooze ==
  \E i, j \in DOMAIN slack : \E r \in slack[i].rec, s \in slack[j].rec :
     i # j /\ r.unsnooze = s.unsnooze /\ r.unsnooze # NoID

\* What is known to stop the recovery of the queue: Slack dropped the metadata of a
\* record, a family's snooze was cancelled twice (the second time while the first was
\* unconfirmed), or an investigation was repeated blindly.
KnownCause ==
  Unreadable \/ RepeatedUnsnooze \/ \E id \in RequestIDs : Cardinality(Recorded(id)) > 1

\* The dashboard's own records never make the recovery of the queue fail but for these.
StopsOnlyOnKnownCauses == Everything.fault # NoID => KnownCause

\* A request whose message is in Slack is found there, also when its answer was lost or
\* the service restarted.
LandedIsSeen ==
  \A id \in RequestIDs :
    Recorded(id) # {} ~>
      \/ KnownCause
      \/ id \in cache.chats.asked \/ Find(cache.view.records, id) # {}
      \/ \E ts \in Recorded(id) : slack[ts].thread \in Alert \ Retained \/ ~slack[ts].readable

\* The bot's reactions end up being those of the queue's view, also after failures and
\* restarts; unless the answer to one was lost and the bot does not know of it, or Slack
\* refused one for want of permission since the last restart.
IconsCatchUp ==
  \A a \in Alert :
    []<>(\/ KnownCause \/ a \notin Retained \/ disabled
         \/ used["lost"] > 0 /\ remembered[a] # icons[a]
         \/ a \in DOMAIN cache.view.occ /\ icons[a] = Desired(a))
=============================================================================
