--------------------------- MODULE OpsAlerts_proofs ---------------------------
(* Theorems about OpsAlerts, for any alerts, requests, scenarios and days: what *)
(* a replay of Slack finds, that no request is recorded twice, and that what an *)
(* operator was told stays in the queue.                                        *)
EXTENDS OpsAlerts, FiniteSetTheorems, WellFoundedInduction, TLAPS

(* What messages and requests are like.                                         *)

IsMessage(m) ==
  m = [type |-> m.type, thread |-> m.thread, id |-> m.id, rec |-> m.rec, readable |-> m.readable]

\* The message of a request; an action's has its record.
PostOf(m, q) ==
  /\ m.id = q.id /\ m.type = q.type /\ m.thread = q.alert
  /\ q.type = "chat" => m.rec = {}
  /\ q.type = "action" => \E r \in m.rec : /\ m.rec = {r}
                                           /\ r.id = q.id /\ r.alert = q.alert /\ r.kind = q.kind

Fine(m, requests) ==
  /\ IsMessage(m) /\ m.thread \in Threads
  /\ \/ m.type = "chai" /\ m.id = NoID /\ m.rec = {}
     \/ \E q \in requests : PostOf(m, q)

FineRequest(q) ==
  /\ q.id \in RequestIDs
  /\ \/ q.type = "action" /\ q.alert \in Alert
     \/ q.type = "chat" /\ q.alert \in Threads /\ q.kind = "chat"

Requests(requests) ==
  /\ \A q \in requests : FineRequest(q)
  /\ \A q, s \in requests : q.id = s.id => q = s

IsArchive(sl) == sl \in Seq({sl[ts] : ts \in DOMAIN sl})

Archive(sl, requests) ==
  /\ IsArchive(sl)
  /\ \A ts \in DOMAIN sl : Fine(sl[ts], requests)

IsView(v) ==
  v = [occ |-> v.occ, records |-> v.records, wip |-> v.wip, rules |-> v.rules,
       override |-> v.override, pending |-> v.pending, fault |-> v.fault]

IsCache(c) ==
  /\ c = [phase |-> c.phase, synced |-> c.synced, threads |-> c.threads, meta |-> c.meta,
          known |-> c.known, view |-> c.view, chats |-> c.chats]
  /\ c.threads = [t \in Threads |-> c.threads[t]]
  /\ IsView(c.view)
  /\ c.chats = [asked |-> c.chats.asked, issues |-> c.chats.issues, attempts |-> c.chats.attempts]

IsHolder(h) == h = [pc |-> h.pc, id |-> h.id, counts |-> h.counts, rec |-> h.rec]
-----------------------------------------------------------------------------
(* The inductive invariant.                                                  *)

\* Of what kind the small variables are.
Typed ==
  /\ icons \in [Alert -> SUBSET Emoji]
  /\ remembered \in [Alert -> (SUBSET Emoji) \cup {{"unknown"}}]
  /\ day \in 0..Days
  /\ age \in [Alert -> {"visible", "fading", "old", "gone"}]
  /\ cache.phase \in {"catching_up", "ready", "degraded"}
  /\ holder.pc \in {"free", "posting", "sync", "decorating"}

\* Shapes of the others, and who the messages are of.
Formed ==
  /\ Requests(asked) /\ Archive(slack, asked) /\ IsFiniteSet(flight)
  /\ \A m \in flight : Fine(m, asked) /\ m.type # "chai"
  /\ IsCache(cache) /\ IsHolder(holder)
  /\ holder.pc # "posting" => holder.rec = {}
  /\ holder.pc = "posting" =>
       \E q \in asked : \E m \in holder.rec :
          /\ holder.rec = {m} /\ holder.id = q.id
          /\ Fine(m, asked) /\ PostOf(m, q) /\ m.readable
          /\ m.thread \in Alert \/ m.thread # m.id => m.thread \in cache.known
  /\ told \subseteq {q.id : q \in asked}

\* The timestamps that a cache has of each thread.
Threaded(th, sl) == \A t \in Threads : th[t] \subseteq {ts \in DOMAIN sl : sl[ts].thread = t}

\* The view has the record of every action in the threads of its alerts.
HasRecords(v, sl, th, al) ==
  \A a \in al : \A ts \in th[a] :
    sl[ts].type = "action" => \E r \in v.records : r.id = sl[ts].id

\* A question of this identifier is in the threads that are known.
Found(id, sl, th, known) ==
  \E t \in known : \E ts \in th[t] :
    /\ ts \in DOMAIN sl /\ sl[ts].thread = t
    /\ sl[ts].type = "chat" /\ sl[ts].readable /\ sl[ts].id = id

\* The cache shows what is in the threads that it has.
Shows(c, sl) ==
  /\ c.view.fault = NoID /\ c.known \subseteq Threads
  /\ DOMAIN c.view.occ \subseteq c.known \cap Alert
  /\ Threaded(c.threads, sl)
  /\ HasRecords(c.view, sl, c.threads, c.known \cap Alert)
  /\ \A id \in c.chats.asked : Found(id, sl, c.threads, c.known)

\* The questions in the threads in view.
ShowsChats(c, sl, inView) ==
  \A t \in c.known \cap inView : \A ts \in c.threads[t] :
    sl[ts].type = "chat" =>
      IF sl[ts].readable THEN sl[ts].id \in c.chats.asked ELSE t \in c.chats.issues

\* The message is in every queue that is complete, and in every thread that is known.
Seen(ts) ==
  LET t == slack[ts].thread IN
  t \in Padded \cup RequestIDs =>
    /\ cache.phase = "ready" => t \in cache.known
    /\ t \in cache.known => ts \in cache.threads[t]
    /\ holder.pc = "sync" /\ t \in RequestIDs => holder.counts[t][1] > 0

\* An unconfirmed attempt keeps the request from being posted.
Guarded(q) ==
  IF q.type = "chat"
  THEN \E p \in cache.chats.attempts : p.id = q.id /\ p.status = "uncertain"
  ELSE \/ q.alert \notin Padded
       \/ /\ q.alert \in cache.known
          /\ \E p \in cache.view.pending :
               /\ p.id = q.id /\ p.alert = q.alert /\ p.kind = q.kind
               /\ p.status = "uncertain"

\* One message of a request at most is in Slack, on its way or about to be posted.
Once(q) ==
  /\ \A ts, us \in Recorded(q.id) : ts = us
  /\ \A m \in flight : m.id = q.id =>
       Recorded(q.id) = {} /\ Guarded(q) /\ \A n \in flight : n.id = q.id => n = m
  /\ holder.pc = "posting" /\ holder.id = q.id =>
       Recorded(q.id) = {} /\ \A m \in flight : m.id # q.id

Asking(q) ==
  q.type = "chat" =>
    \A ts \in Recorded(q.id) : q.alert \in Alert \ Retained \/ Guarded(q) \/ Seen(ts)

Answered(q) ==
  q.id \in told =>
    \E ts \in Recorded(q.id) : Seen(ts) /\ (q.type = "chat" => slack[ts].readable)

Posts == \A q \in asked : (Reinvestigates(q) \/ Once(q)) /\ Asking(q) /\ Answered(q)

\* A thread that operators' questions follow up in has the question that opened it.
Rooted ==
  \A q \in asked : q.type = "chat" /\ q.alert \notin Alert \cup {q.id} => Recorded(q.alert) # {}

Inv ==
  /\ Typed /\ Formed
  /\ Shows(cache, slack) /\ ShowsChats(cache, slack, Retained \cup RequestIDs)
  /\ Posts
-----------------------------------------------------------------------------
(* Induction, and what it says of a replay.                                  *)

\* Numbers have a least one: what induction rests on here.
LEMMA LeastMember ==
  ASSUME NEW T, T \subseteq Nat, T # {}
  PROVE  \E n \in T : \A k \in T : n <= k
<1> DEFINE R == {pair \in Nat \X Nat : pair[1] < pair[2]}
<1>1. IsWellFoundedOn(R, Nat)
  BY NatLessThanWellFounded DEF OpToRel
<1>2. \E n \in T : \A k \in T : ~ (<<k, n>> \in R)
  <2> HIDE DEF R
  <2> QED BY <1>1, WFMin
<1>3. PICK n \in T : \A k \in T : ~ (<<k, n>> \in R)
  BY <1>2
<1>4. ASSUME NEW k \in T
      PROVE  n <= k
  <2>1. k \in Nat /\ n \in Nat
    OBVIOUS
  <2>2. k < n => <<k, n>> \in R
    BY <2>1
  <2> QED BY <1>3, <2>1, <2>2
<1> QED BY <1>3, <1>4

LEMMA FromZero ==
  ASSUME NEW top \in Nat, NEW T, 0 \in T, \A n \in 1..top : n - 1 \in T => n \in T
  PROVE  \A n \in 0..top : n \in T
<1> DEFINE Missing == {n \in 0..top : n \notin T}
<1>1. SUFFICES ASSUME Missing # {} PROVE FALSE
  OBVIOUS
<1>2. PICK n \in Missing : \A k \in Missing : n <= k
  <2>1. Missing \subseteq Nat
    OBVIOUS
  <2> HIDE DEF Missing
  <2> QED BY <1>1, <2>1, LeastMember
<1>3. n \in 1..top /\ n - 1 \in 0..top /\ n - 1 \notin Missing
  BY <1>2
<1> QED BY <1>2, <1>3

\* The state after each timestamp follows from the one before.
LEMMA RunSteps ==
  ASSUME NEW sl, Len(sl) \in Nat, NEW th, NEW al, NEW pe, NEW d
  PROVE  LET run == Run(sl, th, al, pe, d) IN
         /\ run[0] = Blank(al, pe)
         /\ \A ts \in 1..Len(sl) :
              run[ts] = IF ts \in Actions(sl, th, al) THEN Take(run[ts - 1], sl, th, ts, d)
                        ELSE run[ts - 1]
<1> DEFINE Step(c, ts) == IF ts \in Actions(sl, th, al) THEN Take(c, sl, th, ts, d) ELSE c
           Good(f, n) == f = [ts \in 0..n |-> IF ts = 0 THEN Blank(al, pe)
                                              ELSE Step(f[ts - 1], ts)]
           Defined == {n \in 0..Len(sl) : \E f : Good(f, n)}
<1>1. Run(sl, th, al, pe, d) = CHOOSE f : Good(f, Len(sl))
  BY DEF Run
<1> HIDE DEF Step
<1>2. 0 \in Defined
  <2> DEFINE g == [ts \in 0..0 |-> Blank(al, pe)]
  <2>1. 0..0 = {0}
    OBVIOUS
  <2>2. Good(g, 0)
    BY <2>1
  <2>3. \E f : Good(f, 0)
    <3> HIDE DEF g, Good
    <3> QED BY <2>2
  <2> QED BY <2>3
<1>3. ASSUME NEW n \in 1..Len(sl), n - 1 \in Defined
      PROVE  n \in Defined
  <2>1. PICK f : Good(f, n - 1)
    BY <1>3
  <2> DEFINE g == [ts \in 0..n |-> IF ts = n THEN Step(f[n - 1], n) ELSE f[ts]]
  <2>2. ASSUME NEW ts \in 0..n
        PROVE  g[ts] = IF ts = 0 THEN Blank(al, pe) ELSE Step(g[ts - 1], ts)
    <3>1. CASE ts = 0
      BY <2>1, <3>1
    <3>2. CASE ts = n
      BY <3>2
    <3>3. CASE ts # 0 /\ ts # n
      BY <2>1, <3>3
    <3> QED BY <3>1, <3>2, <3>3
  <2>3. Good(g, n)
    <3> DEFINE h == [ts \in 0..n |-> IF ts = 0 THEN Blank(al, pe) ELSE Step(g[ts - 1], ts)]
    <3>1. \A ts \in 0..n : g[ts] = h[ts]
      <4> HIDE DEF g
      <4> QED BY <2>2
    <3>2. DOMAIN g = 0..n /\ DOMAIN h = 0..n
      OBVIOUS
    <3>3. g = [ts \in 0..n |-> g[ts]] /\ h = [ts \in 0..n |-> h[ts]]
      OBVIOUS
    <3>4. g = h
      <4> HIDE DEF g, h
      <4>1. [ts \in 0..n |-> g[ts]] = [ts \in 0..n |-> h[ts]]
        BY <3>1
      <4> QED BY <3>3, <4>1, Zenon
    <3> QED BY <3>4
  <2>4. \E h : Good(h, n)
    <3> HIDE DEF g, Good
    <3> QED BY <2>3
  <2> QED BY <2>4
<1>4. Len(sl) \in Defined
  <2> HIDE DEF Defined
  <2>1. \A n \in 1..Len(sl) : n - 1 \in Defined => n \in Defined
    BY <1>3
  <2>2. \A n \in 0..Len(sl) : n \in Defined
    BY <1>2, <2>1, FromZero
  <2> QED BY <2>2
<1>5. PICK f : f = Run(sl, th, al, pe, d) /\ Good(f, Len(sl))
  BY <1>1, <1>4
<1>6. f[0] = Blank(al, pe) /\ \A ts \in 1..Len(sl) : f[ts] = Step(f[ts - 1], ts)
  BY <1>5
<1> QED BY <1>5, <1>6 DEF Step

\* A record that is applied joins the records, and settles attempts.
LEMMA ApplyFacts ==
  ASSUME NEW c, NEW r, NEW ts, NEW historical
  PROVE  LET n == Apply(c, r, ts, historical) IN
         /\ IsView(n) /\ n.fault = c.fault /\ n.records = c.records \cup {r}
         /\ n.pending \subseteq c.pending
         /\ \A p \in c.pending : \/ p \in n.pending \/ p.id = r.id
                                \/ /\ p.kind = "investigate" /\ r.kind = "investigate"
                                   /\ p.alert = r.alert
<1> DEFINE settled == {p \in c.pending : \/ p.id = r.id
                                         \/ /\ {r.kind, p.kind} = {"investigate"}
                                            /\ p.alert = r.alert}
           n == Apply(c, r, ts, historical)
<1>1. /\ IsView(n) /\ n.fault = c.fault /\ n.records = c.records \cup {r}
      /\ n.pending = c.pending \ settled
  BY DEF Apply, IsView
<1>2. \A p \in settled : \/ p.id = r.id
                         \/ /\ p.kind = "investigate" /\ r.kind = "investigate"
                            /\ p.alert = r.alert
  OBVIOUS
<1> HIDE DEF n, settled
<1>3. \A p \in c.pending : \/ p \in n.pending \/ p.id = r.id
                           \/ /\ p.kind = "investigate" /\ r.kind = "investigate"
                              /\ p.alert = r.alert
  BY <1>1, <1>2
<1> QED BY <1>1, <1>3 DEF n

\* A record in its turn: without a fault it is among the records.
LEMMA TakeFacts ==
  ASSUME NEW c, IsView(c), NEW sl, NEW th, NEW ts, NEW d, RecordAt(sl, ts).id # NoID
  PROVE  LET n == Take(c, sl, th, ts, d)
             r == RecordAt(sl, ts) IN
         /\ IsView(n) /\ n.records \subseteq c.records \cup {r}
         /\ n.fault = NoID => /\ c.fault = NoID /\ r \in n.records /\ c.records \subseteq n.records
                              /\ n.pending \subseteq c.pending
         /\ n.fault = NoID =>
              \A p \in c.pending : \/ p \in n.pending \/ p.id = r.id
                                 \/ /\ p.kind = "investigate" /\ r.kind = "investigate"
                                    /\ p.alert = r.alert
<1> DEFINE r == RecordAt(sl, ts)
           n == Take(c, sl, th, ts, d)
           o == Enriched(c.occ[r.alert], ChaiIn(sl, th, r.alert), ts)
           historical == r.day < d
<1>1. \/ n = c /\ (c.fault # NoID \/ Find(c.records, r.id) = {r})
      \/ n = Apply(c, r, ts, historical) /\ c.fault = NoID
      \/ n = [c EXCEPT !.fault = r.id]
  BY DEF Take
<1> HIDE DEF n, o
<1>2. CASE n = c /\ (c.fault # NoID \/ Find(c.records, r.id) = {r})
  BY <1>2 DEF n, Find
<1>3. CASE n = Apply(c, r, ts, historical) /\ c.fault = NoID
  <2> HIDE DEF r, historical
  <2> QED BY <1>3, ApplyFacts DEF n, r
<1>4. CASE n = [c EXCEPT !.fault = r.id]
  <2>1. IsView(n) /\ n.records = c.records /\ n.fault = r.id
    BY <1>4 DEF IsView
  <2> QED BY <2>1 DEF n
<1> QED BY <1>1, <1>2, <1>3, <1>4

\* A record of these actions settled the attempt.
SettledBy(p, sl, acts) ==
  \E ts \in acts : LET r == RecordAt(sl, ts) IN
    p.id = r.id \/ (p.kind = "investigate" /\ r.kind = "investigate" /\ p.alert = r.alert)

\* After a timestamp every record up to it was taken, unless one was not valid.
LEMMA RunFacts ==
  ASSUME NEW sl, Len(sl) \in Nat, NEW th, NEW al, NEW pe, NEW d,
         \A ts \in Actions(sl, th, al) : ts \in 1..Len(sl) /\ RecordAt(sl, ts).id # NoID
  PROVE  LET v == Run(sl, th, al, pe, d)[Len(sl)]
             acts == Actions(sl, th, al) IN
         /\ v.records \subseteq {RecordAt(sl, ts) : ts \in acts}
         /\ v.fault = NoID => /\ \A ts \in acts : RecordAt(sl, ts) \in v.records
                              /\ v.pending \subseteq pe
                              /\ \A p \in pe : p \in v.pending \/ SettledBy(p, sl, acts)
<1> DEFINE run == Run(sl, th, al, pe, d)
           acts == Actions(sl, th, al)
           Holds(n, v) ==
             /\ IsView(v)
             /\ v.records \subseteq {RecordAt(sl, ts) : ts \in acts}
             /\ v.fault = NoID => /\ \A ts \in acts : ts <= n => RecordAt(sl, ts) \in v.records
                                  /\ v.pending \subseteq pe
                                  /\ \A p \in pe : p \in v.pending \/ SettledBy(p, sl, acts)
           T == {n \in 0..Len(sl) : Holds(n, run[n])}
<1>1. /\ run[0] = Blank(al, pe)
      /\ \A ts \in 1..Len(sl) :
           run[ts] = IF ts \in acts THEN Take(run[ts - 1], sl, th, ts, d) ELSE run[ts - 1]
  BY RunSteps
<1> HIDE DEF run, acts
<1>a. \A ts \in acts : ts \in 1..Len(sl) /\ RecordAt(sl, ts).id # NoID
  BY DEF acts
<1>2. Holds(0, run[0])
  <2>1. IsView(Blank(al, pe)) /\ Blank(al, pe).records = {} /\ Blank(al, pe).pending = pe
    BY DEF Blank, IsView
  <2>2. \A ts \in acts : ~(ts <= 0)
    BY <1>a
  <2> QED BY <1>1, <2>1, <2>2
<1>3. ASSUME NEW n \in 1..Len(sl), Holds(n - 1, run[n - 1])
      PROVE  Holds(n, run[n])
  <2>1. CASE n \notin acts
    <3>1. \A ts \in acts : ts <= n => ts <= n - 1
      BY <1>a, <2>1
    <3>2. run[n] = run[n - 1]
      BY <1>1, <2>1
    <3> QED BY <1>3, <3>1, <3>2
  <2>2. CASE n \in acts
    <3> DEFINE c == run[n - 1]
               v == run[n]
               r == RecordAt(sl, n)
    <3>1. v = Take(c, sl, th, n, d)
      BY <1>1, <2>2
    <3> HIDE DEF c, v
    <3>2. Holds(n - 1, c)
      BY <1>3 DEF c
    <3> HIDE DEF r
    <3>3. /\ IsView(v) /\ v.records \subseteq c.records \cup {r}
          /\ v.fault = NoID => /\ c.fault = NoID /\ r \in v.records /\ c.records \subseteq v.records
                               /\ v.pending \subseteq c.pending
          /\ v.fault = NoID =>
               \A p \in c.pending : \/ p \in v.pending \/ p.id = r.id
                                  \/ /\ p.kind = "investigate" /\ r.kind = "investigate"
                                     /\ p.alert = r.alert
      <4>1. IsView(c) /\ RecordAt(sl, n).id # NoID
        BY <1>a, <2>2, <3>2
      <4> QED BY <3>1, <4>1, TakeFacts DEF r
    <3>4. v.records \subseteq {RecordAt(sl, ts) : ts \in acts}
      BY <2>2, <3>2, <3>3 DEF r
    <3>5. ASSUME v.fault = NoID, NEW ts \in acts, ts <= n
          PROVE  RecordAt(sl, ts) \in v.records
      <4>1. CASE ts = n
        BY <3>3, <3>5, <4>1 DEF r
      <4>2. CASE ts # n
        <5>1. ts <= n - 1
          BY <1>a, <3>5, <4>2
        <5> QED BY <3>2, <3>3, <3>5, <5>1
      <4> QED BY <4>1, <4>2
    <3>6. ASSUME v.fault = NoID, NEW p \in pe
          PROVE  p \in v.pending \/ SettledBy(p, sl, acts)
      <4>1. p \in c.pending \/ SettledBy(p, sl, acts)
        BY <3>2, <3>3, <3>6
      <4>2. \/ p.id = r.id
            \/ p.kind = "investigate" /\ r.kind = "investigate" /\ p.alert = r.alert
            => SettledBy(p, sl, acts)
        BY <2>2 DEF SettledBy, r
      <4> QED BY <3>3, <3>6, <4>1, <4>2
    <3>7. v.fault = NoID => v.pending \subseteq pe
      BY <3>2, <3>3
    <3>8. Holds(n, v)
      BY <3>3, <3>4, <3>5, <3>6, <3>7
    <3> QED BY <3>8 DEF v
  <2> QED BY <2>1, <2>2
<1>4. Holds(Len(sl), run[Len(sl)])
  <2> HIDE DEF Holds
  <2>1. 0 \in T /\ \A n \in 1..Len(sl) : n - 1 \in T => n \in T
    BY <1>2, <1>3
  <2>2. \A n \in 0..Len(sl) : n \in T
    <3> HIDE DEF T
    <3> QED BY <2>1, FromZero
  <2> QED BY <2>2
<1>5. \A ts \in acts : ts <= Len(sl)
  BY <1>a
<1> QED BY <1>4, <1>5 DEF run, acts

LEMMA ArchiveFacts ==
  ASSUME NEW requests, Requests(requests), NEW sl, Archive(sl, requests)
  PROVE  /\ Len(sl) \in Nat /\ DOMAIN sl = 1..Len(sl)
         /\ \A ts \in DOMAIN sl : sl[ts].type = "action" =>
              LET r == RecordAt(sl, ts) IN
              /\ sl[ts].rec = {r} /\ r.id = sl[ts].id /\ r.id # NoID
              /\ r.alert = sl[ts].thread /\ r.alert \in Alert
<1>1. Len(sl) \in Nat /\ DOMAIN sl = 1..Len(sl)
  BY DEF Archive, IsArchive
<1>2. ASSUME NEW ts \in DOMAIN sl, sl[ts].type = "action"
      PROVE  LET r == RecordAt(sl, ts) IN
             /\ sl[ts].rec = {r} /\ r.id = sl[ts].id /\ r.id # NoID
             /\ r.alert = sl[ts].thread /\ r.alert \in Alert
  <2>1. PICK q \in requests : PostOf(sl[ts], q)
    BY <1>2 DEF Archive, Fine
  <2>2. FineRequest(q) /\ q.type = "action"
    BY <1>2, <2>1 DEF Requests, PostOf
  <2>3. PICK r \in sl[ts].rec : sl[ts].rec = {r} /\ r.id = q.id /\ r.alert = q.alert
    BY <2>1, <2>2 DEF PostOf
  <2>4. RecordAt(sl, ts) = r
    BY <2>3 DEF RecordAt
  <2>5. r.id # NoID /\ r.alert \in Alert
    BY <2>2, <2>3, RequestAssumption DEF FineRequest, NoID
  <2>6. sl[ts].id = q.id /\ sl[ts].thread = q.alert
    BY <2>1 DEF PostOf
  <2> QED BY <2>3, <2>4, <2>5, <2>6
<1> QED BY <1>1, <1>2

\* A record in Slack settled the attempt.
Spent(p, sl) ==
  \E ts \in DOMAIN sl :
    /\ sl[ts].type = "action"
    /\ \/ sl[ts].id = p.id
       \/ p.kind = "investigate" /\ \E r \in sl[ts].rec : r.kind = "investigate" /\ r.alert = p.alert

\* The view has no records but those of actions in the threads of its alerts.
OnlyRecords(v, sl, th, al) ==
  \A r \in v.records : \E a \in al : \E ts \in th[a] :
    sl[ts].type = "action" /\ sl[ts].id = r.id

\* Attempts stay until a record settles them.
KeepsAttempts(v, sl, al, pe) ==
  \A p \in pe : p.alert \in al => p \in v.pending \/ Spent(p, sl)

\* A replay without a fault has the record of every action in the threads of its alerts, and
\* no others; attempts stay until a record settles them.
LEMMA ReplayFacts ==
  ASSUME NEW requests, Requests(requests), NEW sl, Archive(sl, requests),
         NEW th, Threaded(th, sl), NEW al \in SUBSET Alert, NEW pe, NEW d
  PROVE  LET v == Replay(sl, th, al, pe, d) IN
         /\ IsView(v) /\ DOMAIN v.occ = al /\ OnlyRecords(v, sl, th, al)
         /\ v.fault = NoID => HasRecords(v, sl, th, al) /\ KeepsAttempts(v, sl, al, pe)
<1> DEFINE v == Replay(sl, th, al, pe, d)
           done == Run(sl, th, al, pe, d)[Len(sl)]
           acts == Actions(sl, th, al)
<1>1. /\ IsView(v) /\ DOMAIN v.occ = al /\ v.fault = done.fault /\ v.records = done.records
      /\ v.pending = {p \in done.pending : p.alert \in al}
  BY DEF Replay, IsView
<1> HIDE DEF v, done
<1>2. al \subseteq Threads
  BY DEF Threads
<1>3. \A ts \in acts : /\ ts \in DOMAIN sl /\ sl[ts].type = "action"
                       /\ \E a \in al : ts \in th[a]
  BY <1>2 DEF Actions, Threaded
<1>4. \A ts \in acts : LET r == RecordAt(sl, ts) IN
        sl[ts].rec = {r} /\ r.id = sl[ts].id /\ r.id # NoID
  BY <1>3, ArchiveFacts
<1>5. \A a \in al : \A ts \in th[a] : sl[ts].type = "action" => ts \in acts
  BY DEF Actions
<1> HIDE DEF acts
<1>6. /\ done.records \subseteq {RecordAt(sl, ts) : ts \in acts}
      /\ done.fault = NoID => /\ \A ts \in acts : RecordAt(sl, ts) \in done.records
                              /\ \A p \in pe : p \in done.pending \/ SettledBy(p, sl, acts)
  <2>1. Len(sl) \in Nat /\ \A ts \in acts : ts \in 1..Len(sl) /\ RecordAt(sl, ts).id # NoID
    BY <1>3, <1>4, ArchiveFacts
  <2> QED BY <2>1, RunFacts DEF done, acts
<1>7. \A p : SettledBy(p, sl, acts) => Spent(p, sl)
  BY <1>3, <1>4 DEF SettledBy, Spent
<1>8. \A a \in al : \A ts \in th[a] : done.fault = NoID /\ sl[ts].type = "action" =>
        \E r \in done.records : r.id = sl[ts].id
  BY <1>4, <1>5, <1>6
<1>9. \A r \in done.records : \E a \in al : \E ts \in th[a] :
        sl[ts].type = "action" /\ sl[ts].id = r.id
  BY <1>3, <1>4, <1>6
<1>10. done.fault = NoID => \A p \in pe : p.alert \in al => p \in v.pending \/ Spent(p, sl)
  BY <1>1, <1>6, <1>7
<1>11. OnlyRecords(v, sl, th, al)
  BY <1>1, <1>9 DEF OnlyRecords
<1>12. done.fault = NoID => HasRecords(v, sl, th, al) /\ KeepsAttempts(v, sl, al, pe)
  BY <1>1, <1>8, <1>10 DEF HasRecords, KeepsAttempts
<1> QED BY <1>1, <1>11, <1>12 DEF v

\* The cache c brought up to date with the threads th of these roots.
Updated(n, c, sl, th, roots, inView, d) ==
  /\ IsCache(n) /\ n.threads = th /\ n.known = roots
  /\ n.view = Replay(sl, th, roots \cap Alert, c.view.pending, d)
  /\ n.chats = ReplayChats(sl, th, roots \cap inView, c.chats.attempts)

\* Unconfirmed questions stay until they are found.
KeepsQuestions(n, attempts, sl) ==
  \A p \in attempts : p \in n.chats.attempts \/ Found(p.id, sl, n.threads, n.known)

\* A complete cache shows its threads, and keeps the attempts that they do not settle.
LEMMA UpdatedFacts ==
  ASSUME NEW requests, Requests(requests), NEW sl, Archive(sl, requests),
         NEW th, Threaded(th, sl), NEW roots, roots \subseteq Threads, NEW inView, NEW c, NEW d,
         NEW n, Updated(n, c, sl, th, roots, inView, d), n.view.fault = NoID
  PROVE  /\ Shows(n, sl) /\ ShowsChats(n, sl, inView)
         /\ OnlyRecords(n.view, sl, th, roots \cap Alert)
         /\ KeepsAttempts(n.view, sl, roots \cap Alert, c.view.pending)
         /\ KeepsQuestions(n, c.chats.attempts, sl)
<1> DEFINE al == roots \cap Alert
           v == Replay(sl, th, al, c.view.pending, d)
           chats == {ts \in UNION {th[t] : t \in roots \cap inView} : sl[ts].type = "chat"}
<1>1. /\ n.threads = th /\ n.known = roots /\ n.view = v /\ v.fault = NoID
      /\ n.chats = ReplayChats(sl, th, roots \cap inView, c.chats.attempts)
  BY DEF Updated
<1>2. /\ DOMAIN v.occ = al /\ HasRecords(v, sl, th, al) /\ OnlyRecords(v, sl, th, al)
      /\ KeepsAttempts(v, sl, al, c.view.pending)
  <2>1. al \in SUBSET Alert
    OBVIOUS
  <2>2. v.fault = NoID
    BY <1>1
  <2> HIDE DEF al
  <2> QED BY <2>1, <2>2, ReplayFacts
<1> HIDE DEF v
<1>3. /\ n.chats.asked = {sl[ts].id : ts \in {u \in chats : sl[u].readable}}
      /\ n.chats.issues = {sl[ts].thread : ts \in {u \in chats : ~sl[u].readable}}
      /\ n.chats.attempts = {p \in c.chats.attempts : p.id \notin n.chats.asked}
  BY <1>1 DEF ReplayChats
<1>4. \A ts \in chats : /\ ts \in DOMAIN sl /\ sl[ts].type = "chat"
                        /\ \E t \in roots \cap inView : ts \in th[t] /\ sl[ts].thread = t
  BY DEF Threaded
<1>5. \A t \in roots \cap inView : \A ts \in th[t] : sl[ts].type = "chat" =>
        ts \in chats /\ sl[ts].thread = t
  BY DEF Threaded
<1> HIDE DEF chats, al
<1>6. \A id \in n.chats.asked : Found(id, sl, th, roots)
  BY <1>3, <1>4 DEF Found
<1>7. ShowsChats(n, sl, inView)
  <2>1. SUFFICES ASSUME NEW t \in n.known \cap inView, NEW ts \in n.threads[t],
                        sl[ts].type = "chat"
                 PROVE  IF sl[ts].readable THEN sl[ts].id \in n.chats.asked
                        ELSE t \in n.chats.issues
    BY DEF ShowsChats
  <2>2. ts \in chats /\ sl[ts].thread = t
    BY <1>1, <1>5, <2>1
  <2>3. CASE sl[ts].readable
    BY <1>3, <2>2, <2>3
  <2>4. CASE ~sl[ts].readable
    BY <1>3, <2>2, <2>4
  <2> QED BY <2>3, <2>4
<1>8. Shows(n, sl)
  <2>1. n.view.fault = NoID /\ n.known \subseteq Threads /\ DOMAIN n.view.occ \subseteq n.known \cap Alert
    BY <1>1, <1>2 DEF al
  <2>2. HasRecords(n.view, sl, n.threads, n.known \cap Alert)
    BY <1>1, <1>2 DEF al
  <2> QED BY <1>1, <1>6, <2>1, <2>2 DEF Shows
<1>9. KeepsQuestions(n, c.chats.attempts, sl)
  BY <1>1, <1>3, <1>6 DEF KeepsQuestions
<1> QED BY <1>1, <1>2, <1>7, <1>8, <1>9 DEF al
-----------------------------------------------------------------------------
(* Messages and requests.                                                    *)

\* A message with the identifier of a request is its post.
LEMMA MessageFacts ==
  ASSUME NEW requests, Requests(requests), NEW q \in requests,
         NEW m, Fine(m, requests), m.id = q.id
  PROVE  PostOf(m, q)
<1>1. q.id # NoID
  BY RequestAssumption DEF Requests, FineRequest, NoID
<1>2. PICK s \in requests : PostOf(m, s)
  BY <1>1 DEF Fine
<1>3. s = q
  BY <1>2 DEF PostOf, Requests
<1> QED BY <1>2, <1>3

LEMMA RequestFacts ==
  ASSUME Requests(asked), NEW q \in asked
  PROVE  Request(q.id) = q
<1>1. \A s \in asked : s.id = q.id => s = q
  BY DEF Requests
<1> QED BY <1>1 DEF Request

LEMMA MoreRequests ==
  ASSUME NEW some, NEW requests, some \subseteq requests
  PROVE  /\ \A m : Fine(m, some) => Fine(m, requests)
         /\ \A sl : Archive(sl, some) => Archive(sl, requests)
<1>1. \A m : Fine(m, some) => Fine(m, requests)
  BY DEF Fine
<1> QED BY <1>1 DEF Archive

LEMMA AppendFacts ==
  ASSUME NEW requests, NEW sl, Archive(sl, requests), NEW m, Fine(m, requests)
  PROVE  LET n == Append(sl, m) IN
         /\ Archive(n, requests)
         /\ DOMAIN n = DOMAIN sl \cup {Len(n)} /\ Len(n) \notin DOMAIN sl
         /\ n[Len(n)] = m /\ \A ts \in DOMAIN sl : n[ts] = sl[ts]
<1> DEFINE n == Append(sl, m)
           S == {sl[ts] : ts \in DOMAIN sl}
<1>1. sl \in Seq(S)
  BY DEF Archive, IsArchive
<1> HIDE DEF S
<1>2. /\ n \in Seq(S \cup {m}) /\ Len(n) = Len(sl) + 1 /\ Len(sl) \in Nat
      /\ DOMAIN sl = 1..Len(sl) /\ DOMAIN n = 1..Len(n)
      /\ n[Len(n)] = m /\ \A ts \in 1..Len(sl) : n[ts] = sl[ts]
  <2>1. sl \in Seq(S \cup {m})
    BY <1>1
  <2> QED BY <1>1, <2>1
<1> HIDE DEF n
<1>3. DOMAIN n = DOMAIN sl \cup {Len(n)} /\ Len(n) \notin DOMAIN sl
  BY <1>2
<1>4. \A ts \in DOMAIN sl : n[ts] = sl[ts]
  BY <1>2
<1>5. \A ts \in DOMAIN n : Fine(n[ts], requests)
  BY <1>2, <1>3, <1>4 DEF Archive
<1>6. S \cup {m} = {n[ts] : ts \in DOMAIN n}
  BY <1>2, <1>3, <1>4 DEF S
<1>7. Archive(n, requests)
  BY <1>2, <1>5, <1>6 DEF Archive, IsArchive
<1> QED BY <1>2, <1>3, <1>4, <1>7 DEF n

\* What arrives comes after what is there, and once.
LEMMA ArrivalFacts ==
  ASSUME NEW requests, NEW sl, Archive(sl, requests),
         NEW posts, IsFiniteSet(posts), \A m \in posts : Fine(m, requests),
         NEW late \in Arrivals(posts)
  PROVE  LET n == sl \o late
             new == DOMAIN n \ DOMAIN sl IN
         /\ Archive(n, requests)
         /\ DOMAIN sl \subseteq DOMAIN n /\ \A ts \in DOMAIN sl : n[ts] = sl[ts]
         /\ \A ts \in new : n[ts] \in posts
         /\ \A ts, us \in new : n[ts] = n[us] => ts = us
<1> DEFINE n == sl \o late
           S == {sl[ts] : ts \in DOMAIN sl}
<1>1. sl \in Seq(S) /\ DOMAIN sl = 1..Len(sl) /\ Len(sl) \in Nat
  BY DEF Archive, IsArchive
<1>2. /\ late \in Seq(posts) /\ DOMAIN late = 1..Len(late) /\ Len(late) \in Nat
      /\ \A i, j \in DOMAIN late : late[i] = late[j] => i = j
  <2>1. Cardinality(posts) \in Nat
    BY FS_CardinalityType
  <2>2. PICK k \in 0..Cardinality(posts) : late \in [1..k -> posts]
    BY DEF Arrivals
  <2>3. k \in Nat
    BY <2>1, <2>2
  <2>4. late \in Seq(posts)
    BY <2>2, <2>3
  <2> QED BY <2>4 DEF Arrivals
<1> HIDE DEF S
<1>3. /\ n \in Seq(S \cup posts) /\ Len(n) = Len(sl) + Len(late) /\ DOMAIN n = 1..Len(n)
      /\ \A ts \in 1..Len(n) : n[ts] = IF ts <= Len(sl) THEN sl[ts] ELSE late[ts - Len(sl)]
  <2>1. sl \in Seq(S \cup posts) /\ late \in Seq(S \cup posts)
    BY <1>1, <1>2
  <2> QED BY <1>1, <1>2, <2>1
<1> HIDE DEF n
<1>4. DOMAIN sl \subseteq DOMAIN n /\ \A ts \in DOMAIN sl : n[ts] = sl[ts]
  BY <1>1, <1>2, <1>3
<1>5. \A ts \in DOMAIN n \ DOMAIN sl : /\ ts - Len(sl) \in DOMAIN late /\ ts \in Nat
                                      /\ n[ts] = late[ts - Len(sl)]
  BY <1>1, <1>2, <1>3
<1>6. \A ts \in DOMAIN n \ DOMAIN sl : n[ts] \in posts
  BY <1>2, <1>5
<1>7. \A ts, us \in DOMAIN n \ DOMAIN sl : n[ts] = n[us] => ts = us
  <2> TAKE ts, us \in DOMAIN n \ DOMAIN sl
  <2>1. n[ts] = n[us] => ts - Len(sl) = us - Len(sl)
    BY <1>2, <1>5
  <2> QED BY <1>1, <1>5, <2>1
<1>8. \A ts \in DOMAIN n : Fine(n[ts], requests)
  BY <1>4, <1>6 DEF Archive
<1>9. n \in Seq({n[ts] : ts \in DOMAIN n})
  BY <1>3
<1>10. Archive(n, requests)
  BY <1>8, <1>9 DEF Archive, IsArchive
<1> QED BY <1>4, <1>6, <1>7, <1>10 DEF n
-----------------------------------------------------------------------------
(* What a step keeps of what is known of a request.                          *)

\* Messages are added to Slack and requests are made; none is taken back.
Grown ==
  /\ asked \subseteq asked' /\ Requests(asked') /\ Archive(slack', asked')
  /\ DOMAIN slack \subseteq DOMAIN slack' /\ \A ts \in DOMAIN slack : slack'[ts] = slack[ts]

\* No message of this request was added.
Quiet(q) == \A ts \in DOMAIN slack' \ DOMAIN slack : slack'[ts].id # q.id

KeepsSeen == \A ts \in DOMAIN slack : Seen(ts) => Seen(ts)'

\* The guard of a request goes only with what made it unnecessary.
KeepsGuard(q) ==
  Guarded(q) => \/ Guarded(q)'
                \/ q.type = "action" /\ (Reinvestigates(q)' \/ Recorded(q.id)' # {})
                \/ q.type = "chat" /\ \E ts \in Recorded(q.id)' : Seen(ts)'

LEMMA ReinvestigatesKept ==
  ASSUME Grown, NEW q, Reinvestigates(q)
  PROVE  Reinvestigates(q)'
<1>1. PICK ts \in DOMAIN slack : \E r \in slack[ts].rec :
        r.kind = "investigate" /\ r.alert = q.alert /\ r.id # q.id
  BY DEF Reinvestigates
<1>2. ts \in DOMAIN slack' /\ slack'[ts] = slack[ts]
  BY DEF Grown
<1>3. q.kind = "investigate"
  BY DEF Reinvestigates
<1> QED BY <1>1, <1>2, <1>3 DEF Reinvestigates

LEMMA RecordedKept ==
  ASSUME Grown, NEW q
  PROVE  /\ Recorded(q.id) \subseteq Recorded(q.id)'
         /\ Quiet(q) => Recorded(q.id)' = Recorded(q.id)
BY DEF Grown, Quiet, Recorded

\* Questions are not repeated at all.
LEMMA ChatOnce ==
  ASSUME Inv, NEW q \in asked, q.type = "chat"
  PROVE  Once(q)
<1>1. q.kind = "chat"
  BY DEF Inv, Formed, Requests, FineRequest
<1> QED BY <1>1 DEF Inv, Posts, Reinvestigates

LEMMA OnceKept ==
  ASSUME Inv, NEW q \in asked, Grown, Quiet(q), KeepsGuard(q),
         \A m \in flight' : m.id = q.id => m \in flight,
         holder'.pc = "posting" /\ holder'.id = q.id => holder.pc = "posting" /\ holder.id = q.id
  PROVE  Reinvestigates(q)' \/ Once(q)'
<1>1. CASE Reinvestigates(q)
  BY <1>1, ReinvestigatesKept
<1>2. CASE Once(q)
  <2>1. Recorded(q.id)' = Recorded(q.id)
    BY RecordedKept
  <2>2. \A ts, us \in Recorded(q.id)' : ts = us
    BY <1>2, <2>1 DEF Once
  <2>3. holder'.pc = "posting" /\ holder'.id = q.id =>
          Recorded(q.id)' = {} /\ \A m \in flight' : m.id # q.id
    BY <1>2, <2>1 DEF Once
  <2>4. ASSUME NEW m \in flight', m.id = q.id, ~Reinvestigates(q)'
        PROVE  Recorded(q.id)' = {} /\ Guarded(q)' /\ \A n \in flight' : n.id = q.id => n = m
    <3>1. /\ m \in flight /\ Recorded(q.id) = {} /\ Guarded(q)
          /\ \A n \in flight : n.id = q.id => n = m
      BY <1>2, <2>4 DEF Once
    <3>2. Guarded(q)'
      BY <2>1, <2>4, <3>1 DEF KeepsGuard
    <3> QED BY <2>1, <3>1, <3>2
  <2> QED BY <2>2, <2>3, <2>4 DEF Once
<1> QED BY <1>1, <1>2 DEF Inv, Posts

LEMMA AskingKept ==
  ASSUME Inv, NEW q \in asked, Grown, Quiet(q), KeepsGuard(q), KeepsSeen,
         Retained' \subseteq Retained
  PROVE  Asking(q)'
<1>1. SUFFICES ASSUME q.type = "chat", NEW ts \in Recorded(q.id)',
                      ~Guarded(q)', q.alert \notin Alert \ Retained'
               PROVE  Seen(ts)'
  BY DEF Asking
<1>2. ts \in Recorded(q.id) /\ ts \in DOMAIN slack
  BY <1>1, RecordedKept DEF Recorded
<1>3. Guarded(q) \/ Seen(ts)
  BY <1>1, <1>2 DEF Inv, Posts, Asking
<1>4. CASE Seen(ts)
  BY <1>2, <1>4 DEF KeepsSeen
<1>5. CASE Guarded(q)
  <2>1. PICK us \in Recorded(q.id)' : Seen(us)'
    BY <1>1, <1>5 DEF KeepsGuard
  <2>2. us = ts
    BY <1>1, <1>2, <2>1, ChatOnce, RecordedKept DEF Once
  <2> QED BY <2>1, <2>2
<1> QED BY <1>3, <1>4, <1>5

LEMMA AnsweredKept ==
  ASSUME Inv, NEW q \in asked, Grown, KeepsSeen, q.id \in told' => q.id \in told
  PROVE  Answered(q)'
<1>1. SUFFICES ASSUME q.id \in told'
               PROVE  \E ts \in Recorded(q.id)' : Seen(ts)' /\ (q.type = "chat" => slack'[ts].readable)
  BY DEF Answered
<1>2. PICK ts \in Recorded(q.id) : Seen(ts) /\ (q.type = "chat" => slack[ts].readable)
  BY <1>1 DEF Inv, Posts, Answered
<1>3. ts \in DOMAIN slack /\ ts \in Recorded(q.id)' /\ slack'[ts] = slack[ts]
  BY <1>2, RecordedKept DEF Recorded, Grown
<1> QED BY <1>2, <1>3 DEF KeepsSeen

\* A request that a step does not concern.
LEMMA RequestKept ==
  ASSUME Inv, NEW q \in asked, Grown, Quiet(q), KeepsGuard(q), KeepsSeen,
         Retained' \subseteq Retained,
         \A m \in flight' : m.id = q.id => m \in flight,
         holder'.pc = "posting" /\ holder'.id = q.id => holder.pc = "posting" /\ holder.id = q.id,
         q.id \in told' => q.id \in told
  PROVE  ((Reinvestigates(q) \/ Once(q)) /\ Asking(q) /\ Answered(q))'
BY OnceKept, AskingKept, AnsweredKept

\* A replay takes away only the guards of requests that it found.
LEMMA RefreshKeepsGuard ==
  ASSUME Inv, NEW q \in asked, Grown, age' = age, holder'.pc # "sync",
         NEW th, Threaded(th, slack'), NEW roots, roots \subseteq Threads, NEW d,
         Updated(cache', cache, slack', th, roots, Retained \cup RequestIDs, d),
         cache'.view.fault = NoID, cache.known \cap Padded \subseteq roots
  PROVE  KeepsGuard(q)
<1>1. SUFFICES ASSUME Guarded(q), ~Guarded(q)'
               PROVE  \/ q.type = "action" /\ (Reinvestigates(q)' \/ Recorded(q.id)' # {})
                      \/ q.type = "chat" /\ \E ts \in Recorded(q.id)' : Seen(ts)'
  BY DEF KeepsGuard
<1>2. /\ KeepsAttempts(cache'.view, slack', roots \cap Alert, cache.view.pending)
      /\ KeepsQuestions(cache', cache.chats.attempts, slack')
      /\ cache'.known = roots /\ cache'.threads = th
  <2>1. Requests(asked') /\ Archive(slack', asked')
    BY DEF Grown
  <2> QED BY <2>1, UpdatedFacts DEF Updated
<1>3. Padded' = Padded
  BY DEF Padded
<1>4. FineRequest(q)
  BY DEF Inv, Formed, Requests
<1>5. CASE q.type = "action"
  <2>1. q.alert \in Alert /\ q.alert \in Padded /\ q.alert \in cache.known /\ q.alert \in roots
    BY <1>1, <1>3, <1>4, <1>5 DEF Guarded, FineRequest
  <2>2. PICK p \in cache.view.pending :
          p.id = q.id /\ p.alert = q.alert /\ p.kind = q.kind /\ p.status = "uncertain"
    BY <1>1, <1>5, <2>1 DEF Guarded
  <2>3. p \notin cache'.view.pending
    BY <1>1, <1>2, <1>5, <2>1, <2>2 DEF Guarded
  <2>4. Spent(p, slack')
    BY <1>2, <2>1, <2>2, <2>3 DEF KeepsAttempts
  <2>5. PICK ts \in DOMAIN slack' :
          /\ slack'[ts].type = "action"
          /\ \/ slack'[ts].id = q.id
             \/ q.kind = "investigate" /\
                \E r \in slack'[ts].rec : r.kind = "investigate" /\ r.alert = q.alert
    BY <2>2, <2>4 DEF Spent
  <2>6. CASE slack'[ts].id = q.id
    BY <1>5, <2>6 DEF Recorded
  <2>7. CASE q.kind = "investigate" /\
             \E r \in slack'[ts].rec : r.kind = "investigate" /\ r.alert = q.alert
    <3>1. PICK r \in slack'[ts].rec : r.kind = "investigate" /\ r.alert = q.alert
      BY <2>7
    <3>2. slack'[ts].rec = {RecordAt(slack', ts)} /\ RecordAt(slack', ts).id = slack'[ts].id
      BY <2>5, ArchiveFacts DEF Grown
    <3>3. r.id = slack'[ts].id
      BY <3>1, <3>2
    <3>4. CASE r.id = q.id
      BY <1>5, <3>3, <3>4 DEF Recorded
    <3>5. CASE r.id # q.id
      BY <1>5, <2>7, <3>1, <3>5 DEF Reinvestigates
    <3> QED BY <3>4, <3>5
  <2> QED BY <2>5, <2>6, <2>7
<1>6. CASE q.type = "chat"
  <2>1. PICK p \in cache.chats.attempts : p.id = q.id /\ p.status = "uncertain"
    BY <1>1, <1>6 DEF Guarded
  <2>2. p \notin cache'.chats.attempts
    BY <1>1, <1>6, <2>1 DEF Guarded
  <2>3. Found(q.id, slack', th, roots)
    BY <1>2, <2>1, <2>2 DEF KeepsQuestions
  <2>4. PICK t \in roots : \E ts \in th[t] :
          ts \in DOMAIN slack' /\ slack'[ts].thread = t /\ slack'[ts].id = q.id
    BY <2>3 DEF Found
  <2>5. PICK ts \in th[t] :
          ts \in DOMAIN slack' /\ slack'[ts].thread = t /\ slack'[ts].id = q.id
    BY <2>4
  <2>6. ts \in Recorded(q.id)' /\ Seen(ts)'
    BY <1>2, <2>4, <2>5 DEF Recorded, Seen
  <2> QED BY <1>6, <2>6
<1> QED BY <1>4, <1>5, <1>6 DEF FineRequest
-----------------------------------------------------------------------------
(* What a step keeps of the variables' shapes and of what the cache shows.   *)

LEMMA TypeFacts ==
  ASSUME Inv, disabled \in BOOLEAN
  PROVE  TypeOK
<1>1. /\ \A q \in asked : q.id \in RequestIDs /\ q.alert \in Threads
      /\ Archive(slack, asked)
  BY DEF Inv, Formed, Requests, FineRequest, Threads
<1>2. \A m : Fine(m, asked) => /\ m.thread \in Threads /\ m.id \in RequestIDs \cup {NoID}
                               /\ m.type # "chai" => m.id \in RequestIDs
  BY <1>1 DEF Fine, PostOf
<1>3. \A ts \in DOMAIN slack : slack[ts].thread \in Threads /\ slack[ts].id \in RequestIDs \cup {NoID}
  BY <1>1, <1>2 DEF Archive
<1>4. \A m \in flight : m.id \in RequestIDs
  BY <1>2 DEF Inv, Formed
<1>5. told \subseteq RequestIDs
  BY <1>1 DEF Inv, Formed
<1>6. \A t \in Threads : cache.threads[t] \subseteq InThread(t)
  BY DEF Inv, Shows, Threaded, InThread
<1>7. DOMAIN cache.view.occ \subseteq Alert /\ cache.view.fault = NoID /\ cache.known \subseteq Threads
  BY DEF Inv, Shows
<1>8. holder.pc = "posting" <=> holder.rec # {}
  BY DEF Inv, Formed
<1> QED BY <1>3, <1>4, <1>5, <1>6, <1>7, <1>8 DEF Inv, Typed, TypeOK

LEMMA GrownSame ==
  ASSUME Inv, slack' = slack, asked' = asked
  PROVE  Grown /\ \A q : Quiet(q)
BY DEF Inv, Formed, Grown, Quiet

LEMMA GrownAppend ==
  ASSUME Inv, asked' = asked, NEW m, Fine(m, asked), slack' = Append(slack, m)
  PROVE  /\ Grown /\ \A q : q.id # m.id => Quiet(q)
         /\ Len(slack') \in DOMAIN slack' /\ slack'[Len(slack')] = m
         /\ \A id : m.id = id => Recorded(id)' = Recorded(id) \cup {Len(slack')}
<1>1. Archive(slack, asked) /\ Requests(asked)
  BY DEF Inv, Formed
<1>2. /\ Archive(slack', asked)
      /\ DOMAIN slack' = DOMAIN slack \cup {Len(slack')} /\ Len(slack') \notin DOMAIN slack
      /\ slack'[Len(slack')] = m /\ \A ts \in DOMAIN slack : slack'[ts] = slack[ts]
  BY <1>1, AppendFacts
<1> QED BY <1>1, <1>2 DEF Grown, Quiet, Recorded

\* Of the cache, everything but what is unconfirmed.
SameShown(n, c) ==
  /\ n.threads = c.threads /\ n.known = c.known
  /\ n.view.occ = c.view.occ /\ n.view.records = c.view.records /\ n.view.fault = c.view.fault
  /\ n.chats.asked = c.chats.asked /\ n.chats.issues = c.chats.issues

LEMMA ShownKept ==
  ASSUME Inv, Grown, SameShown(cache', cache), Retained' \subseteq Retained
  PROVE  Shows(cache', slack') /\ ShowsChats(cache', slack', Retained' \cup RequestIDs)
<1>1. /\ Shows(cache, slack) /\ ShowsChats(cache, slack, Retained \cup RequestIDs)
      /\ cache.known \subseteq Threads
  BY DEF Inv, Shows
<1>2. \A t \in Threads : \A ts \in cache.threads[t] :
        /\ ts \in DOMAIN slack /\ slack[ts].thread = t
        /\ ts \in DOMAIN slack' /\ slack'[ts] = slack[ts]
  BY <1>1 DEF Shows, Threaded, Grown
<1>3. Threaded(cache'.threads, slack')
  BY <1>2 DEF Threaded, SameShown
<1>4. HasRecords(cache'.view, slack', cache'.threads, cache'.known \cap Alert)
  BY <1>1, <1>2 DEF HasRecords, SameShown, Shows
<1>5. \A id \in cache'.chats.asked : Found(id, slack', cache'.threads, cache'.known)
  BY <1>1, <1>2 DEF Found, SameShown, Shows
<1>6. ShowsChats(cache', slack', Retained' \cup RequestIDs)
  BY <1>1, <1>2 DEF ShowsChats, SameShown
<1>7. /\ cache'.view.fault = NoID /\ cache'.known \subseteq Threads
      /\ DOMAIN cache'.view.occ \subseteq cache'.known \cap Alert
  BY <1>1 DEF SameShown, Shows
<1> QED BY <1>3, <1>4, <1>5, <1>6, <1>7 DEF Shows

LEMMA DegradedFacts ==
  ASSUME NEW c, IsCache(c)
  PROVE  LET n == Degraded(c) IN
         /\ IsCache(n) /\ n.phase \in {"degraded", "catching_up"}
         /\ n.threads = c.threads /\ n.known = c.known
         /\ n.view = c.view /\ n.chats = c.chats
BY DEF Degraded, IsCache

LEMMA AttemptedFacts ==
  ASSUME NEW c, IsCache(c), NEW q, NEW status
  PROVE  LET n == Attempted(c, q, status) IN
         /\ IsCache(n) /\ n.phase = c.phase /\ SameShown(n, c)
         /\ IF q.type = "chat"
            THEN /\ n.view = c.view
                 /\ n.chats.attempts = {p \in c.chats.attempts : p.id # q.id} \cup
                      {[id |-> q.id, thread |-> q.alert, status |-> status]}
            ELSE /\ n.chats = c.chats
                 /\ n.view.pending = {p \in c.view.pending : p.id # q.id} \cup
                      {[id |-> q.id, alert |-> q.alert, kind |-> q.kind, scope |-> q.scope,
                        status |-> status]}
<1> DEFINE n == Attempted(c, q, status)
           chats == {p \in c.chats.attempts : p.id # q.id} \cup
                      {[id |-> q.id, thread |-> q.alert, status |-> status]}
           acts == {p \in c.view.pending : p.id # q.id} \cup
                      {[id |-> q.id, alert |-> q.alert, kind |-> q.kind, scope |-> q.scope,
                        status |-> status]}
<1>1. n = IF q.type = "chat" THEN [c EXCEPT !.chats.attempts = chats]
          ELSE [c EXCEPT !.view.pending = acts]
  BY DEF Attempted
<1> HIDE DEF n, chats, acts
<1>2. CASE q.type = "chat"
  <2>1. IsCache(n) /\ n.phase = c.phase /\ n.view = c.view /\ n.threads = c.threads /\ n.known = c.known
    BY <1>1, <1>2 DEF IsCache
  <2>2. n.chats.attempts = chats /\ n.chats.asked = c.chats.asked /\ n.chats.issues = c.chats.issues
    BY <1>1, <1>2 DEF IsCache
  <2> QED BY <1>2, <2>1, <2>2 DEF SameShown, n, chats
<1>3. CASE q.type # "chat"
  <2>1. /\ n.phase = c.phase /\ n.chats = c.chats /\ n.threads = c.threads /\ n.known = c.known
        /\ n.view = [c.view EXCEPT !.pending = acts]
        /\ n = [phase |-> n.phase, synced |-> n.synced, threads |-> n.threads, meta |-> n.meta,
                known |-> n.known, view |-> n.view, chats |-> n.chats]
    BY <1>1, <1>3 DEF IsCache
  <2>2. /\ IsView(n.view) /\ n.view.pending = acts /\ n.view.occ = c.view.occ
        /\ n.view.records = c.view.records /\ n.view.fault = c.view.fault
    BY <2>1 DEF IsCache, IsView
  <2>3. IsCache(n)
    BY <2>1, <2>2 DEF IsCache
  <2> QED BY <1>3, <2>1, <2>2, <2>3 DEF SameShown, n, acts
<1> QED BY <1>2, <1>3

\* An attempt of one request leaves the guards of the others.
LEMMA AttemptKeepsGuard ==
  ASSUME Inv, age' = age, NEW r \in asked, NEW q \in asked, q # r, NEW status,
         cache'.view = Attempted(cache, r, status).view,
         cache'.chats = Attempted(cache, r, status).chats,
         cache'.known = cache.known
  PROVE  KeepsGuard(q)
<1> DEFINE n == Attempted(cache, r, status)
<1>1. IsCache(cache) /\ q.id # r.id
  BY DEF Inv, Formed, Requests
<1>2. /\ SameShown(n, cache)
      /\ IF r.type = "chat"
         THEN n.view = cache.view /\ \A p \in cache.chats.attempts : p.id # r.id => p \in n.chats.attempts
         ELSE n.chats = cache.chats /\ \A p \in cache.view.pending : p.id # r.id => p \in n.view.pending
  BY <1>1, AttemptedFacts
<1> HIDE DEF n
<1>3. /\ cache'.view = n.view /\ cache'.chats = n.chats /\ Padded' = Padded
  BY DEF n, Padded
<1>4. \A p \in cache.chats.attempts : p.id = q.id => p \in cache'.chats.attempts
  BY <1>1, <1>2, <1>3
<1>5. \A p \in cache.view.pending : p.id = q.id => p \in cache'.view.pending
  BY <1>1, <1>2, <1>3
<1> QED BY <1>3, <1>4, <1>5 DEF KeepsGuard, Guarded

\* An uncertain attempt is a guard.
LEMMA AttemptGuards ==
  ASSUME Inv, NEW r \in asked, r.alert \in Alert => r.alert \in cache.known,
         cache'.view = Attempted(cache, r, "uncertain").view,
         cache'.chats = Attempted(cache, r, "uncertain").chats,
         cache'.known = cache.known
  PROVE  Guarded(r)'
<1> DEFINE n == Attempted(cache, r, "uncertain")
<1>1. IsCache(cache) /\ FineRequest(r)
  BY DEF Inv, Formed, Requests
<1>2. IF r.type = "chat"
      THEN [id |-> r.id, thread |-> r.alert, status |-> "uncertain"] \in n.chats.attempts
      ELSE [id |-> r.id, alert |-> r.alert, kind |-> r.kind, scope |-> r.scope,
            status |-> "uncertain"] \in n.view.pending
  BY <1>1, AttemptedFacts
<1> HIDE DEF n
<1>3. cache'.view = n.view /\ cache'.chats = n.chats
  BY DEF n
<1>4. CASE r.type = "chat"
  BY <1>2, <1>3, <1>4 DEF Guarded
<1>5. CASE r.type # "chat"
  <2>1. r.alert \in cache'.known
    BY <1>1, <1>5 DEF FineRequest
  <2> QED BY <1>2, <1>3, <1>5, <2>1 DEF Guarded
<1> QED BY <1>4, <1>5

\* A free token, or one held for something else than a post.
LEMMA HolderFacts ==
  /\ IsHolder(Idle) /\ Idle.rec = {} /\ Idle.pc = "free"
  /\ \A pc : LET h == [Idle EXCEPT !.pc = pc] IN IsHolder(h) /\ h.rec = {} /\ h.pc = pc
BY DEF Idle, IsHolder

LEMMA FormedKept ==
  ASSUME Inv, Grown, flight' \subseteq flight, IsCache(cache'),
         told' \subseteq told, asked' = asked,
         \/ IsHolder(holder') /\ holder'.pc # "posting" /\ holder'.rec = {}
         \/ holder' = holder /\ cache'.known = cache.known
  PROVE  Formed'
<1>1. Formed
  BY DEF Inv
<1>2. IsFiniteSet(flight')
  BY <1>1, FS_Subset DEF Formed
<1> QED BY <1>1, <1>2 DEF Formed, Grown
-----------------------------------------------------------------------------
(* Steps that neither write to Slack nor read it.                            *)

LEMMA SeenKept ==
  ASSUME Inv, Grown, cache'.known = cache.known, cache'.threads = cache.threads,
         Padded' \subseteq Padded, cache'.phase = "ready" => cache.phase = "ready",
         holder'.pc = "sync" => holder.pc = "sync" /\ holder'.counts = holder.counts
  PROVE  KeepsSeen
BY DEF KeepsSeen, Seen, Grown

LEMMA GuardKept ==
  ASSUME cache'.known = cache.known, cache'.view = cache.view, cache'.chats = cache.chats,
         Padded' \subseteq Padded, NEW q
  PROVE  KeepsGuard(q)
BY DEF KeepsGuard, Guarded

\* The cache keeps what it shows, and nothing is posted.
LEMMA QuietStep ==
  ASSUME Inv, Typed', slack' = slack, asked' = asked, flight' = flight, told' = told,
         IsCache(cache'), cache'.known = cache.known, cache'.threads = cache.threads,
         cache'.view = cache.view, cache'.chats = cache.chats,
         Padded' \subseteq Padded, Retained' \subseteq Retained, KeepsSeen,
         \/ IsHolder(holder') /\ holder'.pc # "posting" /\ holder'.rec = {}
         \/ holder' = holder
  PROVE  Inv'
<1>1. Grown /\ \A q : Quiet(q)
  BY GrownSame
<1>2. Formed'
  BY <1>1, FormedKept
<1>3. Shows(cache', slack') /\ ShowsChats(cache', slack', Retained' \cup RequestIDs)
  BY <1>1, ShownKept DEF SameShown
<1>4. ASSUME NEW q \in asked
      PROVE  ((Reinvestigates(q) \/ Once(q)) /\ Asking(q) /\ Answered(q))'
  <2>1. KeepsGuard(q)
    BY GuardKept
  <2> QED BY <1>1, <2>1, RequestKept
<1>5. Posts'
  BY <1>4 DEF Posts
<1> QED BY <1>2, <1>3, <1>5 DEF Inv

LEMMA NewRequest ==
  ASSUME Inv, NEW q, FineRequest(q), \A s \in asked : s.id # q.id, asked' = asked \cup {q},
         UNCHANGED <<world, told, cache, remembered, holder>>
  PROVE  Inv'
<1>1. /\ slack' = slack /\ flight' = flight /\ icons' = icons /\ day' = day /\ age' = age
      /\ told' = told /\ cache' = cache /\ remembered' = remembered /\ holder' = holder
  BY DEF world
<1>2. Requests(asked')
  BY DEF Inv, Formed, Requests
<1>3. Archive(slack, asked') /\ \A m : Fine(m, asked) => Fine(m, asked')
  BY MoreRequests DEF Inv, Formed
<1>4. Grown /\ \A s : Quiet(s)
  BY <1>1, <1>2, <1>3 DEF Grown, Quiet
<1>5. Padded' = Padded /\ Retained' = Retained
  BY <1>1 DEF Padded, Retained
<1>6. Typed'
  BY <1>1 DEF Inv, Typed
<1>7. Formed'
  <2>1. told' \subseteq {s.id : s \in asked'}
    BY <1>1 DEF Inv, Formed
  <2>2. holder'.pc = "posting" =>
          \E s \in asked' : \E m \in holder'.rec :
             /\ holder'.rec = {m} /\ holder'.id = s.id
             /\ Fine(m, asked') /\ PostOf(m, s) /\ m.readable
             /\ m.thread \in Alert \/ m.thread # m.id => m.thread \in cache'.known
    BY <1>1, <1>3 DEF Inv, Formed
  <2>3. \A m \in flight' : Fine(m, asked') /\ m.type # "chai"
    BY <1>1, <1>3 DEF Inv, Formed
  <2>4. /\ IsFiniteSet(flight') /\ IsCache(cache') /\ IsHolder(holder')
        /\ holder'.pc # "posting" => holder'.rec = {}
    BY <1>1 DEF Inv, Formed
  <2> QED BY <1>1, <1>2, <1>3, <2>1, <2>2, <2>3, <2>4 DEF Formed
<1>8. Shows(cache', slack') /\ ShowsChats(cache', slack', Retained' \cup RequestIDs)
  BY <1>4, <1>5, <1>1, ShownKept DEF SameShown
<1>9. KeepsSeen
  BY <1>1, <1>4, <1>5, SeenKept
<1>10. ASSUME NEW s \in asked
       PROVE  ((Reinvestigates(s) \/ Once(s)) /\ Asking(s) /\ Answered(s))'
  <2>1. KeepsGuard(s)
    BY <1>1, <1>5, GuardKept
  <2> QED BY <1>1, <1>4, <1>5, <1>9, <2>1, RequestKept
<1>11. Once(q)' /\ Asking(q)' /\ Answered(q)'
  <2>1. q.id # NoID
    BY RequestAssumption DEF FineRequest, NoID
  <2>2. \A m : Fine(m, asked) => m.id # q.id
    BY <2>1 DEF Fine, PostOf
  <2>3. Recorded(q.id)' = {}
    BY <1>1, <2>2 DEF Recorded, Inv, Formed, Archive
  <2>4. \A m \in flight' : m.id # q.id
    BY <1>1, <2>2 DEF Inv, Formed
  <2>5. q.id \notin told'
    BY <1>1 DEF Inv, Formed
  <2> QED BY <2>3, <2>4, <2>5 DEF Once, Asking, Answered
<1>12. Posts'
  BY <1>10, <1>11 DEF Posts
<1> QED BY <1>6, <1>7, <1>8, <1>12 DEF Inv

LEMMA AskStep ==
  ASSUME Inv, NEW id \in RequestIDs, NEW a \in Alert, NEW form \in Forms, Ask(id, a, form)
  PROVE  Inv'
<1> DEFINE q == [type |-> "action", id |-> id, alert |-> a, kind |-> form[1],
                 scope |-> form[2], expected |-> Effective(cache.view, a, day).rev]
<1>1. FineRequest(q) /\ q.id = id
  BY DEF FineRequest
<1>2. asked' = asked \cup {q} /\ FreshID(id) /\ UNCHANGED <<world, told, cache, remembered, holder>>
  BY DEF Ask
<1>3. \A s \in asked : s.id # id
  <2>1. id \notin {i \in RequestIDs : i < id}
    BY RequestAssumption
  <2>2. {s.id : s \in asked} = {i \in RequestIDs : i < id}
    BY <1>2 DEF FreshID
  <2> QED BY <2>1, <2>2
<1> HIDE DEF q
<1> QED BY <1>1, <1>2, <1>3, NewRequest

LEMMA AskChaiStep ==
  ASSUME Inv, NEW id \in RequestIDs, NEW t \in Threads, AskChai(id, t)
  PROVE  Inv'
<1> DEFINE q == [type |-> "chat", id |-> id, alert |-> t, kind |-> "chat",
                 scope |-> "", expected |-> <<0, NoID>>]
<1>1. FineRequest(q) /\ q.id = id
  BY DEF FineRequest
<1>2. asked' = asked \cup {q} /\ FreshID(id) /\ UNCHANGED <<world, told, cache, remembered, holder>>
  BY DEF AskChai
<1>3. \A s \in asked : s.id # id
  <2>1. id \notin {i \in RequestIDs : i < id}
    BY RequestAssumption
  <2>2. {s.id : s \in asked} = {i \in RequestIDs : i < id}
    BY <1>2 DEF FreshID
  <2> QED BY <2>1, <2>2
<1> HIDE DEF q
<1> QED BY <1>1, <1>2, <1>3, NewRequest

LEMMA ActStopsStep ==
  ASSUME Inv, NEW id \in RequestIDs, ActStops(id)
  PROVE  Inv'
<1>1. /\ cache' = Degraded(cache) /\ UNCHANGED <<world, asked, told, remembered, holder>>
  BY DEF ActStops
<1>2. /\ IsCache(cache') /\ cache'.phase \in {"degraded", "catching_up"}
      /\ cache'.threads = cache.threads /\ cache'.known = cache.known
      /\ cache'.view = cache.view /\ cache'.chats = cache.chats
  BY <1>1, DegradedFacts DEF Inv, Formed
<1>3. Padded' = Padded /\ Retained' = Retained
  BY <1>1 DEF world, Padded, Retained
<1>4. Typed'
  BY <1>1, <1>2 DEF Inv, Typed, world
<1>5. KeepsSeen
  BY <1>1, <1>2, <1>3, GrownSame, SeenKept DEF world
<1> QED BY <1>1, <1>2, <1>3, <1>4, <1>5, QuietStep DEF world

LEMMA SyncFailsStep ==
  ASSUME Inv, SyncFails
  PROVE  Inv'
<1>1. /\ cache' = Degraded(cache) /\ holder' = Idle /\ UNCHANGED <<world, asked, told, remembered>>
  BY DEF SyncFails
<1>2. /\ IsCache(cache') /\ cache'.phase \in {"degraded", "catching_up"}
      /\ cache'.threads = cache.threads /\ cache'.known = cache.known
      /\ cache'.view = cache.view /\ cache'.chats = cache.chats
  BY <1>1, DegradedFacts DEF Inv, Formed
<1>3. Padded' = Padded /\ Retained' = Retained
  BY <1>1 DEF world, Padded, Retained
<1>4. IsHolder(holder') /\ holder'.pc = "free" /\ holder'.rec = {}
  BY <1>1, HolderFacts
<1>5. Typed'
  BY <1>1, <1>2, <1>4 DEF Inv, Typed, world
<1>6. KeepsSeen
  BY <1>1, <1>2, <1>3, <1>4, GrownSame, SeenKept DEF world
<1> QED BY <1>1, <1>2, <1>3, <1>4, <1>5, <1>6, QuietStep DEF world

LEMMA SyncStartStep ==
  ASSUME Inv, SyncStart
  PROVE  Inv'
<1>1. /\ cache' = [cache EXCEPT !.phase = "catching_up"]
      /\ holder' = [Idle EXCEPT !.pc = "sync", !.counts = [t \in Threads |-> Meta(t)]]
      /\ UNCHANGED <<world, asked, told, remembered>>
  BY DEF SyncStart
<1>2. /\ IsCache(cache') /\ cache'.phase = "catching_up"
      /\ cache'.threads = cache.threads /\ cache'.known = cache.known
      /\ cache'.view = cache.view /\ cache'.chats = cache.chats
  BY <1>1 DEF Inv, Formed, IsCache
<1>3. Padded' = Padded /\ Retained' = Retained
  BY <1>1 DEF world, Padded, Retained
<1>4. /\ IsHolder(holder') /\ holder'.pc = "sync" /\ holder'.rec = {}
      /\ holder'.counts = [t \in Threads |-> Meta(t)]
  BY <1>1 DEF IsHolder, Idle
<1>5. Typed'
  BY <1>1, <1>2, <1>4 DEF Inv, Typed, world
<1>6. KeepsSeen
  <2>1. SUFFICES ASSUME NEW ts \in DOMAIN slack, Seen(ts) PROVE Seen(ts)'
    BY DEF KeepsSeen
  <2> DEFINE t == slack[ts].thread
  <2>2. t \in RequestIDs => holder'.counts[t][1] > 0
    <3>1. SUFFICES ASSUME t \in RequestIDs PROVE Cardinality(InThread(t)) > 0
      BY <1>4 DEF Meta, Threads
    <3>2. ts \in InThread(t) /\ InThread(t) \subseteq DOMAIN slack
      BY DEF InThread
    <3>3. IsFiniteSet(InThread(t))
      <4>1. Len(slack) \in Nat /\ DOMAIN slack = 1..Len(slack)
        BY ArchiveFacts DEF Inv, Formed
      <4>2. IsFiniteSet(DOMAIN slack)
        BY <4>1, FS_Interval
      <4> QED BY <3>2, <4>2, FS_Subset
    <3>4. Cardinality(InThread(t)) \in Nat /\ Cardinality(InThread(t)) # 0
      BY <3>2, <3>3, FS_CardinalityType, FS_EmptySet
    <3> QED BY <3>4
  <2>3. slack' = slack
    BY <1>1 DEF world
  <2> QED BY <1>2, <1>3, <2>1, <2>2, <2>3 DEF Seen
<1> QED BY <1>1, <1>2, <1>3, <1>4, <1>5, <1>6, QuietStep DEF world

LEMMA DecorateStep ==
  ASSUME Inv, NEW done, NEW confirmed, DecorateWith(done, confirmed)
  PROVE  Inv'
<1>1. /\ icons' = [a \in Alert |-> After(icons[a], a, done)]
      /\ remembered' = [a \in Alert |-> IF a \in Decorated THEN After(KnownIcons(a), a, confirmed)
                                        ELSE {"unknown"}]
      /\ holder' = Idle
      /\ UNCHANGED <<slack, flight, day, age, asked, told, cache>>
  BY DEF DecorateWith
<1>2. Padded' = Padded /\ Retained' = Retained
  BY <1>1 DEF Padded, Retained
<1>3. IsHolder(holder') /\ holder'.pc = "free" /\ holder'.rec = {}
  BY <1>1, HolderFacts
<1>4. \A a, shown, some : After(shown, a, some) \in SUBSET Emoji
  BY DEF After
<1>5. /\ icons' \in [Alert -> SUBSET Emoji]
      /\ remembered' \in [Alert -> (SUBSET Emoji) \cup {{"unknown"}}]
  <2>1. \A a \in Alert : After(icons[a], a, done) \in SUBSET Emoji
    BY <1>4
  <2>2. \A a \in Alert : After(KnownIcons(a), a, confirmed) \in (SUBSET Emoji) \cup {{"unknown"}}
    BY <1>4
  <2>3. icons' \in [Alert -> SUBSET Emoji]
    BY <1>1, <2>1
  <2>4. remembered' \in [Alert -> (SUBSET Emoji) \cup {{"unknown"}}]
    BY <1>1, <2>2
  <2> QED BY <2>3, <2>4
<1>6. Typed'
  BY <1>1, <1>3, <1>5 DEF Inv, Typed
<1>7. KeepsSeen
  BY <1>1, <1>2, <1>3, GrownSame, SeenKept
<1> QED BY <1>1, <1>2, <1>3, <1>6, <1>7, QuietStep DEF Inv, Formed

LEMMA DecorateSkipsStep ==
  ASSUME Inv, DecorateSkips
  PROVE  Inv'
<1>1. /\ remembered' = [a \in Alert |-> IF a \in Decorated THEN remembered[a] ELSE {"unknown"}]
      /\ holder' = Idle
      /\ UNCHANGED <<slack, flight, icons, day, age, asked, told, cache>>
  BY DEF DecorateSkips, world
<1>2. Padded' = Padded /\ Retained' = Retained
  BY <1>1 DEF Padded, Retained
<1>3. IsHolder(holder') /\ holder'.pc = "free" /\ holder'.rec = {}
  BY <1>1, HolderFacts
<1>4. Typed'
  BY <1>1, <1>3 DEF Inv, Typed
<1>5. KeepsSeen
  BY <1>1, <1>2, <1>3, GrownSame, SeenKept
<1> QED BY <1>1, <1>2, <1>3, <1>4, <1>5, QuietStep DEF Inv, Formed

LEMMA NextDayStep ==
  ASSUME Inv, NextDay
  PROVE  Inv'
<1>1. /\ day < Days /\ day' = day + 1
      /\ age' = [a \in Alert |-> IF age[a] = "fading" THEN "old" ELSE age[a]]
      /\ UNCHANGED <<slack, flight, icons, asked, told, cache, remembered, holder>>
  BY DEF NextDay
<1>2. Padded' = Padded /\ Retained' = Retained
  BY <1>1 DEF Padded, Retained, Inv, Typed
<1>3. day' \in 0..Days
  BY <1>1, ServiceAssumption DEF Inv, Typed
<1>4. age' \in [Alert -> {"visible", "fading", "old", "gone"}]
  BY <1>1 DEF Inv, Typed
<1>5. Typed'
  BY <1>1, <1>3, <1>4 DEF Inv, Typed
<1>6. KeepsSeen
  BY <1>1, <1>2, GrownSame, SeenKept
<1> QED BY <1>1, <1>2, <1>5, <1>6, QuietStep DEF Inv, Formed

LEMMA AgesStep ==
  ASSUME Inv, NEW a \in Alert, Ages(a)
  PROVE  Inv'
<1>1. /\ age[a] \in {"visible", "old"}
      /\ age' = [age EXCEPT ![a] = IF @ = "visible" THEN "fading" ELSE "gone"]
      /\ UNCHANGED <<slack, flight, icons, day, asked, told, cache, remembered, holder>>
  BY DEF Ages
<1>2. Padded' \subseteq Padded /\ Retained' \subseteq Retained
  BY <1>1 DEF Padded, Retained, Inv, Typed
<1>3. age' \in [Alert -> {"visible", "fading", "old", "gone"}]
  BY <1>1 DEF Inv, Typed
<1>4. Typed'
  BY <1>1, <1>3 DEF Inv, Typed
<1>5. KeepsSeen
  BY <1>1, <1>2, GrownSame, SeenKept
<1> QED BY <1>1, <1>2, <1>4, <1>5, QuietStep DEF Inv, Formed
-----------------------------------------------------------------------------
(* Steps that read Slack.                                                    *)

LEMMA ReplayedFacts ==
  ASSUME NEW c, IsCache(c), NEW th, th = [t \in Threads |-> th[t]], NEW roots
  PROVE  LET n == Replayed(c, th, roots) IN
         /\ Updated(n, c, slack, th, roots, Retained \cup RequestIDs, day)
         /\ n.phase = c.phase
<1> DEFINE n == Replayed(c, th, roots)
           v == Replay(slack, th, roots \cap Alert, c.view.pending, day)
           ch == ReplayChats(slack, th, roots \cap (Retained \cup RequestIDs), c.chats.attempts)
<1>1. IsView(v) /\ ch = [asked |-> ch.asked, issues |-> ch.issues, attempts |-> ch.attempts]
  BY DEF Replay, ReplayChats, IsView
<1>2. n = [c EXCEPT !.threads = th, !.known = roots, !.view = v, !.chats = ch]
  BY DEF Replayed
<1> HIDE DEF n, v, ch
<1>3. /\ n.threads = th /\ n.known = roots /\ n.view = v /\ n.chats = ch /\ n.phase = c.phase
      /\ n = [phase |-> n.phase, synced |-> n.synced, threads |-> n.threads, meta |-> n.meta,
              known |-> n.known, view |-> n.view, chats |-> n.chats]
  BY <1>2 DEF IsCache
<1>4. IsCache(n)
  BY <1>1, <1>3 DEF IsCache
<1> QED BY <1>3, <1>4 DEF Updated, n, v, ch

\* One thread is read again.
ThreadRead(t) == [cache.threads EXCEPT ![t] = InThread(t)]

\* The threads that are still looked at.
RootsKept == cache.known \cap (Padded \cup RequestIDs)

LEMMA ThreadReadFacts ==
  ASSUME Inv, NEW t \in Threads
  PROVE  LET th == ThreadRead(t) IN
         /\ th = [u \in Threads |-> th[u]] /\ Threaded(th, slack)
         /\ th[t] = InThread(t) /\ \A u \in Threads : cache.threads[u] \subseteq th[u]
<1>1. /\ cache.threads = [u \in Threads |-> cache.threads[u]]
      /\ \A u \in Threads : cache.threads[u] \subseteq {ts \in DOMAIN slack : slack[ts].thread = u}
  BY DEF Inv, Formed, IsCache, Shows, Threaded
<1> DEFINE th == ThreadRead(t)
<1>2. th = [u \in Threads |-> IF u = t THEN InThread(t) ELSE cache.threads[u]]
  BY <1>1 DEF ThreadRead
<1> HIDE DEF th
<1>3. th = [u \in Threads |-> th[u]]
  BY <1>2
<1>4. \A u \in Threads : th[u] = IF u = t THEN InThread(t) ELSE cache.threads[u]
  BY <1>2
<1>5. ASSUME NEW u \in Threads
      PROVE  th[u] \subseteq {ts \in DOMAIN slack : slack[ts].thread = u} /\ cache.threads[u] \subseteq th[u]
  <2>1. CASE u = t
    BY <1>1, <1>4, <2>1 DEF InThread
  <2>2. CASE u # t
    BY <1>1, <1>4, <2>2
  <2> QED BY <2>1, <2>2
<1>6. Threaded(th, slack)
  BY <1>5 DEF Threaded
<1> QED BY <1>3, <1>4, <1>5, <1>6 DEF th

LEMMA RefreshFacts ==
  ASSUME Inv, slack' = slack, asked' = asked, age' = age, holder'.pc # "sync",
         cache.phase = "ready", NEW t \in Threads, NEW d,
         Updated(cache', cache, slack, ThreadRead(t), RootsKept, Retained \cup RequestIDs, d),
         cache'.view.fault = NoID
  PROVE  /\ Grown /\ \A q : Quiet(q)
         /\ Shows(cache', slack') /\ ShowsChats(cache', slack', Retained' \cup RequestIDs)
         /\ KeepsSeen /\ \A q \in asked : KeepsGuard(q)
         /\ Retained' = Retained
         /\ OnlyRecords(cache'.view, slack, ThreadRead(t), RootsKept \cap Alert)
<1> DEFINE th == ThreadRead(t)
<1>1. Grown /\ \A q : Quiet(q)
  BY GrownSame
<1>2. Padded' = Padded /\ Retained' = Retained
  BY DEF Padded, Retained
<1>3. Requests(asked) /\ Archive(slack, asked) /\ cache.known \subseteq Threads
  BY DEF Inv, Formed, Shows
<1>4. RootsKept \subseteq Threads /\ cache.known \cap Padded \subseteq RootsKept
  BY <1>3 DEF RootsKept
<1>5. Threaded(th, slack) /\ \A u \in Threads : cache.threads[u] \subseteq th[u]
  BY ThreadReadFacts
<1> HIDE DEF th
<1>6. Updated(cache', cache, slack, th, RootsKept, Retained \cup RequestIDs, d)
  BY DEF th
<1>7. /\ Shows(cache', slack) /\ ShowsChats(cache', slack, Retained \cup RequestIDs)
      /\ OnlyRecords(cache'.view, slack, th, RootsKept \cap Alert)
  BY <1>3, <1>4, <1>5, <1>6, UpdatedFacts
<1>8. ASSUME NEW q \in asked
      PROVE  KeepsGuard(q)
  <2>1. /\ Updated(cache', cache, slack', th, RootsKept, Retained \cup RequestIDs, d)
        /\ Threaded(th, slack')
    BY <1>5, <1>6
  <2> QED BY <1>1, <1>4, <2>1, RefreshKeepsGuard
<1>9. KeepsSeen
  <2>1. SUFFICES ASSUME NEW ts \in DOMAIN slack, Seen(ts) PROVE Seen(ts)'
    BY DEF KeepsSeen
  <2>2. slack[ts].thread \in Threads
    BY <1>3 DEF Archive, Fine
  <2>3. cache'.known = RootsKept /\ cache'.threads = th
    BY <1>6 DEF Updated
  <2> QED BY <1>2, <1>5, <2>1, <2>2, <2>3 DEF Seen, RootsKept
<1> QED BY <1>1, <1>2, <1>7, <1>8, <1>9 DEF th

\* A request that may be acted on, and the cache with its thread read again.
LEMMA ReloadedFacts ==
  ASSUME Inv, NEW id \in RequestIDs, Actionable(id), Complete(Reloaded(Request(id)))
  PROVE  LET q == Request(id)
             c == Reloaded(q) IN
         /\ q \in asked /\ q.id = id /\ q.type = "action"
         /\ q.alert \in Alert /\ q.alert \in Retained /\ q.alert \in cache.known
         /\ q.alert \in RootsKept /\ cache.phase = "ready"
         /\ holder.pc = "free" /\ holder.rec = {}
         /\ Updated(c, cache, slack, ThreadRead(q.alert), RootsKept, Retained \cup RequestIDs, day)
         /\ c.view.fault = NoID /\ c.phase = cache.phase
<1> DEFINE q == Request(id)
           c == Reloaded(q)
<1>1. PICK s \in asked : /\ s.id = id /\ s.type = "action"
                         /\ s.alert \in DOMAIN cache.view.occ \cap Retained
  BY DEF Actionable
<1>2. q = s
  BY <1>1, RequestFacts DEF Inv, Formed
<1>3. s.alert \in Alert /\ s.alert \in cache.known
  BY <1>1 DEF Inv, Shows
<1>4. s.alert \in RootsKept /\ s.alert \in Threads
  BY <1>1, <1>3 DEF RootsKept, Padded, Retained, Threads
<1>5. c = Replayed(cache, ThreadRead(s.alert), RootsKept)
  BY <1>2 DEF Reloaded, ThreadRead, RootsKept
<1> DEFINE th == ThreadRead(s.alert)
<1>6. /\ Updated(c, cache, slack, th, RootsKept, Retained \cup RequestIDs, day)
      /\ c.phase = cache.phase
  <2>1. th = [u \in Threads |-> th[u]] /\ IsCache(cache)
    BY <1>4, ThreadReadFacts DEF Inv, Formed
  <2> HIDE DEF th, c
  <2> QED BY <1>5, <2>1, ReplayedFacts DEF th
<1>7. c.view.fault = NoID
  BY DEF Complete
<1>8. holder.pc = "free" /\ holder.rec = {} /\ cache.phase = "ready"
  BY DEF Actionable, Inv, Formed
<1> HIDE DEF c
<1> QED BY <1>1, <1>2, <1>3, <1>4, <1>6, <1>7, <1>8 DEF c

\* A message of the request, in the thread that was read again, is among the records.
LEMMA RecordsOfThread ==
  ASSUME Inv, NEW q \in asked, q.type = "action", q.alert \in Alert, q.alert \in RootsKept,
         NEW c, NEW d,
         Updated(c, cache, slack, ThreadRead(q.alert), RootsKept, Retained \cup RequestIDs, d),
         c.view.fault = NoID
  PROVE  /\ Recorded(q.id) # {} => Find(c.view.records, q.id) # {}
         /\ Find(c.view.records, q.id) # {} =>
              \E ts \in Recorded(q.id) : /\ slack[ts].thread \in RootsKept
                                         /\ ts \in ThreadRead(q.alert)[slack[ts].thread]
<1> DEFINE th == ThreadRead(q.alert)
           al == RootsKept \cap Alert
<1>1. Requests(asked) /\ Archive(slack, asked) /\ RootsKept \subseteq Threads
  BY DEF Inv, Formed, Shows, RootsKept
<1>2. Threaded(th, slack) /\ th[q.alert] = InThread(q.alert)
  BY <1>1, ThreadReadFacts
<1> HIDE DEF th
<1>3. Updated(c, cache, slack, th, RootsKept, Retained \cup RequestIDs, d)
  BY DEF th
<1>4. Shows(c, slack) /\ OnlyRecords(c.view, slack, th, al)
  BY <1>1, <1>2, <1>3, UpdatedFacts
<1>5. c.threads = th /\ c.known = RootsKept
  BY <1>3 DEF Updated
<1>6. HasRecords(c.view, slack, th, al)
  BY <1>4, <1>5 DEF Shows
<1>7. ASSUME NEW ts \in Recorded(q.id)
      PROVE  Find(c.view.records, q.id) # {}
  <2>1. ts \in DOMAIN slack /\ slack[ts].id = q.id
    BY DEF Recorded
  <2>2. PostOf(slack[ts], q)
    BY <1>1, <2>1, MessageFacts DEF Archive
  <2>3. slack[ts].type = "action" /\ ts \in th[q.alert] /\ q.alert \in al
    BY <1>2, <2>1, <2>2 DEF PostOf, InThread
  <2>4. \E r \in c.view.records : r.id = q.id
    BY <1>6, <2>1, <2>3 DEF HasRecords
  <2> QED BY <2>4 DEF Find
<1>8. ASSUME Find(c.view.records, q.id) # {}
      PROVE  \E ts \in Recorded(q.id) : slack[ts].thread \in RootsKept /\ ts \in th[slack[ts].thread]
  <2>1. PICK r \in c.view.records : r.id = q.id
    BY <1>8 DEF Find
  <2>2. PICK a \in al : \E ts \in th[a] : slack[ts].type = "action" /\ slack[ts].id = r.id
    BY <1>4, <2>1 DEF OnlyRecords
  <2>3. PICK ts \in th[a] : slack[ts].id = r.id
    BY <2>2
  <2>4. a \in Threads /\ ts \in DOMAIN slack /\ slack[ts].thread = a
    BY <1>1, <1>2, <2>2, <2>3 DEF Threaded
  <2>5. ts \in Recorded(q.id)
    BY <2>1, <2>3, <2>4 DEF Recorded
  <2> QED BY <2>2, <2>3, <2>4, <2>5
<1> QED BY <1>7, <1>8 DEF th

LEMMA ActAnswersStep ==
  ASSUME Inv, NEW id \in RequestIDs, ActAnswers(id)
  PROVE  Inv'
<1> DEFINE q == Request(id)
           c == Reloaded(q)
           recorded == Find(c.view.records, id) # {}
<1>1. /\ Actionable(id) /\ Complete(c) /\ cache' = c
      /\ told' = told \cup {x \in {id} : recorded}
      /\ UNCHANGED <<world, asked, remembered, holder>>
  BY DEF ActAnswers
<1>2. /\ q \in asked /\ q.id = id /\ q.type = "action"
      /\ q.alert \in Alert /\ q.alert \in Retained /\ q.alert \in cache.known
      /\ q.alert \in RootsKept /\ cache.phase = "ready"
      /\ holder.pc = "free" /\ holder.rec = {}
      /\ Updated(c, cache, slack, ThreadRead(q.alert), RootsKept, Retained \cup RequestIDs, day)
      /\ c.view.fault = NoID /\ c.phase = cache.phase
  BY <1>1, ReloadedFacts
<1> HIDE DEF q, c
<1>3. /\ slack' = slack /\ flight' = flight /\ icons' = icons /\ day' = day /\ age' = age
      /\ asked' = asked /\ remembered' = remembered /\ holder' = holder
  BY <1>1 DEF world
<1>4. q.alert \in Threads
  BY <1>2 DEF Threads
<1>5. /\ Grown /\ \A s : Quiet(s)
      /\ Shows(cache', slack') /\ ShowsChats(cache', slack', Retained' \cup RequestIDs)
      /\ KeepsSeen /\ \A s \in asked : KeepsGuard(s)
      /\ Retained' = Retained
  BY <1>1, <1>2, <1>3, <1>4, RefreshFacts
<1>6. Typed'
  BY <1>1, <1>2, <1>3 DEF Inv, Typed
<1>7. Formed'
  <2>1. IsCache(cache') /\ told' \subseteq {s.id : s \in asked}
    BY <1>1, <1>2 DEF Updated, Inv, Formed
  <2> QED BY <1>2, <1>3, <2>1 DEF Inv, Formed
<1>8. ASSUME NEW s \in asked
      PROVE  ((Reinvestigates(s) \/ Once(s)) /\ Asking(s) /\ Answered(s))'
  <2>1. Reinvestigates(s)' \/ Once(s)'
    BY <1>3, <1>5, OnceKept
  <2>2. Asking(s)'
    BY <1>5, AskingKept
  <2>3. CASE s.id \in told' => s.id \in told
    BY <1>5, <2>1, <2>2, <2>3, AnsweredKept
  <2>4. CASE recorded /\ s.id = id
    <3>1. s = q
      BY <1>2, <2>4 DEF Inv, Formed, Requests
    <3>2. PICK ts \in Recorded(s.id) : /\ slack[ts].thread \in RootsKept
                                       /\ ts \in ThreadRead(s.alert)[slack[ts].thread]
      BY <1>2, <2>4, <3>1, RecordsOfThread
    <3>3. cache'.known = RootsKept /\ cache'.threads = ThreadRead(s.alert) /\ holder'.pc = "free"
      BY <1>1, <1>2, <1>3, <3>1 DEF Updated
    <3>4. Seen(ts)'
      BY <1>3, <3>2, <3>3 DEF Seen
    <3>5. ts \in Recorded(s.id)'
      BY <1>3, <3>2 DEF Recorded
    <3>6. Answered(s)'
      BY <1>2, <3>1, <3>4, <3>5 DEF Answered
    <3> QED BY <2>1, <2>2, <3>6
  <2> QED BY <1>1, <2>3, <2>4
<1>9. Posts'
  BY <1>3, <1>8 DEF Posts
<1> QED BY <1>5, <1>6, <1>7, <1>9 DEF Inv

\* What is prepared may be posted: it is neither in Slack nor on its way.
LEMMA ActPreparesStep ==
  ASSUME Inv, NEW id \in RequestIDs, ActPrepares(id)
  PROVE  Inv'
<1>1. PICK s, c, e, now :
        /\ s = Request(id) /\ c = Reloaded(s) /\ e = Effective(c.view, s.alert, day)
        /\ now \in day..(IF ClockReadsAgree \/ day = Days THEN day ELSE day + 1)
        /\ day' = now
        /\ holder' = [Idle EXCEPT !.pc = "posting", !.id = id,
             !.rec = {Message("action", s.alert, id,
                        {Prepared(s, e, c.view, prepared + 1, now)})}]
  BY DEF ActPrepares
<1>2. /\ Actionable(id) /\ Complete(c)
      /\ Find(c.view.records, id) = {} /\ ~Blocked(s, c)
      /\ cache' = c
      /\ UNCHANGED <<slack, flight, icons, age, asked, told, remembered>>
  BY <1>1 DEF ActPrepares
<1>3. /\ s \in asked /\ s.id = id /\ s.type = "action"
      /\ s.alert \in Alert /\ s.alert \in Retained /\ s.alert \in cache.known
      /\ s.alert \in RootsKept /\ cache.phase = "ready"
      /\ holder.pc = "free" /\ holder.rec = {}
      /\ Updated(c, cache, slack, ThreadRead(s.alert), RootsKept, Retained \cup RequestIDs, day)
      /\ c.view.fault = NoID /\ c.phase = cache.phase
  BY <1>1, <1>2, ReloadedFacts
<1> DEFINE r == Prepared(s, e, c.view, prepared + 1, now)
           m == Message("action", s.alert, id, {r})
<1>4. r.id = s.id /\ r.alert = s.alert /\ r.kind = s.kind
  BY DEF Prepared
<1> HIDE DEF r
<1>5. PostOf(m, s) /\ IsMessage(m) /\ m.readable /\ m.thread = s.alert
  <2>1. /\ m.id = s.id /\ m.type = "action" /\ m.thread = s.alert /\ m.rec = {r} /\ m.readable
        /\ IsMessage(m)
    BY <1>3 DEF Message, IsMessage
  <2> HIDE DEF m
  <2> QED BY <1>3, <1>4, <2>1 DEF PostOf
<1>6. holder' = [Idle EXCEPT !.pc = "posting", !.id = id, !.rec = {m}]
  BY <1>1 DEF r
<1> HIDE DEF m
<1>7. IsHolder(holder') /\ holder'.pc = "posting" /\ holder'.id = s.id /\ holder'.rec = {m}
  BY <1>3, <1>6 DEF Idle, IsHolder
<1>8. s.alert \in Threads
  BY <1>3 DEF Threads
<1>9. /\ Grown /\ \A q : Quiet(q)
      /\ Shows(cache', slack') /\ ShowsChats(cache', slack', Retained' \cup RequestIDs)
      /\ KeepsSeen /\ \A q \in asked : KeepsGuard(q)
      /\ Retained' = Retained
  BY <1>2, <1>3, <1>7, <1>8, RefreshFacts
<1>10. cache'.known = RootsKept /\ IsCache(cache')
  BY <1>2, <1>3 DEF Updated
<1>11. Typed'
  <2>1. day' \in 0..Days
    BY <1>1, ServiceAssumption DEF Inv, Typed
  <2> QED BY <1>2, <1>3, <1>7, <2>1 DEF Inv, Typed
<1>12. Formed'
  <2>1. Fine(m, asked)
    BY <1>3, <1>5, <1>8 DEF Fine
  <2> QED BY <1>2, <1>3, <1>5, <1>7, <1>10, <2>1 DEF Inv, Formed
<1>13. ASSUME NEW q \in asked
       PROVE  Reinvestigates(q)' \/ Once(q)'
  <2>1. CASE q.id # s.id
    BY <1>2, <1>7, <1>9, <2>1, OnceKept
  <2>2. CASE q.id = s.id
    <3>1. q = s
      BY <1>3, <2>2 DEF Inv, Formed, Requests
    <3>2. Recorded(q.id) = {}
      BY <1>2, <1>3, <3>1, RecordsOfThread
    <3>3. Recorded(q.id)' = {}
      BY <1>9, <3>2, RecordedKept
    <3>4. ~Guarded(q)'
      <4>1. q.type # "chat" /\ q.alert \in Padded'
        BY <1>2, <1>3, <1>9, <3>1 DEF Retained, Padded
      <4>2. \A p \in cache'.view.pending : ~(p.alert = q.alert /\ p.status = "uncertain")
        BY <1>2, <3>1 DEF Blocked
      <4> QED BY <4>1, <4>2 DEF Guarded
    <3>5. ASSUME NEW n \in flight, n.id = q.id
          PROVE  Reinvestigates(q)'
      <4>1. CASE Reinvestigates(q)
        BY <1>9, <4>1, ReinvestigatesKept
      <4>2. CASE Once(q)
        <5>1. Guarded(q)
          BY <3>5, <4>2 DEF Once
        <5> QED BY <1>3, <1>9, <3>1, <3>3, <3>4, <5>1 DEF KeepsGuard
      <4> QED BY <4>1, <4>2 DEF Inv, Posts
    <3> QED BY <1>2, <3>3, <3>5 DEF Once
  <2> QED BY <2>1, <2>2
<1>14. ASSUME NEW q \in asked
       PROVE  Asking(q)' /\ Answered(q)'
  BY <1>2, <1>9, AskingKept, AnsweredKept
<1>15. Posts'
  BY <1>2, <1>13, <1>14 DEF Posts
<1> QED BY <1>9, <1>11, <1>12, <1>15 DEF Inv

LEMMA ConverseAnswersStep ==
  ASSUME Inv, NEW id \in RequestIDs, ConverseAnswers(id)
  PROVE  Inv'
<1>1. /\ Conversable(id) /\ id \in cache.chats.asked /\ told' = told \cup {id}
      /\ slack' = slack /\ flight' = flight /\ icons' = icons /\ day' = day /\ age' = age
      /\ asked' = asked /\ cache' = cache /\ remembered' = remembered /\ holder' = holder
  BY DEF ConverseAnswers, world
<1>2. holder.pc = "free" /\ \E q \in asked : q.id = id
  BY <1>1 DEF Conversable
<1>3. Grown /\ \A q : Quiet(q)
  BY <1>1, GrownSame
<1>4. Padded' = Padded /\ Retained' = Retained
  BY <1>1 DEF Padded, Retained
<1>5. KeepsSeen /\ \A q : KeepsGuard(q)
  BY <1>1, <1>3, <1>4, SeenKept, GuardKept
<1>6. Typed' /\ Formed'
  BY <1>1, <1>2 DEF Inv, Typed, Formed
<1>7. Shows(cache', slack') /\ ShowsChats(cache', slack', Retained' \cup RequestIDs)
  BY <1>1, <1>4 DEF Inv
<1>8. ASSUME NEW q \in asked
      PROVE  ((Reinvestigates(q) \/ Once(q)) /\ Asking(q) /\ Answered(q))'
  <2>1. Reinvestigates(q)' \/ Once(q)'
    BY <1>1, <1>3, <1>5, OnceKept
  <2>2. Asking(q)'
    BY <1>3, <1>4, <1>5, AskingKept
  <2>3. CASE q.id # id
    BY <1>1, <1>3, <1>5, <2>1, <2>2, <2>3, AnsweredKept
  <2>4. CASE q.id = id
    <3>1. Found(id, slack, cache.threads, cache.known)
      BY <1>1 DEF Inv, Shows
    <3>2. PICK t \in cache.known : \E ts \in cache.threads[t] :
            /\ ts \in DOMAIN slack /\ slack[ts].thread = t
            /\ slack[ts].readable /\ slack[ts].id = id
      BY <3>1 DEF Found
    <3>3. PICK ts \in cache.threads[t] :
            /\ ts \in DOMAIN slack /\ slack[ts].thread = t
            /\ slack[ts].readable /\ slack[ts].id = id
      BY <3>2
    <3>4. ts \in Recorded(q.id)' /\ slack'[ts].readable
      BY <1>1, <2>4, <3>3 DEF Recorded
    <3>5. Seen(ts)'
      BY <1>1, <1>2, <3>2, <3>3 DEF Seen
    <3>6. Answered(q)'
      BY <3>4, <3>5 DEF Answered
    <3> QED BY <2>1, <2>2, <3>6
  <2> QED BY <2>3, <2>4
<1>9. Posts'
  BY <1>1, <1>8 DEF Posts
<1> QED BY <1>6, <1>7, <1>9 DEF Inv

\* A question is posted only if it is neither in Slack nor on its way.
LEMMA ConversePreparesStep ==
  ASSUME Inv, NEW id \in RequestIDs, ConversePrepares(id)
  PROVE  Inv'
<1>1. PICK s \in asked : s.id = id /\ s.type = "chat"
  BY DEF ConversePrepares, Conversable
<1>2. Request(id) = s
  BY <1>1, RequestFacts DEF Inv, Formed
<1> DEFINE m == Message("chat", s.alert, id, {})
<1>3. /\ holder.pc = "free" /\ cache.phase = "ready"
      /\ id \notin cache.chats.asked /\ ~ChatBlocked(s)
      /\ cache.chats.issues \cap (Retained \cup RequestIDs) = {}
      /\ s.alert \in Alert => s.alert \in DOMAIN cache.view.occ \cap Retained
      /\ s.alert \in RequestIDs \ {id} => s.alert \in Conversations
      /\ holder' = [Idle EXCEPT !.pc = "posting", !.id = id, !.rec = {m}]
      /\ slack' = slack /\ flight' = flight /\ icons' = icons /\ day' = day /\ age' = age
      /\ asked' = asked /\ told' = told /\ cache' = cache /\ remembered' = remembered
  BY <1>2 DEF ConversePrepares, Conversable, world
<1>4. /\ m.id = s.id /\ m.type = "chat" /\ m.thread = s.alert /\ m.rec = {} /\ m.readable
      /\ IsMessage(m)
  BY <1>1 DEF Message, IsMessage
<1> HIDE DEF m
<1>5. FineRequest(s) /\ s.alert \in Threads /\ s.alert \in Retained \cup RequestIDs
  BY <1>1, <1>3 DEF Inv, Formed, Requests, FineRequest, Threads
<1>6. Fine(m, asked) /\ PostOf(m, s)
  BY <1>1, <1>4, <1>5 DEF Fine, PostOf
<1>7. IsHolder(holder') /\ holder'.pc = "posting" /\ holder'.id = s.id /\ holder'.rec = {m}
  BY <1>1, <1>3 DEF Idle, IsHolder
<1>8. s.alert \in Alert \/ s.alert # s.id => s.alert \in cache.known
  <2>1. s.alert # s.id => s.alert \in Alert \cup (RequestIDs \ {id})
    BY <1>1, <1>5 DEF Threads
  <2>2. Conversations \subseteq cache.known
    BY DEF Conversations
  <2>3. DOMAIN cache.view.occ \subseteq cache.known
    BY DEF Inv, Shows
  <2> QED BY <1>3, <2>1, <2>2, <2>3
<1>9. Padded' = Padded /\ Retained' = Retained
  BY <1>3 DEF Padded, Retained
<1>10. Grown /\ \A q : Quiet(q)
  BY <1>3, GrownSame
<1>11. KeepsSeen /\ \A q : KeepsGuard(q)
  BY <1>3, <1>7, <1>9, <1>10, SeenKept, GuardKept
<1>12. Typed'
  BY <1>3, <1>7 DEF Inv, Typed
<1>13. Formed'
  BY <1>3, <1>4, <1>6, <1>7, <1>8 DEF Inv, Formed
<1>14. Shows(cache', slack') /\ ShowsChats(cache', slack', Retained' \cup RequestIDs)
  BY <1>3, <1>9 DEF Inv
<1>15. ~Guarded(s)
  BY <1>1, <1>3 DEF Guarded, ChatBlocked
<1>16. Recorded(s.id) = {}
  <2>1. SUFFICES ASSUME NEW ts \in Recorded(s.id) PROVE FALSE
    OBVIOUS
  <2>2. ts \in DOMAIN slack /\ slack[ts].id = s.id
    BY DEF Recorded
  <2>3. PostOf(slack[ts], s)
    BY <2>2, MessageFacts DEF Inv, Formed, Archive
  <2>4. slack[ts].type = "chat" /\ slack[ts].thread = s.alert
    BY <1>1, <2>3 DEF PostOf
  <2>5. s.alert \in Alert \ Retained \/ Seen(ts)
    BY <1>1, <1>15 DEF Inv, Posts, Asking
  <2>6. Seen(ts) /\ s.alert \in Padded \cup RequestIDs
    BY <1>3, <1>5, <2>5 DEF Retained, Padded
  <2>7. s.alert \in cache.known /\ ts \in cache.threads[s.alert]
    BY <1>3, <2>4, <2>6 DEF Seen
  <2>8. IF slack[ts].readable THEN slack[ts].id \in cache.chats.asked
        ELSE s.alert \in cache.chats.issues
    BY <1>5, <2>4, <2>7 DEF Inv, ShowsChats
  <2> QED BY <1>1, <1>3, <1>5, <2>2, <2>8
<1>17. ASSUME NEW q \in asked
       PROVE  ((Reinvestigates(q) \/ Once(q)) /\ Asking(q) /\ Answered(q))'
  <2>1. Asking(q)' /\ Answered(q)'
    BY <1>3, <1>9, <1>10, <1>11, AskingKept, AnsweredKept
  <2>2. CASE q.id # s.id
    BY <1>3, <1>7, <1>10, <1>11, <2>1, <2>2, OnceKept
  <2>3. CASE q.id = s.id
    <3>1. q = s
      BY <2>3 DEF Inv, Formed, Requests
    <3>2. \A n \in flight : n.id # q.id
      BY <1>1, <1>15, <3>1, ChatOnce DEF Once
    <3>3. Recorded(q.id)' = {}
      BY <1>10, <1>16, <3>1, RecordedKept
    <3>4. Once(q)'
      BY <1>3, <3>2, <3>3 DEF Once
    <3> QED BY <2>1, <3>4
  <2> QED BY <2>2, <2>3
<1>18. Posts'
  BY <1>3, <1>17 DEF Posts
<1> QED BY <1>12, <1>13, <1>14, <1>18 DEF Inv

LEMMA RefreshStep ==
  ASSUME Inv, NEW t \in Threads, RefreshConversation(t)
  PROVE  Inv'
<1> DEFINE c == Replayed(cache, ThreadRead(t), RootsKept)
<1>1. /\ holder.pc = "free" /\ cache.phase = "ready" /\ c.view.fault = NoID
      /\ cache' = [c EXCEPT !.meta[t] = Meta(t)]
      /\ slack' = slack /\ flight' = flight /\ icons' = icons /\ day' = day /\ age' = age
      /\ asked' = asked /\ told' = told /\ remembered' = remembered /\ holder' = holder
  BY DEF RefreshConversation, Complete, world, ThreadRead, RootsKept
<1> DEFINE th == ThreadRead(t)
<1>2. /\ Updated(c, cache, slack, th, RootsKept, Retained \cup RequestIDs, day)
      /\ c.phase = cache.phase
  <2>1. th = [u \in Threads |-> th[u]] /\ IsCache(cache) /\ c = Replayed(cache, th, RootsKept)
    BY ThreadReadFacts DEF Inv, Formed
  <2> HIDE DEF th, c
  <2> QED BY <2>1, ReplayedFacts
<1> HIDE DEF c, th
<1>3. /\ cache'.phase = c.phase /\ cache'.view = c.view /\ cache'.chats = c.chats
      /\ cache'.known = c.known /\ cache'.threads = c.threads /\ IsCache(cache')
  BY <1>1, <1>2 DEF Updated, IsCache
<1>4. Updated(cache', cache, slack, th, RootsKept, Retained \cup RequestIDs, day)
  BY <1>2, <1>3 DEF Updated
<1>5. /\ Grown /\ \A q : Quiet(q)
      /\ Shows(cache', slack') /\ ShowsChats(cache', slack', Retained' \cup RequestIDs)
      /\ KeepsSeen /\ \A q \in asked : KeepsGuard(q)
      /\ Retained' = Retained
  BY <1>1, <1>3, <1>4, RefreshFacts DEF th
<1>6. Typed'
  BY <1>1, <1>2, <1>3 DEF Inv, Typed
<1>7. Formed'
  BY <1>1, <1>3 DEF Inv, Formed
<1>8. Posts'
  BY <1>1, <1>5, RequestKept DEF Posts
<1> QED BY <1>5, <1>6, <1>7, <1>8 DEF Inv

\* A complete synchronisation has every thread that matters.
LEMMA SyncEndStep ==
  ASSUME Inv, SyncEnd
  PROVE  Inv'
<1> DEFINE roots == Padded \cup {t \in RequestIDs : holder.counts[t][1] > 0}
           th == [t \in Threads |-> IF t \notin roots THEN {}
                                    ELSE IF Changed(t) THEN InThread(t) ELSE cache.threads[t]]
           c == Replayed(cache, th, roots)
<1>1. /\ holder.pc = "sync"
      /\ IF c.view.fault # NoID
         THEN cache' = Degraded(cache) /\ holder' = Idle
         ELSE /\ cache' = [c EXCEPT !.phase = "ready", !.synced = TRUE, !.meta = holder.counts]
              /\ holder' = [Idle EXCEPT !.pc = "decorating"]
      /\ slack' = slack /\ flight' = flight /\ icons' = icons /\ day' = day /\ age' = age
      /\ asked' = asked /\ told' = told /\ remembered' = remembered
  BY DEF SyncEnd, Complete, world
<1>2. Padded' = Padded /\ Retained' = Retained
  BY <1>1 DEF Padded, Retained
<1>3. Grown /\ \A q : Quiet(q)
  BY <1>1, GrownSame
<1>4. CASE c.view.fault # NoID
  <2>1. /\ IsCache(cache') /\ cache'.phase \in {"degraded", "catching_up"}
        /\ cache'.threads = cache.threads /\ cache'.known = cache.known
        /\ cache'.view = cache.view /\ cache'.chats = cache.chats
    BY <1>1, <1>4, DegradedFacts DEF Inv, Formed
  <2>2. IsHolder(holder') /\ holder'.pc = "free" /\ holder'.rec = {}
    BY <1>1, <1>4, HolderFacts
  <2>3. Typed'
    BY <1>1, <2>1, <2>2 DEF Inv, Typed
  <2>4. KeepsSeen
    BY <1>2, <1>3, <2>1, <2>2, SeenKept
  <2> QED BY <1>1, <1>2, <2>1, <2>2, <2>3, <2>4, QuietStep
<1>5. CASE c.view.fault = NoID
  <2>1. /\ roots \subseteq Threads /\ Padded \subseteq roots
        /\ th = [t \in Threads |-> th[t]]
    BY DEF Padded, Threads
  <2>2. \A t \in Threads : cache.threads[t] \subseteq InThread(t)
    BY DEF Inv, Shows, Threaded, InThread
  <2>3. \A t \in Threads : /\ th[t] \subseteq InThread(t)
                           /\ t \in roots /\ ~Changed(t) => th[t] = cache.threads[t]
                           /\ t \in roots /\ Changed(t) => th[t] = InThread(t)
    BY <2>2
  <2>4. Threaded(th, slack)
    BY <2>3 DEF Threaded, InThread
  <2>5. \A t \in RequestIDs : holder.counts[t][1] > 0 => t \in roots
    OBVIOUS
  <2> HIDE DEF th, roots
  <2>6. /\ Updated(c, cache, slack, th, roots, Retained \cup RequestIDs, day)
        /\ c.phase = cache.phase
    <3>1. IsCache(cache)
      BY DEF Inv, Formed
    <3> QED BY <2>1, <3>1, ReplayedFacts
  <2> HIDE DEF c
  <2>7. cache' = [c EXCEPT !.phase = "ready", !.synced = TRUE, !.meta = holder.counts]
    BY <1>1, <1>5
  <2>8. /\ cache'.phase = "ready" /\ cache'.view = c.view /\ cache'.chats = c.chats
        /\ cache'.known = c.known /\ cache'.threads = c.threads /\ IsCache(cache')
    BY <2>6, <2>7 DEF Updated, IsCache
  <2>9. Updated(cache', cache, slack, th, roots, Retained \cup RequestIDs, day)
    BY <2>6, <2>8 DEF Updated
  <2>10. IsHolder(holder') /\ holder'.pc = "decorating" /\ holder'.rec = {}
    <3>1. holder' = [Idle EXCEPT !.pc = "decorating"]
      BY <1>1, <1>5
    <3> QED BY <3>1 DEF Idle, IsHolder
  <2>11. Shows(cache', slack) /\ ShowsChats(cache', slack, Retained \cup RequestIDs)
    <3>1. Requests(asked) /\ Archive(slack, asked) /\ cache'.view.fault = NoID
      BY <1>5, <2>8 DEF Inv, Formed
    <3> QED BY <2>1, <2>4, <2>9, <3>1, UpdatedFacts
  <2>12. ASSUME NEW q \in asked
         PROVE  KeepsGuard(q)
    <3>1. /\ Updated(cache', cache, slack', th, roots, Retained \cup RequestIDs, day)
          /\ Threaded(th, slack') /\ cache'.view.fault = NoID
          /\ cache.known \cap Padded \subseteq roots
      BY <1>1, <1>5, <2>1, <2>4, <2>8, <2>9
    <3> QED BY <1>1, <1>3, <2>1, <2>10, <3>1, RefreshKeepsGuard
  <2>13. KeepsSeen
    <3>1. SUFFICES ASSUME NEW ts \in DOMAIN slack, Seen(ts) PROVE Seen(ts)'
      BY DEF KeepsSeen
    <3> DEFINE t == slack[ts].thread
    <3>2. slack'[ts].thread = t
      BY <1>1
    <3>3. SUFFICES ASSUME t \in Padded \cup RequestIDs
                   PROVE  t \in cache'.known /\ ts \in cache'.threads[t]
      BY <1>2, <2>10, <3>2 DEF Seen
    <3>4. /\ t \in cache.known => ts \in cache.threads[t]
          /\ t \in RequestIDs => holder.counts[t][1] > 0
      BY <1>1, <3>1, <3>3 DEF Seen
    <3> HIDE DEF t
    <3>5. t \in roots /\ t \in Threads
      BY <2>1, <2>5, <3>3, <3>4
    <3>6. ts \in InThread(t)
      BY DEF InThread, t
    <3>7. ~Changed(t) => t \in cache.known
      BY DEF Changed
    <3>8. ts \in th[t]
      BY <2>3, <3>4, <3>5, <3>6, <3>7
    <3> QED BY <2>9, <3>5, <3>8 DEF Updated
  <2>14. Typed'
    BY <1>1, <2>8, <2>10 DEF Inv, Typed
  <2>15. Formed'
    BY <1>1, <2>8, <2>10 DEF Inv, Formed
  <2>16. Posts'
    BY <1>1, <1>2, <1>3, <2>10, <2>12, <2>13, RequestKept DEF Posts
  <2> QED BY <1>1, <1>2, <2>11, <2>14, <2>15, <2>16 DEF Inv
<1> QED BY <1>4, <1>5
-----------------------------------------------------------------------------
(* Posts and their outcomes.                                                 *)

LEMMA PostingFacts ==
  ASSUME Inv, Posting
  PROVE  \E q \in asked : \E m :
           /\ holder.rec = {m} /\ holder.id = q.id /\ Request(holder.id) = q
           /\ Fine(m, asked) /\ PostOf(m, q) /\ m.readable
           /\ m.thread \in Alert \/ m.thread # m.id => m.thread \in cache.known
           /\ q.alert \in Alert => q.alert \in cache.known
           /\ Once(q) => Recorded(q.id) = {} /\ \A n \in flight : n.id # q.id
<1>1. PICK q \in asked : \E m \in holder.rec :
        /\ holder.rec = {m} /\ holder.id = q.id
        /\ Fine(m, asked) /\ PostOf(m, q) /\ m.readable
        /\ m.thread \in Alert \/ m.thread # m.id => m.thread \in cache.known
  BY DEF Inv, Formed, Posting
<1>2. Request(q.id) = q
  BY RequestFacts DEF Inv, Formed
<1>3. Once(q) => Recorded(q.id) = {} /\ \A n \in flight : n.id # q.id
  BY <1>1 DEF Once, Posting
<1> QED BY <1>1, <1>2, <1>3 DEF PostOf

\* The message of the request being posted is its only one.
LEMMA OncePosted ==
  ASSUME Inv, Posting, NEW q \in asked, holder.id = q.id, Grown, holder'.pc # "posting",
         \/ flight' \subseteq flight /\ \E ts : Recorded(q.id)' \subseteq Recorded(q.id) \cup {ts}
         \/ /\ Recorded(q.id)' = Recorded(q.id) /\ Guarded(q)'
            /\ \E m : flight' \subseteq flight \cup {m}
  PROVE  Reinvestigates(q)' \/ Once(q)'
<1>1. CASE Reinvestigates(q)
  BY <1>1, ReinvestigatesKept
<1>2. CASE Once(q)
  <2>1. Recorded(q.id) = {} /\ \A n \in flight : n.id # q.id
    BY <1>2 DEF Once, Posting
  <2>2. CASE flight' \subseteq flight /\ \E ts : Recorded(q.id)' \subseteq Recorded(q.id) \cup {ts}
    BY <2>1, <2>2 DEF Once
  <2>3. CASE /\ Recorded(q.id)' = Recorded(q.id) /\ Guarded(q)'
             /\ \E m : flight' \subseteq flight \cup {m}
    BY <2>1, <2>3 DEF Once
  <2> QED BY <2>2, <2>3
<1> QED BY <1>1, <1>2 DEF Inv, Posts

\* A post that was not confirmed concerns only its own request.
LEMMA PostOutcome ==
  ASSUME Inv, Posting, NEW q \in asked, holder.id = q.id, holder' = Idle, asked' = asked,
         told' = told, UNCHANGED <<icons, day, age, remembered>>,
         IsCache(cache'), SameShown(cache', cache),
         cache'.phase \in {"catching_up", "ready", "degraded"},
         cache'.phase = "ready" => cache.phase = "ready",
         \A s \in asked : s # q => KeepsGuard(s),
         Grown, \A s : s.id # q.id => Quiet(s),
         flight' \subseteq flight \cup holder.rec,
         Reinvestigates(q)' \/ Once(q)', Asking(q)'
  PROVE  Inv'
<1>1. PICK m : holder.rec = {m} /\ Fine(m, asked) /\ m.id = q.id /\ m.type # "chai"
  <2>1. PICK s, m : s \in asked /\ holder.rec = {m} /\ holder.id = s.id /\ Fine(m, asked) /\ PostOf(m, s)
    BY PostingFacts
  <2>2. FineRequest(s)
    BY <2>1 DEF Inv, Formed, Requests
  <2> QED BY <2>1, <2>2 DEF PostOf, FineRequest
<1>2. Padded' = Padded /\ Retained' = Retained
  BY DEF Padded, Retained
<1>3. IsHolder(holder') /\ holder'.pc = "free" /\ holder'.rec = {}
  BY HolderFacts
<1>4. Typed'
  BY <1>3 DEF Inv, Typed
<1>5. Formed'
  <2>1. IsFiniteSet(flight \cup {m})
    BY FS_AddElement DEF Inv, Formed
  <2>2. IsFiniteSet(flight')
    BY <1>1, <2>1, FS_Subset
  <2>3. \A n \in flight' : Fine(n, asked) /\ n.type # "chai"
    BY <1>1 DEF Inv, Formed
  <2> QED BY <1>3, <2>2, <2>3 DEF Inv, Formed, Grown
<1>6. Shows(cache', slack') /\ ShowsChats(cache', slack', Retained' \cup RequestIDs)
  BY <1>2, ShownKept
<1>7. KeepsSeen
  BY <1>2, <1>3, SeenKept DEF SameShown
<1>8. ASSUME NEW s \in asked, s # q
      PROVE  ((Reinvestigates(s) \/ Once(s)) /\ Asking(s) /\ Answered(s))'
  <2>1. s.id # q.id
    BY <1>8 DEF Inv, Formed, Requests
  <2>2. KeepsGuard(s) /\ Quiet(s) /\ \A n \in flight' : n.id = s.id => n \in flight
    BY <1>1, <1>8, <2>1
  <2> QED BY <1>2, <1>3, <1>7, <2>2, RequestKept
<1>9. Answered(q)'
  BY <1>7, AnsweredKept
<1>10. Posts'
  BY <1>8, <1>9 DEF Posts
<1> QED BY <1>2, <1>4, <1>5, <1>6, <1>10 DEF Inv

\* What an attempt whose post may have reached Slack leaves.
LEMMA UncertainOutcome ==
  ASSUME Inv, Posting, NEW q \in asked, holder.id = q.id, holder' = Idle, asked' = asked,
         q.alert \in Alert => q.alert \in cache.known,
         told' = told, UNCHANGED <<icons, day, age, remembered>>,
         IsCache(cache'), cache'.phase \in {"catching_up", "ready", "degraded"},
         cache'.phase = "ready" => cache.phase = "ready",
         cache'.view = Attempted(cache, q, "uncertain").view,
         cache'.chats = Attempted(cache, q, "uncertain").chats,
         cache'.threads = cache.threads, cache'.known = cache.known,
         \/ \E m : /\ Fine(m, asked) /\ m.id = q.id /\ slack' = Append(slack, m)
                   /\ flight' = flight
         \/ slack' = slack /\ flight' = flight \cup holder.rec
         \/ slack' = slack /\ flight' = flight
  PROVE  Inv'
<1>1. IsCache(cache)
  BY DEF Inv, Formed
<1>2. SameShown(cache', cache)
  BY <1>1, AttemptedFacts DEF SameShown
<1>3. \A s \in asked : s # q => KeepsGuard(s)
  BY AttemptKeepsGuard
<1>4. Guarded(q)' /\ Asking(q)'
  BY AttemptGuards DEF Asking
<1>5. holder'.pc # "posting"
  BY HolderFacts
<1>6. /\ Grown /\ \A s : s.id # q.id => Quiet(s)
      /\ flight' \subseteq flight \cup holder.rec
      /\ \/ flight' \subseteq flight /\ \E ts : Recorded(q.id)' \subseteq Recorded(q.id) \cup {ts}
         \/ Recorded(q.id)' = Recorded(q.id) /\ \E m : flight' \subseteq flight \cup {m}
  <2>1. ASSUME NEW m, Fine(m, asked), m.id = q.id, slack' = Append(slack, m), flight' = flight
        PROVE  /\ Grown /\ \A s : s.id # q.id => Quiet(s)
               /\ Recorded(q.id)' \subseteq Recorded(q.id) \cup {Len(slack')}
    BY <2>1, GrownAppend
  <2>2. CASE slack' = slack
    <3>1. Grown /\ (\A s : Quiet(s)) /\ Recorded(q.id)' = Recorded(q.id)
      BY <2>2, GrownSame, RecordedKept
    <3>2. \E m : holder.rec = {m}
      BY PostingFacts
    <3> QED BY <2>2, <3>1, <3>2
  <2> QED BY <2>1, <2>2
<1>7. Reinvestigates(q)' \/ Once(q)'
  BY <1>4, <1>5, <1>6, OncePosted
<1> QED BY <1>2, <1>3, <1>4, <1>6, <1>7, PostOutcome

LEMMA PostUncertainStep ==
  ASSUME Inv, PostUncertain
  PROVE  Inv'
<1>1. /\ Posting /\ cache' = Attempted(cache, Request(holder.id), "uncertain") /\ holder' = Idle
      /\ \/ (\E m \in holder.rec : slack' = Append(slack, m)) /\ UNCHANGED flight
         \/ flight' = flight \cup holder.rec /\ UNCHANGED slack
         \/ UNCHANGED <<slack, flight>>
      /\ UNCHANGED <<icons, day, age, asked, told, remembered>>
  BY DEF PostUncertain
<1>2. PICK q, m :
           /\ q \in asked
           /\ holder.rec = {m} /\ holder.id = q.id /\ Request(holder.id) = q
           /\ Fine(m, asked) /\ PostOf(m, q)
           /\ q.alert \in Alert => q.alert \in cache.known
  BY <1>1, PostingFacts
<1>3. /\ IsCache(cache') /\ cache'.phase = cache.phase
      /\ cache'.threads = cache.threads /\ cache'.known = cache.known
  BY <1>1, <1>2, AttemptedFacts DEF Inv, Formed, SameShown
<1>4. m.id = q.id
  BY <1>2 DEF PostOf
<1>5. /\ cache'.view = Attempted(cache, q, "uncertain").view
      /\ cache'.chats = Attempted(cache, q, "uncertain").chats
  BY <1>1, <1>2
<1>6. cache'.phase \in {"catching_up", "ready", "degraded"}
  BY <1>3 DEF Inv, Typed
<1>7. \/ slack' = Append(slack, m) /\ flight' = flight
      \/ slack' = slack /\ flight' = flight \cup holder.rec
      \/ slack' = slack /\ flight' = flight
  BY <1>1, <1>2
<1> QED BY <1>1, <1>2, <1>3, <1>4, <1>5, <1>6, <1>7, UncertainOutcome

LEMMA GarbledFacts ==
  ASSUME NEW m, IsMessage(m)
  PROVE  LET n == [m EXCEPT !.readable = FALSE] IN
         /\ n.id = m.id /\ n.type = m.type /\ n.thread = m.thread /\ n.rec = m.rec
         /\ IsMessage(n)
<1> DEFINE n == [m EXCEPT !.readable = FALSE]
<1>1. DOMAIN m = {"type", "thread", "id", "rec", "readable"}
  BY DEF IsMessage
<1>2. DOMAIN n = DOMAIN m /\ \A field \in DOMAIN m : field # "readable" => n[field] = m[field]
  OBVIOUS
<1>3. n = [field \in DOMAIN n |-> n[field]]
  OBVIOUS
<1> HIDE DEF n
<1>4. n.id = m.id /\ n.type = m.type /\ n.thread = m.thread /\ n.rec = m.rec
  BY <1>1, <1>2
<1>5. IsMessage(n)
  BY <1>1, <1>2, <1>3 DEF IsMessage
<1> QED BY <1>4, <1>5 DEF n

LEMMA PostGarbledStep ==
  ASSUME Inv, PostGarbled
  PROVE  Inv'
<1>1. /\ Posting /\ cache' = Attempted(cache, Request(holder.id), "uncertain") /\ holder' = Idle
      /\ \E m \in holder.rec : slack' = Append(slack, [m EXCEPT !.readable = FALSE])
      /\ UNCHANGED <<flight, icons, day, age, asked, told, remembered>>
  BY DEF PostGarbled
<1>2. PICK q, m :
           /\ q \in asked
           /\ holder.rec = {m} /\ holder.id = q.id /\ Request(holder.id) = q
           /\ Fine(m, asked) /\ PostOf(m, q)
           /\ q.alert \in Alert => q.alert \in cache.known
  BY <1>1, PostingFacts
<1>3. /\ IsCache(cache') /\ cache'.phase = cache.phase
      /\ cache'.threads = cache.threads /\ cache'.known = cache.known
  BY <1>1, <1>2, AttemptedFacts DEF Inv, Formed, SameShown
<1> DEFINE n == [m EXCEPT !.readable = FALSE]
<1>4. /\ n.id = m.id /\ n.type = m.type /\ n.thread = m.thread /\ n.rec = m.rec /\ IsMessage(n)
      /\ m.thread \in Threads
  <2>1. IsMessage(m) /\ m.thread \in Threads
    BY <1>2 DEF Fine
  <2> QED BY <2>1, GarbledFacts
<1>5. slack' = Append(slack, n)
  BY <1>1, <1>2
<1> HIDE DEF n
<1>6. Fine(n, asked) /\ n.id = q.id
  BY <1>2, <1>4 DEF PostOf, Fine
<1>7. /\ cache'.view = Attempted(cache, q, "uncertain").view
      /\ cache'.chats = Attempted(cache, q, "uncertain").chats
  BY <1>1, <1>2
<1>8. cache'.phase \in {"catching_up", "ready", "degraded"}
  BY <1>3 DEF Inv, Typed
<1> QED BY <1>1, <1>2, <1>3, <1>5, <1>6, <1>7, <1>8, UncertainOutcome

LEMMA PostRefusedStep ==
  ASSUME Inv, PostRefused
  PROVE  Inv'
<1>1. /\ Posting /\ cache' = Attempted(cache, Request(holder.id), "failed") /\ holder' = Idle
      /\ UNCHANGED <<slack, flight, icons, day, age, asked, told, remembered>>
  BY DEF PostRefused, world
<1>2. PICK q, m :
           /\ q \in asked
           /\ holder.rec = {m} /\ holder.id = q.id /\ Request(holder.id) = q
           /\ Once(q) => Recorded(q.id) = {} /\ \A n \in flight : n.id # q.id
  BY <1>1, PostingFacts
<1>3. IsCache(cache') /\ cache'.phase = cache.phase /\ SameShown(cache', cache)
  BY <1>1, <1>2, AttemptedFacts DEF Inv, Formed
<1>4. cache'.phase \in {"catching_up", "ready", "degraded"}
  BY <1>3 DEF Inv, Typed
<1>5. Grown /\ \A s : Quiet(s)
  BY <1>1, GrownSame
<1>6. \A s \in asked : s # q => KeepsGuard(s)
  BY <1>1, <1>2, <1>3, AttemptKeepsGuard DEF SameShown
<1>7. Recorded(q.id)' = Recorded(q.id)
  BY <1>5, RecordedKept
<1>8. Reinvestigates(q)' \/ Once(q)'
  <2>1. holder'.pc # "posting"
    BY <1>1, HolderFacts
  <2> QED BY <1>1, <1>2, <1>5, <1>7, <2>1, OncePosted
<1>9. Asking(q)'
  BY <1>2, <1>7, ChatOnce DEF Asking
<1> QED BY <1>1, <1>2, <1>3, <1>4, <1>5, <1>6, <1>8, <1>9, PostOutcome

LEMMA WithOwnPostFacts ==
  ASSUME IsCache(cache), NEW m
  PROVE  LET t == m.thread
             th == [cache.threads EXCEPT ![t] = @ \cup {Len(slack')}]
             roots == (cache.known \cup {t}) \cap (Padded \cup RequestIDs)
             n == WithOwnPost(m) IN
         /\ Updated(n, cache, slack', th, roots, Retained \cup RequestIDs, day)
         /\ n.phase = cache.phase
<1> DEFINE t == m.thread
           th == [cache.threads EXCEPT ![t] = @ \cup {Len(slack')}]
           roots == (cache.known \cup {t}) \cap (Padded \cup RequestIDs)
           n == WithOwnPost(m)
           c == [cache EXCEPT !.meta[t] = <<@[1] + 1, Len(slack')>>]
           v == Replay(slack', th, roots \cap Alert, c.view.pending, day)
           ch == ReplayChats(slack', th, roots \cap (Retained \cup RequestIDs), c.chats.attempts)
<1>1. IsView(v) /\ ch = [asked |-> ch.asked, issues |-> ch.issues, attempts |-> ch.attempts]
  BY DEF Replay, ReplayChats, IsView
<1>2. n = [c EXCEPT !.threads = th, !.known = roots, !.view = v, !.chats = ch]
  BY DEF WithOwnPost
<1>3. th = [u \in Threads |-> th[u]]
  BY DEF IsCache
<1>4. /\ c.view = cache.view /\ c.chats = cache.chats /\ c.phase = cache.phase
      /\ c = [phase |-> c.phase, synced |-> c.synced, threads |-> c.threads, meta |-> c.meta,
              known |-> c.known, view |-> c.view, chats |-> c.chats]
  BY DEF IsCache
<1>5. /\ v = Replay(slack', th, roots \cap Alert, cache.view.pending, day)
      /\ ch = ReplayChats(slack', th, roots \cap (Retained \cup RequestIDs), cache.chats.attempts)
  BY <1>4
<1> HIDE DEF n, v, ch, c, th, roots
<1>6. /\ n.threads = th /\ n.known = roots /\ n.view = v /\ n.chats = ch /\ n.phase = c.phase
      /\ n = [phase |-> n.phase, synced |-> n.synced, threads |-> n.threads, meta |-> n.meta,
              known |-> n.known, view |-> n.view, chats |-> n.chats]
  BY <1>2, <1>4
<1>7. IsCache(n)
  BY <1>1, <1>3, <1>6 DEF IsCache
<1>8. Updated(n, cache, slack', th, roots, Retained \cup RequestIDs, day) /\ n.phase = cache.phase
  BY <1>4, <1>5, <1>6, <1>7 DEF Updated
<1> QED BY <1>8 DEF n, th, roots, t

\* A post that was confirmed by a replay that shows it.
LEMMA PostShown ==
  ASSUME Inv, Rooted, Posting, NEW q \in asked, holder.id = q.id, NEW m, Fine(m, asked), PostOf(m, q),
         m.readable, m.thread \in Alert \/ m.thread # m.id => m.thread \in cache.known,
         q.type = "chat" => q.alert \notin Alert \ Retained,
         slack' = Append(slack, m), cache' = WithOwnPost(m), Complete(cache'),
         told' = told \cup {m.id}, asked' = asked,
         IsHolder(holder'), holder'.pc \in {"free", "decorating"}, holder'.rec = {},
         UNCHANGED <<flight, icons, day, age, remembered>>
  PROVE  Inv'
<1>a. PICK ts : ts = Len(slack')
  OBVIOUS
<1> DEFINE t == m.thread
           th == [cache.threads EXCEPT ![t] = @ \cup {ts}]
           roots == (cache.known \cup {t}) \cap (Padded \cup RequestIDs)
<1>1. /\ Updated(cache', cache, slack', th, roots, Retained \cup RequestIDs, day)
      /\ cache'.phase = cache.phase /\ cache'.view.fault = NoID
  BY <1>a, WithOwnPostFacts DEF Complete, Inv, Formed
<1>2. t \in Threads /\ t = q.alert /\ m.id = q.id /\ q.type = m.type
  BY DEF Fine, PostOf
<1>3. Padded' = Padded /\ Retained' = Retained
  BY DEF Padded, Retained
<1>4. /\ Grown /\ \A s : s.id # q.id => Quiet(s)
      /\ ts \in DOMAIN slack' /\ slack'[ts] = m
      /\ Recorded(q.id)' = Recorded(q.id) \cup {ts}
  BY <1>a, <1>2, GrownAppend
<1>5. /\ \A u \in Threads : th[u] = IF u = t THEN cache.threads[u] \cup {ts} ELSE cache.threads[u]
      /\ cache.known \subseteq Threads
  BY DEF Inv, Formed, IsCache, Shows
<1>6. roots \subseteq Threads /\ cache.known \cap Padded \subseteq roots
  BY <1>2, <1>5
<1>7. Threaded(th, slack')
  <2>1. ASSUME NEW u \in Threads, NEW us \in th[u]
        PROVE  us \in DOMAIN slack' /\ slack'[us].thread = u
    <3>1. CASE us \in cache.threads[u]
      BY <1>4, <3>1 DEF Inv, Shows, Threaded, Grown
    <3>2. CASE us = ts /\ u = t
      BY <1>4, <3>2
    <3> QED BY <1>5, <2>1, <3>1, <3>2
  <2> QED BY <2>1 DEF Threaded
<1> HIDE DEF th
<1>8. \A s \in asked : KeepsGuard(s)
  <2> HIDE DEF roots
  <2>1. holder'.pc # "sync"
    OBVIOUS
  <2> QED BY <1>1, <1>4, <1>6, <1>7, <2>1, RefreshKeepsGuard
<1>9. Shows(cache', slack') /\ ShowsChats(cache', slack', Retained \cup RequestIDs)
  <2>1. Requests(asked) /\ Archive(slack', asked)
    BY <1>4 DEF Grown
  <2> HIDE DEF roots
  <2> QED BY <1>1, <1>6, <1>7, <2>1, UpdatedFacts
<1>10. cache'.known = roots /\ cache'.threads = th /\ IsCache(cache')
  BY <1>1 DEF Updated
<1>11. Typed' /\ Formed'
  <2>1. Typed'
    BY <1>1 DEF Inv, Typed
  <2>2. Formed'
    BY <1>2, <1>4, <1>10 DEF Inv, Formed, Grown
  <2> QED BY <2>1, <2>2
<1>12. Seen(ts)'
  <2>1. slack'[ts].thread = t
    BY <1>4
  <2>2. t \in Padded \cup RequestIDs => t \in roots
    OBVIOUS
  <2>3. ts \in th[t]
    BY <1>2, <1>5
  <2> HIDE DEF t, roots
  <2> QED BY <1>3, <1>10, <2>1, <2>2, <2>3 DEF Seen
\* What was seen of other requests: a thread that was not known before is q's own.
<1>13. ASSUME NEW s \in asked, s # q, NEW us \in Recorded(s.id), Seen(us)
       PROVE  Seen(us)'
  <2>1. us \in DOMAIN slack /\ slack[us].id = s.id /\ slack'[us] = slack[us]
    BY <1>4 DEF Recorded, Grown
  <2>2. PostOf(slack[us], s)
    BY <2>1, MessageFacts DEF Inv, Formed, Archive
  <2>3. slack[us].thread = s.alert /\ s.alert \in Threads
    BY <2>2 DEF PostOf, Inv, Formed, Requests, FineRequest, Threads
  <2>4. s.alert \in Padded \cup RequestIDs =>
          /\ cache.phase = "ready" => s.alert \in cache.known
          /\ s.alert \in cache.known => us \in cache.threads[s.alert]
    BY <1>13, <2>3 DEF Seen
  <2>5. s.alert = t => t \in cache.known
    <3>1. SUFFICES ASSUME s.alert = q.alert, q.alert \notin Alert, q.alert = q.id PROVE FALSE
      BY <1>2
    <3>2. s.type = "chat" /\ q.type = "chat" /\ s.id # q.id
      BY <1>13, <3>1 DEF Inv, Formed, Requests, FineRequest
    <3>3. Recorded(q.id) # {}
      BY <3>1, <3>2 DEF Rooted
    <3> QED BY <3>2, <3>3, ChatOnce DEF Once, Posting
  <2>6. s.alert \in Padded \cup RequestIDs =>
          /\ cache'.phase = "ready" => s.alert \in roots
          /\ s.alert \in roots => us \in th[s.alert]
    BY <1>1, <1>5, <2>3, <2>4, <2>5
  <2> HIDE DEF roots
  <2> QED BY <1>3, <1>10, <2>1, <2>3, <2>6 DEF Seen
<1>14. ASSUME NEW s \in asked
       PROVE  ((Reinvestigates(s) \/ Once(s)) /\ Asking(s) /\ Answered(s))'
  <2>1. CASE s = q
    <3>1. Reinvestigates(q)' \/ Once(q)'
      <4>1. holder'.pc # "posting"
        OBVIOUS
      <4> QED BY <1>4, <4>1, OncePosted
    <3>2. Asking(q)'
      <4>1. SUFFICES ASSUME q.type = "chat", NEW us \in Recorded(q.id)' PROVE Seen(us)'
        BY DEF Asking
      <4>2. Recorded(q.id) = {}
        BY <4>1, ChatOnce DEF Once, Posting
      <4> QED BY <1>4, <1>12, <4>1, <4>2
    <3>3. Answered(q)'
      BY <1>4, <1>12 DEF Answered
    <3> QED BY <2>1, <3>1, <3>2, <3>3
  <2>2. CASE s # q
    <3>1. s.id # q.id
      BY <2>2 DEF Inv, Formed, Requests
    <3>2. Quiet(s) /\ KeepsGuard(s)
      BY <1>4, <1>8, <3>1
    <3>3. Reinvestigates(s)' \/ Once(s)'
      BY <1>4, <3>2, OnceKept
    <3>4. Recorded(s.id)' = Recorded(s.id)
      BY <1>4, <3>2, RecordedKept
    <3>5. Asking(s)'
      <4>1. SUFFICES ASSUME s.type = "chat", NEW us \in Recorded(s.id)',
                            ~Guarded(s)', s.alert \notin Alert \ Retained
                     PROVE  Seen(us)'
        BY <1>3 DEF Asking
      <4>2. Guarded(s) \/ Seen(us)
        BY <3>4, <4>1 DEF Inv, Posts, Asking
      <4>3. CASE Seen(us)
        BY <1>13, <2>2, <3>4, <4>1, <4>3
      <4>4. CASE Guarded(s)
        <5>1. PICK vs \in Recorded(s.id)' : Seen(vs)'
          BY <3>2, <4>1, <4>4 DEF KeepsGuard
        <5>2. vs = us
          BY <3>4, <4>1, <5>1, ChatOnce DEF Once
        <5> QED BY <5>1, <5>2
      <4> QED BY <4>2, <4>3, <4>4
    <3>6. Answered(s)'
      <4>1. SUFFICES ASSUME s.id \in told'
                     PROVE  \E us \in Recorded(s.id)' :
                              Seen(us)' /\ (s.type = "chat" => slack'[us].readable)
        BY DEF Answered
      <4>2. s.id \in told
        BY <1>2, <3>1, <4>1
      <4>3. PICK us \in Recorded(s.id) : Seen(us) /\ (s.type = "chat" => slack[us].readable)
        BY <4>2 DEF Inv, Posts, Answered
      <4>4. slack'[us] = slack[us]
        BY <1>4, <4>3 DEF Recorded, Grown
      <4> QED BY <1>13, <2>2, <3>4, <4>3, <4>4
    <3> QED BY <3>3, <3>5, <3>6
  <2> QED BY <2>1, <2>2
<1>15. Posts'
  BY <1>14 DEF Posts
<1> QED BY <1>3, <1>9, <1>11, <1>15 DEF Inv

LEMMA PostedStep ==
  ASSUME Inv, Rooted, Posted
  PROVE  Inv'
<1>1. Posting /\ UNCHANGED <<flight, icons, day, age, asked, remembered>>
  BY DEF Posted
<1>2. PICK q, m :
           /\ q \in asked
           /\ holder.rec = {m} /\ holder.id = q.id /\ Request(holder.id) = q
           /\ Fine(m, asked) /\ PostOf(m, q) /\ m.readable
           /\ m.thread \in Alert \/ m.thread # m.id => m.thread \in cache.known
           /\ q.alert \in Alert => q.alert \in cache.known
  BY <1>1, PostingFacts
<1> DEFINE c == WithOwnPost(m)
           shown == m.type = "action" \/ m.thread \notin Alert \ Retained
           unconfirmed == IF m.type = "action" THEN cache ELSE Attempted(cache, q, "uncertain")
<1>3. m.id = q.id /\ m.type = q.type /\ m.thread = q.alert
  BY <1>2 DEF PostOf
<1>4. /\ slack' = Append(slack, m)
      /\ IF Complete(c) /\ shown
         THEN /\ cache' = c
              /\ told' = told \cup {m.id}
              /\ holder' = [Idle EXCEPT !.pc = IF m.type = "action" THEN "decorating" ELSE "free"]
         ELSE /\ cache' = IF Complete(c) THEN unconfirmed ELSE Degraded(unconfirmed)
              /\ holder' = Idle /\ told' = told
  BY <1>2, <1>3 DEF Posted
<1>5. CASE Complete(c) /\ shown
  <2> DEFINE pc == IF m.type = "action" THEN "decorating" ELSE "free"
  <2>1. holder' = [Idle EXCEPT !.pc = pc] /\ cache' = c /\ told' = told \cup {m.id}
    BY <1>4, <1>5
  <2>2. pc \in {"free", "decorating"}
    OBVIOUS
  <2> HIDE DEF pc
  <2>3. IsHolder(holder') /\ holder'.pc \in {"free", "decorating"} /\ holder'.rec = {}
    BY <2>1, <2>2 DEF Idle, IsHolder
  <2>4. q.type = "chat" => q.alert \notin Alert \ Retained
    BY <1>3, <1>5
  <2> HIDE DEF c
  <2> QED BY <1>1, <1>2, <1>4, <1>5, <2>1, <2>3, <2>4, PostShown DEF c
<1>6. CASE ~(Complete(c) /\ shown)
  <2>1. IsCache(cache) /\ cache.phase \in {"catching_up", "ready", "degraded"}
    BY DEF Inv, Formed, Typed
  <2>2. /\ cache' = IF Complete(c) THEN unconfirmed ELSE Degraded(unconfirmed)
        /\ holder' = Idle /\ told' = told
    BY <1>4, <1>6
  <2>3. Grown /\ (\A s : s.id # q.id => Quiet(s)) /\ Recorded(q.id)' = Recorded(q.id) \cup {Len(slack')}
    BY <1>1, <1>2, <1>3, <1>4, GrownAppend
  <2>4. CASE m.type = "action"
    <3>1. cache' = Degraded(cache)
      BY <1>6, <2>2, <2>4
    <3>2. /\ IsCache(cache') /\ cache'.phase \in {"degraded", "catching_up"}
          /\ cache'.threads = cache.threads /\ cache'.known = cache.known
          /\ cache'.view = cache.view /\ cache'.chats = cache.chats
      BY <2>1, <3>1, DegradedFacts
    <3>3. SameShown(cache', cache) /\ \A s : KeepsGuard(s)
      <4>1. Padded' = Padded
        BY <1>1 DEF Padded
      <4> QED BY <3>2, <4>1, GuardKept DEF SameShown
    <3>4. Reinvestigates(q)' \/ Once(q)'
      <4>1. holder'.pc # "posting"
        BY <2>2, HolderFacts
      <4>2. \E ts : Recorded(q.id)' \subseteq Recorded(q.id) \cup {ts}
        BY <2>3
      <4> QED BY <1>1, <1>2, <2>3, <4>1, <4>2, OncePosted
    <3>5. Asking(q)'
      BY <1>3, <2>4 DEF Asking
    <3> QED BY <1>1, <1>2, <2>2, <2>3, <3>2, <3>3, <3>4, <3>5, PostOutcome
  <2>5. CASE m.type # "action"
    <3> DEFINE a == Attempted(cache, q, "uncertain")
    <3>1. cache' = a \/ cache' = Degraded(a)
      BY <2>2, <2>5
    <3>2. IsCache(a) /\ a.phase = cache.phase /\ a.threads = cache.threads /\ a.known = cache.known
      BY <2>1, AttemptedFacts DEF SameShown
    <3> HIDE DEF a
    <3>3. /\ IsCache(cache') /\ cache'.view = a.view /\ cache'.chats = a.chats
          /\ cache'.threads = cache.threads /\ cache'.known = cache.known
          /\ cache'.phase \in {"degraded", "catching_up"} \/ cache'.phase = cache.phase
      BY <3>1, <3>2, DegradedFacts
    <3>4. cache'.phase \in {"catching_up", "ready", "degraded"}
      BY <2>1, <3>3
    <3> QED BY <1>1, <1>2, <1>3, <1>4, <2>2, <3>3, <3>4, UncertainOutcome DEF a
  <2> QED BY <2>4, <2>5
<1> QED BY <1>5, <1>6
-----------------------------------------------------------------------------
(* The environment's messages, and restarts.                                 *)

\* A message arrives that was on its way, or Chai's.
LEMMA ArrivalStep ==
  ASSUME Inv, NEW m, Fine(m, asked), slack' = Append(slack, m),
         flight' \subseteq flight, m \notin flight',
         \A q \in asked : m.id = q.id => m \in flight,
         UNCHANGED <<icons, day, age, asked, told, cache, remembered, holder>>
  PROVE  Inv'
<1>1. /\ Grown /\ \A q : q.id # m.id => Quiet(q)
      /\ \A id : m.id = id => Recorded(id)' = Recorded(id) \cup {Len(slack')}
  BY GrownAppend
<1>2. Padded' = Padded /\ Retained' = Retained
  BY DEF Padded, Retained
<1>3. KeepsSeen /\ \A q : KeepsGuard(q)
  BY <1>1, <1>2, SeenKept, GuardKept
<1>4. Typed'
  BY DEF Inv, Typed
<1>5. Formed'
  BY <1>1, FormedKept DEF Inv, Formed
<1>6. Shows(cache', slack') /\ ShowsChats(cache', slack', Retained' \cup RequestIDs)
  BY <1>1, <1>2, ShownKept DEF SameShown
<1>7. ASSUME NEW q \in asked
      PROVE  ((Reinvestigates(q) \/ Once(q)) /\ Asking(q) /\ Answered(q))'
  <2>1. CASE q.id # m.id
    <3>1. Quiet(q) /\ KeepsGuard(q) /\ \A n \in flight' : n.id = q.id => n \in flight
      BY <1>1, <1>3, <2>1
    <3> QED BY <1>1, <1>2, <1>3, <3>1, RequestKept
  <2>2. CASE q.id = m.id
    <3>1. m \in flight /\ Recorded(q.id)' = Recorded(q.id) \cup {Len(slack')}
      BY <1>1, <2>2
    <3>2. Once(q) => /\ Recorded(q.id) = {} /\ Guarded(q)
                     /\ \A n \in flight' : n.id # q.id
                     /\ ~(holder.pc = "posting" /\ holder.id = q.id)
      BY <2>2, <3>1 DEF Once
    <3>3. Guarded(q)' <=> Guarded(q)
      BY <1>2 DEF Guarded
    <3>4. Reinvestigates(q)' \/ Once(q)'
      <4>1. CASE Reinvestigates(q)
        BY <1>1, <4>1, ReinvestigatesKept
      <4>2. CASE Once(q)
        BY <3>1, <3>2, <4>2 DEF Once
      <4> QED BY <4>1, <4>2 DEF Inv, Posts
    <3>5. Asking(q)'
      BY <3>2, <3>3, ChatOnce DEF Asking
    <3>6. Answered(q)'
      BY <1>1, <1>3, AnsweredKept
    <3> QED BY <3>4, <3>5, <3>6
  <2> QED BY <2>1, <2>2
<1>8. Posts'
  BY <1>7 DEF Posts
<1> QED BY <1>2, <1>4, <1>5, <1>6, <1>8 DEF Inv

LEMMA LandsStep ==
  ASSUME Inv, NEW m \in flight, Lands(m)
  PROVE  Inv'
<1>1. /\ slack' = Append(slack, m) /\ flight' = flight \ {m}
      /\ UNCHANGED <<icons, day, age, asked, told, cache, remembered, holder>>
  BY DEF Lands
<1>2. Fine(m, asked)
  BY DEF Inv, Formed
<1> QED BY <1>1, <1>2, ArrivalStep

LEMMA ChaiRepliesStep ==
  ASSUME Inv, NEW t \in Threads, ChaiReplies(t)
  PROVE  Inv'
<1> DEFINE m == Message("chai", t, NoID, {})
<1>1. /\ slack' = Append(slack, m)
      /\ UNCHANGED <<flight, icons, day, age, asked, told, cache, remembered, holder>>
  BY DEF ChaiReplies
<1>2. m.type = "chai" /\ m.id = NoID /\ m.rec = {} /\ m.thread = t /\ IsMessage(m)
  BY DEF Message, IsMessage
<1> HIDE DEF m
<1>3. Fine(m, asked) /\ m \notin flight
  BY <1>2 DEF Fine, Inv, Formed
<1>4. \A q \in asked : m.id # q.id
  BY <1>2, RequestAssumption DEF Inv, Formed, Requests, FineRequest, NoID
<1> QED BY <1>1, <1>3, <1>4, ArrivalStep

LEMMA EmptyFacts ==
  /\ IsCache(EmptyCache) /\ EmptyCache.phase = "catching_up" /\ EmptyCache.known = {}
  /\ EmptyCache.view.fault = NoID /\ DOMAIN EmptyCache.view.occ = {}
  /\ EmptyCache.chats.asked = {} /\ \A t \in Threads : EmptyCache.threads[t] = {}
BY DEF EmptyCache, IsCache, IsView, Blank

LEMMA EmptyShows ==
  ASSUME NEW sl, NEW inView
  PROVE  Shows(EmptyCache, sl) /\ ShowsChats(EmptyCache, sl, inView)
<1> DEFINE c == EmptyCache
<1>1. /\ c.known = {} /\ c.view.fault = NoID /\ DOMAIN c.view.occ = {}
      /\ c.chats.asked = {} /\ \A t \in Threads : c.threads[t] = {}
  BY EmptyFacts
<1> HIDE DEF c
<1>2. Threaded(c.threads, sl) /\ HasRecords(c.view, sl, c.threads, c.known \cap Alert)
  BY <1>1 DEF Threaded, HasRecords
<1>3. Shows(c, sl) /\ ShowsChats(c, sl, inView)
  BY <1>1, <1>2 DEF Shows, ShowsChats
<1> QED BY <1>3 DEF c

\* What is on its way or about to be posted.
LEMMA PostsFine ==
  ASSUME Inv
  PROVE  IsFiniteSet(flight \cup holder.rec) /\ \A m \in flight \cup holder.rec : Fine(m, asked)
<1>1. CASE holder.pc = "posting"
  <2>1. PICK m : holder.rec = {m} /\ Fine(m, asked)
    BY <1>1 DEF Inv, Formed
  <2>2. IsFiniteSet(flight \cup {m})
    BY FS_AddElement DEF Inv, Formed
  <2> QED BY <2>1, <2>2 DEF Inv, Formed
<1>2. CASE holder.pc # "posting"
  BY <1>2 DEF Inv, Formed
<1> QED BY <1>1, <1>2

\* After a restart nothing is known, and nothing of before it is on its way.
LEMMA CrashStep ==
  ASSUME Inv, Crash
  PROVE  Inv'
<1>1. PICK late \in Arrivals(flight \cup holder.rec) : slack' = slack \o late
  BY DEF Crash
<1>2. /\ flight' = {} /\ cache' = EmptyCache /\ holder' = Idle
      /\ remembered' = [a \in Alert |-> {"unknown"}]
      /\ UNCHANGED <<icons, day, age, asked, told>>
  BY DEF Crash
<1> DEFINE posts == flight \cup holder.rec
<1>3. IsFiniteSet(posts) /\ \A m \in posts : Fine(m, asked)
  BY PostsFine
<1>4. /\ Archive(slack', asked)
      /\ DOMAIN slack \subseteq DOMAIN slack' /\ \A ts \in DOMAIN slack : slack'[ts] = slack[ts]
      /\ \A ts \in DOMAIN slack' \ DOMAIN slack : slack'[ts] \in posts
      /\ \A ts, us \in DOMAIN slack' \ DOMAIN slack : slack'[ts] = slack'[us] => ts = us
  <2>1. Archive(slack, asked)
    BY DEF Inv, Formed
  <2> HIDE DEF posts
  <2> QED BY <1>1, <1>3, <2>1, ArrivalFacts DEF posts
<1>5. Grown
  BY <1>2, <1>4 DEF Grown, Inv, Formed
<1>6. /\ IsCache(cache') /\ cache'.phase = "catching_up" /\ cache'.known = {}
  BY <1>2, EmptyFacts
<1>7. IsHolder(holder') /\ holder'.pc = "free" /\ holder'.rec = {}
  BY <1>2, HolderFacts
<1>8. Typed'
  <2>1. remembered' \in [Alert -> (SUBSET Emoji) \cup {{"unknown"}}]
    BY <1>2
  <2> QED BY <1>2, <1>6, <1>7, <2>1 DEF Inv, Typed
<1>9. Formed'
  BY <1>2, <1>5, <1>6, <1>7, FS_EmptySet DEF Inv, Formed, Grown
<1>10. Shows(cache', slack') /\ ShowsChats(cache', slack', Retained' \cup RequestIDs)
  BY <1>2, EmptyShows
<1>11. \A ts : Seen(ts)'
  BY <1>6, <1>7 DEF Seen
<1>12. ASSUME NEW q \in asked
       PROVE  ((Reinvestigates(q) \/ Once(q)) /\ Asking(q) /\ Answered(q))'
  <2>1. Reinvestigates(q) => Reinvestigates(q)'
    BY <1>5, ReinvestigatesKept
  <2>2. ASSUME Once(q)
        PROVE  Once(q)'
    <3>1. \A m, n \in posts : m.id = q.id /\ n.id = q.id => m = n /\ Recorded(q.id) = {}
      <4>1. CASE holder.pc = "posting" /\ holder.id = q.id
        <5>1. PICK m : holder.rec = {m}
          BY <4>1 DEF Inv, Formed
        <5> QED BY <2>2, <4>1, <5>1 DEF Once
      <4>2. CASE ~(holder.pc = "posting" /\ holder.id = q.id)
        <5>1. \A m \in holder.rec : m.id # q.id
          BY <4>2 DEF Inv, Formed, PostOf
        <5> QED BY <2>2, <5>1 DEF Once
      <4> QED BY <4>1, <4>2
    <3>2. ASSUME NEW ts \in Recorded(q.id)', NEW us \in Recorded(q.id)'
          PROVE  ts = us
      <4>1. /\ ts \in DOMAIN slack' /\ slack'[ts].id = q.id
            /\ us \in DOMAIN slack' /\ slack'[us].id = q.id
        BY DEF Recorded
      <4>2. \A vs \in DOMAIN slack : slack'[vs].id = q.id => vs \in Recorded(q.id)
        BY <1>4 DEF Recorded
      <4>3. CASE ts \in DOMAIN slack /\ us \in DOMAIN slack
        BY <2>2, <4>1, <4>2, <4>3 DEF Once
      <4>4. CASE ts \notin DOMAIN slack
        <5>1. slack'[ts] \in posts /\ Recorded(q.id) = {}
          BY <1>4, <3>1, <4>1, <4>4
        <5>2. us \notin DOMAIN slack
          BY <4>1, <4>2, <5>1
        <5>3. slack'[us] \in posts
          BY <1>4, <4>1, <5>2
        <5>4. slack'[us] = slack'[ts]
          BY <3>1, <4>1, <5>1, <5>3
        <5> QED BY <1>4, <4>1, <4>4, <5>2, <5>4
      <4>5. CASE us \notin DOMAIN slack
        <5>1. slack'[us] \in posts /\ Recorded(q.id) = {}
          BY <1>4, <3>1, <4>1, <4>5
        <5>2. ts \notin DOMAIN slack
          BY <4>1, <4>2, <5>1
        <5>3. slack'[ts] \in posts
          BY <1>4, <4>1, <5>2
        <5>4. slack'[us] = slack'[ts]
          BY <3>1, <4>1, <5>1, <5>3
        <5> QED BY <1>4, <4>1, <4>5, <5>2, <5>4
      <4> QED BY <4>3, <4>4, <4>5
    <3> QED BY <1>2, <1>7, <3>2 DEF Once
  <2>3. Reinvestigates(q)' \/ Once(q)'
    BY <2>1, <2>2 DEF Inv, Posts
  <2>4. Asking(q)'
    BY <1>11 DEF Asking
  <2>5. Answered(q)'
    <3>1. KeepsSeen
      BY <1>11 DEF KeepsSeen
    <3> QED BY <1>2, <1>5, <3>1, AnsweredKept
  <2> QED BY <2>3, <2>4, <2>5
<1>13. Posts'
  BY <1>2, <1>12 DEF Posts
<1> QED BY <1>8, <1>9, <1>10, <1>13 DEF Inv
-----------------------------------------------------------------------------
(* The theorems.                                                             *)

LEMMA InitInv ==
  ASSUME Init
  PROVE  Inv
<1>1. /\ slack = <<>> /\ flight = {} /\ day = 0 /\ asked = {} /\ told = {}
      /\ icons = [a \in Alert |-> {}] /\ age = [a \in Alert |-> "visible"]
      /\ cache = EmptyCache /\ holder = Idle
      /\ remembered = [a \in Alert |-> {"unknown"}]
  BY DEF Init
<1>2. /\ IsCache(cache) /\ cache.phase = "catching_up"
      /\ Shows(cache, slack) /\ ShowsChats(cache, slack, Retained \cup RequestIDs)
  BY <1>1, EmptyFacts, EmptyShows
<1>3. IsHolder(holder) /\ holder.pc = "free" /\ holder.rec = {}
  BY <1>1, HolderFacts
<1>4. Typed
  <2>1. 0 \in 0..Days
    BY ServiceAssumption
  <2> QED BY <1>1, <1>2, <1>3, <2>1 DEF Typed
<1>5. Archive(slack, asked)
  <2>1. slack \in Seq({slack[ts] : ts \in DOMAIN slack}) /\ DOMAIN slack = {}
    BY <1>1
  <2> QED BY <2>1 DEF Archive, IsArchive
<1>6. Formed
  BY <1>1, <1>2, <1>3, <1>5, FS_EmptySet DEF Formed, Requests
<1>7. Posts
  BY <1>1 DEF Posts
<1> QED BY <1>2, <1>4, <1>6, <1>7 DEF Inv

\* A request is added: a question about an alert, in a thread of its own or in one that the
\* cache has a question of.
Adds(q) ==
  /\ asked' = asked \cup {q}
  /\ q.type = "chat" => q.alert \in Alert \cup Conversations \cup {q.id}

\* Slack loses nothing, and requests are added one by one.
LEMMA StepGrows ==
  ASSUME Inv, [Next]_vars
  PROVE  /\ DOMAIN slack \subseteq DOMAIN slack' /\ \A ts \in DOMAIN slack : slack'[ts] = slack[ts]
         /\ disabled \in BOOLEAN => disabled' \in BOOLEAN
         /\ asked' = asked \/ (slack' = slack /\ \E q : Adds(q))
<1> DEFINE Grows == DOMAIN slack \subseteq DOMAIN slack' /\ \A ts \in DOMAIN slack : slack'[ts] = slack[ts]
           Keeps == disabled \in BOOLEAN => disabled' \in BOOLEAN
           Asks == slack' = slack /\ \E q : Adds(q)
<1>1. slack' = slack => Grows
  OBVIOUS
<1>2. Archive(slack, asked)
  BY DEF Inv, Formed
<1>3. ASSUME NEW m, slack' = Append(slack, m) PROVE Grows
  BY <1>2, <1>3 DEF Archive, IsArchive
<1> HIDE DEF Grows
<1>5. ASSUME NEW id \in RequestIDs, NEW a \in Alert, NEW form \in Forms, Ask(id, a, form)
      PROVE  disabled' = disabled /\ Asks
  <2> DEFINE q == [type |-> "action", id |-> id, alert |-> a, kind |-> form[1],
                   scope |-> form[2], expected |-> Effective(cache.view, a, day).rev]
  <2>1. q.type # "chat"
    OBVIOUS
  <2>2. asked' = asked \cup {q} /\ slack' = slack /\ disabled' = disabled
    BY <1>5 DEF Ask, world
  <2> HIDE DEF q
  <2> QED BY <2>1, <2>2 DEF Adds
<1>6. ASSUME NEW id \in RequestIDs, NEW t \in Threads, AskChai(id, t)
      PROVE  disabled' = disabled /\ Asks
  <2> DEFINE q == [type |-> "chat", id |-> id, alert |-> t, kind |-> "chat",
                   scope |-> "", expected |-> <<0, NoID>>]
  <2>1. q.alert = t /\ q.id = id
    OBVIOUS
  <2>2. /\ asked' = asked \cup {q} /\ slack' = slack /\ disabled' = disabled
        /\ t \in (Retained \cap DOMAIN cache.view.occ) \cup Conversations \cup {id}
    BY <1>6 DEF AskChai, world
  <2>3. q.alert \in Alert \cup Conversations \cup {q.id}
    BY <2>1, <2>2 DEF Retained
  <2> HIDE DEF q
  <2> QED BY <2>2, <2>3 DEF Adds
<1> HIDE DEF Asks
<1>7. ASSUME NEW id \in RequestIDs,
             \/ ActAnswers(id) \/ ActPrepares(id) \/ ActStops(id)
             \/ ConverseAnswers(id) \/ ConversePrepares(id)
      PROVE  slack' = slack /\ asked' = asked /\ disabled' = disabled
  BY <1>7 DEF ActAnswers, ActPrepares, ActStops, ConverseAnswers, ConversePrepares, world
<1>8. ASSUME \/ SyncStart \/ SyncEnd \/ SyncFails \/ PostRefused
             \/ \E t \in Threads : RefreshConversation(t)
      PROVE  Grows /\ Keeps /\ asked' = asked
  <2>1. slack' = slack /\ asked' = asked /\ disabled' = disabled
    BY <1>8 DEF SyncStart, SyncEnd, SyncFails, PostRefused, RefreshConversation, world
  <2> QED BY <1>1, <2>1
<1>9. ASSUME Posted \/ PostUncertain \/ PostGarbled
      PROVE  Grows /\ Keeps /\ asked' = asked
  <2>1. asked' = asked /\ disabled' = disabled
    BY <1>9 DEF Posted, PostUncertain, PostGarbled
  <2>2. slack' = slack \/ \E m : slack' = Append(slack, m)
    BY <1>9 DEF Posted, PostUncertain, PostGarbled
  <2> QED BY <1>1, <1>3, <2>1, <2>2
<1>10. ASSUME Decorate \/ DecorateFails \/ DecorateLost \/ DecorateRefused \/ DecorateSkips
       PROVE  Grows /\ Keeps /\ asked' = asked
  <2>1. slack' = slack /\ asked' = asked
    BY <1>10 DEF Decorate, DecorateFails, DecorateLost, DecorateRefused, DecorateSkips, DecorateWith,
                 world
  <2>2. Keeps
    BY <1>10 DEF Decorate, DecorateFails, DecorateLost, DecorateRefused, DecorateSkips
  <2> QED BY <1>1, <2>1, <2>2
<1>11. ASSUME Environment
       PROVE  Grows /\ Keeps /\ asked' = asked
  <2>1. CASE \/ \E m \in flight : Lands(m)
             \/ \E t \in Threads : ChaiReplies(t)
    <3>1. asked' = asked /\ disabled' = disabled /\ \E m : slack' = Append(slack, m)
      BY <2>1 DEF Lands, ChaiReplies
    <3> QED BY <1>3, <3>1
  <2>2. CASE NextDay \/ \E a \in Alert : Ages(a)
    <3>1. slack' = slack /\ asked' = asked /\ disabled' = disabled
      BY <2>2 DEF NextDay, Ages
    <3> QED BY <1>1, <3>1
  <2>3. CASE Crash
    <3>1. asked' = asked /\ disabled' = FALSE
      BY <2>3 DEF Crash
    <3>2. PICK late \in Arrivals(flight \cup holder.rec) : slack' = slack \o late
      BY <2>3 DEF Crash
    <3>3. Grows
      <4> DEFINE posts == flight \cup holder.rec
      <4>1. IsFiniteSet(posts) /\ \A m \in posts : Fine(m, asked)
        BY PostsFine
      <4> HIDE DEF posts
      <4>2. /\ DOMAIN slack \subseteq DOMAIN (slack \o late)
            /\ \A ts \in DOMAIN slack : (slack \o late)[ts] = slack[ts]
        BY <1>2, <3>2, <4>1, ArrivalFacts DEF posts
      <4> QED BY <3>2, <4>2 DEF Grows
    <3> QED BY <3>1, <3>3
  <2> QED BY <1>11, <2>1, <2>2, <2>3 DEF Environment
<1> HIDE DEF Keeps
<1>a. disabled' = disabled => Keeps
  BY DEF Keeps
<1>12. ASSUME Next PROVE Grows /\ Keeps /\ (asked' = asked \/ Asks)
  <2>1. ASSUME NEW id \in RequestIDs,
               \/ \E a \in Alert, form \in Forms : Ask(id, a, form)
               \/ \E t \in Threads : AskChai(id, t)
        PROVE  Grows /\ Keeps /\ (asked' = asked \/ Asks)
    BY <1>1, <1>5, <1>6, <1>a, <2>1 DEF Asks
  <2>2. ASSUME NEW id \in RequestIDs,
               \/ ActAnswers(id) \/ ActPrepares(id) \/ ActStops(id)
               \/ ConverseAnswers(id) \/ ConversePrepares(id)
        PROVE  Grows /\ Keeps /\ (asked' = asked \/ Asks)
    BY <1>1, <1>7, <1>a, <2>2
  <2> QED BY <1>8, <1>9, <1>10, <1>11, <1>12, <2>1, <2>2 DEF Next, Holder
<1>13. Grows /\ Keeps /\ (asked' = asked \/ Asks)
  <2>1. UNCHANGED vars => slack' = slack /\ asked' = asked /\ disabled' = disabled
    BY DEF vars, world
  <2> QED BY <1>1, <1>12, <1>a, <2>1
<1> QED BY <1>13 DEF Grows, Keeps, Asks

\* A question follows up in a thread that the cache has one of, and so the archive.
LEMMA RootedStep ==
  ASSUME Inv, Rooted, [Next]_vars
  PROVE  Rooted'
<1>1. \A id : Recorded(id) \subseteq Recorded(id)'
  BY StepGrows DEF Recorded
<1>2. CASE asked' = asked
  BY <1>1, <1>2 DEF Rooted
<1>3. ASSUME slack' = slack, NEW q, Adds(q)
      PROVE  Rooted'
  <2>1. SUFFICES ASSUME q.type = "chat", q.alert \in Conversations, q.alert \notin Alert
                 PROVE  Recorded(q.alert) # {}
    BY <1>1, <1>3 DEF Rooted, Adds
  <2>2. PICK ts \in cache.threads[q.alert] :
          slack[ts].type = "chat" \/ \E r \in slack[ts].rec : r.kind = "investigate"
    BY <2>1 DEF Conversations
  <2>3. ts \in DOMAIN slack /\ slack[ts].thread = q.alert
    BY <2>1, <2>2 DEF Conversations, Inv, Shows, Threaded
  <2>4. Fine(slack[ts], asked) /\ slack[ts].id = slack[ts].id
    BY <2>3 DEF Inv, Formed, Archive
  <2>5. PICK s \in asked : PostOf(slack[ts], s)
    BY <2>2, <2>4 DEF Fine
  <2>6. FineRequest(s) /\ s.alert = q.alert /\ slack[ts].id = s.id
    BY <2>3, <2>5 DEF PostOf, Inv, Formed, Requests
  <2>7. s.type = "chat"
    BY <2>1, <2>6 DEF FineRequest
  <2>8. CASE s.id = q.alert
    BY <2>3, <2>6, <2>8 DEF Recorded
  <2>9. CASE s.id # q.alert
    BY <2>1, <2>6, <2>7, <2>9 DEF Rooted
  <2> QED BY <2>8, <2>9
<1> QED BY <1>2, <1>3, StepGrows

LEMMA StepInv ==
  ASSUME Inv, Rooted, [Next]_vars
  PROVE  Inv'
<1>1. CASE UNCHANGED vars
  <2>1. /\ slack' = slack /\ flight' = flight /\ icons' = icons /\ day' = day /\ age' = age
        /\ asked' = asked /\ told' = told /\ cache' = cache /\ remembered' = remembered
        /\ holder' = holder
    BY <1>1 DEF vars, world
  <2>2. Padded' = Padded /\ Retained' = Retained
    BY <2>1 DEF Padded, Retained
  <2>3. KeepsSeen
    BY <2>1, <2>2, GrownSame, SeenKept
  <2>4. Typed'
    BY <2>1 DEF Inv, Typed
  <2> QED BY <2>1, <2>2, <2>3, <2>4, QuietStep DEF Inv, Formed
<1>2. CASE Next
  <2>1. ASSUME NEW id \in RequestIDs,
               \/ \E a \in Alert, form \in Forms : Ask(id, a, form)
               \/ \E t \in Threads : AskChai(id, t)
        PROVE  Inv'
    BY <2>1, AskStep, AskChaiStep
  <2>2. ASSUME NEW id \in RequestIDs,
               ActAnswers(id) \/ ActPrepares(id) \/ ActStops(id)
        PROVE  Inv'
    BY <2>2, ActAnswersStep, ActPreparesStep, ActStopsStep
  <2>3. ASSUME NEW id \in RequestIDs, ConverseAnswers(id) \/ ConversePrepares(id)
        PROVE  Inv'
    BY <2>3, ConverseAnswersStep, ConversePreparesStep
  <2>4. CASE SyncStart
    BY <2>4, SyncStartStep
  <2>5. CASE Posted \/ PostRefused \/ PostUncertain \/ PostGarbled
    BY <2>5, PostedStep, PostRefusedStep, PostUncertainStep, PostGarbledStep
  <2>6. CASE SyncEnd \/ SyncFails
    BY <2>6, SyncEndStep, SyncFailsStep
  <2>7. CASE Decorate \/ DecorateFails \/ DecorateLost \/ DecorateRefused
    <3>1. \E done, confirmed : DecorateWith(done, confirmed)
      BY <2>7 DEF Decorate, DecorateFails, DecorateLost, DecorateRefused
    <3> QED BY <3>1, DecorateStep
  <2>8. ASSUME NEW t \in Threads, RefreshConversation(t)
        PROVE  Inv'
    BY <2>8, RefreshStep
  <2>9. CASE Environment
    BY <2>9, LandsStep, ChaiRepliesStep, AgesStep, NextDayStep, CrashStep DEF Environment
  <2>10. CASE DecorateSkips
    BY <2>10, DecorateSkipsStep
  <2> QED BY <1>2, <2>1, <2>2, <2>3, <2>4, <2>5, <2>6, <2>7, <2>8, <2>9, <2>10 DEF Next, Holder
<1> QED BY <1>1, <1>2

LEMMA InductiveInvariant == Spec => [](Inv /\ Rooted /\ disabled \in BOOLEAN)
<1>1. Init => Inv /\ Rooted /\ disabled \in BOOLEAN
  BY InitInv DEF Init, Rooted
<1>2. /\ Inv /\ Rooted /\ disabled \in BOOLEAN /\ [Next]_vars
      => (Inv /\ Rooted /\ disabled \in BOOLEAN)'
  BY StepInv, RootedStep, StepGrows
<1> QED BY <1>1, <1>2, PTL DEF Spec

\* Every variable keeps its type; in particular, what the cache has of a thread is in it.
THEOREM TypeCorrect == Spec => []TypeOK
BY InductiveInvariant, TypeFacts, PTL

\* No request is in Slack twice, whatever became of its posts and of the service; only
\* a second investigation of an alert is not guarded.
THEOREM RecordedAtMostOnce == Spec => []RecordedOnce
<1>1. Inv => RecordedOnce
  <2>1. SUFFICES ASSUME Inv, NEW q \in asked, ~Reinvestigates(q)
                 PROVE  Cardinality(Recorded(q.id)) <= 1
    BY DEF RecordedOnce
  <2>2. \A ts, us \in Recorded(q.id) : ts = us
    BY <2>1 DEF Inv, Posts, Once
  <2>3. CASE Recorded(q.id) = {}
    <3>1. Cardinality(Recorded(q.id)) = 0
      BY <2>3, FS_EmptySet
    <3> QED BY <3>1
  <2>4. CASE Recorded(q.id) # {}
    <3>1. PICK ts : Recorded(q.id) = {ts}
      BY <2>2, <2>4
    <3>2. Cardinality(Recorded(q.id)) = 1
      BY <3>1, FS_Singleton
    <3> QED BY <3>2
  <2> QED BY <2>3, <2>4
<1> QED BY <1>1, InductiveInvariant, PTL

\* What an operator was told stays in every complete queue while the alert is in its window.
THEOREM AnswersKept == Spec => []AnsweredIsKept
<1>1. Inv => AnsweredIsKept
  <2>1. SUFFICES ASSUME Inv, NEW q \in asked, q.id \in told, cache.phase = "ready"
                 PROVE  IF q.type = "chat"
                        THEN q.id \in cache.chats.asked \/ q.alert \in Alert \ Retained
                        ELSE Find(cache.view.records, q.id) # {} \/ q.alert \notin Padded
    BY DEF AnsweredIsKept
  <2>2. PICK ts \in Recorded(q.id) : Seen(ts) /\ (q.type = "chat" => slack[ts].readable)
    BY <2>1 DEF Inv, Posts, Answered
  <2>3. ts \in DOMAIN slack /\ slack[ts].id = q.id
    BY DEF Recorded
  <2>4. PostOf(slack[ts], q) /\ FineRequest(q)
    BY <2>1, <2>3, MessageFacts DEF Inv, Formed, Archive, Requests
  <2>5. slack[ts].type = q.type /\ slack[ts].thread = q.alert
    BY <2>4 DEF PostOf
  <2>6. q.alert \in Padded \cup RequestIDs => q.alert \in cache.known /\ ts \in cache.threads[q.alert]
    BY <2>1, <2>2, <2>5 DEF Seen
  <2>7. CASE q.type = "chat"
    <3>1. SUFFICES ASSUME q.alert \notin Alert \ Retained PROVE q.id \in cache.chats.asked
      BY <2>7
    <3>2. q.alert \in Retained \cup RequestIDs /\ q.alert \in Padded \cup RequestIDs
      BY <2>4, <2>7, <3>1 DEF FineRequest, Retained, Padded, Threads
    <3>3. ShowsChats(cache, slack, Retained \cup RequestIDs)
      BY <2>1 DEF Inv
    <3> QED BY <2>2, <2>3, <2>5, <2>6, <2>7, <3>2, <3>3 DEF ShowsChats
  <2>8. CASE q.type = "action"
    <3>1. SUFFICES ASSUME q.alert \in Padded PROVE \E r \in cache.view.records : r.id = q.id
      BY <2>8 DEF Find
    <3>2. q.alert \in cache.known \cap Alert /\ ts \in cache.threads[q.alert]
      BY <2>6, <3>1 DEF Padded
    <3>3. HasRecords(cache.view, slack, cache.threads, cache.known \cap Alert)
      BY <2>1 DEF Inv, Shows
    <3> QED BY <2>3, <2>5, <2>8, <3>2, <3>3 DEF HasRecords
  <2> QED BY <2>4, <2>7, <2>8 DEF FineRequest
<1> QED BY <1>1, InductiveInvariant, PTL
=============================================================================
