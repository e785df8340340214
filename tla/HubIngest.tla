----------------------------- MODULE HubIngest -----------------------------
(***************************************************************************)
(* How the hub turns the snapshots of one node into points, card-hour      *)
(* edges and rollups, events and a live status (internal/hub/ingest.go),   *)
(* beside the hourly retention job (internal/hub/prune.go).                *)
(*                                                                         *)
(* The agent of the node takes samples; each may be delivered late, out of *)
(* order, several times or never.  Ingest and Prune each run in one SQLite *)
(* transaction under h.mu, so each is one step: a crash inside one rolls   *)
(* it back and leaves the state as it was.                                 *)
(***************************************************************************)
EXTENDS EdgeLoop, FiniteSets

CONSTANTS
    MaxBoot,        \* bound: how often the agent may be started
    MaxSamples,     \* bound: how many samples it may take in all
    MaxTime,        \* bound: the last instant considered
    Start,          \* the first instant, long after the zero of the clock
    Ahead,          \* bound: how far the agent's clock runs ahead of the hub's
    Future,         \* how far ahead a sample the hub still accepts (30 s)
    Accept,         \* how old a sample the hub still accepts (25 hours)
    Retain,         \* retention of samples, points and edges (48 hours)
    EventRetain,    \* retention of events (30 days)
    MinuteRetain,   \* retention of minute rollups (30 days)
    HourRetain,     \* retention of hour rollups (500 days)
    Online,         \* a node is shown online so long after its last report
    Readings,       \* what one collection can say of a card
    GPUStatuses     \* outcomes of the inventory, "ok" among them

\* What the collector reports and the statuses the hub itself gives a card.
Status  == {r.status : r \in Readings} \cup {"query_failed", "not_detected"}
Process == {r.process : r \in Readings} \cup {"unknown"}

ReadingType == [status : Status, process : Process,
                owners : SUBSET (User \cup {NoUser}), util : Nat \cup {NoUtil}]

ASSUME IngestAssumption ==
    /\ {MaxBoot, MaxSamples, MaxTime, Start, Ahead, Future, Accept, Retain,
        EventRetain, MinuteRetain, HourRetain, Online} \subseteq Nat
    /\ Readings \subseteq ReadingType
    /\ IsFiniteSet(GPU)

\* No collection says so of a card: the hub does, of one it misses.
ASSUME ReadingAssumption == \A r \in Readings : r.status # "not_detected"

\* Retention outlasts everything a sample still accepted can touch: the
\* points two intervals before it, and the rows of the edges it replaces.
ASSUME RetentionAssumption ==
    /\ Accept + 2 * Interval <= Retain
    /\ Accept + 2 * Interval + Minute <= MinuteRetain
    /\ Accept + 2 * Interval + Hour <= HourRetain

VARIABLES
    now,        \* the hub's clock
    taken,      \* the samples the agent has taken
    samples,    \* table samples: the identities already ingested
    points,     \* table points
    edges,      \* table edges: neighbouring points whose time is charged
    rollups,    \* table rollups, by key
    events,     \* table events
    gpus,       \* table gpus: first and last time each card was seen
    snapshot,   \* nodes.snapshot and nodes.sample_at
    receivedAt, \* nodes.received_at
    observed,   \* history: every point ever inserted
    charged     \* history: every edge whose time the rollups now include

tables == <<samples, points, edges, rollups, events, gpus, snapshot, receivedAt>>
vars == <<now, taken, tables, observed, charged>>

-----------------------------------------------------------------------------
(* Types. *)

Time == Int
Boot == 1..MaxBoot
Seq  == 1..MaxSamples

\* (boot, seq) is the idempotency key of a sample; the node is fixed.
SampleType == [boot : Boot, seq : Seq, at : Time, gpuStatus : GPUStatuses,
               cards : UNION {[D -> Readings] : D \in SUBSET GPU}]

PointType == [status : Status, process : Process,
              owners : SUBSET (User \cup {NoUser}), util : Nat \cup {NoUtil},
              boot : Boot, seq : Seq, at : Time, gpu : GPU]

EdgeType == [left : PointType, right : PointType]

\* (kind, gpu, boot, seq) stands for the row id: the sample that wrote the row.
EventType == [boot : Boot, seq : Seq, at : Time, gpu : GPU,
              kind : {"started", "failure", "missing"}]

TypeOK ==
    /\ now \in Nat
    /\ taken \subseteq SampleType
    /\ samples \subseteq [boot : Boot, seq : Seq, at : Time]
    /\ points \subseteq PointType
    /\ edges \subseteq EdgeType
    /\ DOMAIN rollups \subseteq RollupKey
    /\ rollups \in [DOMAIN rollups -> Row]
    /\ events \subseteq EventType
    /\ DOMAIN gpus \subseteq GPU
    /\ gpus \in [DOMAIN gpus -> [first : Time, last : Time]]
    /\ DOMAIN snapshot.cards \subseteq GPU
    /\ snapshot \in [at : Time, cards : [DOMAIN snapshot.cards -> Status]]
    /\ receivedAt \in Time
    /\ observed \subseteq PointType
    /\ charged \subseteq EdgeType

NoRows == [x \in {} |-> x]

Init ==
    /\ now = Start
    /\ taken = {}
    /\ samples = {}
    /\ points = {}
    /\ edges = {}
    /\ rollups = NoRows
    /\ events = {}
    /\ gpus = NoRows
    /\ snapshot = [at |-> 0, cards |-> NoRows]
    /\ receivedAt = 0
    /\ observed = {}
    /\ charged = {}

-----------------------------------------------------------------------------
(* The agent and the clock. *)

Tick ==
    /\ now < MaxTime
    /\ now' = now + 1
    /\ UNCHANGED <<taken, tables, observed, charged>>

\* seq restarts at 1 with every start of the agent and then counts up.
FreshIdentity(boot, seq) ==
    /\ \A s \in taken : s.boot <= boot
    /\ boot > 1 => \E s \in taken : s.boot >= boot - 1
    /\ \A s \in taken : s.boot = boot => s.seq < seq
    /\ seq > 1 => \E s \in taken : s.boot = boot /\ s.seq = seq - 1

\* The collector reports any set of cards with any readings; a failed
\* inventory still lists the cards it knew.
Take ==
    /\ Cardinality(taken) < MaxSamples
    /\ \E boot \in Boot, seq \in Seq, at \in now .. (now + Ahead),
          status \in GPUStatuses, D \in SUBSET GPU :
         \E cards \in [D -> Readings] :
            /\ FreshIdentity(boot, seq)
            /\ \A s \in taken : s.at < at
            /\ taken' = taken \cup
                 {[boot |-> boot, seq |-> seq, at |-> at,
                   gpuStatus |-> status, cards |-> cards]}
    /\ UNCHANGED <<now, tables, observed, charged>>

-----------------------------------------------------------------------------
(* Ingest of one snapshot. *)

Accepted(s) == s.at <= now + Future /\ s.at >= now - Accept

Duplicate(s) == \E r \in samples : r.boot = s.boot /\ r.seq = s.seq

Known == DOMAIN snapshot.cards

\* Fault: a failed inventory does not keep the known cards.
Carried_nothing(s) == {}

\* A failed inventory says nothing about presence: the known cards it does not
\* list, and that existed by then, get an invalid observation.
Carried(s) ==
    IF s.gpuStatus = "ok" THEN {}
    ELSE {g \in Known \ DOMAIN s.cards : gpus[g].first <= s.at}

Unqueried == [status |-> "query_failed", process |-> "unknown",
              owners |-> {}, util |-> NoUtil]

\* The readings of the snapshot after the carried cards are appended.
Reported(s) ==
    [g \in DOMAIN s.cards \cup Carried(s) |->
        IF g \in DOMAIN s.cards THEN s.cards[g] ELSE Unqueried]

PointOf(s, g) ==
    LET r == Reported(s)[g]
    IN [status |-> r.status, process |-> r.process,
        owners |-> r.owners, util |-> r.util,
        boot |-> s.boot, seq |-> s.seq, at |-> s.at, gpu |-> g]

NewPoints(s) == {PointOf(s, g) : g \in DOMAIN Reported(s)}

SameChain(p, q) == p.gpu = q.gpu /\ p.boot = q.boot

\* Fault: the earliest point of the chain for the nearest earlier one.
Before_earliest(p) == {q \in points :
    /\ SameChain(q, p)
    /\ q.at < p.at
    /\ \A r \in points : SameChain(r, p) /\ r.at < p.at => r.at >= q.at}

\* The nearest earlier and the nearest later point of the same start of the
\* agent, by sampling time and not by arrival: empty or a singleton.
Before(p) == {q \in points :
    /\ SameChain(q, p)
    /\ q.at < p.at
    /\ \A r \in points : SameChain(r, p) /\ r.at < p.at => r.at <= q.at}

After(p) == {q \in points :
    /\ SameChain(q, p)
    /\ q.at > p.at
    /\ \A r \in points : SameChain(r, p) /\ r.at > p.at => r.at >= q.at}

Incoming(new) == {e \in [left : points, right : new] : e.left \in Before(e.right)}
Outgoing(new) == {e \in [left : new, right : points] : e.right \in After(e.left)}

SameEdgeKey(e, f) == SameChain(e.right, f.right) /\ e.right.seq = f.right.seq

\* Fault: a new edge is inserted beside the one it splits.
Replaced_nothing(new) == {}

\* The stored edges that INSERT OR REPLACE overwrites.
Replaced(new) == {e \in edges :
    \E f \in Incoming(new) \cup Outgoing(new) : SameEdgeKey(e, f)}

\* What a set of edges with at most one per card adds to the row of key k.
Share(E, k) ==
    IF \E e \in E : e.left.gpu = k.gpu
    THEN LET e == CHOOSE e \in E : e.left.gpu = k.gpu
         IN Contribution(e.left, e.right, k)
    ELSE ZeroRow

RowAt(k) == IF k \in DOMAIN rollups THEN rollups[k] ELSE ZeroRow

TouchedBy(E) == UNION {Touched(e.left, e.right) : e \in E}

\* Fault: the replaced edge is not taken back.
Recharged_without_undo(new) ==
    [k \in DOMAIN rollups \cup TouchedBy(Incoming(new) \cup Outgoing(new)) |->
        Plus(Plus(RowAt(k), Share(Incoming(new), k)), Share(Outgoing(new), k))]

\* The replaced edges are taken back, the new ones are added.
Recharged(new) ==
    [k \in DOMAIN rollups
            \cup TouchedBy(Incoming(new) \cup Outgoing(new) \cup Replaced(new)) |->
        Plus(Plus(Minus(RowAt(k), Share(Replaced(new), k)),
                  Share(Incoming(new), k)),
             Share(Outgoing(new), k))]

Event(kind, g, s) ==
    [boot |-> s.boot, seq |-> s.seq, at |-> s.at, gpu |-> g, kind |-> kind]

Started(new) ==
    {Event("started", p.gpu, p) : p \in {p \in new : Before(p) = {} /\ After(p) = {}}}

\* Fault: the start keeps the time of the first sample to arrive.
Backdated_never(new) == events

\* A late sample before the first known one moves the start of its boot back.
Backdated(new) ==
    {LET earlier == {p \in new : /\ e.kind = "started"
                                 /\ SameChain(e, p)
                                 /\ Before(p) = {}
                                 /\ After(p) # {}
                                 /\ p.at < e.at}
     IN IF earlier = {} THEN e
        ELSE [e EXCEPT !.at = (CHOOSE p \in earlier : TRUE).at] : e \in events}

Failures(new) ==
    {Event("failure", p.gpu, p) : p \in {p \in new :
        /\ p.status # "ok"
        /\ \A q \in Before(p) : q.status = "ok"}}

IsLatest(s) == s.at > snapshot.at

\* Fault: a failed inventory misses cards too.
Absent_unasked(s) == IF IsLatest(s) THEN Known \ DOMAIN s.cards ELSE {}

\* Only a successful inventory newer than the live one can miss a card.
Absent(s) ==
    IF IsLatest(s) /\ s.gpuStatus = "ok" THEN Known \ DOMAIN s.cards ELSE {}

Missing(s) ==
    {Event("missing", g, s) : g \in {g \in Absent(s) :
        snapshot.cards[g] # "not_detected"}}

\* Fault: a card was first seen when its first sample arrived.
Registered_by_arrival(s) ==
    [g \in DOMAIN gpus \cup DOMAIN Reported(s) |->
        IF g \notin DOMAIN Reported(s) THEN gpus[g]
        ELSE IF g \notin DOMAIN gpus THEN [first |-> s.at, last |-> s.at]
        ELSE [gpus[g] EXCEPT !.last = IF s.at > @ THEN s.at ELSE @]]

Registered(s) ==
    [g \in DOMAIN gpus \cup DOMAIN Reported(s) |->
        IF g \notin DOMAIN Reported(s) THEN gpus[g]
        ELSE IF g \notin DOMAIN gpus THEN [first |-> s.at, last |-> s.at]
        ELSE [first |-> IF s.at < gpus[g].first THEN s.at ELSE gpus[g].first,
              last  |-> IF s.at > gpus[g].last THEN s.at ELSE gpus[g].last]]

Live(s) ==
    IF IsLatest(s)
    THEN [at    |-> s.at,
          cards |-> [g \in DOMAIN Reported(s) \cup Absent(s) |->
                        IF g \in Absent(s) THEN "not_detected"
                        ELSE Reported(s)[g].status]]
    ELSE snapshot

\* Fault: any sample that is not a replay counts, however old.
Heard_late(s, backfill) == ~backfill /\ s.at >= snapshot.at

\* Only a fresh report that is not a replay counts as hearing from the node.
Heard(s, backfill) ==
    ~backfill /\ s.at >= snapshot.at /\ now - s.at <= 2 * Interval

\* The agent's mark is computed from its own clock, at most Ahead of the hub's.
MayBeMarked(s, backfill) == backfill => now + Ahead - s.at > 2 * Interval

Record(s, backfill) ==
    LET new == NewPoints(s) IN
    /\ samples' = samples \cup {[boot |-> s.boot, seq |-> s.seq, at |-> s.at]}
    /\ points' = points \cup new
    /\ edges' = (edges \ Replaced(new)) \cup Incoming(new) \cup Outgoing(new)
    /\ rollups' = Recharged(new)
    /\ events' = Backdated(new) \cup Started(new) \cup Failures(new) \cup Missing(s)
    /\ gpus' = Registered(s)
    /\ snapshot' = Live(s)
    /\ receivedAt' = IF Heard(s, backfill) THEN now ELSE receivedAt
    /\ observed' = observed \cup new
    /\ charged' = (charged \ Replaced(new)) \cup Incoming(new) \cup Outgoing(new)
    /\ UNCHANGED <<now, taken>>

\* A refused snapshot changes nothing, nor does the retry of a recorded one;
\* a carried card without a row in gpus fails and rolls the transaction back.
Ingest ==
    \E s \in taken, backfill \in BOOLEAN :
        /\ MayBeMarked(s, backfill)
        /\ Accepted(s)
        /\ s.gpuStatus = "ok" \/ Known \ DOMAIN s.cards \subseteq DOMAIN gpus
        /\ IF Duplicate(s) THEN UNCHANGED vars ELSE Record(s, backfill)

-----------------------------------------------------------------------------
(* Retention. *)

KeptEdges == {e \in edges : \E p \in points :
    SameChain(p, e.right) /\ p.seq = e.right.seq /\ p.at >= now - Retain}

KeptKeys == {k \in DOMAIN rollups :
    /\ k.res = Minute => k.bucket >= now - MinuteRetain
    /\ k.res = Hour   => k.bucket >= now - HourRetain}

Prune ==
    /\ edges' = KeptEdges
    /\ points' = {p \in points : p.at >= now - Retain}
    /\ samples' = {r \in samples : r.at >= now - Retain}
    /\ events' = {e \in events : e.at >= now - EventRetain}
    /\ rollups' = Restrict(rollups, KeptKeys)
    /\ UNCHANGED <<now, taken, gpus, snapshot, receivedAt, observed, charged>>

Next == Tick \/ Take \/ Ingest \/ Prune

Spec == Init /\ [][Next]_vars

-----------------------------------------------------------------------------
(* What the hub promises. *)

Earlier(p, q) == SameChain(p, q) /\ p.at < q.at

\* The pairs of points that are neighbours among all ever observed.
Consecutive ==
    {e \in [left : observed, right : observed] :
        /\ Earlier(e.left, e.right)
        /\ ~ \E r \in observed : Earlier(e.left, r) /\ Earlier(r, e.right)}

\* What the edges of E add to the row of key k, each and together.
Additions(E, k) == [e \in E |-> Contribution(e.left, e.right, k)]
Charge(E, k) == SumRows(Additions(E, k), E)

\* The integral of everything observed, in the row of key k.
Integral(k) == Charge(Consecutive, k)

Expired(k) ==
    \/ k.res = Minute /\ k.bucket < now - MinuteRetain
    \/ k.res = Hour   /\ k.bucket < now - HourRetain

\* The rollups depend only on what was observed: whatever the order, lateness
\* and number of deliveries, and whatever the retention job has already removed,
\* a row is the integral over the neighbouring observations, and only expired
\* rows are gone.  This is what replaceEdge's undo-and-redo has to achieve.
RollupsMatchObservations ==
    \A k \in DOMAIN rollups \cup TouchedBy(Consecutive) :
        IF k \in DOMAIN rollups THEN rollups[k] = Integral(k) ELSE Expired(k)

\* The form of it that every step preserves: a row is what was charged to it.
RowsAreCharged ==
    \A k \in DOMAIN rollups \cup TouchedBy(charged) :
        IF k \in DOMAIN rollups THEN rollups[k] = Charge(charged, k) ELSE Expired(k)

Disjoint(e, f) == e.right.at <= f.left.at \/ f.right.at <= e.left.at

\* No instant of a card is charged twice within one start of the agent: two
\* edges the rollups include never overlap, though late samples split edges and
\* the retention job forgets the edges it has already charged.
NoDoubleCount ==
    \A e, f \in charged :
        (SameChain(e.right, f.right) /\ e # f) => Disjoint(e, f)

\* Why nothing is charged twice, in the form that every step preserves.  An
\* instant of a start of the agent belongs to one sample, and a point to its
\* sample: no two points of a chain share a time or a number.
IdentityInv ==
    /\ \A s, t \in taken :
          (s.boot = t.boot /\ (s.seq = t.seq \/ s.at = t.at)) => s = t
    /\ \A r \in samples :
          \E s \in taken : r = [boot |-> s.boot, seq |-> s.seq, at |-> s.at]
    /\ \A p \in points : [boot |-> p.boot, seq |-> p.seq, at |-> p.at] \in samples
    /\ \A p, q \in points :
          (SameChain(p, q) /\ (p.at = q.at \/ p.seq = q.seq)) => p = q

\* Stored edges are charged, and edges run forward in time.
ChargedForward ==
    /\ edges \subseteq charged
    /\ \A e \in charged : Earlier(e.left, e.right)

\* A stored edge joins points, of which only the left may have been pruned.
EdgesJoinPoints ==
    \A e \in edges : /\ e.right \in points
                     /\ e.left \in points \/ e.left.at < now - Retain

\* The points of a stored edge are neighbours.
EdgesAdjacent ==
    \A e \in edges, p \in points :
        ~ (Earlier(e.left, p) /\ Earlier(p, e.right))

\* An edge that was pruned ends before every point that is left.
PrunedArePast ==
    \A e \in charged \ edges :
        /\ e.right.at < now - Retain
        /\ \A p \in points : e.right.at < p.at

EdgeInv ==
    ChargedForward /\ EdgesJoinPoints /\ EdgesAdjacent /\ PrunedArePast

\* What the retention job removed lies before everything it left, out of reach of
\* any sample still accepted.
PrunedPointsArePast ==
    /\ points \subseteq observed
    /\ \A q \in observed \ points :
          /\ q.at < now - Retain
          /\ \A p \in points : q.at < p.at

ChainInv == IdentityInv /\ EdgeInv /\ PrunedPointsArePast

\* Exactly the known time is charged: every charged edge joins two neighbouring
\* observations, and every two neighbouring observations near enough to be known
\* are charged, even those whose points were pruned before a late sample came.
ChargedAreNeighbours ==
    /\ charged \subseteq Consecutive
    /\ \A e \in Consecutive : Integrable(e.left, e.right) => e \in charged

\* The earliest observation of a card in a start of the agent has its "started"
\* event at exactly that time until events expire, however late it arrives, and
\* no "started" event is at a time without an observation.
StartIsEarliest ==
    /\ \A p \in observed :
          (~ \E q \in observed : Earlier(q, p)) /\ p.at >= now - EventRetain
              => \E e \in events : /\ e.kind = "started"
                                  /\ SameChain(e, p)
                                  /\ e.at = p.at
    /\ \A e \in events : e.kind = "started" =>
          \E p \in observed : SameChain(e, p) /\ e.at = p.at

\* The live status of a card is that of its newest observation, across starts
\* of the agent and however late older ones arrive; a card is shown as not
\* detected exactly when the newest sample was a success that missed it.
LiveIsNewest ==
    \A g \in Known :
        LET newest == {p \in observed : p.gpu = g /\ p.at = snapshot.at} IN
        IF snapshot.cards[g] = "not_detected"
        THEN newest = {}
        ELSE \E p \in newest : p.status = snapshot.cards[g]

\* No card is dropped from the live view: neither a failed inventory, nor one
\* that misses it, nor a late sample makes a known card disappear.
CardsNeverForgotten ==
    [][DOMAIN snapshot.cards \subseteq DOMAIN snapshot'.cards]_vars

\* Every card of the live view is registered since the live sample or earlier.
\* Otherwise a failed inventory would abort the transaction, be refused for ever
\* and drop the card from the view.
LiveCardsRegistered ==
    \A g \in Known : g \in DOMAIN gpus /\ gpus[g].first <= snapshot.at

\* A node shown online shows recent data: the time of its last fresh report is
\* at most two intervals after its live sample, replays and late deliveries of
\* old samples notwithstanding.
OnlineMeansFresh ==
    (receivedAt # 0 /\ now - receivedAt <= Online)
        => now - snapshot.at <= Online + 2 * Interval

\* The last fresh report was at most two intervals younger than the live sample:
\* the form of OnlineMeansFresh that every step preserves.
HeardIsLive == receivedAt = 0 \/ receivedAt <= snapshot.at + 2 * Interval

\* The loop over buckets gives each row of the closed form once, with its time,
\* whichever two observations an edge joins: those that are charged, and those a late
\* sample or the retention job will make neighbours.
LoopIsContribution == \A a, b \in observed : LoopAgrees(a, b)

\* The failing points of an outage: p and what fails uninterruptedly after it.
Outage(p) ==
    {q \in observed :
        /\ SameChain(p, q) /\ p.at <= q.at
        /\ \A r \in observed :
              SameChain(p, r) /\ p.at <= r.at /\ r.at <= q.at => r.status # "ok"}

Onset(p) ==
    /\ p.status # "ok"
    /\ ~ \E e \in Consecutive : e.right = p /\ e.left.status # "ok"

\* An uninterrupted outage of a card is recorded by exactly one "failure"
\* event, and a failure after a recovery by one of its own.
OneFailurePerOutage ==
    \A p \in observed : Onset(p) =>
        Cardinality({e \in events : /\ e.kind = "failure"
                                   /\ \E q \in Outage(p) : SameChain(e, q) /\ e.at = q.at}) = 1
=============================================================================
