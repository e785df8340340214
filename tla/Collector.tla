----------------------------- MODULE Collector -----------------------------
(***************************************************************************)
(* One collector (internal/collect) sampling a machine whose cards and     *)
(* processes come and go.  Cards are asked by child processes that may     *)
(* hang, at most Workers at a time, under deadlines; counters of an        *)
(* interface are read beside them.  A sample is published when both are    *)
(* done; the inventory, the counters and the first-seen times are kept for *)
(* the next one.  A child is taken to die at its deadline.                 *)
(***************************************************************************)
EXTENDS Integers, FiniteSets

CONSTANTS
    Card, Pid,
    Workers,       \* children that ask cards at once (8)
    CacheTime,     \* how long an inventory is good for (60 s)
    ListTime,      \* deadline of an inventory (1.5 s)
    QueryTime,     \* deadline of a query (3 s)
    RoundTime,     \* deadline of all of them (4 s)
    MaxTime,       \* bound: the last instant
    MaxTraffic,    \* bound: bytes between two readings
    Never, NoRate

ASSUME CollectorAssumption ==
    /\ Workers \in Nat \ {0}
    /\ {CacheTime, ListTime, QueryTime, RoundTime, MaxTime, MaxTraffic} \subseteq Nat
    /\ Never \notin Nat /\ NoRate \notin Nat /\ Never # NoRate

VARIABLES
    clock, cards, procs, counter,   \* the machine
    inventory, inventoryAt,         \* Collector: the known cards, and since when
    previous, nets, seen,           \* Collector: the last round, its counter, first-seen times
    round, at,                      \* Sample: how far it is, when it began
    failed, child, result,          \* gpus: the inventory failed, children, slots
    rate,                           \* Sample: the bytes its rate is made of
    moved,                          \* history: bytes since the counter was last looked at
    listed                          \* history: when the known list was true

machine == <<clock, cards, procs, counter, moved>>
kept == <<inventory, inventoryAt, previous, nets, seen, listed>>
sample == <<round, at, failed, child, result, rate>>
vars == <<machine, kept, sample>>

-----------------------------------------------------------------------------
Time == 0 .. MaxTime
Unreadable == Never

Process == [pid : Pid, born : Time, card : Card]

\* A slot, and what a goroutine that asks is doing: waiting, asking since, done.
Empty == [status |-> "", pids |-> {}]
Waiting == Never
Done == NoRate

Unasked == {c \in inventory : child[c] = Waiting}
Asking == {c \in inventory : child[c] \in Time}

Init ==
    /\ clock = 0 /\ cards \in SUBSET Card /\ procs = {} /\ counter = 0 /\ moved = 0
    /\ inventory = {} /\ inventoryAt = Never /\ listed = Never
    /\ previous = Never /\ nets = Never /\ seen = {}
    /\ round = "idle" /\ at = 0 /\ failed = FALSE /\ rate = Never
    /\ child = [c \in Card |-> Waiting] /\ result = [c \in Card |-> Empty]

-----------------------------------------------------------------------------
(* The machine. *)

Lesser(a, b) == IF a < b THEN a ELSE b

\* Fault: a query has its own deadline only.
QueryDeadline_alone(c) == child[c] + QueryTime

QueryDeadline(c) == Lesser(child[c] + QueryTime, at + RoundTime)
ListDeadline == at + Lesser(ListTime, RoundTime)

\* Deadlines are kept: time does not pass one with a child left, nor while the answers
\* are put together.
Tick ==
    /\ clock < MaxTime
    /\ round = "list" => clock < ListDeadline
    /\ round = "query" => /\ Unasked \cup Asking # {}
                          /\ \A c \in Asking : clock < QueryDeadline(c)
                          /\ Unasked # {} => clock < at + RoundTime
    /\ clock' = clock + 1
    /\ UNCHANGED <<cards, procs, counter, moved, kept, sample>>

\* A card is added or taken away, with the processes on it.
Plug ==
    /\ \E c \in Card :
          \/ c \notin cards /\ cards' = cards \cup {c} /\ UNCHANGED procs
          \/ c \in cards /\ cards' = cards \ {c} /\ procs' = {p \in procs : p.card # c}
    /\ UNCHANGED <<clock, counter, moved, kept, sample>>

\* Process numbers are used again, but not within one instant.
Fork ==
    /\ \E p \in Process : /\ p.born = clock /\ p.card \in cards
                          /\ \A q \in procs : q.pid # p.pid
                          /\ procs' = procs \cup {p}
    /\ UNCHANGED <<clock, cards, counter, moved, kept, sample>>

Exit ==
    /\ \E p \in procs : p.born < clock /\ procs' = procs \ {p}
    /\ UNCHANGED <<clock, cards, counter, moved, kept, sample>>

\* Bytes pass, or the interface is made anew.
Transfer ==
    /\ \/ /\ counter < MaxTraffic /\ moved < MaxTraffic
          /\ moved' = moved + 1 /\ counter' = counter + 1
       \/ counter > 0 /\ counter' = 0 /\ UNCHANGED moved
    /\ UNCHANGED <<clock, cards, procs, kept, sample>>

-----------------------------------------------------------------------------
(* Sample. *)

Stale == inventoryAt = Never \/ clock - inventoryAt > CacheTime

Begin ==
    /\ round = "idle"
    /\ previous # clock
    /\ round' = IF Stale THEN "list" ELSE "query"
    /\ at' = clock
    /\ UNCHANGED <<machine, kept, failed, child, result, rate>>

\* Fault: a failed reading keeps the counter of an earlier round.
Unread_kept == nets

\* What a reading that failed leaves behind.
Unread == Never

\* The counters are read once in a round, or cannot be.  No rate is made of a first
\* reading or of one that went back.
ReadCounters ==
    /\ round # "idle" /\ rate = Never
    /\ \/ /\ nets' = counter
          /\ rate' = IF nets # Never /\ previous # Never /\ counter >= nets
                       THEN counter - nets ELSE NoRate
       \/ nets' = Unread /\ rate' = NoRate
    /\ moved' = 0
    /\ UNCHANGED <<clock, cards, procs, counter, inventory, inventoryAt, previous, seen,
                   listed, round, at, failed, child, result>>

Listed ==
    /\ round = "list"
    /\ inventory' = cards /\ inventoryAt' = clock /\ listed' = clock
    /\ round' = "query"
    /\ UNCHANGED <<machine, previous, nets, seen, at, failed, child, result, rate>>

\* Fault: the failed attempt counts as one.
ListFails_and_waits ==
    /\ round = "list"
    /\ inventoryAt' = clock
    /\ failed' = TRUE
    /\ round' = "query"
    /\ UNCHANGED <<machine, inventory, previous, nets, seen, listed, at, child, result, rate>>

\* The known cards are asked all the same.
ListFails ==
    /\ round = "list"
    /\ failed' = TRUE
    /\ round' = "query"
    /\ UNCHANGED <<machine, kept, at, child, result, rate>>

Ask(c) ==
    /\ round = "query" /\ c \in Unasked
    /\ Cardinality(Asking) < Workers
    /\ child' = [child EXCEPT ![c] = clock]
    /\ UNCHANGED <<machine, kept, round, at, failed, result, rate>>

Fill(c, status, pids) ==
    /\ child' = [child EXCEPT ![c] = Done]
    /\ result' = [result EXCEPT ![c] = [status |-> status, pids |-> pids]]
    /\ UNCHANGED <<machine, kept, round, at, failed, rate>>

\* The child answers: with what runs on the card, without it, or that it failed.
Told(c) ==
    /\ round = "query" /\ c \in Asking
    /\ \/ c \in cards /\ Fill(c, "ok", {p.pid : p \in {q \in procs : q.card = c}})
       \/ c \in cards /\ Fill(c, "ok", {})
       \/ Fill(c, "query_failed", {})

\* No child was free in time.
NotAsked(c) ==
    /\ round = "query" /\ c \in Unasked
    /\ clock >= at + RoundTime
    /\ Fill(c, "timeout", {})

\* Fault: the number alone is taken for the process.
SameRecord_by_pid(r, c, pid, created) == r.card = c /\ r.pid = pid

SameRecord(r, c, pid, created) == r.card = c /\ r.pid = pid /\ r.created = created

FirstSeen(c, pid, created) ==
    LET known == {r \in seen : SameRecord(r, c, pid, created)}
    IN  IF known = {} THEN at ELSE (CHOOSE r \in known : TRUE).first

\* Who has a number is looked up when all cards have answered.
Attribution(readable) ==
    LET created(pid) ==
          IF \E p \in procs : p.pid = pid /\ pid \in readable
            THEN (CHOOSE p \in procs : p.pid = pid).born ELSE Unreadable
    IN  {[card |-> u[1], pid |-> u[2], created |-> created(u[2]),
          first |-> FirstSeen(u[1], u[2], created(u[2]))] :
            u \in {v \in inventory \X Pid : v[2] \in result[v[1]].pids}}

\* Both parts are done: gpus attributes processes, Sample returns.
Publish ==
    /\ round = "query" /\ rate # Never
    /\ Unasked \cup Asking = {}
    /\ \E readable \in SUBSET Pid : seen' = Attribution(readable)
    /\ previous' = at
    /\ round' = "idle" /\ rate' = Never /\ failed' = FALSE
    /\ child' = [c \in Card |-> Waiting] /\ result' = [c \in Card |-> Empty]
    /\ UNCHANGED <<machine, inventory, inventoryAt, nets, listed, at>>

Machine == Tick \/ Plug \/ Fork \/ Exit \/ Transfer
Round == \/ ReadCounters \/ Listed \/ ListFails \/ Publish
         \/ \E c \in Card : Ask(c) \/ Told(c) \/ NotAsked(c)

Next == Machine \/ Begin \/ Round

Spec == Init /\ [][Next]_vars

-----------------------------------------------------------------------------
(* What a sample promises. *)

Published == round = "query" /\ round' = "idle"

\* However many children hang, a round's queries end in its time.
QueriesEndInTime == Asking # {} => clock <= at + RoundTime

\* Cards are only reported as all there are if the list was right a short time ago.
ListIsRecent == [][Published /\ ~ failed => listed # Never /\ at - listed <= CacheTime]_vars

\* A process does not inherit the first-seen time of an earlier one with its number.
RecordIsItsOwn ==
    \A r \in seen : r.created # Unreadable => r.first >= r.created - RoundTime

\* The bytes a rate is made of passed since the reading in the round before.
RateSpansOneRound == [][rate = Never /\ rate' \notin {Never, NoRate} => rate' <= moved]_vars
=============================================================================
