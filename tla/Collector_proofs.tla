-------------------------- MODULE Collector_proofs --------------------------
(***************************************************************************)
(* What holds of samples for any number of cards and children, any         *)
(* deadlines, and any traffic.                                             *)
(***************************************************************************)
EXTENDS Collector, TLAPS

TypeOK ==
    /\ clock \in Nat /\ at \in Nat /\ counter \in Nat /\ moved \in Nat
    /\ round \in {"idle", "list", "query"} /\ failed \in BOOLEAN
    /\ inventory \subseteq Card /\ cards \subseteq Card
    /\ inventoryAt \in Nat \cup {Never} /\ listed \in Nat \cup {Never}
    /\ previous \in Nat \cup {Never} /\ nets \in Nat \cup {Never}
    /\ rate \in Nat \cup {Never, NoRate}
    /\ child \in [Card -> Nat \cup {Waiting, Done}]
    /\ procs \subseteq [pid : Pid, born : Nat, card : Card]
    /\ \A r \in seen : r.created \in Nat \cup {Unreadable} /\ r.first \in Nat

\* A round under way is within its time, and only queries are under way in it.
DeadlineInv ==
    /\ at <= clock
    /\ round # "idle" => clock <= at + RoundTime
    /\ round # "query" => \A c \in Card : child[c] = Waiting

\* The list is as old as the collector believes, and was good when the queries began.
ListInv ==
    /\ inventoryAt = listed
    /\ round = "query" /\ ~ failed => listed # Never /\ at - listed <= CacheTime

\* No process was born in the future, and none was seen before it was born, but for
\* the time a round may take.
SeenInv ==
    /\ \A p \in procs : p.born <= clock
    /\ RecordIsItsOwn

\* More than what passed since cannot separate the counter from its last reading.
RateInv == nets # Never => counter - nets <= moved

CollectorInv == TypeOK /\ DeadlineInv /\ ListInv /\ SeenInv /\ RateInv

LEMMA NumbersAssumed ==
    /\ CacheTime \in Nat /\ ListTime \in Nat /\ QueryTime \in Nat /\ RoundTime \in Nat
    /\ MaxTime \in Nat /\ MaxTraffic \in Nat
    /\ Never \notin Nat /\ NoRate \notin Nat /\ Never # NoRate
  BY CollectorAssumption

LEMMA InitInv ==
    ASSUME Init
    PROVE  CollectorInv
  <1>1. TypeOK
    BY NumbersAssumed DEF Init, TypeOK, Waiting, Done
  <1>2. DeadlineInv /\ ListInv /\ SeenInv /\ RateInv
    BY NumbersAssumed DEF Init, DeadlineInv, ListInv, SeenInv, RateInv, RecordIsItsOwn
  <1> QED
    BY <1>1, <1>2 DEF CollectorInv

-----------------------------------------------------------------------------
(* The machine. *)

LEMMA TickInv ==
    ASSUME CollectorInv, Tick
    PROVE  CollectorInv'
  <1> USE NumbersAssumed
  <1>1. /\ clock' = clock + 1
        /\ UNCHANGED <<cards, procs, counter, moved, inventory, inventoryAt, previous, nets,
                       seen, listed, round, at, failed, child, result, rate>>
    BY DEF Tick, kept, sample
  <1>2. clock \in Nat /\ at \in Nat /\ child \in [Card -> Nat \cup {Waiting, Done}]
    BY DEF CollectorInv, TypeOK
  <1>3. round = "list" => clock < at + RoundTime
    BY <1>2 DEF Tick, ListDeadline, Lesser
  <1>4. round = "query" => clock < at + RoundTime
    <2>1. SUFFICES ASSUME round = "query" PROVE clock < at + RoundTime
      OBVIOUS
    <2>2. CASE Unasked # {}
      BY <2>1, <2>2 DEF Tick
    <2>3. CASE Unasked = {}
      <3>1. PICK c \in Asking : clock < QueryDeadline(c)
        BY <2>1, <2>3 DEF Tick
      <3>2. child[c] \in Nat
        BY <3>1 DEF Asking, Time
      <3> QED
        BY <1>2, <3>1, <3>2 DEF QueryDeadline, Lesser
    <2> QED
      BY <2>2, <2>3
  <1>5. TypeOK'
    BY <1>1 DEF CollectorInv, TypeOK
  <1>6. DeadlineInv'
    BY <1>1, <1>2, <1>3, <1>4 DEF CollectorInv, TypeOK, DeadlineInv
  <1>7. ListInv' /\ RateInv'
    BY <1>1 DEF CollectorInv, ListInv, RateInv
  <1>8. SeenInv'
    BY <1>1, <1>2 DEF CollectorInv, TypeOK, SeenInv, RecordIsItsOwn
  <1> QED
    BY <1>5, <1>6, <1>7, <1>8 DEF CollectorInv

LEMMA MachineInv ==
    ASSUME CollectorInv, Plug \/ Fork \/ Exit \/ Transfer
    PROVE  CollectorInv'
  <1> USE NumbersAssumed
  <1>1. /\ UNCHANGED <<clock, inventory, inventoryAt, previous, nets, seen, listed,
                       round, at, failed, child, result, rate>>
    BY DEF Plug, Fork, Exit, Transfer, kept, sample
  <1>2. /\ cards' \subseteq Card
        /\ procs' \subseteq [pid : Pid, born : Nat, card : Card]
        /\ \A p \in procs' : p.born <= clock
    <2>1. CASE Plug
      BY <2>1 DEF Plug, CollectorInv, TypeOK, SeenInv
    <2>2. CASE Fork
      <3>1. PICK p \in Process : p.born = clock /\ procs' = procs \cup {p}
        BY <2>2 DEF Fork
      <3>2. p \in [pid : Pid, born : Nat, card : Card]
        BY <3>1 DEF Process, Time
      <3>3. cards' = cards /\ clock \in Nat
        BY <2>2 DEF Fork, CollectorInv, TypeOK
      <3> QED
        BY <3>1, <3>2, <3>3 DEF CollectorInv, TypeOK, SeenInv
    <2>3. CASE Exit \/ Transfer
      BY <2>3 DEF Exit, Transfer, CollectorInv, TypeOK, SeenInv
    <2> QED
      BY <2>1, <2>2, <2>3
  <1>3. counter' \in Nat /\ moved' \in Nat /\ RateInv'
    <2>1. CASE Transfer
      BY <1>1, <2>1 DEF Transfer, CollectorInv, TypeOK, RateInv
    <2>2. CASE Plug \/ Fork \/ Exit
      BY <1>1, <2>2 DEF Plug, Fork, Exit, CollectorInv, TypeOK, RateInv
    <2> QED
      BY <2>1, <2>2
  <1>4. TypeOK'
    BY <1>1, <1>2, <1>3 DEF CollectorInv, TypeOK
  <1>5. DeadlineInv' /\ ListInv'
    BY <1>1 DEF CollectorInv, DeadlineInv, ListInv
  <1>6. SeenInv'
    BY <1>1, <1>2 DEF CollectorInv, SeenInv, RecordIsItsOwn
  <1> QED
    BY <1>3, <1>4, <1>5, <1>6 DEF CollectorInv

-----------------------------------------------------------------------------
(* A sample. *)

LEMMA BeginInv ==
    ASSUME CollectorInv, Begin
    PROVE  CollectorInv'
  <1> USE NumbersAssumed
  <1>1. /\ round = "idle" /\ at' = clock /\ round' \in {"list", "query"}
        /\ round' = "query" => inventoryAt # Never /\ clock - inventoryAt <= CacheTime
        /\ UNCHANGED <<clock, cards, procs, counter, moved, inventory, inventoryAt, previous,
                       nets, seen, listed, failed, child, result, rate>>
    <2>1. inventoryAt # Never => clock - inventoryAt \in Int
      BY DEF CollectorInv, TypeOK
    <2> QED
      BY <2>1 DEF Begin, Stale, machine, kept, CollectorInv, TypeOK
  <1>2. TypeOK'
    BY <1>1 DEF CollectorInv, TypeOK
  <1>3. DeadlineInv'
    BY <1>1 DEF CollectorInv, TypeOK, DeadlineInv
  <1>4. ListInv'
    BY <1>1 DEF CollectorInv, ListInv
  <1>5. SeenInv' /\ RateInv'
    BY <1>1 DEF CollectorInv, SeenInv, RecordIsItsOwn, RateInv
  <1> QED
    BY <1>2, <1>3, <1>4, <1>5 DEF CollectorInv

LEMMA ReadCountersInv ==
    ASSUME CollectorInv, ReadCounters
    PROVE  CollectorInv' /\ (rate' \notin {Never, NoRate} => rate' <= moved)
  <1> USE NumbersAssumed
  <1>1. /\ moved' = 0
        /\ UNCHANGED <<clock, cards, procs, counter, inventory, inventoryAt, previous, seen,
                       listed, round, at, failed, child, result>>
    BY DEF ReadCounters
  <1>2. /\ nets' \in {counter, Never} /\ rate' \in Nat \cup {NoRate}
        /\ rate' # NoRate => rate' <= moved
    BY DEF ReadCounters, Unread, CollectorInv, TypeOK, RateInv
  <1>3. TypeOK'
    BY <1>1, <1>2 DEF CollectorInv, TypeOK
  <1>4. RateInv'
    <2>1. counter - counter = 0 /\ counter \in Nat
      BY DEF CollectorInv, TypeOK
    <2>2. nets' # Never => counter' - nets' = 0
      BY <1>1, <1>2, <2>1
    <2> QED
      BY <1>1, <2>2 DEF RateInv
  <1>5. DeadlineInv' /\ ListInv' /\ SeenInv'
    BY <1>1 DEF CollectorInv, DeadlineInv, ListInv, SeenInv, RecordIsItsOwn
  <1> QED
    BY <1>2, <1>3, <1>4, <1>5 DEF CollectorInv

LEMMA ListedInv ==
    ASSUME CollectorInv, Listed \/ ListFails
    PROVE  CollectorInv'
  <1> USE NumbersAssumed
  <1>1. /\ round = "list" /\ round' = "query"
        /\ \/ inventory' = cards /\ inventoryAt' = clock /\ listed' = clock
           \/ UNCHANGED <<inventory, inventoryAt, listed>> /\ failed' = TRUE
        /\ failed' \in BOOLEAN
        /\ UNCHANGED <<clock, cards, procs, counter, moved, previous, nets, seen, at, child,
                       result, rate>>
    BY DEF Listed, ListFails, machine, kept, CollectorInv, TypeOK
  <1>2. TypeOK'
    BY <1>1 DEF CollectorInv, TypeOK
  <1>3. DeadlineInv'
    BY <1>1 DEF CollectorInv, DeadlineInv
  <1>4. ListInv'
    BY <1>1 DEF CollectorInv, TypeOK, DeadlineInv, ListInv
  <1>5. SeenInv' /\ RateInv'
    BY <1>1 DEF CollectorInv, SeenInv, RecordIsItsOwn, RateInv
  <1> QED
    BY <1>2, <1>3, <1>4, <1>5 DEF CollectorInv

LEMMA ChildrenInv ==
    ASSUME CollectorInv, NEW c \in Card, Ask(c) \/ Told(c) \/ NotAsked(c)
    PROVE  CollectorInv'
  <1> USE NumbersAssumed
  <1>1. /\ round = "query"
        /\ child' = [child EXCEPT ![c] = clock] \/ child' = [child EXCEPT ![c] = Done]
        /\ UNCHANGED <<clock, cards, procs, counter, moved, inventory, inventoryAt, previous,
                       nets, seen, listed, round, at, failed, rate>>
    BY DEF Ask, Told, NotAsked, Fill, machine, kept
  <1>2. child' \in [Card -> Nat \cup {Waiting, Done}]
    BY <1>1 DEF CollectorInv, TypeOK
  <1>3. TypeOK'
    BY <1>1, <1>2 DEF CollectorInv, TypeOK
  <1>4. DeadlineInv' /\ ListInv' /\ SeenInv' /\ RateInv'
    BY <1>1 DEF CollectorInv, DeadlineInv, ListInv, SeenInv, RecordIsItsOwn, RateInv
  <1> QED
    BY <1>3, <1>4 DEF CollectorInv

\* Whoever has the number now was born before the end of the round; who was known under
\* the same time of birth keeps a time that was right before.
LEMMA AttributionIsOwn ==
    ASSUME CollectorInv, round = "query", NEW readable \in SUBSET Pid,
           NEW r \in Attribution(readable)
    PROVE  /\ r.created \in Nat \cup {Unreadable} /\ r.first \in Nat
           /\ r.created # Unreadable => r.first >= r.created - RoundTime
  <1> USE NumbersAssumed
  <1> DEFINE created(pid) == IF \E p \in procs : p.pid = pid /\ pid \in readable
                               THEN (CHOOSE p \in procs : p.pid = pid).born ELSE Unreadable
  <1>1. PICK u \in inventory \X Pid :
           r = [card |-> u[1], pid |-> u[2], created |-> created(u[2]),
                first |-> FirstSeen(u[1], u[2], created(u[2]))]
    BY DEF Attribution
  <1>2. created(u[2]) \in Nat \cup {Unreadable}
        /\ (created(u[2]) # Unreadable => created(u[2]) <= at + RoundTime)
    <2>1. CASE \E p \in procs : p.pid = u[2] /\ u[2] \in readable
      <3>1. PICK q \in procs : q = CHOOSE p \in procs : p.pid = u[2]
        BY <2>1
      <3>2. created(u[2]) = q.born
        BY <2>1, <3>1
      <3>3. q.born \in Nat /\ q.born <= clock
        BY <3>1 DEF CollectorInv, TypeOK, SeenInv
      <3>4. clock \in Nat /\ at \in Nat /\ clock <= at + RoundTime
        BY DEF CollectorInv, TypeOK, DeadlineInv
      <3> QED
        BY <3>2, <3>3, <3>4
    <2>2. CASE ~ \E p \in procs : p.pid = u[2] /\ u[2] \in readable
      BY <2>2
    <2> QED
      BY <2>1, <2>2
  <1> DEFINE c == created(u[2])
  <1> HIDE DEF created
  <1> DEFINE known == {k \in seen : SameRecord(k, u[1], u[2], c)}
  <1>3. FirstSeen(u[1], u[2], c) = IF known = {} THEN at ELSE (CHOOSE k \in known : TRUE).first
    BY DEF FirstSeen
  <1>4. CASE known = {}
    <2>1. r.created = c /\ r.first = at /\ at \in Nat
      BY <1>1, <1>3, <1>4 DEF CollectorInv, TypeOK
    <2> QED
      BY <1>2, <2>1
  <1>5. CASE known # {}
    <2>1. PICK k \in seen : k.created = c /\ r.created = c /\ r.first = k.first
      BY <1>1, <1>3, <1>5 DEF SameRecord
    <2> QED
      BY <1>2, <2>1 DEF CollectorInv, TypeOK, SeenInv, RecordIsItsOwn
  <1> QED
    BY <1>4, <1>5

LEMMA PublishInv ==
    ASSUME CollectorInv, Publish
    PROVE  CollectorInv'
  <1> USE NumbersAssumed
  <1>1. PICK readable \in SUBSET Pid : seen' = Attribution(readable)
    BY DEF Publish
  <1>2. /\ round = "query" /\ round' = "idle" /\ previous' = at /\ rate' = Never /\ failed' = FALSE
        /\ child' = [c \in Card |-> Waiting]
        /\ UNCHANGED <<clock, cards, procs, counter, moved, inventory, inventoryAt, nets,
                       listed, at>>
    BY DEF Publish, machine
  <1>3. \A r \in seen' : /\ r.created \in Nat \cup {Unreadable} /\ r.first \in Nat
                         /\ r.created # Unreadable => r.first >= r.created - RoundTime
    BY <1>1, <1>2, AttributionIsOwn
  <1>4. TypeOK'
    BY <1>2, <1>3 DEF CollectorInv, TypeOK
  <1>5. DeadlineInv' /\ ListInv' /\ RateInv'
    BY <1>2 DEF CollectorInv, DeadlineInv, ListInv, RateInv
  <1>6. SeenInv'
    BY <1>2, <1>3 DEF CollectorInv, SeenInv, RecordIsItsOwn
  <1> QED
    BY <1>4, <1>5, <1>6 DEF CollectorInv

LEMMA StepInv ==
    ASSUME CollectorInv, [Next]_vars
    PROVE  CollectorInv'
  <1>1. CASE UNCHANGED vars
    BY <1>1 DEF vars, machine, kept, sample, CollectorInv, TypeOK, DeadlineInv, ListInv, SeenInv,
                RecordIsItsOwn, RateInv
  <1> QED
    BY <1>1, TickInv, MachineInv, BeginInv, ReadCountersInv, ListedInv, ChildrenInv, PublishInv
    DEF Next, Machine, Round

LEMMA Inductive == Spec => []CollectorInv
  BY InitInv, StepInv, PTL DEF Spec

-----------------------------------------------------------------------------
\* Types, for any number of cards.
THEOREM TypeCorrect == Spec => []TypeOK
  <1>1. CollectorInv => TypeOK
    BY DEF CollectorInv
  <1> QED
    BY <1>1, Inductive, PTL

\* No query outlives the deadline of its round, however many cards wait for few children.
THEOREM QueriesKeepTime == Spec => []QueriesEndInTime
  <1>1. CollectorInv => QueriesEndInTime
    BY NumbersAssumed DEF CollectorInv, TypeOK, DeadlineInv, QueriesEndInTime, Asking, Time, Waiting
  <1> QED
    BY <1>1, Inductive, PTL

\* A first-seen time never precedes the process by more than a round.
THEOREM RecordsAreTheirOwn == Spec => []RecordIsItsOwn
  <1>1. CollectorInv => RecordIsItsOwn
    BY DEF CollectorInv, SeenInv
  <1> QED
    BY <1>1, Inductive, PTL

\* A sample that does not report a failed inventory has a list younger than CacheTime.
THEOREM ListsAreRecent == Spec => ListIsRecent
  <1>1. CollectorInv /\ [Next]_vars =>
          [Published /\ ~ failed => listed # Never /\ at - listed <= CacheTime]_vars
    BY DEF CollectorInv, ListInv, Published
  <1> QED
    BY <1>1, Inductive, PTL DEF Spec, ListIsRecent

\* A rate is made of bytes that passed since the reading before, over any resets.
THEOREM RatesSpanOneRound == Spec => RateSpansOneRound
  <1>1. CollectorInv /\ [Next]_vars =>
          [rate = Never /\ rate' \notin {Never, NoRate} => rate' <= moved]_vars
    <2>1. SUFFICES ASSUME CollectorInv, [Next]_vars, rate' # rate, rate' \notin {Never, NoRate}
                   PROVE  rate' <= moved
      OBVIOUS
    <2>2. ReadCounters
      BY <2>1 DEF Next, Machine, Round, Tick, Plug, Fork, Exit, Transfer, Begin, Listed, ListFails,
                  Publish, Ask, Told, NotAsked, Fill, sample, vars
    <2> QED
      BY <2>1, <2>2, ReadCountersInv
  <1> QED
    BY <1>1, Inductive, PTL DEF Spec, RateSpansOneRound
=============================================================================
