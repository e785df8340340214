------------------------------- MODULE Cards -------------------------------
(***************************************************************************)
(* What the web client makes of cards and nodes: the predicates of         *)
(* features/gpu/status.ts and the summary of features/dashboard/summary.ts *)
(* over the node list of types.ts.                                         *)
(*                                                                         *)
(* A list of nodes is a set of records: the order of arrays decides        *)
(* nothing here.  Memory is in MiB, temperature in degrees, utilisation in *)
(* percent.  The processes of a card are reduced to their users.           *)
(***************************************************************************)
EXTENDS Integers, FiniteSets, FiniteSetsExt, Functions

CONSTANTS
    NodeId, Tag, UUID, Model, User,
    Null        \* a metric that could not be read

ASSUME CardsAssumption == Null \notin Nat

Metric == Nat \cup {Null}

GPU == [uuid : UUID, name : Model, status : {"ok", "timeout"}, health : BOOLEAN,
        temperature : Metric, process_status : {"ok", "unknown"},
        processes : SUBSET User, util : Metric,
        memory_used : Metric, memory_total : Metric]

Node == [id : NodeId, tags : SUBSET Tag, online : BOOLEAN, enrolled : BOOLEAN,
         expected : Nat, gpu_status : {"ok", "timeout"}, gpus : SUBSET GPU]

NodeList == SUBSET Node

\* The cards of a list, each with its node.
CardsOf(nodes) == UNION {{[g |-> g, n |-> n] : g \in n.gpus} : n \in nodes}

-----------------------------------------------------------------------------
(* status.ts *)

GiB == 1024
Known(m) == m # Null
Positive(m) == Known(m) /\ m > 0

\* Whole gigabytes, rounded.
CapacityKey(g) ==
    IF Positive(g.memory_total) THEN Max({1, (g.memory_total + GiB \div 2) \div GiB}) ELSE Null

TooHot(g) == Known(g.temperature) /\ g.temperature >= 85

Bad(g) == g.status # "ok" \/ g.health

\* Fault: temperature is left to whoever shows the card.
Idle_however_hot(g, n) ==
    /\ n.online /\ g.status = "ok" /\ ~ g.health
    /\ g.process_status = "ok" /\ g.processes = {}
    /\ Known(g.util) /\ g.util < 5
    /\ Known(g.memory_used) /\ Positive(g.memory_total)
    /\ g.memory_used * 20 < g.memory_total

Idle(g, n) ==
    /\ n.online /\ g.status = "ok" /\ ~ g.health /\ ~ TooHot(g)
    /\ g.process_status = "ok" /\ g.processes = {}
    /\ Known(g.util) /\ g.util < 5
    /\ Known(g.memory_used) /\ Positive(g.memory_total)
    /\ g.memory_used * 20 < g.memory_total

\* The hub's own rule (internal/model), of which Idle is a copy with more conditions.
HubIdle(g) ==
    /\ g.status = "ok" /\ g.process_status = "ok" /\ g.processes = {}
    /\ Known(g.util) /\ g.util < 5
    /\ Known(g.memory_used) /\ Positive(g.memory_total)
    /\ g.memory_used * 20 < g.memory_total

-----------------------------------------------------------------------------
(* summary.ts *)

State == {"idle", "busy", "attention", "unknown", "offline"}

GPUState(g, n) ==
    CASE ~ n.online -> "offline"
      [] n.online /\ (Bad(g) \/ TooHot(g)) -> "attention"
      [] OTHER ->
           IF Idle(g, n) THEN "idle"
           ELSE IF \/ g.process_status # "ok" \/ ~ Known(g.util)
                   \/ ~ Known(g.memory_used) \/ ~ Positive(g.memory_total)
             THEN "unknown" ELSE "busy"

InState(nodes, states) == {c \in CardsOf(nodes) : GPUState(c.g, c.n) \in states}

Counts(nodes) == [s \in State |-> Cardinality(InState(nodes, {s}))]

Absent(n) == Max({0, n.expected - Cardinality(n.gpus)})

\* Fault: a card too many on one node makes up for one that another lacks.
MissingNodes_in_sum(nodes) ==
    IF MapThenSumSet(LAMBDA n : n.expected - Cardinality(n.gpus), nodes) > 0
      THEN {n \in nodes : n.online /\ Absent(n) > 0} ELSE {}

MissingNodes(nodes) == {n \in nodes : n.online /\ Absent(n) > 0}

\* One for each node that is offline or whose collection is limited, each that lacks
\* cards, and each card that is in trouble or cannot be judged.
Issues(nodes) ==
    {[node |-> n.id, kind |-> "offline"] : n \in {m \in nodes : ~ m.online}}
    \cup {[node |-> n.id, kind |-> "collect"] :
             n \in {m \in nodes : m.online /\ m.gpu_status # "ok"}}
    \cup {[node |-> n.id, kind |-> "missing"] : n \in MissingNodes(nodes)}
    \cup {[node |-> c.n.id, kind |-> "card", gpu |-> c.g.uuid] :
             c \in InState(nodes, {"attention", "unknown"})}

\* The cards of one name and capacity; a dashboard row offers the idle ones.
Models(nodes) ==
    {[name |-> c.g.name, capacity |-> CapacityKey(c.g)] : c \in CardsOf(nodes)}

IdleOf(nodes, m) ==
    Cardinality({c \in InState(nodes, {"idle"}) :
                    c.g.name = m.name /\ CapacityKey(c.g) = m.capacity})
=============================================================================
