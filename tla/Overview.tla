------------------------------ MODULE Overview ------------------------------
(***************************************************************************)
(* The two pages of the web client that show the cluster: the dashboard    *)
(* (features/dashboard/Dashboard.tsx), which counts cards and offers       *)
(* buttons, and the resource page (app/App.tsx, features/nodes/            *)
(* NodeCard.tsx), which lists nodes and cards under filters.  Filters stay *)
(* when the page is left, polls bring another list at any time, and every  *)
(* page counts for itself.                                                 *)
(***************************************************************************)
EXTENDS Cards

CONSTANTS
    Lists,       \* what polls may bring
    Frees,       \* choices of free memory in GB, besides 0
    MaxFilters,  \* bound: filters set at a time
    Any          \* nothing chosen

\* What a poll brings is finite, and its nodes have ids of their own.
IsList(list) ==
    /\ list \in NodeList
    /\ IsFiniteSet(list) /\ \A n \in list : IsFiniteSet(n.gpus)
    /\ \A m, n \in list : m.id = n.id => m = n

\* Nothing chosen is the empty string, which no id, tag, user or name is taken to be.
ASSUME OverviewAssumption ==
    /\ MaxFilters \in Nat /\ Frees \subseteq Nat
    /\ \A list \in Lists : IsList(list)
    /\ Any \notin NodeId \cup Tag \cup User \cup Model \cup Nat \cup {Null}

VARIABLES
    nodes,       \* useNodes: the list
    page,
    filter,      \* App: search, status, free, model, capacity, tag, nodeId
    selected,    \* App: the card of the dialog
    promise      \* history: what the button just pressed said would be listed

vars == <<nodes, page, filter, selected, promise>>

-----------------------------------------------------------------------------
NoFilter == [nodeId |-> Any, tag |-> Any, search |-> Any, model |-> Any,
             capacity |-> Any, status |-> "all", free |-> 0]

Fields == DOMAIN NoFilter

Filters ==
    [nodeId : NodeId \cup {Any}, tag : Tag \cup {Any},
     search : NodeId \cup Tag \cup User \cup {Any}, model : Model \cup {Any},
     capacity : Nat \cup {Null, Any}, status : {"all", "idle", "fault", "offline"},
     free : Frees \cup {0}]

TypeOK ==
    /\ nodes \in Lists \cup {{}}
    /\ page \in {"dashboard", "overview"}
    /\ filter \in Filters
    /\ selected \in (NodeId \X UUID) \cup {Any}
    /\ promise \in [cards : Nat \cup {Any}, node : NodeId \cup {Any}]

Set == {f \in Fields : filter[f] # NoFilter[f]}

\* The text a search looks through, as a set of words.
NodeWords(n) == {n.id} \cup n.tags
Words(g, n) == NodeWords(n) \cup {g.name} \cup g.processes

StatusFits(s, g, n) ==
    \/ s = "all"
    \/ s = "idle" /\ Idle(g, n)
    \/ s = "fault" /\ Bad(g)
    \/ s = "offline" /\ ~ n.online

Fits(g, n) ==
    /\ filter.search \in Words(g, n) \cup {Any}
    /\ filter.model \in {g.name, Any}
    /\ filter.capacity \in {CapacityKey(g), Any}
    /\ StatusFits(filter.status, g, n)
    /\ \/ filter.free = 0
       \/ /\ Known(g.memory_total) /\ Known(g.memory_used)
          /\ g.memory_total - g.memory_used >= filter.free * GiB

\* A node none of whose cards are listed is listed itself if only names were asked for.
BareNodeFits(n) ==
    /\ filter.search \in NodeWords(n) \cup {Any}
    /\ filter.status = "all" /\ filter.model = Any
    /\ filter.capacity = Any /\ filter.free = 0

\* App's filtered: the nodes with the cards that fit.
Listed ==
    LET placed == {n \in nodes : filter.nodeId \in {n.id, Any} /\ filter.tag \in n.tags \cup {Any}}
        cut    == {[n EXCEPT !.gpus = {g \in @ : Fits(g, n)}] : n \in placed}
    IN  {n \in cut : n.gpus # {} \/ BareNodeFits(n)}

\* What the lists to choose from hold.
Options(f) ==
    CASE f = "tag"      -> (UNION {n.tags : n \in nodes}) \cup {filter.tag, Any}
      [] f = "search"   -> (UNION {NodeWords(n) : n \in nodes}) \cup User \cup {Any}
      [] f = "model"    -> {c.g.name : c \in CardsOf(nodes)} \cup {Any}
      [] f = "capacity" -> {CapacityKey(c.g) : c \in CardsOf(nodes)} \cup {Any}
      [] f = "status"   -> {"all", "idle", "fault", "offline"}
      [] f = "free"     -> Frees \cup {0}
      [] f = "nodeId"   -> {Any}

-----------------------------------------------------------------------------
Available == Cardinality({c \in CardsOf(nodes) : Idle(c.g, c.n)})

Faults == Cardinality({c \in CardsOf(nodes) : c.n.online /\ Bad(c.g)})

Missing == SumFunctionOnSet([n \in nodes |-> IF n.online THEN Absent(n) ELSE 0], nodes)

\* The tiles of the resource page.
Tiles ==
    [online |-> Cardinality({n \in nodes : n.online}),
     gpus   |-> Cardinality(CardsOf(nodes)),
     free   |-> Available,
     faults |-> Faults + Missing]

(* The card of a node. *)

IdleCards(n) == {g \in n.gpus : Idle(g, n)}

BusyCards(n) ==
    {g \in n.gpus : n.online /\ g.status = "ok" /\ g.process_status = "ok" /\ ~ Idle(g, n)}

UnknownCards(n) == Cardinality(n.gpus) - Cardinality(IdleCards(n)) - Cardinality(BusyCards(n))

Badge(g, n) ==
    CASE ~ n.online                                  -> "expired"
      [] n.online /\ Bad(g)                          -> "failed"
      [] n.online /\ ~ Bad(g) /\ Idle(g, n)          -> "idle"
      [] n.online /\ ~ Bad(g) /\ ~ Idle(g, n)        ->
           IF g.process_status # "ok" THEN "limited" ELSE "in use"

-----------------------------------------------------------------------------
Nothing == [cards |-> Any, node |-> Any]

Init ==
    /\ nodes = {}
    /\ page = "dashboard" /\ filter = NoFilter
    /\ selected = Any /\ promise = Nothing

\* The card the dialog shows, if it is still in the list.
Selected == {c \in CardsOf(nodes) : selected = <<c.n.id, c.g.uuid>>}

\* The dialog covers the page.
Uncovered == Selected = {}

\* A poll is answered.
Refresh ==
    /\ nodes' \in Lists
    /\ promise' = Nothing
    /\ UNCHANGED <<page, filter, selected>>

\* The navigation.
GoTo(p) ==
    /\ Uncovered
    /\ page' = p
    /\ promise' = Nothing
    /\ UNCHANGED <<nodes, filter, selected>>

\* The resource page: a filter is chosen or cleared.
Choose(f, v) ==
    /\ page = "overview" /\ Uncovered
    /\ v \in Options(f)
    /\ filter' = [filter EXCEPT ![f] = v]
    /\ promise' = Nothing
    /\ UNCHANGED <<nodes, page, selected>>

\* Fault: what the button does not name stays as it was.
OnQuery_merged(options) ==
    /\ filter' = [f \in Fields |-> IF f \in DOMAIN options THEN options[f] ELSE filter[f]]
    /\ page' = "overview"

\* Dashboard's onQuery: all filters are set, those not named to nothing.
OnQuery(options) ==
    /\ filter' = [f \in Fields |-> IF f \in DOMAIN options THEN options[f] ELSE NoFilter[f]]
    /\ page' = "overview"

OnGPU(n, g) ==
    /\ selected' = <<n, g>>
    /\ promise' = Nothing

OnDashboard == page = "dashboard" /\ Uncovered

\* The button beside the number of idle cards.
AskIdle ==
    /\ OnDashboard
    /\ OnQuery([status |-> "idle"])
    /\ promise' = [Nothing EXCEPT !.cards = Counts(nodes)["idle"]]
    /\ UNCHANGED <<nodes, selected>>

\* A row of the models.
AskModel(m) ==
    /\ OnDashboard
    /\ OnQuery([model |-> m.name, capacity |-> m.capacity, status |-> "idle"])
    /\ promise' = [Nothing EXCEPT !.cards = IdleOf(nodes, m)]
    /\ UNCHANGED <<nodes, selected>>

\* The name of a node.
AskNode(n) ==
    /\ OnDashboard
    /\ OnQuery([nodeId |-> n.id])
    /\ promise' = [cards |-> Cardinality(n.gpus), node |-> n.id]
    /\ UNCHANGED <<nodes, selected>>

\* An issue leads to its card or its node.
AskIssue(i) ==
    /\ OnDashboard
    /\ \/ /\ i.kind = "card"
          /\ OnGPU(i.node, i.gpu)
          /\ UNCHANGED <<page, filter>>
       \/ /\ i.kind # "card"
          /\ OnQuery([nodeId |-> i.node])
          /\ promise' = [Nothing EXCEPT !.node = i.node]
          /\ UNCHANGED selected
    /\ UNCHANGED nodes

\* The dashboard without nodes.
AskAll ==
    /\ OnDashboard /\ nodes = {}
    /\ OnQuery(<<>>)
    /\ promise' = [Nothing EXCEPT !.cards = 0]
    /\ UNCHANGED <<nodes, selected>>

\* A square of the dashboard, or a row of the resource page.
ShowCard(n, g) ==
    /\ Uncovered
    /\ OnGPU(n.id, g.uuid)
    /\ UNCHANGED <<nodes, page, filter>>

CloseCard ==
    /\ ~ Uncovered
    /\ selected' = Any
    /\ promise' = Nothing
    /\ UNCHANGED <<nodes, page, filter>>

Next ==
    \/ Refresh \/ AskIdle \/ AskAll \/ CloseCard
    \/ \E p \in {"dashboard", "overview"} : GoTo(p)
    \/ \E f \in Fields : \E v \in Options(f) :
          Choose(f, v) /\ Cardinality(Set') <= MaxFilters
    \/ \E m \in Models(nodes) : AskModel(m)
    \/ \E i \in Issues(nodes) : AskIssue(i)
    \/ \E n \in nodes : AskNode(n)
    \/ \E n \in IF page = "dashboard" THEN nodes ELSE Listed : \E g \in n.gpus : ShowCard(n, g)

Spec == Init /\ [][Next]_vars

-----------------------------------------------------------------------------
(* What the pages promise each other. *)

\* Pressing a button of the dashboard that shows a number of cards, or a node, leads
\* to that many listed cards, or to that node alone with whatever it has: no filter
\* left from before, no other rounding of the capacity, no other idea of idle hides one.
PromisesKept ==
    /\ promise.cards # Any =>
         SumFunctionOnSet([n \in Listed |-> Cardinality(n.gpus)], Listed) = promise.cards
    /\ promise.node # Any => {n.id : n \in Listed} = {promise.node}

\* The idle cards of the dashboard, of the tile, of the nodes and of the rows are as
\* many, and all of them are idle by the hub's rule on a node that is online.
FreeCardsAgree ==
    /\ Counts(nodes)["idle"] = Tiles.free
    /\ SumFunctionOnSet([n \in nodes |-> Cardinality(IdleCards(n))], nodes) = Available
    /\ Cardinality({c \in CardsOf(nodes) : Badge(c.g, c.n) = "idle"}) = Available
    /\ SumFunctionOnSet([m \in Models(nodes) |-> IdleOf(nodes, m)], Models(nodes)) = Available
    /\ \A c \in InState(nodes, {"idle"}) : HubIdle(c.g) /\ c.n.online

\* If the dashboard finds nothing to report, nothing is wrong on any page: all nodes
\* are online with their cards, the tile counts no fault, and no card of a node is of
\* unknown use.
AllGoodEverywhere ==
    Issues(nodes) = {} =>
        /\ Tiles.faults = 0 /\ Tiles.online = Cardinality(nodes)
        /\ \A n \in nodes : n.online /\ Cardinality(n.gpus) >= n.expected /\ UnknownCards(n) = 0
        /\ \A c \in CardsOf(nodes) : Badge(c.g, c.n) \in {"idle", "in use"}
=============================================================================
