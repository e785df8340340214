----------------------------- MODULE NodeAccess -----------------------------
(***************************************************************************)
(* Nodes, their one-time codes and their credentials (internal/hub).       *)
(* Requests are handled by goroutines of their own, each in several        *)
(* database statements: something is looked up, then something is written. *)
(* Hub.mu is held from before the lookup until after the write.            *)
(*                                                                         *)
(* Requests that change nodes come from an administrator's session; they   *)
(* start here after the session has been checked, before the lock.  Codes  *)
(* and credentials are secrets 1, 2, ...: token() never makes one twice.   *)
(* The answer to a redeemed code may be lost on its way to the agent.      *)
(***************************************************************************)
EXTENDS Integers

CONSTANTS
    Node,       \* identifiers of nodes
    Name,       \* names, trimmed and in one case
    Worker,     \* goroutines that handle requests
    Agent,      \* configuration directories of agents
    Life,       \* how long a code is valid (15 minutes)
    MaxSecret,  \* bound: secrets made
    MaxTime,    \* bound: the last instant
    NoNode, NoName, NoWorker

ASSUME AccessAssumption ==
    /\ Life \in Nat /\ MaxSecret \in Nat /\ MaxTime \in Nat
    /\ NoNode \notin Node /\ NoName \notin Name /\ NoWorker \notin Worker

VARIABLES
    now,        \* the clock
    nodes,      \* the table nodes
    issued,     \* the last secret made
    mu,         \* who holds Hub.mu
    pc,         \* of each goroutine: "idle", "waiting", "read" or "write"
    op,         \* the request it handles
    found,      \* the node its lookup returned
    config,     \* the credential in an agent's config.json
    given,      \* history: the node a code was made for
    granted     \* history: codes redeemed

vars == <<now, nodes, issued, mu, pc, op, found, config, given, granted>>
requests == <<pc, op, found, mu>>

-----------------------------------------------------------------------------
Secret == 1 .. MaxSecret
None == 0

Row == [name : Name \cup {NoName}, token : Secret \cup {None},
        code : Secret \cup {None}, expires : Nat]

Grant == [code : Secret, token : Secret, node : Node]

NoOp == [kind |-> "none"]
Enroll    == [kind : {"enroll"}, secret : Secret, agent : Agent]
Snapshot  == [kind : {"snapshot"}, secret : Secret]
Create    == [kind : {"create"}, name : Name]
Configure == [kind : {"configure"}, name : Name, node : Node]
Reset     == [kind : {"revoke", "issue"}, node : Node]

TypeOK ==
    /\ now \in 0 .. MaxTime
    /\ nodes \in [Node -> Row]
    /\ issued \in 0 .. MaxSecret
    /\ mu \in Worker \cup {NoWorker}
    /\ pc \in [Worker -> {"idle", "waiting", "read", "write"}]
    /\ op \in [Worker -> {NoOp} \cup Enroll \cup Snapshot \cup Create \cup Configure \cup Reset]
    /\ found \in [Worker -> Node \cup {NoNode}]
    /\ config \in [Agent -> Secret \cup {None}]
    /\ given \in [Secret -> Node \cup {NoNode}]
    /\ granted \subseteq Grant

Exists(n) == nodes[n].name # NoName

Init ==
    /\ now = 0
    /\ nodes = [n \in Node |-> [name |-> NoName, token |-> None, code |-> None, expires |-> 0]]
    /\ issued = 0
    /\ mu = NoWorker
    /\ pc = [w \in Worker |-> "idle"]
    /\ op = [w \in Worker |-> NoOp]
    /\ found = [w \in Worker |-> NoNode]
    /\ config = [a \in Agent |-> None]
    /\ given = [s \in Secret |-> NoNode]
    /\ granted = {}

Tick ==
    /\ now < MaxTime
    /\ now' = now + 1
    /\ UNCHANGED <<nodes, issued, requests, config, given, granted>>

-----------------------------------------------------------------------------
(* Requests arrive. *)

Arrive(w, o) ==
    /\ pc[w] = "idle"
    /\ pc' = [pc EXCEPT ![w] = "waiting"]
    /\ op' = [op EXCEPT ![w] = o]
    /\ UNCHANGED <<now, nodes, issued, mu, found, config, given, granted>>

\* setup redeems a code, unless there is a configuration already.
Setup(w) ==
    \E o \in Enroll : config[o.agent] = None /\ o.secret <= issued /\ Arrive(w, o)

\* An agent posts a sample with the credential it has.
Post(w) ==
    \E a \in Agent : config[a] # None /\ Arrive(w, [kind |-> "snapshot", secret |-> config[a]])

\* The administrator creates, configures, revokes or issues a new code.
Manage(w) ==
    \/ \E o \in Create : Arrive(w, o)
    \/ \E o \in Configure \cup Reset : Arrive(w, o)

\* The configuration is moved away, to set the agent up again.
MoveConfig ==
    /\ \E a \in Agent : config[a] # None /\ config' = [config EXCEPT ![a] = None]
    /\ UNCHANGED <<now, nodes, issued, requests, given, granted>>

-----------------------------------------------------------------------------
(* Requests are handled. *)

\* Fault: nobody is kept out.
Lock_shared(w) ==
    /\ pc[w] = "waiting"
    /\ mu' = w
    /\ pc' = [pc EXCEPT ![w] = "read"]
    /\ UNCHANGED <<now, nodes, issued, op, found, config, given, granted>>

Lock(w) ==
    /\ pc[w] = "waiting"
    /\ mu = NoWorker
    /\ mu' = w
    /\ pc' = [pc EXCEPT ![w] = "read"]
    /\ UNCHANGED <<now, nodes, issued, op, found, config, given, granted>>

\* The answer is written and the deferred unlock runs.
Finish(w) ==
    /\ mu' = NoWorker
    /\ pc' = [pc EXCEPT ![w] = "idle"]
    /\ op' = [op EXCEPT ![w] = NoOp]
    /\ found' = [found EXCEPT ![w] = NoNode]

\* The rows the lookup of a request may return.
Matches(o) ==
    IF o.kind = "enroll"        THEN {n \in Node : nodes[n].code = o.secret /\ nodes[n].expires > now}
    ELSE IF o.kind = "snapshot" THEN {n \in Node : nodes[n].token = o.secret}
    ELSE {n \in Node : n = o.node /\ Exists(n)}

\* uniqueName.
NameFree(name, except) == \A n \in Node \ {except} : nodes[n].name # name

Proceed(w, n) ==
    /\ pc' = [pc EXCEPT ![w] = "write"]
    /\ found' = [found EXCEPT ![w] = n]
    /\ UNCHANGED <<now, nodes, issued, mu, op, config, given, granted>>

\* create only asks for its name, all others for their node.
Look(w) ==
    /\ pc[w] = "read"
    /\ \/ /\ op[w].kind = "create"
          /\ NameFree(op[w].name, NoNode)
          /\ Proceed(w, NoNode)
       \/ /\ op[w].kind # "create"
          /\ op[w].kind = "configure" => NameFree(op[w].name, op[w].node)
          /\ \E n \in Matches(op[w]) : Proceed(w, n)

\* Fault: what was refused is tried again.
Refuse_and_retry(w) ==
    /\ pc[w] \in {"read", "write"}
    /\ mu' = NoWorker
    /\ pc' = [pc EXCEPT ![w] = "waiting"]
    /\ found' = [found EXCEPT ![w] = NoNode]
    /\ UNCHANGED <<now, nodes, issued, op, config, given, granted>>

\* Not found, or refused for what is left out here: the checks of the input, the
\* limiter, a statement that fails.  Nothing is written.
Refuse(w) ==
    /\ pc[w] \in {"read", "write"}
    /\ Finish(w)
    /\ UNCHANGED <<now, nodes, issued, config, given, granted>>

Writes(w, kind) == pc[w] = "write" /\ op[w].kind = kind /\ Finish(w)

\* token().
NewSecret == issued' = issued + 1 /\ issued' <= MaxSecret

Spend(row, token) == [row EXCEPT !.token = token, !.code = None, !.expires = 0]

\* The code is spent, and the agent saves its credential unless the answer is lost.
Redeem(w) ==
    /\ Writes(w, "enroll")
    /\ NewSecret
    /\ nodes' = [nodes EXCEPT ![found[w]] = Spend(@, issued')]
    /\ granted' = granted \cup {[code |-> op[w].secret, token |-> issued', node |-> found[w]]}
    /\ config' \in {config, [config EXCEPT ![op[w].agent] = issued']}
    /\ UNCHANGED <<now, given>>

\* The sample is recorded: see HubIngest.
Record(w) ==
    /\ Writes(w, "snapshot")
    /\ UNCHANGED <<now, nodes, issued, config, given, granted>>

Insert(w) ==
    /\ Writes(w, "create")
    /\ NewSecret
    /\ \E n \in Node :
        /\ ~ Exists(n)
        /\ nodes' = [nodes EXCEPT ![n] = [name |-> op[w].name, token |-> None,
                                          code |-> issued', expires |-> now + Life]]
        /\ given' = [given EXCEPT ![issued'] = n]
    /\ UNCHANGED <<now, config, granted>>

Rename(w) ==
    /\ Writes(w, "configure")
    /\ nodes' = [nodes EXCEPT ![found[w]].name = op[w].name]
    /\ UNCHANGED <<now, issued, config, given, granted>>

Revoke(w) ==
    /\ Writes(w, "revoke")
    /\ nodes' = [nodes EXCEPT ![found[w]] = Spend(@, None)]
    /\ UNCHANGED <<now, issued, config, given, granted>>

\* issueCode: the old credential ends at once.
Issue(w) ==
    /\ Writes(w, "issue")
    /\ NewSecret
    /\ nodes' = [nodes EXCEPT ![found[w]].token = None, ![found[w]].code = issued',
                              ![found[w]].expires = now + Life]
    /\ given' = [given EXCEPT ![issued'] = found[w]]
    /\ UNCHANGED <<now, config, granted>>

Begin(w)  == Setup(w) \/ Post(w) \/ Manage(w)
Write(w)  == Redeem(w) \/ Record(w) \/ Insert(w) \/ Rename(w) \/ Revoke(w) \/ Issue(w)
Handle(w) == Look(w) \/ Refuse(w) \/ Write(w)

Next == Tick \/ MoveConfig \/ \E w \in Worker : Begin(w) \/ Lock(w) \/ Handle(w)

\* Go runs every goroutine on, and its mutex starves nobody.
Fairness == \A w \in Worker : WF_vars(Handle(w)) /\ SF_vars(Lock(w))

Spec == Init /\ [][Next]_vars
FairSpec == Spec /\ Fairness

-----------------------------------------------------------------------------
(* What the lock is for. *)

\* No two nodes have one name, although names are compared before they are written.
NamesUnique == \A m, n \in Node : Exists(m) /\ nodes[m].name = nodes[n].name => m = n

\* However many requests redeem a code at once, one gets a credential, and it is
\* the credential of the node the code was made for.
CodesAreSingleUse ==
    \A g, h \in granted : given[g.code] = g.node /\ (g.code = h.code => g = h)

\* A credential stops at once: after it was revoked or replaced nothing is recorded
\* with it, although it was valid when the request arrived.
RevokedWritesNothing ==
    [][\A w \in Worker : Record(w) => nodes[found[w]].token = op[w].secret]_vars

\* A node that looks enrolled can be: its credential has been granted to it.  Codes
\* and credentials of two nodes are never the same.
SecretsAreOwned ==
    /\ \A n \in Node : nodes[n].token # None =>
          \E g \in granted : g.token = nodes[n].token /\ g.node = n
    /\ \A n \in Node : nodes[n].code # None =>
          given[nodes[n].code] = n /\ \A g \in granted : g.code # nodes[n].code

\* Every request is answered: none waits for the lock for ever.
EveryRequestEnds == \A w \in Worker : pc[w] # "idle" ~> pc[w] = "idle"
=============================================================================
