------------------------- MODULE NodeAccess_proofs -------------------------
(***************************************************************************)
(* Theorems about NodeAccess, for any nodes, names, goroutines and agents. *)
(***************************************************************************)
EXTENDS NodeAccess, TLAPS

-----------------------------------------------------------------------------
(* Types. *)

Op == {NoOp} \cup Enroll \cup Snapshot \cup Create \cup Configure \cup Reset

LEMMA OpsByKind ==
  ASSUME NEW o \in Op
  PROVE  /\ o.kind = "enroll" => o \in Enroll /\ o.secret \in Secret /\ o.agent \in Agent
         /\ o.kind = "snapshot" => o.secret \in Secret
         /\ o.kind = "create" => o.name \in Name
         /\ o.kind = "configure" => o.name \in Name /\ o.node \in Node
  BY DEF Op, NoOp, Enroll, Snapshot, Create, Configure, Reset

TableType ==
    /\ now \in 0 .. MaxTime
    /\ nodes \in [Node -> Row]
    /\ issued \in 0 .. MaxSecret
    /\ config \in [Agent -> Secret \cup {None}]
    /\ given \in [Secret -> Node \cup {NoNode}]
    /\ granted \subseteq Grant

WorkerType ==
    /\ mu \in Worker \cup {NoWorker}
    /\ pc \in [Worker -> {"idle", "waiting", "read", "write"}]
    /\ op \in [Worker -> Op]
    /\ found \in [Worker -> Node \cup {NoNode}]

LEMMA TypeParts == TypeOK <=> TableType /\ WorkerType
  BY DEF TypeOK, TableType, WorkerType, Op

\* A worker with something to write has a node to write to, unless it makes one.
FoundNode ==
    \A w \in Worker : pc[w] = "write" /\ op[w].kind # "create" => found[w] \in Node

TypeInv == TableType /\ WorkerType /\ FoundNode

LEMMA InitType == Init => TypeInv
<1>. SUFFICES ASSUME Init
              PROVE  TypeInv
  OBVIOUS
<1>. USE AccessAssumption DEF AccessAssumption, Init
<1>1. now \in 0 .. MaxTime /\ issued \in 0 .. MaxSecret
  OBVIOUS
<1>2. nodes \in [Node -> Row]
  BY DEF Row
<1>3. config \in [Agent -> Secret \cup {None}] /\ given \in [Secret -> Node \cup {NoNode}]
  OBVIOUS
<1>4. granted \subseteq Grant
  OBVIOUS
<1>5. WorkerType
  BY DEF WorkerType, Op
<1>6. FoundNode
  BY DEF FoundNode
<1>. QED
  BY <1>1, <1>2, <1>3, <1>4, <1>5, <1>6 DEF TypeInv, TableType

LEMMA ArriveType ==
  ASSUME TypeInv, NEW w \in Worker, NEW o \in Op, Arrive(w, o)
  PROVE  TypeInv'
  BY DEF Arrive, TypeInv, TableType, WorkerType, FoundNode

LEMMA BeginType ==
  ASSUME TypeInv, NEW w \in Worker, Begin(w)
  PROVE  TypeInv'
<1>1. \A a \in Agent : config[a] # None => [kind |-> "snapshot", secret |-> config[a]] \in Op
  BY DEF TypeInv, TableType, Op, Snapshot
<1>. QED
  BY <1>1, ArriveType DEF Begin, Setup, Post, Manage, Op

LEMMA LockType ==
  ASSUME TypeInv, NEW w \in Worker, Lock(w)
  PROVE  TypeInv'
  BY DEF Lock, TypeInv, TableType, WorkerType, FoundNode

LEMMA LookType ==
  ASSUME TypeInv, NEW w \in Worker, Look(w)
  PROVE  TypeInv'
<1>1. PICK n \in Node \cup {NoNode} : Proceed(w, n) /\ (op[w].kind # "create" => n \in Node)
  BY DEF Look, Matches
<1>2. TableType'
  BY <1>1 DEF Proceed, TypeInv, TableType
<1>3. WorkerType'
  BY <1>1 DEF Proceed, TypeInv, WorkerType
<1>4. FoundNode'
  BY <1>1 DEF Proceed, TypeInv, WorkerType, FoundNode
<1>. QED
  BY <1>2, <1>3, <1>4 DEF TypeInv

LEMMA FinishType ==
  ASSUME TypeInv, NEW w \in Worker, Finish(w)
  PROVE  WorkerType' /\ FoundNode'
<1>1. WorkerType'
  BY DEF Finish, TypeInv, WorkerType, Op
<1>2. FoundNode'
  BY DEF Finish, TypeInv, WorkerType, FoundNode
<1>. QED
  BY <1>1, <1>2

LEMMA SpendType ==
  ASSUME NEW r \in Row, NEW t \in Secret \cup {None}
  PROVE  Spend(r, t) \in Row /\ Spend(r, t).name = r.name /\ Spend(r, t).token = t
         /\ Spend(r, t).code = None
  BY DEF Spend, Row

LEMMA NewSecretType ==
  ASSUME TypeInv, NewSecret
  PROVE  issued' \in Secret /\ issued' \in 0 .. MaxSecret /\ issued' = issued + 1
  BY AccessAssumption DEF AccessAssumption, TypeInv, TableType, NewSecret, Secret

LEMMA WriteType ==
  ASSUME TypeInv, NEW w \in Worker, Write(w)
  PROVE  TypeInv'
<1>1. WorkerType' /\ FoundNode'
  BY FinishType DEF Write, Redeem, Record, Insert, Rename, Revoke, Issue, Writes
<1>2. TableType'
  <2>. USE DEF TypeInv, TableType
  <2>1. CASE Redeem(w)
    <3>1. /\ found[w] \in Node /\ op[w].secret \in Secret
      BY <2>1, OpsByKind DEF Redeem, Writes, FoundNode, WorkerType
    <3>2. issued' \in Secret /\ issued' \in 0 .. MaxSecret
      BY <2>1, NewSecretType DEF Redeem
    <3>3. nodes' \in [Node -> Row]
      BY <2>1, <3>1, <3>2, SpendType DEF Redeem
    <3>4. granted' \subseteq Grant
      BY <2>1, <3>1, <3>2 DEF Redeem, Grant
    <3>5. config' \in [Agent -> Secret \cup {None}]
      BY <2>1, <3>2 DEF Redeem
    <3>. QED
      BY <2>1, <3>2, <3>3, <3>4, <3>5 DEF Redeem
  <2>2. CASE Record(w)
    BY <2>2 DEF Record
  <2>3. CASE Insert(w)
    <3>1. issued' \in Secret /\ issued' \in 0 .. MaxSecret
      BY <2>3, NewSecretType DEF Insert
    <3>2. op[w].name \in Name /\ now + Life \in Nat
      BY <2>3, OpsByKind, AccessAssumption DEF Insert, Writes, WorkerType, AccessAssumption
    <3>3. [name |-> op[w].name, token |-> None, code |-> issued', expires |-> now + Life] \in Row
      BY <3>1, <3>2 DEF Row
    <3>4. nodes' \in [Node -> Row] /\ given' \in [Secret -> Node \cup {NoNode}]
      BY <2>3, <3>1, <3>3 DEF Insert
    <3>. QED
      BY <2>3, <3>1, <3>4 DEF Insert
  <2>4. CASE Rename(w)
    <3>1. found[w] \in Node /\ op[w].name \in Name
      BY <2>4, OpsByKind DEF Rename, Writes, FoundNode, WorkerType
    <3>2. nodes' \in [Node -> Row]
      BY <2>4, <3>1 DEF Rename, Row
    <3>. QED
      BY <2>4, <3>2 DEF Rename
  <2>5. CASE Revoke(w)
    <3>1. found[w] \in Node
      BY <2>5 DEF Revoke, Writes, FoundNode
    <3>2. nodes' \in [Node -> Row]
      BY <2>5, <3>1, SpendType DEF Revoke
    <3>. QED
      BY <2>5, <3>2 DEF Revoke
  <2>6. CASE Issue(w)
    <3>1. found[w] \in Node
      BY <2>6 DEF Issue, Writes, FoundNode
    <3>2. issued' \in Secret /\ issued' \in 0 .. MaxSecret /\ now + Life \in Nat
      BY <2>6, NewSecretType, AccessAssumption DEF Issue, AccessAssumption
    <3>3. nodes' \in [Node -> Row]
      BY <2>6, <3>1, <3>2 DEF Issue, Row
    <3>4. given' \in [Secret -> Node \cup {NoNode}]
      BY <2>6, <3>1, <3>2 DEF Issue
    <3>. QED
      BY <2>6, <3>2, <3>3, <3>4 DEF Issue
  <2>. QED
    BY <2>1, <2>2, <2>3, <2>4, <2>5, <2>6 DEF Write
<1>. QED
  BY <1>1, <1>2 DEF TypeInv

LEMMA NextType == TypeInv /\ [Next]_vars => TypeInv'
<1>. SUFFICES ASSUME TypeInv, [Next]_vars
              PROVE  TypeInv'
  OBVIOUS
<1>1. CASE Tick
  BY <1>1, AccessAssumption
     DEF Tick, requests, TypeInv, TableType, WorkerType, FoundNode, AccessAssumption
<1>2. CASE MoveConfig
  BY <1>2 DEF MoveConfig, requests, TypeInv, TableType, WorkerType, FoundNode
<1>3. ASSUME NEW w \in Worker, Refuse(w)
      PROVE  TypeInv'
  BY <1>3, FinishType DEF Refuse, TypeInv, TableType
<1>4. CASE UNCHANGED vars
  BY <1>4 DEF vars, TypeInv, TableType, WorkerType, FoundNode
<1>. QED
  BY <1>1, <1>2, <1>3, <1>4, BeginType, LockType, LookType, WriteType DEF Next, Handle

\* Tables and goroutines keep their types.
THEOREM TypeCorrect == Spec => []TypeOK
<1>1. TypeInv => TypeOK
  BY TypeParts DEF TypeInv
<1>. QED
  BY <1>1, InitType, NextType, PTL DEF Spec

-----------------------------------------------------------------------------
(* What the lock protects.  A request is served by two statements; what the first
   one found stays true until the second, because whoever is between the two
   holds the lock. *)

Alone == \A w \in Worker : pc[w] \in {"read", "write"} => mu = w

Checked(w) ==
    /\ op[w].kind = "enroll" => nodes[found[w]].code = op[w].secret
    /\ op[w].kind = "snapshot" => nodes[found[w]].token = op[w].secret
    /\ op[w].kind = "create" => NameFree(op[w].name, NoNode)
    /\ op[w].kind = "configure" => found[w] = op[w].node /\ NameFree(op[w].name, op[w].node)

StillChecked == \A w \in Worker : pc[w] = "write" => Checked(w)

\* A secret still to be made is nobody's.
Fresh ==
    /\ \A n \in Node : nodes[n].code <= issued
    /\ \A g \in granted : g.code <= issued

SafeInv ==
    /\ TypeInv
    /\ Alone
    /\ StillChecked
    /\ Fresh
    /\ NamesUnique
    /\ CodesAreSingleUse
    /\ SecretsAreOwned

LEMMA InitSafe == Init => SafeInv
<1>. SUFFICES ASSUME Init
              PROVE  SafeInv
  OBVIOUS
<1>1. TypeInv
  BY InitType
<1>2. Alone /\ StillChecked
  BY DEF Init, Alone, StillChecked
<1>3. Fresh /\ NamesUnique /\ CodesAreSingleUse /\ SecretsAreOwned
  BY DEF Init, Fresh, NamesUnique, CodesAreSingleUse, SecretsAreOwned, Exists, None
<1>. QED
  BY <1>1, <1>2, <1>3 DEF SafeInv

\* The part that only speaks of the tables.
TableSafe == Fresh /\ NamesUnique /\ CodesAreSingleUse /\ SecretsAreOwned

LEMMA TableKept ==
  ASSUME TableSafe, UNCHANGED <<nodes, issued, given, granted>>
  PROVE  TableSafe'
  BY DEF TableSafe, Fresh, NamesUnique, CodesAreSingleUse, SecretsAreOwned, Exists

LEMMA CheckedKept ==
  ASSUME NEW w \in Worker, Checked(w), UNCHANGED <<nodes, op[w], found[w]>>
  PROVE  Checked(w)'
  BY DEF Checked, NameFree

LEMMA ArriveSafe ==
  ASSUME SafeInv, NEW w \in Worker, NEW o, Arrive(w, o)
  PROVE  Alone' /\ StillChecked'
<1>1. pc \in [Worker -> {"idle", "waiting", "read", "write"}]
  BY DEF SafeInv, TypeInv, WorkerType
<1>2. Alone'
  BY <1>1 DEF SafeInv, Alone, Arrive
<1>3. ASSUME NEW v \in Worker, pc'[v] = "write"
      PROVE  Checked(v)'
  <2>1. v # w /\ pc[v] = "write"
    BY <1>1, <1>3 DEF Arrive
  <2>2. UNCHANGED <<nodes, op[v], found[v]>>
    BY <2>1 DEF Arrive, SafeInv, TypeInv, WorkerType
  <2>. QED
    BY <2>1, <2>2, CheckedKept DEF SafeInv, StillChecked
<1>. QED
  BY <1>2, <1>3 DEF StillChecked

LEMMA BeginSafe ==
  ASSUME SafeInv, NEW w \in Worker, Begin(w)
  PROVE  SafeInv'
<1>1. PICK o : Arrive(w, o)
  BY DEF Begin, Setup, Post, Manage
<1>2. Alone' /\ StillChecked'
  BY <1>1, ArriveSafe
<1>3. TableSafe'
  BY <1>1, TableKept DEF Arrive, SafeInv, TableSafe
<1>. QED
  BY <1>2, <1>3, BeginType DEF SafeInv, TableSafe

LEMMA LockSafe ==
  ASSUME SafeInv, NEW w \in Worker, Lock(w)
  PROVE  SafeInv'
<1>1. pc \in [Worker -> {"idle", "waiting", "read", "write"}]
  BY DEF SafeInv, TypeInv, WorkerType
<1>2. Alone'
  BY <1>1, AccessAssumption DEF SafeInv, Alone, Lock, AccessAssumption
<1>3. StillChecked'
  <2>1. ASSUME NEW v \in Worker, pc'[v] = "write"
        PROVE  Checked(v)'
    BY <1>1, <2>1, CheckedKept DEF Lock, SafeInv, StillChecked
  <2>. QED
    BY <2>1 DEF StillChecked
<1>4. TableSafe'
  BY TableKept DEF Lock, SafeInv, TableSafe
<1>. QED
  BY <1>2, <1>3, <1>4, LockType DEF SafeInv, TableSafe

LEMMA LookSafe ==
  ASSUME SafeInv, NEW w \in Worker, Look(w)
  PROVE  SafeInv'
<1>1. PICK n \in Node \cup {NoNode} :
        /\ Proceed(w, n)
        /\ op[w].kind = "create" => NameFree(op[w].name, NoNode)
        /\ op[w].kind = "configure" => NameFree(op[w].name, op[w].node)
        /\ op[w].kind # "create" => n \in Matches(op[w])
  BY DEF Look, Matches
<1>2. /\ pc \in [Worker -> {"idle", "waiting", "read", "write"}]
      /\ found \in [Worker -> Node \cup {NoNode}]
  BY DEF SafeInv, TypeInv, WorkerType
<1>3. Alone'
  BY <1>1, <1>2 DEF SafeInv, Alone, Proceed, Look
<1>4. StillChecked'
  <2>1. ASSUME NEW v \in Worker, v # w, pc'[v] = "write"
        PROVE  Checked(v)'
    BY <1>1, <1>2, <2>1, CheckedKept DEF Proceed, SafeInv, StillChecked
  <2>2. Checked(w)'
    <3>1. UNCHANGED <<nodes, op>> /\ found'[w] = n
      BY <1>1, <1>2 DEF Proceed
    <3>2. /\ op[w].kind = "enroll" => nodes[n].code = op[w].secret
          /\ op[w].kind = "snapshot" => nodes[n].token = op[w].secret
          /\ op[w].kind = "configure" => n = op[w].node
      BY <1>1 DEF Matches
    <3>. QED
      BY <1>1, <3>1, <3>2 DEF Checked, NameFree
  <2>. QED
    BY <2>1, <2>2 DEF StillChecked
<1>5. TableSafe'
  BY <1>1, TableKept DEF Proceed, SafeInv, TableSafe
<1>. QED
  BY <1>3, <1>4, <1>5, LookType DEF SafeInv, TableSafe

\* Whoever finishes was alone, so nobody else stands on what it may have changed.
LEMMA FinishSafe ==
  ASSUME SafeInv, NEW w \in Worker, pc[w] \in {"read", "write"}, Finish(w)
  PROVE  Alone' /\ StillChecked'
<1>1. /\ pc \in [Worker -> {"idle", "waiting", "read", "write"}]
      /\ pc' = [pc EXCEPT ![w] = "idle"]
  BY DEF SafeInv, TypeInv, WorkerType, Finish
<1>2. \A v \in Worker : pc'[v] \notin {"read", "write"}
  BY <1>1 DEF SafeInv, Alone
<1>. QED
  BY <1>2 DEF Alone, StillChecked

LEMMA RefuseSafe ==
  ASSUME SafeInv, NEW w \in Worker, Refuse(w)
  PROVE  SafeInv'
<1>1. TypeInv'
  BY FinishType DEF Refuse, SafeInv, TypeInv, TableType
<1>2. Alone' /\ StillChecked'
  BY FinishSafe DEF Refuse
<1>3. TableSafe'
  BY TableKept DEF Refuse, SafeInv, TableSafe
<1>. QED
  BY <1>1, <1>2, <1>3 DEF SafeInv, TableSafe

-----------------------------------------------------------------------------
(* Each write keeps the tables safe. *)

\* What a write may rely on.
LEMMA AtWrite ==
  ASSUME SafeInv, NEW w \in Worker, NEW k, Writes(w, k)
  PROVE  /\ Checked(w) /\ op[w].kind = k /\ op[w] \in Op
         /\ k # "create" => found[w] \in Node
         /\ nodes \in [Node -> Row] /\ granted \subseteq Grant
         /\ issued \in Nat /\ given \in [Secret -> Node \cup {NoNode}]
         /\ \A n \in Node : nodes[n].code \in Nat
         /\ \A g \in granted : g.code \in Secret /\ g.node \in Node
         /\ TableSafe
<1>1. nodes \in [Node -> Row] /\ granted \subseteq Grant
  BY DEF SafeInv, TypeInv, TableType
<1>2. \A n \in Node : nodes[n].code \in Nat
  BY <1>1 DEF Row, Secret, None
<1>3. issued \in Nat /\ given \in [Secret -> Node \cup {NoNode}]
  BY AccessAssumption DEF SafeInv, TypeInv, TableType, AccessAssumption
<1>4. \A g \in granted : g.code \in Secret /\ g.node \in Node
  BY <1>1 DEF Grant
<1>. QED
  BY <1>1, <1>2, <1>3, <1>4
     DEF Writes, SafeInv, StillChecked, TypeInv, WorkerType, FoundNode, TableSafe

\* A row that loses its secrets, or gets a credential just granted to it.
LEMMA RedeemSafe ==
  ASSUME SafeInv, NEW w \in Worker, Redeem(w)
  PROVE  TableSafe'
<1>1. /\ found[w] \in Node /\ op[w].secret \in Secret
      /\ nodes[found[w]].code = op[w].secret
      /\ nodes \in [Node -> Row] /\ granted \subseteq Grant /\ issued \in Nat
      /\ \A n \in Node : nodes[n].code \in Nat
      /\ TableSafe
  BY AtWrite, OpsByKind DEF Redeem, Checked
<1>2. issued' \in Secret /\ issued' = issued + 1
  BY NewSecretType DEF Redeem, SafeInv
<1>. DEFINE m == found[w]
            g == [code |-> op[w].secret, token |-> issued', node |-> m]
<1>3. /\ \A n \in Node : n # m => nodes'[n] = nodes[n]
      /\ nodes'[m].name = nodes[m].name
      /\ nodes'[m].token = issued'
      /\ nodes'[m].code = None
      /\ granted' = granted \cup {g}
      /\ given' = given
  <2>1. nodes[m] \in Row
    BY <1>1
  <2>. QED
    BY <1>1, <1>2, <2>1, SpendType DEF Redeem
<1>4. given[op[w].secret] = m /\ \A h \in granted : h.code # op[w].secret
  BY <1>1 DEF TableSafe, SecretsAreOwned, Secret, None
<1>5. Fresh'
  <2>1. g.code <= issued'
    BY <1>1, <1>2 DEF TableSafe, Fresh
  <2>2. \A n \in Node : nodes'[n].code <= issued'
    BY <1>1, <1>2, <1>3 DEF TableSafe, Fresh, None
  <2>3. \A h \in granted : h.code <= issued'
    BY <1>1, <1>2 DEF TableSafe, Fresh, Grant, Secret
  <2>. QED
    BY <1>3, <2>1, <2>2, <2>3 DEF Fresh
<1>6. NamesUnique'
  <2>1. \A n \in Node : nodes'[n].name = nodes[n].name
    BY <1>3
  <2>. QED
    BY <1>1, <2>1 DEF TableSafe, NamesUnique, Exists
<1>7. CodesAreSingleUse'
  BY <1>1, <1>3, <1>4 DEF TableSafe, CodesAreSingleUse
<1>8. SecretsAreOwned'
  <2>1. ASSUME NEW n \in Node, nodes'[n].token # None
        PROVE  \E h \in granted' : h.token = nodes'[n].token /\ h.node = n
    <3>1. CASE n = m
      <4>1. g \in granted' /\ g.token = nodes'[n].token /\ g.node = n
        BY <1>3, <3>1
      <4>. QED
        BY <4>1
    <3>2. CASE n # m
      <4>1. PICK h \in granted : h.token = nodes[n].token /\ h.node = n
        BY <1>1, <1>3, <2>1, <3>2 DEF TableSafe, SecretsAreOwned
      <4>. QED
        BY <1>3, <3>2, <4>1
    <3>. QED
      BY <3>1, <3>2
  <2>2. ASSUME NEW n \in Node, nodes'[n].code # None
        PROVE  given'[nodes'[n].code] = n /\ \A h \in granted' : h.code # nodes'[n].code
    <3>1. n # m /\ nodes'[n].code = nodes[n].code
      BY <1>3, <2>2
    <3>2. given[nodes[n].code] = n /\ \A h \in granted : h.code # nodes[n].code
      BY <1>1, <2>2, <3>1 DEF TableSafe, SecretsAreOwned
    <3>. QED
      BY <1>3, <1>4, <3>1, <3>2
  <2>. QED
    BY <2>1, <2>2 DEF SecretsAreOwned
<1>. QED
  BY <1>5, <1>6, <1>7, <1>8 DEF TableSafe

\* A new code for one row.
LEMMA CodeSafe ==
  ASSUME SafeInv, NEW m \in Node, NewSecret,
         \A n \in Node : n # m => nodes'[n] = nodes[n],
         nodes'[m].token = None, nodes'[m].code = issued',
         given' = [given EXCEPT ![issued'] = m], granted' = granted
  PROVE  Fresh' /\ CodesAreSingleUse' /\ SecretsAreOwned'
<1>1. issued' \in Secret /\ issued' = issued + 1 /\ issued \in Nat
  BY NewSecretType, AccessAssumption DEF SafeInv, TypeInv, TableType, AccessAssumption
<1>2. /\ given \in [Secret -> Node \cup {NoNode}]
      /\ \A n \in Node : nodes[n].code \in Secret \cup {None}
      /\ \A g \in granted : g.code \in Secret
  BY DEF SafeInv, TypeInv, TableType, Row, Grant
<1>3. /\ \A n \in Node : nodes[n].code <= issued
      /\ \A g \in granted : g.code <= issued
  BY DEF SafeInv, Fresh
<1>4. /\ \A n \in Node : nodes[n].code # issued' /\ nodes[n].code <= issued'
      /\ \A g \in granted : g.code # issued' /\ g.code <= issued'
  BY <1>1, <1>2, <1>3 DEF Secret, None
<1>5. /\ given'[issued'] = m
      /\ \A s \in Secret : s # issued' => given'[s] = given[s]
  BY <1>1, <1>2
<1>6. Fresh'
  BY <1>1, <1>4 DEF Fresh
<1>7. CodesAreSingleUse'
  BY <1>2, <1>4, <1>5 DEF SafeInv, CodesAreSingleUse
<1>8. SecretsAreOwned'
  <2>1. ASSUME NEW n \in Node, nodes'[n].token # None
        PROVE  \E h \in granted' : h.token = nodes'[n].token /\ h.node = n
    BY <2>1 DEF SafeInv, SecretsAreOwned
  <2>2. ASSUME NEW n \in Node, nodes'[n].code # None
        PROVE  given'[nodes'[n].code] = n /\ \A h \in granted' : h.code # nodes'[n].code
    BY <1>2, <1>4, <1>5, <2>2 DEF SafeInv, SecretsAreOwned
  <2>. QED
    BY <2>1, <2>2 DEF SecretsAreOwned
<1>. QED
  BY <1>6, <1>7, <1>8

LEMMA WriteSafe ==
  ASSUME SafeInv, NEW w \in Worker, Write(w)
  PROVE  TableSafe'
<1>1. CASE Redeem(w)
  BY <1>1, RedeemSafe
<1>2. CASE Record(w)
  BY <1>2, TableKept DEF Record, SafeInv, TableSafe
<1>3. CASE Insert(w)
  <2>1. /\ NameFree(op[w].name, NoNode) /\ op[w].name \in Name
        /\ nodes \in [Node -> Row] /\ TableSafe
    BY <1>3, AtWrite, OpsByKind DEF Insert, Checked
  <2>2. PICK m \in Node :
          /\ nodes' = [nodes EXCEPT ![m] = [name |-> op[w].name, token |-> None,
                                            code |-> issued', expires |-> now + Life]]
          /\ given' = [given EXCEPT ![issued'] = m]
    BY <1>3 DEF Insert
  <2>3. Fresh' /\ CodesAreSingleUse' /\ SecretsAreOwned'
    BY <1>3, <2>1, <2>2, CodeSafe DEF Insert
  <2>4. NamesUnique'
    <3>1. \A n \in Node : nodes[n].name # op[w].name
      BY <2>1, AccessAssumption DEF NameFree, AccessAssumption
    <3>. QED
      BY <2>1, <2>2, <3>1 DEF TableSafe, NamesUnique, Exists
  <2>. QED
    BY <2>3, <2>4 DEF TableSafe
<1>4. CASE Rename(w)
  <2>1. /\ found[w] \in Node /\ NameFree(op[w].name, found[w])
        /\ nodes \in [Node -> Row] /\ TableSafe
    BY <1>4, AtWrite DEF Rename, Checked
  <2>2. \A n \in Node : /\ n # found[w] => nodes'[n] = nodes[n]
                        /\ nodes'[n].code = nodes[n].code /\ nodes'[n].token = nodes[n].token
    BY <1>4, <2>1 DEF Rename, Row
  <2>3. NamesUnique'
    <3>1. \A n \in Node \ {found[w]} : nodes[n].name # op[w].name
      BY <2>1 DEF NameFree
    <3>2. nodes'[found[w]].name = op[w].name
      BY <1>4, <2>1 DEF Rename, Row
    <3>. QED
      BY <2>1, <2>2, <3>1, <3>2 DEF TableSafe, NamesUnique, Exists
  <2>4. Fresh' /\ CodesAreSingleUse' /\ SecretsAreOwned'
    BY <1>4, <2>1, <2>2 DEF Rename, TableSafe, Fresh, CodesAreSingleUse, SecretsAreOwned
  <2>. QED
    BY <2>3, <2>4 DEF TableSafe
<1>5. CASE Revoke(w)
  <2>1. /\ found[w] \in Node /\ issued \in Nat
        /\ nodes \in [Node -> Row] /\ TableSafe
    BY <1>5, AtWrite DEF Revoke
  <2>2. /\ \A n \in Node : n # found[w] => nodes'[n] = nodes[n]
        /\ nodes'[found[w]].name = nodes[found[w]].name
        /\ nodes'[found[w]].token = None
        /\ nodes'[found[w]].code = None
    <3>1. nodes[found[w]] \in Row /\ None \in Secret \cup {None}
      BY <2>1
    <3>. QED
      BY <1>5, <2>1, <3>1, SpendType DEF Revoke
  <2>3. NamesUnique'
    <3>1. \A n \in Node : nodes'[n].name = nodes[n].name
      BY <2>2
    <3>. QED
      BY <2>1, <3>1 DEF TableSafe, NamesUnique, Exists
  <2>4. Fresh'
    BY <1>5, <2>1, <2>2 DEF Revoke, TableSafe, Fresh, None
  <2>5. CodesAreSingleUse' /\ SecretsAreOwned'
    BY <1>5, <2>1, <2>2 DEF Revoke, TableSafe, CodesAreSingleUse, SecretsAreOwned
  <2>. QED
    BY <2>3, <2>4, <2>5 DEF TableSafe
<1>6. CASE Issue(w)
  <2>1. found[w] \in Node /\ nodes \in [Node -> Row] /\ TableSafe
    BY <1>6, AtWrite DEF Issue
  <2>2. /\ \A n \in Node : n # found[w] => nodes'[n] = nodes[n]
        /\ nodes'[found[w]].name = nodes[found[w]].name
        /\ nodes'[found[w]].token = None
        /\ nodes'[found[w]].code = issued'
    BY <1>6, <2>1 DEF Issue, Row
  <2>3. NamesUnique'
    <3>1. \A n \in Node : nodes'[n].name = nodes[n].name
      BY <2>2
    <3>. QED
      BY <2>1, <3>1 DEF TableSafe, NamesUnique, Exists
  <2>4. Fresh' /\ CodesAreSingleUse' /\ SecretsAreOwned'
    BY <1>6, <2>1, <2>2, CodeSafe DEF Issue
  <2>. QED
    BY <2>3, <2>4 DEF TableSafe
<1>. QED
  BY <1>1, <1>2, <1>3, <1>4, <1>5, <1>6 DEF Write

LEMMA NextSafe == SafeInv /\ [Next]_vars => SafeInv'
<1>. SUFFICES ASSUME SafeInv, [Next]_vars
              PROVE  SafeInv'
  OBVIOUS
<1>1. TypeInv'
  BY NextType DEF SafeInv
<1>2. CASE Tick \/ MoveConfig \/ UNCHANGED vars
  <2>1. UNCHANGED <<nodes, issued, mu, pc, op, found, given, granted>>
    BY <1>2 DEF Tick, MoveConfig, vars, requests
  <2>2. TableSafe'
    BY <2>1, TableKept DEF SafeInv, TableSafe
  <2>3. Alone' /\ StillChecked'
    BY <2>1, CheckedKept DEF SafeInv, Alone, StillChecked
  <2>. QED
    BY <1>1, <2>2, <2>3 DEF SafeInv, TableSafe
<1>3. ASSUME NEW w \in Worker, Write(w)
      PROVE  SafeInv'
  <2>1. TableSafe'
    BY <1>3, WriteSafe
  <2>2. pc[w] = "write" /\ Finish(w)
    BY <1>3 DEF Write, Redeem, Record, Insert, Rename, Revoke, Issue, Writes
  <2>. QED
    BY <1>1, <2>1, <2>2, FinishSafe DEF SafeInv, TableSafe
<1>. QED
  BY <1>2, <1>3, BeginSafe, LockSafe, LookSafe, RefuseSafe DEF Next, Handle

\* Names stay unique, for any number of administrators at once.
THEOREM NamesStayUnique == Spec => []NamesUnique
<1>1. SafeInv => NamesUnique
  BY DEF SafeInv
<1>. QED
  BY <1>1, InitSafe, NextSafe, PTL DEF Spec

\* A code is redeemed once, for the node it was made for.
THEOREM CodesRedeemOnce == Spec => []CodesAreSingleUse
<1>1. SafeInv => CodesAreSingleUse
  BY DEF SafeInv
<1>. QED
  BY <1>1, InitSafe, NextSafe, PTL DEF Spec

\* Every credential was granted to its node, and a code that can be redeemed is new.
THEOREM SecretsStayOwned == Spec => []SecretsAreOwned
<1>1. SafeInv => SecretsAreOwned
  BY DEF SafeInv
<1>. QED
  BY <1>1, InitSafe, NextSafe, PTL DEF Spec

\* A sample is only recorded with the credential its node has at that moment.
THEOREM RevocationIsImmediate == Spec => RevokedWritesNothing
<1>1. SafeInv /\ [Next]_vars
        => [\A w \in Worker : Record(w) => nodes[found[w]].token = op[w].secret]_vars
  <2>. SUFFICES ASSUME SafeInv, NEW w \in Worker, Record(w)
                PROVE  nodes[found[w]].token = op[w].secret
    OBVIOUS
  <2>. QED
    BY DEF Record, Writes, SafeInv, StillChecked, Checked
<1>. QED
  BY <1>1, InitSafe, NextSafe, PTL DEF Spec, RevokedWritesNothing
=============================================================================
