--------------------------- MODULE Settings_proofs ---------------------------
(***************************************************************************)
(* Proofs about Settings: types, the code that is shown, and what a save   *)
(* that is acknowledged has done.                                          *)
(***************************************************************************)
EXTENDS Settings, TLAPS

-----------------------------------------------------------------------------
(* Types. *)

LEMMA CallFacts ==
  ASSUME TypeOK
  PROVE  /\ call.state # "none" => call \in CallType
         /\ call.kind \notin {"none", "reload"} => call \in CallType
         /\ call \in CallType => call.kind \notin {"none", "reload"} /\ call.state # "none"
         /\ call # NoCall <=> call.kind # "none"
  BY DEF TypeOK, CallType, NoCall, Reload

LEMMA FormFacts ==
  ASSUME TypeOK, NEW n \in Node
  PROVE  \/ form[n] \in FormType /\ form[n].open = TRUE
         \/ form[n] = NoForm /\ form[n].open = FALSE
<1>1. form[n] \in FormType \/ form[n] = NoForm
  BY DEF TypeOK
<1>2. ASSUME form[n] \in FormType PROVE form[n].open = TRUE
  BY <1>2 DEF FormType
<1>3. ASSUME form[n] = NoForm PROVE form[n].open = FALSE
  BY <1>3 DEF NoForm
<1>. QED
  BY <1>1, <1>2, <1>3

LEMMA FreshType ==
  ASSUME NEW n, NEW T \in SUBSET Tag, nodes[n].tags \in SUBSET Tag
  PROVE  /\ Fresh(n) \in FormType
         /\ [Fresh(n) EXCEPT !.tags = T] \in FormType
  BY DEF Fresh, FormType

LEMMA ListedType ==
  ASSUME TypeOK, NEW list \in [Node -> RowType]
  PROVE  Listed(list) \in [Node -> FormType \cup {NoForm}]
<1>1. ASSUME NEW n \in Node
      PROVE  [Fresh(n) EXCEPT !.tags = list[n].tags] \in FormType
  <2>1. nodes[n].tags \in SUBSET Tag /\ list[n].tags \in SUBSET Tag
    BY DEF TypeOK, RowType
  <2>. QED
    BY <2>1, FreshType
<1>. QED
  BY <1>1, FormFacts DEF Listed

LEMMA CollectedType ==
  ASSUME TypeOK, NEW n \in Node, form[n].open, Collected(n) # Null
  PROVE  Collected(n) \in SUBSET Tag
  BY FormFacts DEF Collected, FormType

LEMMA TakenType ==
  ASSUME NEW f \in FormType, NEW next, next # Null => next \in SUBSET Tag
  PROVE  Taken(f, next) \in FormType
  BY DEF Taken, FormType

LEMMA FormEdit ==
  ASSUME TypeOK, NEW n \in Node, NEW f \in FormType
  PROVE  [form EXCEPT ![n] = f] \in [Node -> FormType \cup {NoForm}]
  BY DEF TypeOK

LEMMA TypeStep ==
  ASSUME TypeOK, [Next]_vars
  PROVE  TypeOK'
<1>. USE DEF hub, app
<1>1. CASE UNCHANGED vars
  BY <1>1 DEF vars, TypeOK
<1>2. CASE Poll
  BY <1>2, ListedType DEF Poll, TypeOK
<1>3. CASE OpenAdd \/ OpenFirst \/ CloseAdd
  <2>1. CASE OpenAdd
    BY <2>1 DEF OpenAdd, TypeOK, NoCode
  <2>2. CASE OpenFirst
    BY <2>2 DEF OpenFirst, TypeOK, NoCode
  <2>3. CASE CloseAdd
    BY <2>3 DEF CloseAdd, TypeOK, NoCode
  <2>. QED
    BY <1>3, <2>1, <2>2, <2>3
<1>4. ASSUME NEW kind \in {"save", "enrollment", "revoke", "create", "password"},
             NEW n \in Node \cup {Null}, NEW body \in SUBSET Tag
      PROVE  Call(kind, n, body) \in CallType
  BY DEF Call, CallType, NoCode
<1>5. CASE Create \/ ChangePassword
  <2>1. Call("create", Null, {}) \in CallType /\ Call("password", Null, {}) \in CallType
    BY <1>4
  <2>2. CASE Create
    BY <2>1, <2>2 DEF Create, Perform, TypeOK
  <2>3. CASE ChangePassword
    BY <2>1, <2>3 DEF ChangePassword, Perform, TypeOK
  <2>. QED
    BY <1>5, <2>2, <2>3
<1>6. CASE SignOut
  BY <1>6 DEF SignOut, TypeOK
<1>7. CASE EndSession \/ SignedOut \/ Expire
  BY <1>7 DEF EndSession, SignedOut, Expire, TypeOK
<1>8. ASSUME NEW state \in {"ok", "failed", "401"}, NEW c \in Nat, call.state = "sent",
             Answer(state, c)
      PROVE  call' \in CallType
  BY <1>8, CallFacts DEF Answer, CallType
<1>9. CASE Refuse
  <2>1. call' \in CallType
    BY <1>8, <1>9 DEF Refuse, NoCode
  <2>. QED
    BY <1>9, <2>1 DEF Refuse, TypeOK
<1>10. CASE Carry
  <2>1. call \in CallType
    BY <1>10, CallFacts DEF Carry
  <2>2. /\ UNCHANGED <<used, leaving, nodes, app, form, mixed>>
        /\ call.state = "sent" /\ live
    BY <1>10 DEF Carry
  <2>3. ASSUME NEW c \in Nat, Answer("ok", c) \/ Answer("failed", NoCode)
        PROVE  call' \in CallType
    BY <1>8, <2>2, <2>3 DEF NoCode
  <2>4. CASE /\ row' = [row EXCEPT ![call.node].tags = call.body]
             /\ call.kind = "save"
             /\ Answer("ok", NoCode) \/ Answer("failed", NoCode)
             /\ UNCHANGED <<valid, live, made>>
    <3>1. call' \in CallType
      BY <2>3, <2>4 DEF NoCode
    <3>2. ASSUME NEW n \in Node
          PROVE  [row[n] EXCEPT !.tags = call.body] \in RowType
      <4>1. row[n] \in RowType
        BY DEF TypeOK
      <4>2. call.body \in SUBSET Tag
        BY <2>1, <2>4 DEF CallType
      <4>. QED
        BY <4>1, <4>2 DEF RowType
    <3>3. row' \in [Node -> RowType]
      BY <2>4, <3>2 DEF TypeOK
    <3>. QED
      BY <2>2, <2>4, <3>1, <3>3 DEF TypeOK
  <2>5. CASE /\ made' = made + 1
             /\ valid' = [valid EXCEPT ![call.node] = made']
             /\ Answer("ok", made') \/ Answer("failed", NoCode)
             /\ UNCHANGED <<row, live>>
    <3>1. made' \in Nat
      BY <2>5 DEF TypeOK
    <3>2. call' \in CallType
      BY <2>3, <2>5, <3>1
    <3>. QED
      BY <2>2, <2>5, <3>1, <3>2 DEF TypeOK
  <2>6. CASE /\ valid' = [valid EXCEPT ![call.node] = NoCode]
             /\ Answer("ok", NoCode) \/ Answer("failed", NoCode)
             /\ UNCHANGED <<row, live, made>>
    <3>1. call' \in CallType
      BY <2>3, <2>6 DEF NoCode
    <3>. QED
      BY <2>2, <2>6, <3>1 DEF TypeOK, NoCode
  <2>7. CASE /\ made' = made + 1
             /\ \E m \in Node :
                   /\ row' = [row EXCEPT ![m] = NewRow]
                   /\ valid' = [valid EXCEPT ![m] = made']
             /\ Answer("ok", made') \/ Answer("failed", NoCode)
             /\ UNCHANGED live
    <3>1. made' \in Nat
      BY <2>7 DEF TypeOK
    <3>2. call' \in CallType
      BY <2>3, <2>7, <3>1
    <3>3. NewRow \in RowType
      BY DEF NewRow, NoRow, RowType
    <3>. QED
      BY <2>2, <2>7, <3>1, <3>2, <3>3 DEF TypeOK
  <2>8. CASE /\ live' = FALSE
             /\ Answer("ok", NoCode) \/ Answer("failed", NoCode)
             /\ UNCHANGED <<row, valid, made>>
    <3>1. call' \in CallType
      BY <2>3, <2>8 DEF NoCode
    <3>. QED
      BY <2>2, <2>8, <3>1 DEF TypeOK
  <2>. QED
    BY <1>10, <2>4, <2>5, <2>6, <2>7, <2>8 DEF Carry
<1>11. CASE Heard
  <2>1. call \in CallType
    BY <1>11, CallFacts DEF Heard
  <2>2. form' \in [Node -> FormType \cup {NoForm}]
    <3>1. form' = form \/ (/\ form' = [form EXCEPT ![call.node].confirm = ""]
                           /\ form[call.node].open)
      BY <1>11 DEF Heard
    <3>2. ASSUME NEW n \in Node, form[n].open
          PROVE  [form[n] EXCEPT !.confirm = ""] \in FormType
      BY <3>2, FormFacts DEF FormType
    <3>3. form \in [Node -> FormType \cup {NoForm}]
      BY DEF TypeOK
    <3>4. CASE form' = form
      BY <3>3, <3>4
    <3>5. CASE /\ form' = [form EXCEPT ![call.node].confirm = ""]
               /\ form[call.node].open
      BY <3>2, <3>3, <3>5
    <3>. QED
      BY <3>1, <3>4, <3>5
  <2>. QED
    BY <1>11, <2>1, <2>2 DEF Heard, TypeOK, CallType
<1>12. CASE Reloaded
  BY <1>12, ListedType DEF Reloaded, Finished, TypeOK
<1>13. CASE Failed
  BY <1>13 DEF Failed, Finished, TypeOK
<1>14. ASSUME NEW p \in {"settings", "other"}, GoTo(p)
       PROVE  TypeOK'
  <2>1. call' \in CallType \cup {NoCall, Reload}
    BY <1>14, CallFacts DEF GoTo, TypeOK, CallType
  <2>2. form' \in [Node -> FormType \cup {NoForm}]
    BY <1>14, FreshType DEF GoTo, TypeOK, RowType
  <2>. QED
    BY <1>14, <2>1, <2>2 DEF GoTo, TypeOK
<1>15. ASSUME NEW n \in Node, OnNode(n)
       PROVE  TypeOK'
  <2>1. ASSUME form[n].open PROVE form[n] \in FormType
    BY <2>1, FormFacts
  <2>2. ASSUME NEW f \in FormType, Edit(n, f) PROVE TypeOK'
    BY <2>2, FormEdit DEF Edit, TypeOK
  <2>3. CASE AddTag(n)
    <3>1. form[n] \in FormType /\ Edit(n, Taken(form[n], Collected(n)))
      BY <2>1, <2>3 DEF AddTag, OnForm
    <3>2. Collected(n) # Null => Collected(n) \in SUBSET Tag
      BY <2>3, CollectedType DEF AddTag, OnForm
    <3>. QED
      BY <2>2, <3>1, <3>2, TakenType
  <2>4. CASE CloseConfirm(n)
    BY <2>1, <2>2, <2>4 DEF CloseConfirm, FormType
  <2>5. CASE UseUp(n)
    BY <2>5 DEF UseUp, TypeOK, NoCode
  <2>6. CASE Save(n)
    <3>1. form[n] \in FormType
      BY <2>1, <2>6 DEF Save, OnForm
    <3>2. CASE Collected(n) = Null
      <4>1. Edit(n, Taken(form[n], Null))
        BY <2>6, <3>2 DEF Save
      <4>. QED
        BY <2>2, <3>1, <4>1, TakenType
    <3>3. CASE Collected(n) # Null
      <4>1. Collected(n) \in SUBSET Tag
        BY <2>6, <3>3, CollectedType DEF Save, OnForm
      <4>2. Call("save", n, Body(n)) \in CallType
        BY <1>4, <4>1 DEF Body
      <4>3. Taken(form[n], Collected(n)) \in FormType
        BY <3>1, <4>1, TakenType
      <4>4. form' = [form EXCEPT ![n] = Taken(form[n], Collected(n))]
        BY <2>6, <3>3 DEF Save
      <4>5. form' \in [Node -> FormType \cup {NoForm}]
        BY <4>3, <4>4, FormEdit
      <4>. QED
        BY <2>6, <3>3, <4>2, <4>5 DEF Save, Perform, TypeOK
    <3>. QED
      BY <3>2, <3>3
  <2>7. CASE Confirm(n)
    <3>1. PICK what \in {"enrollment", "revoke"} : what = form[n].confirm
      BY <2>1, <2>7 DEF Confirm, FormType
    <3>2. Call(what, n, {}) \in CallType
      BY <1>4
    <3>. QED
      BY <2>7, <3>1, <3>2 DEF Confirm, Perform, TypeOK
  <2>8. CASE \E t \in Tag : TypeTag(n, t) \/ RemoveTag(n, t)
    <3>1. PICK t \in Tag : TypeTag(n, t) \/ RemoveTag(n, t)
      BY <2>8
    <3>2. form[n] \in FormType
      BY <2>1, <3>1 DEF TypeTag, RemoveTag, OnForm
    <3>3. /\ [form[n] EXCEPT !.input = t, !.tagError = FALSE] \in FormType
          /\ [form[n] EXCEPT !.tags = @ \ {t}] \in FormType
      BY <3>2 DEF FormType
    <3>. QED
      BY <2>2, <3>1, <3>3 DEF TypeTag, RemoveTag
  <2>9. CASE \E what \in {"enrollment", "revoke"} : OpenConfirm(n, what)
    <3>1. PICK what \in {"enrollment", "revoke"} : OpenConfirm(n, what)
      BY <2>9
    <3>2. [form[n] EXCEPT !.confirm = what] \in FormType
      BY <2>1, <3>1 DEF OpenConfirm, OnForm, FormType
    <3>. QED
      BY <2>2, <3>1, <3>2 DEF OpenConfirm
  <2>. QED
    BY <1>15, <2>3, <2>4, <2>5, <2>6, <2>7, <2>8, <2>9 DEF OnNode
<1>. QED
  BY <1>1, <1>2, <1>3, <1>5, <1>6, <1>7, <1>9, <1>10, <1>11, <1>12, <1>13, <1>14, <1>15
     DEF Next, Answering, Hearing

\* Every reachable state of the forms, the requests and the hub is well-typed.
THEOREM TypeCorrect == Spec => []TypeOK
<1>1. Init => TypeOK
  <2>1. NoRow \in RowType /\ NewRow \in RowType
    BY DEF NewRow, NoRow, RowType
  <2>2. NoCall \in CallType \cup {NoCall, Reload} /\ NoForm \in FormType \cup {NoForm}
    OBVIOUS
  <2>3. ASSUME Init PROVE row \in [Node -> RowType]
    BY <2>1, <2>3 DEF Init
  <2>4. Init => nodes \in [Node -> RowType] /\ valid \in [Node -> Nat]
    BY <2>1 DEF Init, NoCode
  <2>5. Init => form \in [Node -> FormType \cup {NoForm}]
    BY <2>2 DEF Init
  <2>6. Init => made \in Nat /\ used \subseteq Nat /\ code \in Nat
    BY DEF Init, NoCode
  <2>. QED
    BY <2>2, <2>3, <2>4, <2>5, <2>6 DEF Init, TypeOK
<1>. QED
  BY <1>1, TypeStep, PTL DEF Spec
-----------------------------------------------------------------------------
(* What is listed, asked for and shown. *)

\* The list is one that the hub had; forms are of its nodes, on their page.
Listing ==
    \A n \in Node :
        /\ nodes[n].exists => row[n].exists
        /\ form[n].open => nodes[n].exists /\ page = "settings"

OfNode == {"save", "enrollment", "revoke"}

\* A request about a node is about a listed one, an answer alone brings a code, and a
\* node is made only while no code is kept.
Calling ==
    /\ call.kind \in OfNode => call.node \in Node /\ nodes[call.node].exists
    /\ call \in CallType /\ call.state # "ok" => call.code = NoCode
    /\ call.kind = "create" => code = NoCode

\* As long as requests are kept apart, the buttons wait for them, and a dialog that
\* asks for confirmation is the only one and belongs to the request on its way.
Waiting ==
    /\ call # NoCall => pending /\ leaving = "none"
    /\ call.kind \in OfNode => ~ (add /\ code # NoCode)
    /\ \A n \in Node : form[n].open /\ form[n].confirm # "" =>
          /\ ~ add
          /\ \A m \in Node \ {n} : form[m].open => form[m].confirm = ""
          /\ call.kind = "enrollment" => n = call.node /\ call.here

Good(c) == c \in used \/ \E n \in Node : valid[n] = c

Somewhere == \E n \in Node : nodes[n].exists

\* A code that is kept is good, or there are nodes and it is not shown: then it is
\* forgotten before it could be.
Codes ==
    /\ call \in CallType /\ call.code # NoCode => Good(call.code)
    /\ code # NoCode => Good(code) \/ (~ add /\ Somewhere)

\* The form still shows what it has sent, and the hub has what it has acknowledged.
Saving ==
    call.kind = "save" =>
        /\ call.here => /\ form[call.node].open
                        /\ form[call.node].tags = call.body
                        /\ form[call.node].input = Null
        /\ call.state = "ok" => row[call.node].tags = call.body

Inv == Listing /\ Calling /\ (~ mixed => Waiting /\ Codes /\ Saving)
\* A list that arrives keeps the forms that are open and adds none that asks.
LEMMA ListedFacts ==
  ASSUME TypeOK, Listing, NEW n \in Node
  PROVE  /\ Listed(row)[n].open => row[n].exists /\ page = "settings"
         /\ form[n].open => Listed(row)[n] = form[n]
         /\ Listed(row)[n].open /\ Listed(row)[n].confirm # "" => form[n].open
<1>1. row[n] \in RowType /\ nodes[n] \in RowType
  BY DEF TypeOK
<1>2. /\ [Fresh(n) EXCEPT !.tags = row[n].tags].confirm = ""
  BY DEF Fresh
<1>3. Listed(row)[n] = IF page = "settings" /\ row[n].exists
                         THEN IF form[n].open THEN form[n]
                              ELSE [Fresh(n) EXCEPT !.tags = row[n].tags]
                         ELSE NoForm
  BY DEF Listed
<1>4. form[n].open => nodes[n].exists /\ page = "settings" /\ row[n].exists
  BY DEF Listing
<1>5. CASE page = "settings" /\ row[n].exists
  <2>1. CASE form[n].open
    BY <1>3, <1>5, <2>1
  <2>2. CASE ~ form[n].open
    BY <1>2, <1>3, <1>5, <2>2
  <2>. QED
    BY <2>1, <2>2
<1>6. CASE ~ (page = "settings" /\ row[n].exists)
  <2>1. Listed(row)[n] = NoForm
    BY <1>3, <1>6
  <2>2. Listed(row)[n].open = FALSE
    BY <2>1 DEF NoForm
  <2>. QED
    BY <1>4, <1>6, <2>2
<1>. QED
  BY <1>5, <1>6

\* What the answer to a list keeps of the invariant.
LEMMA ListStep ==
  ASSUME TypeOK, Inv,
         (nodes' = row /\ form' = Listed(row)) \/ UNCHANGED <<nodes, form>>,
         UNCHANGED <<row, page>>
  PROVE  /\ Listing'
         /\ \A n \in Node : /\ nodes[n].exists => nodes'[n].exists
                            /\ form[n].open => form'[n] = form[n]
                            /\ form'[n].open /\ form'[n].confirm # "" => form[n].open
<1>1. CASE UNCHANGED <<nodes, form>>
  BY <1>1 DEF Inv, Listing
<1>2. CASE nodes' = row /\ form' = Listed(row)
  BY <1>2, ListedFacts DEF Inv, Listing
<1>. QED
  BY <1>1, <1>2

LEMMA PollStep ==
  ASSUME TypeOK, Inv, Poll
  PROVE  Inv'
<1>. USE DEF hub, app
<1>1. /\ (nodes' = row /\ form' = Listed(row)) \/ UNCHANGED <<nodes, form>>
      /\ UNCHANGED <<row, valid, used, call, leaving, page, pending, add, code, mixed>>
  BY DEF Poll
<1>2. /\ Listing'
      /\ \A n \in Node : /\ nodes[n].exists => nodes'[n].exists
                         /\ form[n].open => form'[n] = form[n]
                         /\ form'[n].open /\ form'[n].confirm # "" => form[n].open
  BY <1>1, ListStep
<1>3. Calling'
  BY <1>1, <1>2 DEF Inv, Calling, OfNode
<1>4. ASSUME ~ mixed PROVE Waiting'
  BY <1>1, <1>2, <1>4 DEF Inv, Waiting
<1>5. ASSUME ~ mixed PROVE Codes'
  BY <1>1, <1>2, <1>5 DEF Inv, Codes, Good, Somewhere
<1>6. ASSUME ~ mixed PROVE Saving'
  BY <1>1, <1>2, <1>6 DEF Inv, Saving, Calling, OfNode
<1>. QED
  BY <1>1, <1>2, <1>3, <1>4, <1>5, <1>6 DEF Inv

LEMMA ReloadedStep ==
  ASSUME TypeOK, Inv, Reloaded
  PROVE  Inv'
<1>. USE DEF hub, app
<1>1. /\ (nodes' = row /\ form' = Listed(row)) \/ UNCHANGED <<nodes, form>>
      /\ UNCHANGED <<row, valid, used, leaving, page, add, code, mixed>>
      /\ call' = NoCall
  BY DEF Reloaded, Finished
<1>2. /\ Listing'
      /\ \A n \in Node : /\ nodes[n].exists => nodes'[n].exists
                         /\ form[n].open => form'[n] = form[n]
                         /\ form'[n].open /\ form'[n].confirm # "" => form[n].open
  BY <1>1, ListStep
<1>3. call'.kind = "none" /\ call' \notin CallType
  BY <1>1 DEF NoCall, CallType
<1>4. ASSUME ~ mixed PROVE Waiting'
  <2>1. Waiting
    BY <1>4 DEF Inv
  <2>2. ASSUME NEW n \in Node, form'[n].open, form'[n].confirm # ""
        PROVE  ~ add /\ \A m \in Node \ {n} : form'[m].open => form'[m].confirm = ""
    BY <1>2, <2>1, <2>2 DEF Waiting
  <2>. QED
    BY <1>1, <1>3, <2>2 DEF Waiting, OfNode
<1>5. ASSUME ~ mixed PROVE Codes'
  BY <1>1, <1>2, <1>3, <1>5 DEF Inv, Codes, Good, Somewhere
<1>. QED
  BY <1>1, <1>2, <1>3, <1>4, <1>5 DEF Inv, Calling, Saving, OfNode

LEMMA FailedStep ==
  ASSUME TypeOK, Inv, Failed
  PROVE  Inv'
<1>1. /\ UNCHANGED <<row, valid, used, leaving, nodes, page, add, code, form, mixed>>
      /\ call' = NoCall
  BY DEF Failed, Finished, hub
<1>2. call'.kind = "none" /\ call' \notin CallType
  BY <1>1 DEF NoCall, CallType
<1>. QED
  BY <1>1, <1>2 DEF Inv, Listing, Calling, Waiting, Codes, Good, Somewhere, Saving, OfNode

\* Dialogs and pages.
LEMMA AddStep ==
  ASSUME TypeOK, Inv, OpenAdd \/ OpenFirst \/ CloseAdd
  PROVE  Inv'
<1>1. UNCHANGED <<row, valid, used, call, leaving, nodes, page, pending, form, mixed>>
  BY DEF OpenAdd, OpenFirst, CloseAdd, hub
<1>2. CASE OpenAdd
  <2>1. code' = NoCode
    BY <1>2 DEF OpenAdd
  <2>2. \A n \in Node : form[n].open => form[n].confirm = ""
    BY <1>2 DEF OpenAdd, Uncovered
  <2>. QED
    BY <1>1, <2>1, <2>2
       DEF Inv, Listing, Calling, Waiting, Codes, Good, Somewhere, Saving, OfNode
<1>3. CASE OpenFirst
  <2>1. code' = code /\ \A n \in Node : ~ nodes[n].exists
    BY <1>3 DEF OpenFirst
  <2>2. \A n \in Node : form[n].open => form[n].confirm = ""
    BY <1>3 DEF OpenFirst, Uncovered
  <2>3. call.kind \notin OfNode /\ ~ Somewhere
    BY <2>1 DEF Inv, Calling, Somewhere
  <2>. QED
    BY <1>1, <2>1, <2>2, <2>3
       DEF Inv, Listing, Calling, Waiting, Codes, Good, Somewhere, Saving, OfNode
<1>4. CASE CloseAdd
  <2>1. code' = NoCode /\ add' = FALSE
    BY <1>4 DEF CloseAdd
  <2>. QED
    BY <1>1, <2>1 DEF Inv, Listing, Calling, Waiting, Codes, Good, Somewhere, Saving, OfNode
<1>. QED
  BY <1>2, <1>3, <1>4

LEMMA GoToStep ==
  ASSUME TypeOK, Inv, NEW p \in {"settings", "other"}, GoTo(p)
  PROVE  Inv'
<1>1. /\ UNCHANGED <<row, valid, used, leaving, nodes, pending, add, code, mixed>>
      /\ page' = p
      /\ form' = [n \in Node |-> IF p = "settings" /\ nodes[n].exists THEN Fresh(n) ELSE NoForm]
      /\ call' = IF call.state = "none" THEN call ELSE [call EXCEPT !.here = FALSE]
  BY DEF GoTo, hub
<1>2. ASSUME NEW n \in Node
      PROVE  /\ form'[n].open => nodes[n].exists /\ p = "settings"
             /\ form'[n].open => form'[n].confirm = ""
  BY <1>1 DEF Fresh, NoForm
<1>3. \/ call' = call /\ call \notin CallType
      \/ /\ call \in CallType /\ call' \in CallType /\ ~ call'.here
         /\ call'.kind = call.kind /\ call'.node = call.node /\ call'.state = call.state
         /\ call'.body = call.body /\ call'.code = call.code
  <2>1. CASE call.state = "none"
    BY <1>1, <2>1, CallFacts
  <2>2. CASE call.state # "none"
    BY <1>1, <2>2, CallFacts DEF CallType
  <2>. QED
    BY <2>1, <2>2
<1>4. Listing'
  BY <1>1, <1>2 DEF Inv, Listing
<1>5. Calling'
  BY <1>1, <1>3 DEF Inv, Calling, OfNode
<1>6. ASSUME ~ mixed PROVE Waiting'
  <2>1. call' # NoCall => call # NoCall
    BY <1>3, CallFacts
  <2>. QED
    BY <1>1, <1>2, <1>3, <1>6, <2>1 DEF Inv, Waiting, OfNode
<1>7. ASSUME ~ mixed PROVE Codes'
  <2>1. Codes
    BY <1>7 DEF Inv
  <2>2. \A c : Good(c) => Good(c)'
    BY <1>1 DEF Good
  <2>3. Somewhere => Somewhere'
    BY <1>1 DEF Somewhere
  <2>. QED
    BY <1>1, <1>3, <2>1, <2>2, <2>3 DEF Codes
<1>8. ASSUME ~ mixed PROVE Saving'
  BY <1>1, <1>3, <1>8, CallFacts DEF Inv, Saving
<1>. QED
  BY <1>1, <1>4, <1>5, <1>6, <1>7, <1>8 DEF Inv

\* Sessions, and codes that are used up.
LEMMA SessionStep ==
  ASSUME TypeOK, Inv, SignOut \/ EndSession \/ SignedOut \/ Expire
  PROVE  Inv'
<1>1. UNCHANGED <<row, valid, used, call, nodes, page, add, code, form>>
  BY DEF SignOut, EndSession, SignedOut, Expire, hub, app
<1>2. ASSUME ~ mixed' PROVE ~ mixed /\ (call # NoCall => pending' /\ leaving' = "none")
  <2>1. CASE SignOut
    BY <1>2, <2>1 DEF SignOut, TypeOK
  <2>2. CASE EndSession
    BY <1>2, <2>2 DEF EndSession, Inv, Waiting, app
  <2>3. CASE SignedOut
    BY <1>2, <2>3 DEF SignedOut, Inv, Waiting
  <2>4. CASE Expire
    BY <1>2, <2>4 DEF Expire, Inv, Waiting, app
  <2>. QED
    BY <2>1, <2>2, <2>3, <2>4
<1>3. Listing' /\ Calling'
  BY <1>1 DEF Inv, Listing, Calling, OfNode
<1>4. ASSUME ~ mixed' PROVE Waiting' /\ Codes' /\ Saving'
  BY <1>1, <1>2, <1>4 DEF Inv, Waiting, Codes, Good, Somewhere, Saving, OfNode
<1>. QED
  BY <1>3, <1>4 DEF Inv

LEMMA UseUpStep ==
  ASSUME TypeOK, Inv, NEW n \in Node, UseUp(n)
  PROVE  Inv'
<1>1. /\ UNCHANGED <<row, call, leaving, nodes, page, pending, add, code, form, mixed>>
      /\ used' = used \cup {valid[n]}
      /\ valid' = [valid EXCEPT ![n] = NoCode]
  BY DEF UseUp, app
<1>2. ASSUME NEW c, Good(c) PROVE c \in used' \/ \E m \in Node : valid'[m] = c
  <2>1. CASE c \in used \/ c = valid[n]
    BY <1>1, <2>1 DEF Good
  <2>2. CASE c \notin used /\ c # valid[n]
    <3>1. PICK m \in Node : valid[m] = c
      BY <1>2, <2>2 DEF Good
    <3>2. valid'[m] = c
      BY <1>1, <2>2, <3>1 DEF TypeOK
    <3>. QED
      BY <3>2
  <2>. QED
    BY <2>1, <2>2
<1>3. Listing' /\ Calling'
  BY <1>1 DEF Inv, Listing, Calling, OfNode
<1>4. ASSUME ~ mixed PROVE Waiting' /\ Saving'
  BY <1>1, <1>4 DEF Inv, Waiting, Saving, OfNode
<1>5. ASSUME ~ mixed PROVE Codes'
  <2>1. Codes
    BY <1>5 DEF Inv
  <2>2. call \in CallType /\ call.code # NoCode =>
          call.code \in used' \/ \E m \in Node : valid'[m] = call.code
    BY <1>2, <2>1 DEF Codes
  <2>3. CASE code = NoCode \/ (~ add /\ Somewhere)
    BY <1>1, <2>2, <2>3 DEF Codes, Good, Somewhere
  <2>4. CASE Good(code)
    <3>1. code \in used' \/ \E m \in Node : valid'[m] = code
      BY <1>2, <2>4
    <3>. QED
      BY <1>1, <2>2, <3>1 DEF Codes, Good
  <2>. QED
    BY <2>1, <2>3, <2>4 DEF Codes
<1>. QED
  BY <1>1, <1>3, <1>4, <1>5 DEF Inv
-----------------------------------------------------------------------------
(* Requests. *)

LEMMA AnswerFacts ==
  ASSUME TypeOK, NEW state \in {"ok", "failed", "401"}, NEW c \in Nat,
         call.state = "sent", Answer(state, c)
  PROVE  /\ call \in CallType /\ call' \in CallType
         /\ call'.state = state /\ call'.code = c
         /\ call'.kind = call.kind /\ call'.node = call.node
         /\ call'.body = call.body /\ call'.here = call.here
  BY CallFacts DEF Answer, CallType

LEMMA RefuseStep ==
  ASSUME TypeOK, Inv, Refuse
  PROVE  Inv'
<1>1. UNCHANGED <<row, valid, used, leaving, nodes, page, pending, add, code, form, mixed>>
  BY DEF Refuse, hub, app
<1>2. PICK state \in {"failed", "401"} : call.state = "sent" /\ Answer(state, NoCode)
  BY DEF Refuse
<1>3. /\ call \in CallType /\ call' \in CallType
      /\ call'.state = state /\ call'.code = NoCode
      /\ call'.kind = call.kind /\ call'.node = call.node
      /\ call'.body = call.body /\ call'.here = call.here
  BY <1>2, AnswerFacts DEF NoCode
<1>4. call # NoCall /\ call' # NoCall
  BY <1>3 DEF CallType, NoCall
<1>. QED
  BY <1>1, <1>3, <1>4 DEF Inv, Listing, Calling, Waiting, Codes, Good, Somewhere, Saving, OfNode

\* The hub carries out a request: what it does to the invariant depends on the code
\* it makes, c or none, and the node m whose row or code it changes.
LEMMA CarryStep ==
  ASSUME TypeOK, Inv, Carry
  PROVE  Inv'
<1>1. /\ UNCHANGED <<used, leaving, nodes, page, pending, add, code, form, mixed>>
      /\ call.state = "sent"
  BY DEF Carry, app
<1>2. PICK state \in {"ok", "failed"}, c \in Nat :
        /\ Answer(state, c)
        /\ c = NoCode \/ c = made'
        /\ state # "ok" => c = NoCode
  <2>. NoCode \in Nat
    BY DEF NoCode
  <2>1. CASE Answer("failed", NoCode)
    BY <2>1
  <2>2. CASE Answer("ok", NoCode)
    BY <2>2
  <2>3. CASE made' = made + 1 /\ Answer("ok", made')
    <3>1. made' \in Nat
      BY <2>3 DEF TypeOK
    <3>. QED
      BY <2>3, <3>1
  <2>. QED
    BY <2>1, <2>2, <2>3 DEF Carry
<1>3. /\ call \in CallType /\ call' \in CallType
      /\ call'.state = state /\ call'.code = c
      /\ call'.kind = call.kind /\ call'.node = call.node
      /\ call'.body = call.body /\ call'.here = call.here
  BY <1>1, <1>2, AnswerFacts
<1>4. call # NoCall /\ call' # NoCall
  BY <1>3 DEF CallType, NoCall
<1>5. call.kind \in OfNode => call.node \in Node /\ nodes[call.node].exists
  BY DEF Inv, Calling
<1>6. Calling'
  BY <1>1, <1>2, <1>3 DEF Inv, Calling, OfNode
<1>7. ASSUME ~ mixed PROVE Waiting'
  BY <1>1, <1>3, <1>4, <1>7 DEF Inv, Waiting, OfNode
<1>8. ASSUME NEW n \in Node PROVE row[n].exists => row'[n].exists
  <2>0. row[n] \in RowType
    BY DEF TypeOK
  <2>1. CASE call.kind = "save"
    <3>1. row' = [row EXCEPT ![call.node].tags = call.body]
      BY <2>1 DEF Carry
    <3>. QED
      BY <2>0, <3>1 DEF TypeOK, RowType
  <2>2. CASE call.kind = "create"
    <3>1. PICK m \in Node : ~ row[m].exists /\ row' = [row EXCEPT ![m] = NewRow]
      BY <2>2 DEF Carry
    <3>. QED
      BY <2>0, <3>1 DEF TypeOK
  <2>3. CASE call.kind \notin {"save", "create"}
    BY <2>3 DEF Carry
  <2>. QED
    BY <2>1, <2>2, <2>3
<1>9. Listing'
  BY <1>1, <1>8 DEF Inv, Listing
<1>10. ASSUME ~ mixed PROVE Saving'
  <2>1. SUFFICES ASSUME call.kind = "save"
                 PROVE  row'[call.node].tags = call.body
    BY <1>1, <1>3, <1>10 DEF Inv, Saving
  <2>2. row' = [row EXCEPT ![call.node].tags = call.body]
    BY <2>1 DEF Carry
  <2>3. call.node \in Node /\ row[call.node] \in RowType
    BY <1>5, <2>1 DEF TypeOK, OfNode
  <2>. QED
    BY <2>2, <2>3 DEF TypeOK, RowType
<1>11. ASSUME ~ mixed PROVE Codes'
  <2>1. Codes /\ Waiting
    BY <1>11 DEF Inv
  <2>2. CASE call.kind \in {"save", "password"}
    <3>1. valid' = valid /\ c = NoCode
      BY <1>2, <1>3, <2>2 DEF Carry, Answer, CallType
    <3>. QED
      BY <1>1, <1>3, <2>1, <3>1 DEF Codes, Good, Somewhere
  <2>3. CASE call.kind \in {"enrollment", "revoke"}
    <3>1. call.node \in Node /\ nodes[call.node].exists /\ ~ (add /\ code # NoCode)
      BY <1>5, <2>1, <2>3 DEF Waiting, OfNode
    <3>2. code # NoCode => ~ add' /\ Somewhere'
      BY <1>1, <3>1 DEF Somewhere
    <3>3. c # NoCode => valid' = [valid EXCEPT ![call.node] = c]
      BY <1>2, <1>3, <2>3 DEF Carry, Answer, CallType
    <3>4. c # NoCode => valid'[call.node] = c
      BY <3>1, <3>3 DEF TypeOK
    <3>5. c # NoCode => c \in used' \/ \E n \in Node : valid'[n] = c
      BY <3>1, <3>4
    <3>. QED
      BY <1>1, <1>3, <3>2, <3>5 DEF Codes, Good
  <2>4. CASE call.kind = "create"
    <3>1. code = NoCode
      BY <2>4 DEF Inv, Calling
    <3>2. PICK m \in Node : valid' = [valid EXCEPT ![m] = made']
      BY <2>4 DEF Carry
    <3>3. c # NoCode => valid'[m] = c
      BY <1>2, <3>2 DEF TypeOK
    <3>4. c # NoCode => c \in used' \/ \E n \in Node : valid'[n] = c
      BY <3>3
    <3>. QED
      BY <1>1, <1>3, <3>1, <3>4 DEF Codes, Good
  <2>. QED
    BY <1>3, <2>2, <2>3, <2>4 DEF CallType
<1>. QED
  BY <1>1, <1>6, <1>7, <1>9, <1>10, <1>11 DEF Inv

LEMMA HeardStep ==
  ASSUME TypeOK, Inv, Heard
  PROVE  Inv'
<1>1. /\ UNCHANGED <<row, valid, used, leaving, nodes, page, pending, mixed>>
      /\ call' = Reload /\ call.state = "ok" /\ call.kind # "reload"
      /\ code' = IF call.code # NoCode THEN call.code ELSE code
      /\ add' = (add \/ (call.kind = "enrollment" /\ call.code # NoCode))
  BY DEF Heard, hub
<1>2. call \in CallType /\ call.kind # "none"
  BY <1>1, CallFacts
<1>3. /\ call' \notin CallType /\ call' # NoCall /\ call'.kind = "reload"
      /\ call # NoCall
  BY <1>1, <1>2 DEF CallType, NoCall, Reload
<1>4. form' = IF call.kind \in {"enrollment", "revoke"} /\ call.here /\ form[call.node].open
                THEN [form EXCEPT ![call.node].confirm = ""] ELSE form
  BY DEF Heard
<1>5. ASSUME NEW n \in Node
      PROVE  /\ form'[n].open = form[n].open
             /\ form'[n] = form[n] \/ form'[n].confirm = ""
             /\ /\ call.kind = "enrollment" /\ call.here /\ n = call.node
                /\ form[n].open
                => form'[n].confirm = ""
  <2>1. form \in [Node -> FormType \cup {NoForm}]
    BY DEF TypeOK
  <2>2. CASE /\ call.kind \in {"enrollment", "revoke"} /\ call.here
             /\ n = call.node /\ form[n].open
    <3>1. form'[n] = [form[n] EXCEPT !.confirm = ""] /\ form[n] \in FormType
      BY <1>4, <2>1, <2>2, FormFacts
    <3>. QED
      BY <3>1 DEF FormType
  <2>3. CASE ~ (/\ call.kind \in {"enrollment", "revoke"} /\ call.here
                /\ n = call.node /\ form[n].open)
    <3>1. form'[n] = form[n]
      BY <1>4, <2>1, <2>3
    <3>. QED
      BY <2>3, <3>1
  <2>. QED
    BY <2>2, <2>3
<1>6. Listing'
  BY <1>1, <1>5 DEF Inv, Listing
<1>7. Calling'
  BY <1>1, <1>3 DEF Inv, Calling, OfNode
<1>8. ASSUME ~ mixed PROVE Waiting'
  <2>1. Waiting
    BY <1>8 DEF Inv
  <2>2. ASSUME NEW n \in Node, form'[n].open, form'[n].confirm # ""
        PROVE  /\ ~ add'
               /\ \A m \in Node \ {n} : form'[m].open => form'[m].confirm = ""
    <3>1. form[n].open /\ form[n].confirm # "" /\ form'[n] = form[n]
      BY <1>5, <2>2
    <3>2. /\ ~ add
          /\ \A m \in Node \ {n} : form[m].open => form[m].confirm = ""
          /\ call.kind = "enrollment" => n = call.node /\ call.here
      BY <2>1, <3>1 DEF Waiting
    <3>3. call.kind # "enrollment"
      BY <1>5, <2>2, <3>1, <3>2
    <3>. QED
      BY <1>1, <1>5, <3>2, <3>3
  <2>. QED
    BY <1>1, <1>3, <2>1, <2>2 DEF Waiting, OfNode
<1>9. ASSUME ~ mixed PROVE Codes'
  <2>1. Codes /\ Waiting
    BY <1>9 DEF Inv
  <2>2. CASE call.code # NoCode
    <3>1. Good(call.code) /\ code' = call.code
      BY <1>1, <1>2, <2>1, <2>2 DEF Codes
    <3>2. Good(code)'
      BY <1>1, <3>1 DEF Good
    <3>. QED
      BY <1>3, <3>2 DEF Codes
  <2>3. CASE call.code = NoCode
    <3>1. code' = code /\ add' = add
      BY <1>1, <2>3 DEF TypeOK
    <3>. QED
      BY <1>1, <1>3, <2>1, <3>1 DEF Codes, Good, Somewhere
  <2>. QED
    BY <2>2, <2>3
<1>. QED
  BY <1>1, <1>3, <1>6, <1>7, <1>8, <1>9 DEF Inv, Saving

\* A request of the new kind is sent.
LEMMA SentFacts ==
  ASSUME NEW kind, NEW n, NEW body, Perform(Call(kind, n, body))
  PROVE  /\ call = NoCall /\ pending' = TRUE /\ leaving' = leaving
         /\ call' = Call(kind, n, body)
         /\ call'.kind = kind /\ call'.node = n /\ call'.body = body
         /\ call'.here = TRUE /\ call'.state = "sent" /\ call'.code = NoCode
         /\ ~ mixed' => ~ mixed /\ leaving = "none"
<1>1. call = NoCall /\ pending' = TRUE /\ leaving' = leaving /\ call' = Call(kind, n, body)
      /\ mixed' = (mixed \/ leaving # "none")
  BY DEF Perform
<1>. QED
  BY <1>1 DEF Call

LEMMA DialogSendStep ==
  ASSUME TypeOK, Inv, Create \/ ChangePassword
  PROVE  Inv'
<1>1. UNCHANGED <<row, valid, used, nodes, page, add, code, form>>
  BY DEF Create, ChangePassword, hub
<1>2. PICK kind \in {"create", "password"} :
        /\ Perform(Call(kind, Null, {}))
        /\ kind = "create" => code = NoCode
  BY DEF Create, ChangePassword
<1>3. /\ pending' = TRUE /\ leaving' = leaving
      /\ call'.kind = kind /\ call'.state = "sent" /\ call'.code = NoCode
      /\ ~ mixed' => ~ mixed /\ leaving = "none"
  BY <1>2, SentFacts
<1>4. Listing' /\ Calling'
  BY <1>1, <1>2, <1>3 DEF Inv, Listing, Calling, OfNode
<1>5. ASSUME ~ mixed' PROVE Waiting' /\ Codes' /\ Saving'
  BY <1>1, <1>3, <1>5 DEF Inv, Waiting, Codes, Good, Somewhere, Saving, OfNode
<1>. QED
  BY <1>4, <1>5 DEF Inv
LEMMA EditFacts ==
  ASSUME TypeOK, NEW n \in Node, NEW f, Edit(n, f)
  PROVE  /\ UNCHANGED <<row, valid, used, call, leaving, nodes, page, pending, add, code, mixed>>
         /\ form'[n] = f
         /\ \A m \in Node \ {n} : form'[m] = form[m]
  BY DEF Edit, TypeOK, hub, app

\* An edit of the fields of form n that leaves its dialog alone, while no request waits.
LEMMA FieldStep ==
  ASSUME TypeOK, Inv, NEW n \in Node, NEW f, Edit(n, f), form[n].open, ~ pending,
         f.open = TRUE, f.confirm = form[n].confirm
  PROVE  Inv'
<1>1. /\ UNCHANGED <<row, valid, used, call, leaving, nodes, page, pending, add, code, mixed>>
      /\ form'[n] = f
      /\ \A m \in Node \ {n} : form'[m] = form[m]
  BY EditFacts
<1>2. \A m \in Node : /\ form'[m].open => form[m].open
                      /\ form[m].open => form'[m].confirm = form[m].confirm
  BY <1>1
<1>3. Listing' /\ Calling'
  BY <1>1, <1>2 DEF Inv, Listing, Calling, OfNode
<1>4. ASSUME ~ mixed PROVE Waiting' /\ Codes' /\ Saving'
  <2>1. Waiting /\ Codes
    BY <1>4 DEF Inv
  <2>2. call = NoCall
    BY <2>1 DEF Waiting
  <2>3. call.kind = "none"
    BY <2>2 DEF NoCall
  <2>4. Waiting'
    BY <1>1, <1>2, <2>1, <2>2, <2>3 DEF Waiting, OfNode
  <2>. QED
    BY <1>1, <2>1, <2>3, <2>4 DEF Codes, Good, Somewhere, Saving
<1>. QED
  BY <1>1, <1>3, <1>4 DEF Inv

LEMMA DialogStep ==
  ASSUME TypeOK, Inv, NEW n \in Node,
         \/ CloseConfirm(n)
         \/ \E what \in {"enrollment", "revoke"} : OpenConfirm(n, what)
  PROVE  Inv'
<1>1. PICK what \in {"", "enrollment", "revoke"} :
        /\ Edit(n, [form[n] EXCEPT !.confirm = what])
        /\ form[n].open
        /\ what # "" => OnForm(n) /\ ~ pending
  BY DEF CloseConfirm, OpenConfirm, OnForm
<1>2. form[n] \in FormType
  BY <1>1, FormFacts
<1>3. /\ UNCHANGED <<row, valid, used, call, leaving, nodes, page, pending, add, code, mixed>>
      /\ form'[n] = [form[n] EXCEPT !.confirm = what]
      /\ \A m \in Node \ {n} : form'[m] = form[m]
  BY <1>1, EditFacts
<1>4. /\ form'[n].open /\ form'[n].tags = form[n].tags /\ form'[n].input = form[n].input
      /\ form'[n].confirm = what
  BY <1>1, <1>2, <1>3 DEF FormType
<1>5. Listing' /\ Calling'
  BY <1>1, <1>3, <1>4 DEF Inv, Listing, Calling, OfNode
<1>6. ASSUME ~ mixed PROVE Waiting'
  <2>1. Waiting
    BY <1>6 DEF Inv
  <2>2. CASE what = ""
    <3>1. \A m \in Node : form'[m].open /\ form'[m].confirm # "" =>
            m # n /\ form'[m] = form[m]
      BY <1>3, <1>4, <2>2
    <3>. QED
      <4>1. ASSUME NEW m \in Node, form'[m].open, form'[m].confirm # ""
            PROVE  /\ ~ add
                   /\ \A k \in Node \ {m} : form'[k].open => form'[k].confirm = ""
                   /\ call.kind = "enrollment" => m = call.node /\ call.here
        <5>1. m # n /\ form'[m] = form[m]
          BY <3>1, <4>1
        <5>2. /\ ~ add
              /\ \A k \in Node \ {m} : form[k].open => form[k].confirm = ""
              /\ call.kind = "enrollment" => m = call.node /\ call.here
          BY <2>1, <4>1, <5>1 DEF Waiting
        <5>3. \A k \in Node \ {m} : form'[k].open => form'[k].confirm = ""
          BY <3>1, <5>2
        <5>. QED
          BY <5>2, <5>3
      <4>2. call # NoCall => pending /\ leaving = "none"
        BY <2>1 DEF Waiting
      <4>3. call.kind \in OfNode => ~ (add /\ code # NoCode)
        BY <2>1 DEF Waiting
      <4>. QED
        BY <1>3, <4>1, <4>2, <4>3 DEF Waiting, OfNode
  <2>3. CASE what # ""
    <3>1. ~ add /\ \A m \in Node : form[m].open => form[m].confirm = ""
      BY <1>1, <2>3 DEF OnForm, Uncovered
    <3>2. call = NoCall
      BY <1>1, <2>1, <2>3 DEF Waiting
    <3>3. call.kind = "none"
      BY <3>2 DEF NoCall
    <3>4. \A m \in Node \ {n} : form'[m].open => form'[m].confirm = ""
      BY <1>3, <3>1
    <3>5. \A m \in Node : form'[m].open /\ form'[m].confirm # "" => m = n
      BY <3>4
    <3>. QED
      BY <1>3, <3>1, <3>2, <3>3, <3>4, <3>5 DEF Waiting, OfNode
  <2>. QED
    BY <2>2, <2>3
<1>7. ASSUME ~ mixed PROVE Codes' /\ Saving'
  <2>1. Codes /\ Saving
    BY <1>7 DEF Inv
  <2>2. Codes'
    BY <1>3, <2>1 DEF Codes, Good, Somewhere
  <2>3. ASSUME call.kind = "save", call.here
        PROVE  /\ form'[call.node].open
               /\ form'[call.node].tags = call.body
               /\ form'[call.node].input = Null
    <3>1. call.node \in Node
      BY <2>3 DEF Inv, Calling, OfNode
    <3>. QED
      <4>1. /\ form[call.node].open /\ form[call.node].tags = call.body
            /\ form[call.node].input = Null
        BY <2>1, <2>3 DEF Saving
      <4>2. CASE call.node = n
        BY <1>4, <4>1, <4>2
      <4>3. CASE call.node # n
        BY <1>3, <3>1, <4>1, <4>3
      <4>. QED
        BY <4>2, <4>3
  <2>. QED
    BY <1>3, <2>1, <2>2, <2>3 DEF Saving
<1>. QED
  BY <1>3, <1>5, <1>6, <1>7 DEF Inv

LEMMA ConfirmStep ==
  ASSUME TypeOK, Inv, NEW n \in Node, Confirm(n)
  PROVE  Inv'
<1>1. /\ UNCHANGED <<row, valid, used, nodes, page, add, code, form>>
      /\ Perform(Call(form[n].confirm, n, {}))
      /\ form[n].open /\ form[n].confirm # ""
  BY DEF Confirm, hub
<1>2. form[n].confirm \in {"enrollment", "revoke"}
  BY <1>1, FormFacts DEF FormType
<1>3. /\ pending' = TRUE /\ leaving' = leaving
      /\ call'.kind = form[n].confirm /\ call'.node = n /\ call'.here = TRUE
      /\ call'.state = "sent" /\ call'.code = NoCode
      /\ ~ mixed' => ~ mixed /\ leaving = "none"
  BY <1>1, SentFacts
<1>4. nodes[n].exists
  BY <1>1 DEF Inv, Listing
<1>5. Listing' /\ Calling'
  BY <1>1, <1>2, <1>3, <1>4 DEF Inv, Listing, Calling, OfNode
<1>6. ASSUME ~ mixed' PROVE Waiting'
  <2>1. Waiting
    BY <1>3, <1>6 DEF Inv
  <2>2. /\ ~ add
        /\ \A m \in Node \ {n} : form[m].open => form[m].confirm = ""
    BY <1>1, <2>1 DEF Waiting
  <2>3. \A m \in Node : form[m].open /\ form[m].confirm # "" => m = n
    BY <2>2
  <2>. QED
    BY <1>1, <1>3, <1>6, <2>2, <2>3 DEF Waiting
<1>7. ASSUME ~ mixed' PROVE Codes' /\ Saving'
  BY <1>1, <1>2, <1>3, <1>7 DEF Inv, Codes, Good, Somewhere, Saving
<1>. QED
  BY <1>5, <1>6, <1>7 DEF Inv

LEMMA SaveStep ==
  ASSUME TypeOK, Inv, NEW n \in Node, Save(n)
  PROVE  Inv'
<1>. DEFINE next == Collected(n)
<1>1. OnForm(n) /\ ~ pending /\ form[n].open /\ form[n] \in FormType
  BY FormFacts DEF Save, OnForm
<1>2. CASE next = Null
  <2>1. Edit(n, Taken(form[n], Null))
    BY <1>2 DEF Save
  <2>2. Taken(form[n], Null) = [form[n] EXCEPT !.tagError = TRUE]
    BY DEF Taken
  <2>3. Taken(form[n], Null).open = TRUE /\ Taken(form[n], Null).confirm = form[n].confirm
    BY <1>1, <2>2 DEF FormType
  <2>. QED
    BY <1>1, <2>1, <2>3, FieldStep
<1>3. CASE next # Null
  <2>. DEFINE f == [form[n] EXCEPT !.tags = next, !.input = Null, !.tagError = FALSE]
  <2>1. /\ UNCHANGED <<row, valid, used, nodes, page, add, code>>
        /\ Perform(Call("save", n, next))
        /\ form' = [form EXCEPT ![n] = f]
    BY <1>3 DEF Save, Taken, Body, hub
  <2>2. /\ f.open = TRUE /\ f.tags = next /\ f.input = Null /\ f.confirm = form[n].confirm
    BY <1>1 DEF FormType
  <2>. HIDE DEF f, next
  <2>3. form'[n] = f /\ \A m \in Node \ {n} : form'[m] = form[m]
    BY <2>1 DEF TypeOK
  <2>4. \A m \in Node : /\ form'[m].open => form[m].open
                        /\ form'[m].confirm = form[m].confirm
    BY <1>1, <2>2, <2>3
  <2>5. /\ pending' = TRUE /\ leaving' = leaving
        /\ call'.kind = "save" /\ call'.node = n /\ call'.body = next
        /\ call'.state = "sent" /\ call'.code = NoCode
        /\ ~ mixed' => ~ mixed /\ leaving = "none"
    BY <2>1, SentFacts
  <2>6. nodes[n].exists
    BY <1>1 DEF Inv, Listing
  <2>7. Listing' /\ Calling'
    BY <2>1, <2>4, <2>5, <2>6 DEF Inv, Listing, Calling, OfNode
  <2>8. ~ add /\ \A m \in Node : form[m].open => form[m].confirm = ""
    BY <1>1 DEF OnForm, Uncovered
  <2>9. ASSUME ~ mixed' PROVE Waiting'
    <3>1. \A m \in Node : form'[m].open => form'[m].confirm = ""
      BY <2>4, <2>8
    <3>. QED
      BY <2>1, <2>5, <2>8, <2>9, <3>1 DEF Waiting
  <2>10. ASSUME ~ mixed' PROVE Codes'
    BY <2>1, <2>5, <2>10 DEF Inv, Codes, Good, Somewhere
  <2>11. Saving'
    BY <2>2, <2>3, <2>5 DEF Saving
  <2>. QED
    BY <2>7, <2>9, <2>10, <2>11 DEF Inv
<1>. QED
  BY <1>2, <1>3

LEMMA FieldsStep ==
  ASSUME TypeOK, Inv, NEW n \in Node,
         AddTag(n) \/ \E t \in Tag : TypeTag(n, t) \/ RemoveTag(n, t)
  PROVE  Inv'
<1>1. form[n].open /\ ~ pending /\ form[n] \in FormType
  BY FormFacts DEF AddTag, TypeTag, RemoveTag, OnForm
<1>2. CASE AddTag(n)
  <2>1. Edit(n, Taken(form[n], Collected(n)))
    BY <1>2 DEF AddTag
  <2>2. /\ Taken(form[n], Collected(n)).open = TRUE
        /\ Taken(form[n], Collected(n)).confirm = form[n].confirm
    BY <1>1 DEF Taken, FormType
  <2>. QED
    BY <1>1, <2>1, <2>2, FieldStep
<1>3. ASSUME NEW t \in Tag, TypeTag(n, t) PROVE Inv'
  <2>. DEFINE f == [form[n] EXCEPT !.input = t, !.tagError = FALSE]
  <2>1. Edit(n, f)
    BY <1>3 DEF TypeTag
  <2>2. f.open = TRUE /\ f.confirm = form[n].confirm
    BY <1>1 DEF FormType
  <2>. HIDE DEF f
  <2>. QED
    BY <1>1, <2>1, <2>2, FieldStep
<1>4. ASSUME NEW t \in Tag, RemoveTag(n, t) PROVE Inv'
  <2>. DEFINE f == [form[n] EXCEPT !.tags = @ \ {t}]
  <2>1. Edit(n, f)
    BY <1>4 DEF RemoveTag
  <2>2. f.open = TRUE /\ f.confirm = form[n].confirm
    BY <1>1 DEF FormType
  <2>. HIDE DEF f
  <2>. QED
    BY <1>1, <2>1, <2>2, FieldStep
<1>. QED
  BY <1>2, <1>3, <1>4

LEMMA InvStep ==
  ASSUME TypeOK, Inv, [Next]_vars
  PROVE  Inv'
<1>1. CASE UNCHANGED vars
  BY <1>1 DEF vars, hub, app, Inv, Listing, Calling, Waiting, Codes, Good, Somewhere,
              Saving, OfNode
<1>2. ASSUME NEW n \in Node, OnNode(n) PROVE Inv'
  BY <1>2, FieldsStep, DialogStep, UseUpStep, SaveStep, ConfirmStep DEF OnNode
<1>3. ASSUME Answering \/ Hearing PROVE Inv'
  BY <1>3, CarryStep, RefuseStep, HeardStep, ReloadedStep, FailedStep DEF Answering, Hearing
<1>. QED
  BY <1>1, <1>2, <1>3, PollStep, AddStep, DialogSendStep, SessionStep, GoToStep DEF Next

-----------------------------------------------------------------------------
(* The theorems. *)

LEMMA Invariance == Spec => []Inv
<1>1. Init => Inv
  <2>. SUFFICES ASSUME Init PROVE Inv
    OBVIOUS
  <2>1. Listing
    BY DEF Init, Listing, NoRow, NoForm
  <2>2. call = NoCall /\ call.kind = "none" /\ call \notin CallType /\ code = NoCode
    BY DEF Init, NoCall, CallType
  <2>3. \A n \in Node : form[n].open = FALSE
    BY DEF Init, NoForm
  <2>. QED
    BY <2>1, <2>2, <2>3 DEF Inv, Calling, Waiting, Codes, Saving, OfNode
<1>2. TypeOK /\ Inv /\ [Next]_vars => Inv'
  BY InvStep
<1>. QED
  BY <1>1, <1>2, TypeCorrect, PTL DEF Spec

\* The code on the screen opens a node or has been used up, whatever dialog it comes
\* from and whatever has been made, revoked or replaced since.
THEOREM CodesShownAreValid == Spec => []CodeShownIsValid
<1>1. Inv => CodeShownIsValid
  BY DEF Inv, Codes, Good, CodeShownIsValid
<1>. QED
  BY <1>1, Invariance, PTL

\* When a save is acknowledged the hub has the tags that the form shows, whatever list
\* arrived while it was filled in or on its way.
THEOREM SavesAreAsShown == Spec => SavedAsShown
<1>1. Inv => (Heard /\ call.kind = "save" /\ call.here /\ ~ mixed
                => LET n == call.node
                   IN  row[n].tags = form[n].tags /\ form[n].input = Null)
  BY DEF Inv, Saving, Heard
<1>. QED
  BY <1>1, Invariance, PTL DEF SavedAsShown
=============================================================================
