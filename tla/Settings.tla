------------------------------ MODULE Settings ------------------------------
(***************************************************************************)
(* The administration of nodes in one tab: the forms of                    *)
(* features/nodes/NodeSettings.tsx, the dialogs of app/App.tsx for codes   *)
(* and new nodes, the change of the own password, and perform, through     *)
(* which they all go to the hub.  Forms take their fields from the list    *)
(* of nodes once, when they appear; the list goes on being polled.         *)
(*                                                                         *)
(* One administrator is signed in; the end of the session ends the         *)
(* behaviour.  Name, expected number of cards and interfaces are left out: *)
(* they are sent with the form as they stand in it.                        *)
(***************************************************************************)
EXTENDS Integers, FiniteSets

CONSTANTS
    Node, Null,
    Tag,         \* what may be typed as a tag
    TooLong,     \* the part of it that is no tag
    MaxTags,
    MaxCode      \* bound: codes made

ASSUME SettingsAssumption ==
    /\ TooLong \subseteq Tag /\ MaxTags \in Nat
    /\ MaxCode \in Nat /\ Null \notin Int /\ Null \notin Tag

VARIABLES
    row,       \* the hub: the nodes
    valid,     \* the hub: their codes
    live,      \* the hub: the session is accepted
    made,      \* the hub: the last code made
    used,      \* codes redeemed, or expired
    call,      \* perform: the request on its way
    leaving,   \* perform(signOut): that of the sign-out
    nodes,     \* useNodes: the list
    signedIn,  \* useSession: user
    page, pending, add, code,  \* App
    form,      \* NodeSettings of each node of the list
    mixed      \* history: both were under way at a time

hub == <<row, valid, live, made, used>>
app == <<signedIn, page, pending, add, code>>
vars == <<hub, call, leaving, nodes, app, form, mixed>>

-----------------------------------------------------------------------------
NoCode == 0

\* A node; its code is kept apart, as no list has it.
NoRow == [exists |-> FALSE, tags |-> {}]
NewRow == [NoRow EXCEPT !.exists = TRUE]

NoForm == [open |-> FALSE]

\* What NodeSettings starts with.
Fresh(n) == [open |-> TRUE, tags |-> nodes[n].tags, input |-> Null, tagError |-> FALSE,
             confirm |-> ""]

NoCall == [kind |-> "none", state |-> "none"]

\* A request of perform; here: the component that sent it is still there.
Call(kind, n, body) ==
    [kind |-> kind, node |-> n, body |-> body, here |-> TRUE, state |-> "sent",
     code |-> NoCode]

RowType  == [exists : BOOLEAN, tags : SUBSET Tag]
FormType == [open : {TRUE}, tags : SUBSET Tag, input : Tag \cup {Null},
             tagError : BOOLEAN, confirm : {"", "enrollment", "revoke"}]
CallType == [kind : {"save", "enrollment", "revoke", "create", "password"},
             node : Node \cup {Null}, body : SUBSET Tag, here : BOOLEAN,
             state : {"sent", "ok", "failed", "401"}, code : Nat]

Reload == [NoCall EXCEPT !.kind = "reload"]

TypeOK ==
    /\ row \in [Node -> RowType] /\ nodes \in [Node -> RowType]
    /\ valid \in [Node -> Nat] /\ made \in Nat /\ used \subseteq Nat
    /\ live \in BOOLEAN /\ signedIn \in BOOLEAN /\ pending \in BOOLEAN
    /\ add \in BOOLEAN /\ mixed \in BOOLEAN
    /\ call \in CallType \cup {NoCall, Reload}
    /\ leaving \in {"none", "sent", "ok", "failed", "401"}
    /\ page \in {"settings", "other"}
    /\ code \in Nat
    /\ form \in [Node -> FormType \cup {NoForm}]

Init ==
    /\ \E old \in SUBSET Node : row = [n \in Node |-> IF n \in old THEN NewRow ELSE NoRow]
    /\ valid = [n \in Node |-> NoCode]
    /\ live = TRUE /\ made = 0 /\ used = {}
    /\ call = NoCall /\ leaving = "none"
    /\ nodes = [n \in Node |-> NoRow]
    /\ signedIn = TRUE /\ page = "other" /\ pending = FALSE
    /\ add = FALSE /\ code = NoCode
    /\ form = [n \in Node |-> NoForm]
    /\ mixed = FALSE

-----------------------------------------------------------------------------
(* The hub. *)

Answer(state, c) == call' = [call EXCEPT !.state = state, !.code = c]

\* A change is made; its answer may be lost.
Carry ==
    /\ call.state = "sent" /\ live
    /\ LET n == call.node IN
       \/ /\ call.kind = "save"
          /\ row' = [row EXCEPT ![n].tags = call.body]
          /\ Answer("ok", NoCode) \/ Answer("failed", NoCode)
          /\ UNCHANGED <<valid, live, made>>
       \/ /\ call.kind = "enrollment" /\ made < MaxCode
          /\ made' = made + 1
          /\ valid' = [valid EXCEPT ![n] = made']
          /\ Answer("ok", made') \/ Answer("failed", NoCode)
          /\ UNCHANGED <<row, live>>
       \/ /\ call.kind = "revoke"
          /\ valid' = [valid EXCEPT ![n] = NoCode]
          /\ Answer("ok", NoCode) \/ Answer("failed", NoCode)
          /\ UNCHANGED <<row, live, made>>
       \/ /\ call.kind = "create" /\ made < MaxCode
          /\ made' = made + 1
          /\ \E m \in Node :
                /\ ~ row[m].exists
                /\ row' = [row EXCEPT ![m] = NewRow]
                /\ valid' = [valid EXCEPT ![m] = made']
          /\ Answer("ok", made') \/ Answer("failed", NoCode)
          /\ UNCHANGED live
       \/ /\ call.kind = "password"
          /\ live' = FALSE
          /\ Answer("ok", NoCode) \/ Answer("failed", NoCode)
          /\ UNCHANGED <<row, valid, made>>
    /\ UNCHANGED <<used, leaving, nodes, app, form, mixed>>

\* The hub refuses, or is not reached.
Refuse ==
    /\ call.state = "sent"
    /\ Answer(IF live THEN "failed" ELSE "401", NoCode)
    /\ UNCHANGED <<hub, leaving, nodes, app, form, mixed>>

EndSession ==
    /\ leaving = "sent"
    /\ \/ live /\ live' = FALSE /\ leaving' \in {"ok", "failed"}
       \/ leaving' = (IF live THEN "failed" ELSE "401") /\ UNCHANGED live
    /\ UNCHANGED <<row, valid, made, used, call, nodes, app, form, mixed>>

\* The session expires, or another administrator changes the password.
Expire ==
    /\ live /\ live' = FALSE
    /\ UNCHANGED <<row, valid, made, used, call, leaving, nodes, app, form, mixed>>

\* An agent uses its code, or the code is too old.
UseUp(n) ==
    /\ valid[n] # NoCode
    /\ used' = used \cup {valid[n]}
    /\ valid' = [valid EXCEPT ![n] = NoCode]
    /\ UNCHANGED <<row, live, made, call, leaving, nodes, app, form, mixed>>

-----------------------------------------------------------------------------
(* The list, and what appears and ends with it. *)

Listed(list) == [n \in Node |->
    IF page = "settings" /\ list[n].exists
      THEN IF form[n].open THEN form[n]
           ELSE [Fresh(n) EXCEPT !.tags = list[n].tags]
      ELSE NoForm]

\* A poll is answered; without a session, the page ends.
Poll ==
    /\ IF live THEN nodes' = row /\ form' = Listed(row) /\ UNCHANGED signedIn
               ELSE signedIn' = FALSE /\ UNCHANGED <<nodes, form>>
    /\ UNCHANGED <<hub, call, leaving, page, pending, add, code, mixed>>

\* A dialog covers the page.
Uncovered == ~ add /\ \A n \in Node : form[n].open => form[n].confirm = ""

\* The forms end with the page, and what they sent reaches them no longer.
GoTo(p) ==
    /\ Uncovered /\ p # page
    /\ page' = p
    /\ form' = [n \in Node |-> IF p = "settings" /\ nodes[n].exists THEN Fresh(n) ELSE NoForm]
    /\ call' = IF call.state = "none" THEN call ELSE [call EXCEPT !.here = FALSE]
    /\ UNCHANGED <<hub, leaving, nodes, signedIn, pending, add, code, mixed>>

-----------------------------------------------------------------------------
(* The form of a node. *)

OnForm(n) == Uncovered /\ form[n].open

\* Fields of a form and nothing else.
Edit(n, f) ==
    /\ form' = [form EXCEPT ![n] = f]
    /\ UNCHANGED <<hub, call, leaving, nodes, app, mixed>>

TypeTag(n, t) ==
    /\ OnForm(n) /\ ~ pending
    /\ Edit(n, [form[n] EXCEPT !.input = t, !.tagError = FALSE])

RemoveTag(n, t) ==
    /\ OnForm(n) /\ ~ pending /\ t \in form[n].tags
    /\ Edit(n, [form[n] EXCEPT !.tags = @ \ {t}])

\* collectTags: the tags with what is typed; Null if there is something wrong with them.
Collected(n) ==
    LET t    == form[n].input
        next == form[n].tags \cup ({t} \ {Null})
    IN  IF t \in TooLong \/ Cardinality(next) > MaxTags THEN Null ELSE next

Taken(f, next) ==
    IF next = Null THEN [f EXCEPT !.tagError = TRUE]
                   ELSE [f EXCEPT !.tags = next, !.input = Null, !.tagError = FALSE]

AddTag(n) ==
    /\ OnForm(n) /\ ~ pending /\ form[n].input # Null
    /\ Edit(n, Taken(form[n], Collected(n)))

OpenConfirm(n, what) ==
    /\ OnForm(n) /\ ~ pending
    /\ Edit(n, [form[n] EXCEPT !.confirm = what])

CloseConfirm(n) ==
    /\ form[n].open /\ form[n].confirm # ""
    /\ Edit(n, [form[n] EXCEPT !.confirm = ""])

-----------------------------------------------------------------------------
(* perform. *)

\* Bound: after a sign-out that failed first, no third request goes out.
Perform(c) ==
    /\ call = NoCall
    /\ call' = c
    /\ pending' = TRUE
    /\ mixed' = (mixed \/ leaving # "none")
    /\ UNCHANGED leaving

\* Fault: the tags sent are those of the state, which setTags has not changed yet.
Body_of_state(n) == form[n].tags

Body(n) == Collected(n)

\* The form is submitted.
Save(n) ==
    /\ OnForm(n) /\ ~ pending
    /\ IF Collected(n) = Null
         THEN Edit(n, Taken(form[n], Null))
         ELSE /\ Perform(Call("save", n, Body(n)))
              /\ form' = [form EXCEPT ![n] = Taken(@, Collected(n))]
              /\ UNCHANGED <<hub, nodes, signedIn, page, add, code>>

Confirm(n) ==
    /\ form[n].open /\ form[n].confirm # "" /\ ~ pending
    /\ Perform(Call(form[n].confirm, n, {}))
    /\ UNCHANGED <<hub, nodes, signedIn, page, add, code, form>>

\* Fault: the code of before is not forgotten.
OpenAdd_kept ==
    /\ Uncovered
    /\ add' = TRUE
    /\ UNCHANGED <<hub, call, leaving, nodes, signedIn, page, pending, code, form, mixed>>

\* The button of the heading, on every page but the dashboard.
OpenAdd ==
    /\ Uncovered
    /\ add' = TRUE /\ code' = NoCode
    /\ UNCHANGED <<hub, call, leaving, nodes, signedIn, page, pending, form, mixed>>

\* The button of the resource page while it has no nodes.
OpenFirst ==
    /\ Uncovered /\ page = "other" /\ \A n \in Node : ~ nodes[n].exists
    /\ add' = TRUE
    /\ UNCHANGED <<hub, call, leaving, nodes, signedIn, page, pending, code, form, mixed>>

CloseAdd ==
    /\ add
    /\ add' = FALSE /\ code' = NoCode
    /\ UNCHANGED <<hub, call, leaving, nodes, signedIn, page, pending, form, mixed>>

Create ==
    /\ add /\ code = NoCode /\ ~ pending
    /\ Perform(Call("create", Null, {}))
    /\ UNCHANGED <<hub, nodes, signedIn, page, add, code, form>>

ChangePassword ==
    /\ Uncovered /\ page = "settings" /\ ~ pending
    /\ Perform(Call("password", Null, {}))
    /\ UNCHANGED <<hub, nodes, signedIn, page, add, code, form>>

\* The button is not disabled by pending.
SignOut ==
    /\ Uncovered /\ leaving = "none"
    /\ leaving' = "sent" /\ pending' = TRUE
    /\ mixed' = (mixed \/ call # NoCall)
    /\ UNCHANGED <<hub, call, nodes, signedIn, page, add, code, form>>

-----------------------------------------------------------------------------
(* perform is answered. *)

\* Fault: the buttons come back after a success only.
Finished_if_ok ==
    /\ call' = NoCall
    /\ pending' = (pending /\ call.kind # "reload")

Finished ==
    /\ call' = NoCall
    /\ pending' = FALSE

\* What fn does with its answer; then the list is asked for again.
Heard ==
    /\ call.kind # "reload" /\ call.state = "ok"
    /\ LET n == call.node IN
       /\ form' = IF call.kind \in {"enrollment", "revoke"} /\ call.here /\ form[n].open
                    THEN [form EXCEPT ![n].confirm = ""] ELSE form
       /\ code' = IF call.code # NoCode THEN call.code ELSE code
       /\ add' = (add \/ (call.kind = "enrollment" /\ call.code # NoCode))
    /\ call' = Reload
    /\ UNCHANGED <<hub, leaving, nodes, signedIn, page, pending, mixed>>

\* refresh ends, whatever it brings.
Reloaded ==
    /\ call.kind = "reload"
    /\ Finished
    /\ \/ live /\ nodes' = row /\ form' = Listed(row) /\ UNCHANGED signedIn
       \/ ~ live /\ signedIn' = FALSE /\ UNCHANGED <<nodes, form>>
       \/ UNCHANGED <<nodes, form, signedIn>>
    /\ UNCHANGED <<hub, leaving, page, add, code, mixed>>

\* An error is shown, which changes nothing else; a session that is over is left.
Failed ==
    /\ call.state \in {"failed", "401"}
    /\ Finished
    /\ signedIn' = (call.state # "401")
    /\ UNCHANGED <<hub, leaving, nodes, page, add, code, form, mixed>>

\* A sign-out that failed enables the buttons, whatever else is under way.
SignedOut ==
    /\ leaving \in {"ok", "failed", "401"}
    /\ leaving' = "none" /\ pending' = FALSE
    /\ signedIn' = (leaving = "failed")
    /\ UNCHANGED <<hub, call, nodes, page, add, code, form, mixed>>

-----------------------------------------------------------------------------
OnNode(n) ==
    \/ AddTag(n) \/ CloseConfirm(n) \/ UseUp(n) \/ Save(n) \/ Confirm(n)
    \/ \E t \in Tag : TypeTag(n, t) \/ RemoveTag(n, t)
    \/ \E what \in {"enrollment", "revoke"} : OpenConfirm(n, what)

Answering == Carry \/ Refuse
Hearing == Heard \/ Reloaded \/ Failed

Next ==
    /\ signedIn
    /\ \/ Poll \/ OpenAdd \/ OpenFirst \/ CloseAdd \/ Create \/ ChangePassword \/ SignOut
       \/ Answering \/ Hearing \/ EndSession \/ SignedOut \/ Expire
       \/ \E p \in {"settings", "other"} : GoTo(p)
       \/ \E n \in Node : OnNode(n)

Spec == Init /\ [][Next]_vars

\* Requests are answered and heard.
Fairness ==
    /\ WF_vars(signedIn /\ Answering) /\ WF_vars(signedIn /\ Hearing)
    /\ WF_vars(signedIn /\ EndSession) /\ WF_vars(signedIn /\ SignedOut)

FairSpec == Spec /\ Fairness

-----------------------------------------------------------------------------
\* When a save is acknowledged the hub has exactly the tags the form shows, with the one
\* that was only typed, although polls brought other lists while it was filled in.
SavedAsShown ==
    [][Heard /\ call.kind = "save" /\ call.here /\ ~ mixed
         => LET n == call.node IN row[n].tags = form[n].tags /\ form[n].input = Null]_vars

\* A code on the screen is the code of a node, or has been used up: no code of an
\* earlier dialog comes back after it was revoked or replaced.
CodeShownIsValid ==
    add /\ code # NoCode /\ ~ mixed =>
        code \in used \/ \E n \in Node : valid[n] = code

\* The buttons that wait for a request come back, whatever becomes of it.
ButtonsComeBack == pending ~> (~ pending \/ ~ signedIn)
=============================================================================
