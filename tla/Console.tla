------------------------------ MODULE Console ------------------------------
(***************************************************************************)
(* One tab of the web client (web/src) and the hub's sessions and node     *)
(* list (internal/hub).  Scripts run one at a time, but requests are       *)
(* answered in any order: by the poll of the node list, by what a user     *)
(* does, across signing out and in again.  React runs the effects of a     *)
(* new user some time after setUser.                                       *)
(*                                                                         *)
(* Sessions are 1, 2, ...; the token against forged requests goes with the *)
(* session, so the one a request carries is named by its session.  The     *)
(* node list is known by the version of the hub's tables it was read from. *)
(***************************************************************************)
EXTENDS Integers

CONSTANTS
    Slot,        \* bound: requests on their way
    MaxSession,  \* bound: sessions made
    MaxVersion,  \* bound: changes of the hub's tables
    NoSlot

ASSUME ConsoleAssumption ==
    MaxSession \in Nat /\ MaxVersion \in Nat /\ NoSlot \notin Slot

VARIABLES
    live,     \* sessions the hub accepts
    last,     \* the last session made
    version,  \* of what the hub's tables hold
    jar,      \* the session in the browser's cookie
    ready,    \* useSession: the first question has been answered
    user,     \* useSession: the session of user and of its token
    shown,    \* the user the page was rendered and useNodes set up for
    timer,    \* useNodes: the next poll is due
    latest,   \* useNodes: the request that is current(), if any
    nodes,    \* useNodes: the list shown, with the session that fetched it
    pending,  \* App: perform is under way
    flight,   \* requests on their way
    written   \* history: the version of the last acknowledged write, and its session

hub == <<live, last, version>>
page == <<jar, ready, user, shown, timer, latest, nodes, pending, written>>
vars == <<hub, page, flight>>

-----------------------------------------------------------------------------
None == 0
Session == 1 .. MaxSession
Version == 0 .. MaxVersion

Free == [kind |-> "free"]
Kind == {"me", "login", "logout", "write", "poll", "reload"}
Request == [kind : Kind, cookie : Session \cup {None}, user : Session \cup {None},
            answer : {"none", "ok", "401", "failed"},
            session : Session \cup {None}, version : Version]

List == [session : Session \cup {None}, version : Version]
NoList == [session |-> None, version |-> 0]

TypeOK ==
    /\ live \subseteq Session /\ last \in 0 .. MaxSession /\ version \in Version
    /\ jar \in Session \cup {None}
    /\ user \in Session \cup {None} /\ shown \in Session \cup {None}
    /\ ready \in BOOLEAN /\ timer \in BOOLEAN /\ pending \in BOOLEAN
    /\ latest \in Slot \cup {NoSlot}
    /\ latest # NoSlot => flight[latest].kind \in {"poll", "reload"}
    /\ nodes \in List /\ written \in List
    /\ flight \in [Slot -> Request \cup {Free}]

Asked(kind, cookie, for) == [kind |-> kind, cookie |-> cookie, user |-> for,
                             answer |-> "none", session |-> None, version |-> 0]

Loaded(s, cookie) == [t \in Slot |-> IF t = s THEN Asked("me", cookie, None) ELSE Free]

Init ==
    /\ live = {} /\ last = 0 /\ version = 0
    /\ jar = None /\ ready = FALSE /\ user = None /\ shown = None
    /\ timer = FALSE /\ latest = NoSlot /\ nodes = NoList
    /\ pending = FALSE /\ written = NoList
    /\ \E s \in Slot : flight = Loaded(s, None)

-----------------------------------------------------------------------------
(* The hub. *)

Answer(s, kind) ==
    flight' = [flight EXCEPT ![s].answer = kind]

\* What can be answered with something in it.
AnswerWith(s, session, v) ==
    flight' = [flight EXCEPT ![s].answer = "ok", ![s].session = session, ![s].version = v]

Waiting(s, kinds) == flight[s].kind \in kinds /\ flight[s].answer = "none"

\* The row is in sessions and has not expired.
Accepts(s) == flight[s].cookie \in live

\* login, with the right password.
OpenSession(s) ==
    /\ Waiting(s, {"login"})
    /\ last < MaxSession
    /\ last' = last + 1
    /\ live' = live \cup {last + 1}
    /\ AnswerWith(s, last + 1, 0)
    /\ UNCHANGED <<version, page>>

\* me and nodes.
Read(s) ==
    /\ Waiting(s, {"me", "poll", "reload"})
    /\ Accepts(s)
    /\ AnswerWith(s, flight[s].cookie, version)
    /\ UNCHANGED <<hub, page>>

\* Any change an administrator makes; its answer may be lost.
Change(s) ==
    /\ Waiting(s, {"write"})
    /\ Accepts(s) /\ flight[s].user = flight[s].cookie
    /\ version < MaxVersion
    /\ version' = version + 1
    /\ AnswerWith(s, flight[s].cookie, version') \/ Answer(s, "failed")
    /\ UNCHANGED <<live, last, page>>

CloseSession(s) ==
    /\ Waiting(s, {"logout"})
    /\ Accepts(s) /\ flight[s].user = flight[s].cookie
    /\ live' = live \ {flight[s].cookie}
    /\ Answer(s, "ok") \/ Answer(s, "failed")
    /\ UNCHANGED <<last, version, page>>

NotSignedIn(s) ==
    /\ Waiting(s, Kind \ {"login"})
    /\ ~ Accepts(s)
    /\ Answer(s, "401")
    /\ UNCHANGED <<hub, page>>

\* The network, a wrong password, a token of another session, an error of the hub.
Fail(s) ==
    /\ Waiting(s, Kind)
    /\ Answer(s, "failed")
    /\ UNCHANGED <<hub, page>>

\* A session expires, or ends because its account gets a new password.
Expire ==
    /\ \E n \in live : live' = live \ {n}
    /\ UNCHANGED <<last, version, page, flight>>

\* Agents report.
Report ==
    /\ version < MaxVersion
    /\ version' = version + 1
    /\ UNCHANGED <<live, last, page, flight>>

-----------------------------------------------------------------------------
(* The page asks. *)

Ask(s, kind, for) ==
    /\ flight[s] = Free
    /\ flight' = [flight EXCEPT ![s] = Asked(kind, jar, for)]

\* The form is disabled while a login is under way.
Login(s) ==
    /\ ready /\ shown = None /\ user = None
    /\ \A t \in Slot : flight[t].kind # "login"
    /\ Ask(s, "login", user)
    /\ UNCHANGED <<hub, page>>

\* perform, with the buttons pending disables.
Write(s) ==
    /\ shown # None /\ ~ pending
    /\ Ask(s, "write", user)
    /\ pending' = TRUE
    /\ UNCHANGED <<hub, jar, ready, user, shown, timer, latest, nodes, written>>

SignOut(s) ==
    /\ shown # None
    /\ Ask(s, "logout", user)
    /\ pending' = TRUE
    /\ UNCHANGED <<hub, jar, ready, user, shown, timer, latest, nodes, written>>

\* refresh, called by the timer.
Poll(s) ==
    /\ timer /\ shown # None
    /\ Ask(s, "poll", shown)
    /\ timer' = FALSE
    /\ latest' = s
    /\ UNCHANGED <<hub, jar, ready, user, shown, nodes, pending, written>>

\* The cleanup and the effect of useNodes.  Nothing asked before is current any more.
Effects ==
    /\ shown # user
    /\ shown' = user
    /\ timer' = FALSE
    /\ \/ /\ user = None
          /\ latest' = NoSlot
          /\ nodes' = NoList
          /\ UNCHANGED flight
       \/ /\ user # None
          /\ \E s \in Slot : Ask(s, "poll", user) /\ latest' = s
          /\ UNCHANGED nodes
    /\ UNCHANGED <<hub, jar, ready, user, pending, written>>

\* The page is loaded again; what was on its way is not listened to.
Load ==
    /\ ready' = FALSE /\ user' = None /\ shown' = None
    /\ timer' = FALSE /\ latest' = NoSlot /\ nodes' = NoList
    /\ pending' = FALSE /\ written' = NoList
    /\ \E s \in Slot : flight' = Loaded(s, jar)
    /\ UNCHANGED <<hub, jar>>

-----------------------------------------------------------------------------
(* The page is answered. *)

\* Fault: whatever comes is shown.
Current_unchecked(s) == TRUE

Current(s) == latest = s

\* api: a session the hub does not accept is left, whoever asked.
UserAfter(s) ==
    IF flight[s].answer = "401" THEN None ELSE user

Leave(s) == flight' = [flight EXCEPT ![s] = Free]
NoLonger(s) == latest' = IF latest = s THEN NoSlot ELSE latest

Answered(s, kind) == flight[s].kind = kind /\ flight[s].answer # "none"

\* useSession asks who is signed in.
MeAnswered(s) ==
    /\ Answered(s, "me")
    /\ Leave(s)
    /\ ready' = TRUE
    /\ user' = IF flight[s].answer = "ok" THEN flight[s].session ELSE UserAfter(s)
    /\ UNCHANGED <<hub, jar, shown, timer, latest, nodes, pending, written>>

LoginAnswered(s) ==
    /\ Answered(s, "login")
    /\ Leave(s)
    /\ IF flight[s].answer = "ok"
         THEN user' = flight[s].session /\ jar' = flight[s].session
         ELSE UNCHANGED <<user, jar>>
    /\ UNCHANGED <<hub, ready, shown, timer, latest, nodes, pending, written>>

LogoutAnswered(s) ==
    /\ Answered(s, "logout")
    /\ Leave(s)
    /\ IF flight[s].answer = "ok" THEN user' = None /\ jar' = None
                                  ELSE user' = UserAfter(s) /\ jar' = jar
    /\ pending' = FALSE
    /\ UNCHANGED <<hub, ready, shown, timer, latest, nodes, written>>

\* Fault: perform is called without asking for a refresh.
WriteAnswered_no_refresh(s) ==
    /\ Answered(s, "write")
    /\ Leave(s)
    /\ pending' = FALSE
    /\ written' = IF flight[s].answer = "ok"
                    THEN [session |-> flight[s].session, version |-> flight[s].version]
                    ELSE written
    /\ user' = UserAfter(s)
    /\ UNCHANGED <<hub, jar, ready, shown, timer, latest, nodes>>

\* perform goes on with refresh, in the same turn.
WriteAnswered(s) ==
    /\ Answered(s, "write")
    /\ IF flight[s].answer = "ok"
         THEN /\ flight' = [flight EXCEPT ![s] = Asked("reload", jar, user)]
              /\ latest' = s
              /\ written' = [session |-> flight[s].session, version |-> flight[s].version]
              /\ UNCHANGED pending
         ELSE /\ Leave(s)
              /\ pending' = FALSE
              /\ UNCHANGED <<latest, written>>
    /\ user' = UserAfter(s)
    /\ UNCHANGED <<hub, jar, ready, shown, timer, nodes>>

\* refresh: an answer that is not current is not looked at.
ListAnswered(s) ==
    /\ nodes' = IF Current(s) /\ flight[s].answer = "ok"
                  THEN [session |-> flight[s].session, version |-> flight[s].version]
                  ELSE nodes
    /\ user' = UserAfter(s)
    /\ NoLonger(s)
    /\ Leave(s)

\* Fault: an error ends the chain of polls.
PollAnswered_until_error(s) ==
    /\ Answered(s, "poll")
    /\ ListAnswered(s)
    /\ timer' = ((flight[s].user = shown /\ flight[s].answer = "ok") \/ timer)
    /\ UNCHANGED <<hub, jar, ready, shown, pending, written>>

\* tick: the next poll is only planned by the polls of this user.
PollAnswered(s) ==
    /\ Answered(s, "poll")
    /\ ListAnswered(s)
    /\ timer' = (flight[s].user = shown \/ timer)
    /\ UNCHANGED <<hub, jar, ready, shown, pending, written>>

ReloadAnswered(s) ==
    /\ Answered(s, "reload")
    /\ ListAnswered(s)
    /\ pending' = FALSE
    /\ UNCHANGED <<hub, jar, ready, shown, timer, written>>

-----------------------------------------------------------------------------
Handle(s) == OpenSession(s) \/ Read(s) \/ Change(s) \/ CloseSession(s) \/ NotSignedIn(s) \/ Fail(s)
UserDoes(s) == Login(s) \/ Write(s) \/ SignOut(s)
Listen(s) == \/ MeAnswered(s) \/ LoginAnswered(s) \/ LogoutAnswered(s)
             \/ WriteAnswered(s) \/ PollAnswered(s) \/ ReloadAnswered(s)

Next ==
    \/ Expire \/ Report \/ Effects \/ Load
    \/ \E s \in Slot : Handle(s) \/ UserDoes(s) \/ Poll(s) \/ Listen(s)

Spec == Init /\ [][Next]_vars

\* Every request is answered, by the hub itself again and again, and the browser
\* runs what is due (SF: the bound on requests may hold it up).
Fairness ==
    /\ SF_vars(Effects) /\ SF_vars(\E s \in Slot : Poll(s))
    /\ \A s \in Slot : WF_vars(Handle(s)) /\ WF_vars(Listen(s))
    /\ SF_vars(\E s \in Slot : Read(s) \/ NotSignedIn(s))

FairSpec == Spec /\ Fairness

-----------------------------------------------------------------------------
(* What is shown. *)

\* The node list never goes back in time while somebody is signed in, however
\* polls and refreshes overlap and whichever answer comes first.
NeverOlder ==
    [][nodes'.session = nodes.session => nodes'.version >= nodes.version]_vars

\* Once a change is acknowledged, no list from before it appears: polls that were
\* under way are superseded by the refresh perform makes.
OwnWritesAppear ==
    [][nodes' # nodes /\ nodes'.session = written.session /\ nodes'.session # None
         => nodes'.version >= written.version]_vars

\* Polling goes on through errors: what the hub knows is shown, unless the user leaves.
ListCatchesUp ==
    \A v \in Version :
        (shown # None /\ version >= v) ~> (nodes.version >= v \/ user = None \/ shown = None)

-----------------------------------------------------------------------------
(* What the architecture notes say. *)

=============================================================================
