--------------------------- MODULE Console_proofs ---------------------------
(***************************************************************************)
(* Theorems about Console, for any number of requests, sessions and        *)
(* changes: what the page shows of the node list never goes back.          *)
(***************************************************************************)
EXTENDS Console, TLAPS

\* Nothing on the page or on its way is newer than the hub's tables.
Behind ==
    /\ nodes.version <= version
    /\ written.version <= version
    /\ \A s \in Slot : flight[s].kind # "free" => flight[s].version <= version

\* A list that was fetched has a session.
FetchedInSession ==
    /\ nodes.session = None => nodes.version = 0
    /\ \A s \in Slot :
          flight[s].kind \in {"poll", "reload"} /\ flight[s].answer = "ok"
            => flight[s].session # None

\* The answer that is current will not take the page back.
LatestIsNewest ==
    latest # NoSlot /\ flight[latest].answer = "ok"
      => /\ flight[latest].version >= nodes.version
         /\ flight[latest].version >= written.version

ListInv == TypeOK /\ Behind /\ FetchedInSession /\ LatestIsNewest

-----------------------------------------------------------------------------
(* The types of a request that is asked anew, and of all that are on their way. *)

LEMMA AskIsRequest ==
  ASSUME NEW kind \in Kind, NEW cookie \in Session \cup {None}, NEW for \in Session \cup {None}
  PROVE  Asked(kind, cookie, for) \in Request /\ Asked(kind, cookie, for).kind = kind
  BY ConsoleAssumption DEF ConsoleAssumption, Asked, Request, Version, None

Flights == [Slot -> Request \cup {Free}]

LEMMA NoListIsList == NoList \in List
  BY ConsoleAssumption DEF ConsoleAssumption, NoList, List, Version, None

LEMMA OneChanges ==
  ASSUME flight \in Flights, NEW s \in Slot, NEW r \in Request \cup {Free},
         flight' = [flight EXCEPT ![s] = r]
  PROVE  /\ flight' \in Flights
         /\ flight'[s] = r
         /\ \A t \in Slot \ {s} : flight'[t] = flight[t]
  BY DEF Flights

LEMMA AnswerIsRequest ==
  ASSUME flight \in Flights, NEW s \in Slot, flight[s].kind # "free",
         NEW session \in Session \cup {None}, NEW v \in Version, AnswerWith(s, session, v)
  PROVE  /\ flight' \in Flights
         /\ \A t \in Slot : flight'[t].kind = flight[t].kind
  <1>1. flight[s] \in Request
    BY DEF Flights, Free
  <1> DEFINE r == [flight[s] EXCEPT !.answer = "ok", !.session = session, !.version = v]
  <1>2. r \in Request /\ r.kind = flight[s].kind
    <2>1. [flight[s] EXCEPT !.answer = "ok"] \in Request
      BY <1>1 DEF Request
    <2>2. [[flight[s] EXCEPT !.answer = "ok"] EXCEPT !.session = session] \in Request
      BY <2>1 DEF Request
    <2>3. [[[flight[s] EXCEPT !.answer = "ok"] EXCEPT !.session = session] EXCEPT !.version = v]
            \in Request
      BY <2>2 DEF Request
    <2>4. r \in Request
      BY <2>3
    <2>5. r.kind = flight[s].kind
      BY <1>1 DEF Request
    <2> QED
      BY <2>4, <2>5
  <1>3. flight' = [flight EXCEPT ![s] = r]
    BY <1>1 DEF AnswerWith, Flights
  <1> HIDE DEF r
  <1>4. flight' \in Flights /\ flight'[s] = r /\ \A t \in Slot \ {s} : flight'[t] = flight[t]
    BY <1>2, <1>3, OneChanges
  <1> QED
    BY <1>2, <1>4

LEMMA LoadIsFlights ==
  ASSUME NEW s \in Slot, NEW cookie \in Session \cup {None}
  PROVE  Loaded(s, cookie) \in Flights
  <1>1. Asked("me", cookie, None) \in Request
    BY AskIsRequest DEF Kind
  <1> QED
    BY <1>1 DEF Loaded, Flights

-----------------------------------------------------------------------------
LEMMA InitHolds == Init => ListInv
  <1>1. SUFFICES ASSUME Init PROVE ListInv
    OBVIOUS
  <1>2. PICK s \in Slot : flight = Loaded(s, None)
    BY <1>1 DEF Init
  <1>3. TypeOK
    <2>1. flight \in Flights
      BY <1>2, LoadIsFlights
    <2>2. last \in 0 .. MaxSession /\ version \in Version
      BY <1>1, ConsoleAssumption DEF ConsoleAssumption, Init, Version
    <2>3. nodes \in List /\ written \in List
      BY <1>1, NoListIsList DEF Init
    <2>4. latest = NoSlot
      BY <1>1 DEF Init
    <2> QED
      BY <1>1, <2>1, <2>2, <2>3, <2>4 DEF Init, TypeOK, Flights
  <1> QED
    BY <1>1, <1>2, <1>3 DEF Init, ListInv, Behind, FetchedInSession, LatestIsNewest, Loaded, Asked,
         Free, NoList, None

LEMMA NextHolds == ListInv /\ [Next]_vars => ListInv'
  <1>1. SUFFICES ASSUME ListInv, [Next]_vars PROVE ListInv'
    OBVIOUS
  <1> USE ConsoleAssumption DEF ConsoleAssumption

  <1>2. CASE Expire
    BY <1>1, <1>2 DEF Expire, page, ListInv, TypeOK, Behind, FetchedInSession, LatestIsNewest
  <1>3. CASE Report
    BY <1>1, <1>3
    DEF Report, page, ListInv, TypeOK, Behind, FetchedInSession, LatestIsNewest, Request, Free,
        Version, List
  <1>4. CASE Effects
    <2>1. TypeOK'
      <3>1. CASE user = None
        BY <1>1, <1>4, <3>1, NoListIsList DEF Effects, hub, ListInv, TypeOK, Flights
      <3>2. CASE user # None
        <4>1. PICK s \in Slot : Ask(s, "poll", user) /\ latest' = s
          BY <1>4, <3>2 DEF Effects
        <4>2. Asked("poll", jar, user) \in Request /\ Asked("poll", jar, user).kind = "poll"
          BY <1>1, AskIsRequest DEF ListInv, TypeOK, Kind
        <4>3. flight' \in Flights /\ flight'[s].kind = "poll"
          BY <1>1, <4>1, <4>2, OneChanges DEF Ask, ListInv, TypeOK, Flights
        <4> QED
          BY <1>1, <1>4, <3>2, <4>1, <4>3 DEF Effects, hub, ListInv, TypeOK, Flights
      <3> QED
        BY <3>1, <3>2
    <2>2. Behind'
      BY <1>1, <1>4 DEF Effects, hub, Version, NoList, Ask, Asked, ListInv, TypeOK, Behind
    <2>3. FetchedInSession'
      BY <1>1, <1>4 DEF Effects, NoList, Ask, Asked, ListInv, TypeOK, FetchedInSession
    <2>4. LatestIsNewest'
      BY <1>1, <1>4 DEF Effects, Ask, Asked, ListInv, TypeOK, LatestIsNewest
    <2> QED
      BY <2>1, <2>2, <2>3, <2>4 DEF ListInv
  <1>5. CASE Load
    <2>1. TypeOK'
      <3>1. flight' \in Flights
        BY <1>1, <1>5, LoadIsFlights DEF Load, ListInv, TypeOK
      <3> QED
        BY <1>1, <1>5, <3>1, NoListIsList DEF Load, hub, ListInv, TypeOK, Flights
    <2>2. Behind'
      BY <1>1, <1>5 DEF Load, hub, Free, Version, NoList, Asked, Loaded, ListInv, TypeOK, Behind
    <2>3. FetchedInSession'
      BY <1>1, <1>5 DEF Load, Free, NoList, Asked, Loaded, FetchedInSession
    <2>4. LatestIsNewest'
      BY <1>1, <1>5 DEF Load, LatestIsNewest
    <2> QED
      BY <2>1, <2>2, <2>3, <2>4 DEF ListInv
  <1>6. ASSUME NEW s \in Slot, OpenSession(s) PROVE ListInv'
    <2>1. TypeOK'
      <3>1. last + 1 \in Session
        BY <1>1, <1>6 DEF OpenSession, ListInv, TypeOK, Session
      <3>2. flight' \in Flights /\ \A t \in Slot : flight'[t].kind = flight[t].kind
        BY <1>1, <1>6, <3>1, AnswerIsRequest
        DEF OpenSession, Waiting, ListInv, TypeOK, Flights, Version
      <3> QED
        BY <1>1, <1>6, <3>1, <3>2 DEF OpenSession, page, ListInv, TypeOK, Flights
    <2>2. Behind'
      BY <1>1, <1>6 DEF OpenSession, page, AnswerWith, Request, Free, ListInv, TypeOK, Behind
    <2>3. FetchedInSession'
      BY <1>1, <1>6 DEF OpenSession, page, AnswerWith, Waiting, ListInv, TypeOK, FetchedInSession
    <2>4. LatestIsNewest'
      BY <1>1, <1>6 DEF OpenSession, page, AnswerWith, Waiting, ListInv, TypeOK, LatestIsNewest
    <2> QED
      BY <2>1, <2>2, <2>3, <2>4 DEF ListInv
  <1>7. ASSUME NEW s \in Slot, Read(s) PROVE ListInv'
    <2>1. TypeOK'
      <3>1. flight[s].cookie \in Session
        BY <1>1, <1>7 DEF Read, Accepts, ListInv, TypeOK
      <3>2. flight' \in Flights /\ \A t \in Slot : flight'[t].kind = flight[t].kind
        BY <1>1, <1>7, <3>1, AnswerIsRequest DEF Read, Waiting, ListInv, TypeOK, Flights
      <3> QED
        BY <1>1, <1>7, <3>2 DEF Read, hub, page, ListInv, TypeOK, Flights
    <2>2. Behind'
      BY <1>1, <1>7 DEF Read, hub, page, AnswerWith, ListInv, TypeOK, Behind, Version
    <2>3. FetchedInSession'
      BY <1>1, <1>7
      DEF Read, page, AnswerWith, Accepts, ListInv, TypeOK, FetchedInSession, Session, None
    <2>4. LatestIsNewest'
      BY <1>1, <1>7 DEF Read, page, AnswerWith, ListInv, TypeOK, Behind, LatestIsNewest
    <2> QED
      BY <2>1, <2>2, <2>3, <2>4 DEF ListInv
  <1>8. ASSUME NEW s \in Slot, Change(s) PROVE ListInv'
    BY <1>1, <1>8
    DEF Change, page, Answer, AnswerWith, ListInv, TypeOK, Behind, FetchedInSession,
        LatestIsNewest, Request, Free, Version, List
  <1>9. ASSUME NEW s \in Slot, CloseSession(s) PROVE ListInv'
    BY <1>1, <1>9
    DEF CloseSession, page, Answer, Waiting, ListInv, TypeOK, Behind, FetchedInSession,
        LatestIsNewest, Request, Free
  <1>10. ASSUME NEW s \in Slot, NotSignedIn(s) PROVE ListInv'
    BY <1>1, <1>10
    DEF NotSignedIn, hub, page, Answer, ListInv, TypeOK, Behind, FetchedInSession,
        LatestIsNewest, Request, Free
  <1>11. ASSUME NEW s \in Slot, Fail(s) PROVE ListInv'
    BY <1>1, <1>11
    DEF Fail, hub, page, Answer, ListInv, TypeOK, Behind, FetchedInSession, LatestIsNewest,
        Request, Free
  <1>12. ASSUME NEW s \in Slot, Login(s) PROVE ListInv'
    BY <1>1, <1>12
    DEF Login, hub, page, Ask, Asked, ListInv, TypeOK, Behind, FetchedInSession, LatestIsNewest,
        Request, Kind, Free, Version
  <1>13. ASSUME NEW s \in Slot, Write(s) PROVE ListInv'
    BY <1>1, <1>13
    DEF Write, hub, Ask, Asked, ListInv, TypeOK, Behind, FetchedInSession, LatestIsNewest,
        Request, Kind, Free, Version
  <1>14. ASSUME NEW s \in Slot, SignOut(s) PROVE ListInv'
    BY <1>1, <1>14
    DEF SignOut, hub, Ask, Asked, ListInv, TypeOK, Behind, FetchedInSession, LatestIsNewest,
        Request, Kind, Free, Version
  <1>15. ASSUME NEW s \in Slot, Poll(s) PROVE ListInv'
    <2>1. TypeOK'
      <3>1. Asked("poll", jar, shown) \in Request /\ Asked("poll", jar, shown).kind = "poll"
        BY <1>1, AskIsRequest DEF ListInv, TypeOK, Kind
      <3>2. flight' \in Flights /\ flight'[s].kind = "poll"
        BY <1>1, <1>15, <3>1, OneChanges DEF Poll, Ask, ListInv, TypeOK, Flights
      <3> QED
        BY <1>1, <1>15, <3>2 DEF Poll, hub, ListInv, TypeOK, Flights
    <2>2. Behind'
      BY <1>1, <1>15 DEF Poll, hub, Ask, Asked, Version, ListInv, TypeOK, Behind
    <2>3. FetchedInSession'
      BY <1>1, <1>15 DEF Poll, Ask, Asked, ListInv, FetchedInSession
    <2>4. LatestIsNewest'
      BY <1>1, <1>15 DEF Poll, Ask, Asked, ListInv, TypeOK, LatestIsNewest
    <2> QED
      BY <2>1, <2>2, <2>3, <2>4 DEF ListInv
  <1>16. ASSUME NEW s \in Slot, MeAnswered(s) PROVE ListInv'
    BY <1>1, <1>16
    DEF MeAnswered, hub, Answered, Leave, UserAfter, ListInv, TypeOK, Behind, FetchedInSession,
        LatestIsNewest, Request, Free
  <1>17. ASSUME NEW s \in Slot, LoginAnswered(s) PROVE ListInv'
    BY <1>1, <1>17
    DEF LoginAnswered, hub, Answered, Leave, ListInv, TypeOK, Behind, FetchedInSession,
        LatestIsNewest, Request, Free
  <1>18. ASSUME NEW s \in Slot, LogoutAnswered(s) PROVE ListInv'
    <2>1. TypeOK'
      <3>1. flight' \in Flights /\ \A t \in Slot \ {s} : flight'[t] = flight[t]
        BY <1>1, <1>18, OneChanges DEF LogoutAnswered, Leave, ListInv, TypeOK, Flights
      <3>2. latest' # NoSlot => flight'[latest'].kind \in {"poll", "reload"}
        BY <1>1, <1>18, <3>1 DEF LogoutAnswered, Answered, ListInv, TypeOK
      <3> QED
        BY <1>1, <1>18, <3>1, <3>2 DEF LogoutAnswered, UserAfter, hub, ListInv, TypeOK, Flights
    <2>2. Behind'
      BY <1>1, <1>18 DEF LogoutAnswered, hub, Leave, Free, ListInv, Behind
    <2>3. FetchedInSession'
      BY <1>1, <1>18 DEF LogoutAnswered, Leave, Free, ListInv, FetchedInSession
    <2>4. LatestIsNewest'
      BY <1>1, <1>18 DEF LogoutAnswered, Answered, Leave, ListInv, TypeOK, LatestIsNewest
    <2> QED
      BY <2>1, <2>2, <2>3, <2>4 DEF ListInv
  <1>19. ASSUME NEW s \in Slot, WriteAnswered(s) PROVE ListInv'
    <2>1. TypeOK'
      <3>1. flight[s] \in Request
        BY <1>1, <1>19 DEF WriteAnswered, Answered, ListInv, TypeOK, Free
      <3>2. [session |-> flight[s].session, version |-> flight[s].version] \in List
        BY <3>1 DEF Request, List
      <3>3. Asked("reload", jar, user) \in Request /\ Asked("reload", jar, user).kind = "reload"
        BY <1>1, AskIsRequest DEF ListInv, TypeOK, Kind
      <3>4. /\ flight' \in Flights /\ \A t \in Slot \ {s} : flight'[t] = flight[t]
            /\ flight[s].answer = "ok" => flight'[s].kind = "reload"
        BY <1>1, <1>19, <3>3, OneChanges DEF WriteAnswered, Leave, ListInv, TypeOK, Flights
      <3>5. latest' # NoSlot => flight'[latest'].kind \in {"poll", "reload"}
        BY <1>1, <1>19, <3>4 DEF WriteAnswered, Answered, ListInv, TypeOK
      <3>6. latest' \in Slot \cup {NoSlot} /\ written' \in List /\ pending' \in BOOLEAN
        BY <1>1, <1>19, <3>2 DEF WriteAnswered, ListInv, TypeOK
      <3> QED
        BY <1>1, <1>19, <3>4, <3>5, <3>6 DEF WriteAnswered, UserAfter, hub, ListInv, TypeOK, Flights
    <2>2. Behind'
      BY <1>1, <1>19
      DEF WriteAnswered, hub, Answered, Leave, Asked, Free, Version, ListInv, TypeOK, Behind
    <2>3. FetchedInSession'
      BY <1>1, <1>19 DEF WriteAnswered, Leave, Asked, Free, ListInv, TypeOK, FetchedInSession
    <2>4. LatestIsNewest'
      BY <1>1, <1>19 DEF WriteAnswered, Answered, Leave, Asked, ListInv, TypeOK, LatestIsNewest
    <2> QED
      BY <2>1, <2>2, <2>3, <2>4 DEF ListInv
  <1>20. ASSUME NEW s \in Slot, PollAnswered(s) PROVE ListInv'
    BY <1>1, <1>20
    DEF PollAnswered, hub, Leave, NoLonger, UserAfter, ListAnswered, Current, ListInv, TypeOK,
        Behind, FetchedInSession, LatestIsNewest, Request, Free, List
  <1>21. ASSUME NEW s \in Slot, ReloadAnswered(s) PROVE ListInv'
    <2>1. TypeOK'
      <3>1. flight[s] \in Request
        BY <1>1, <1>21 DEF ReloadAnswered, Answered, ListInv, TypeOK, Free
      <3>2. nodes' \in List
        BY <1>1, <1>21, <3>1 DEF ReloadAnswered, ListAnswered, ListInv, TypeOK, Request, List
      <3>3. flight' \in Flights /\ \A t \in Slot \ {s} : flight'[t] = flight[t]
        BY <1>1, <1>21, OneChanges DEF ReloadAnswered, ListAnswered, Leave, ListInv, TypeOK, Flights
      <3>4. /\ latest' # NoSlot => flight'[latest'].kind \in {"poll", "reload"}
            /\ latest' \in Slot \cup {NoSlot}
        BY <1>1, <1>21, <3>3 DEF ReloadAnswered, ListAnswered, NoLonger, ListInv, TypeOK
      <3> QED
        BY <1>1, <1>21, <3>2, <3>3, <3>4
        DEF ReloadAnswered, ListAnswered, UserAfter, hub, ListInv, TypeOK, Flights
    <2>2. Behind'
      BY <1>1, <1>21 DEF ReloadAnswered, hub, Answered, Leave, ListAnswered, Free, ListInv, Behind
    <2>3. FetchedInSession'
      BY <1>1, <1>21
      DEF ReloadAnswered, Answered, Leave, ListAnswered, Free, ListInv, FetchedInSession
    <2>4. LatestIsNewest'
      BY <1>1, <1>21
      DEF ReloadAnswered, Leave, NoLonger, ListAnswered, Current, ListInv, LatestIsNewest
    <2> QED
      BY <2>1, <2>2, <2>3, <2>4 DEF ListInv
  <1>22. CASE UNCHANGED vars
    BY <1>1, <1>22 DEF vars, hub, page, ListInv, TypeOK, Behind, FetchedInSession, LatestIsNewest
  <1> QED
    BY <1>1, <1>2, <1>3, <1>4, <1>5, <1>6, <1>7, <1>8, <1>9, <1>10, <1>11, <1>12,
       <1>13, <1>14, <1>15, <1>16, <1>17, <1>18, <1>19, <1>20, <1>21, <1>22
    DEF Next, Handle, UserDoes, Listen

-----------------------------------------------------------------------------
(* What a step shows. *)

\* The list changes by the answer that is current, or becomes empty.
LEMMA ListChanges ==
  ASSUME Next, nodes' # nodes
  PROVE  \/ nodes' = NoList
         \/ /\ latest \in Slot /\ flight[latest].answer = "ok"
            /\ flight[latest].kind \in {"poll", "reload"}
            /\ nodes' = [session |-> flight[latest].session, version |-> flight[latest].version]
  <1>1. CASE Expire \/ Report \/ Effects \/ Load
    BY <1>1 DEF Expire, Report, Effects, Load, page
  <1>2. ASSUME NEW s \in Slot, Handle(s) \/ UserDoes(s) \/ Poll(s) PROVE nodes' = nodes
    BY <1>2 DEF Handle, UserDoes, OpenSession, Read, Change, CloseSession, NotSignedIn, Fail,
         Login, Write, SignOut, Poll, page
  <1>3. ASSUME NEW s \in Slot, MeAnswered(s) \/ LoginAnswered(s) \/ LogoutAnswered(s) \/ WriteAnswered(s)
        PROVE  nodes' = nodes
    BY <1>3 DEF MeAnswered, LoginAnswered, LogoutAnswered, WriteAnswered
  <1>4. ASSUME NEW s \in Slot, PollAnswered(s) \/ ReloadAnswered(s)
        PROVE  /\ latest \in Slot /\ flight[latest].answer = "ok"
               /\ flight[latest].kind \in {"poll", "reload"}
               /\ nodes' = [session |-> flight[latest].session, version |-> flight[latest].version]
    BY <1>4 DEF PollAnswered, ReloadAnswered, Answered, ListAnswered, Current
  <1> QED
    BY <1>1, <1>2, <1>3, <1>4 DEF Next, Listen

\* For the same session a newer list, or the same one, takes the place of a list.
LEMMA StepForward ==
  ListInv /\ [Next]_vars /\ nodes'.session = nodes.session => nodes'.version >= nodes.version
  <1>1. SUFFICES ASSUME ListInv, Next, nodes' # nodes, nodes'.session = nodes.session
                 PROVE  nodes'.version >= nodes.version
    BY ConsoleAssumption DEF ConsoleAssumption, ListInv, TypeOK, List, Version, vars, page
  <1>2. CASE nodes' = NoList
    BY <1>1, <1>2 DEF ListInv, FetchedInSession, NoList, None
  <1>3. CASE /\ latest \in Slot /\ flight[latest].answer = "ok"
             /\ nodes' = [session |-> flight[latest].session, version |-> flight[latest].version]
    BY <1>1, <1>3, ConsoleAssumption DEF ConsoleAssumption, ListInv, LatestIsNewest
  <1> QED
    BY <1>1, <1>2, <1>3, ListChanges

\* A list that appears is not older than the last acknowledged change.
LEMMA StepShowsWrites ==
  ListInv /\ [Next]_vars /\ nodes' # nodes /\ nodes'.session = written.session /\ nodes'.session # None
    => nodes'.version >= written.version
  <1>1. SUFFICES ASSUME ListInv, Next, nodes' # nodes, nodes'.session # None
                 PROVE  nodes'.version >= written.version
    BY DEF vars, page
  <1>2. /\ latest \in Slot /\ flight[latest].answer = "ok"
        /\ nodes' = [session |-> flight[latest].session, version |-> flight[latest].version]
    BY <1>1, ListChanges DEF NoList
  <1> QED
    BY <1>1, <1>2, ConsoleAssumption DEF ConsoleAssumption, ListInv, LatestIsNewest

-----------------------------------------------------------------------------
LEMMA ListHolds == Spec => []ListInv
  BY InitHolds, NextHolds, PTL DEF Spec

\* Requests, answers and what the page keeps have their types, and a request that
\* is current is one for the list of nodes.
THEOREM TypeCorrect == Spec => []TypeOK
  <1>1. ListInv => TypeOK
    BY DEF ListInv
  <1> QED
    BY <1>1, ListHolds, PTL

\* The node list never goes back in time while somebody is signed in, with any
\* number of requests answered in any order (useNodes' check of the newest request).
THEOREM ListNeverGoesBack == Spec => NeverOlder
  <1>1. ListInv /\ [Next]_vars =>
          [nodes'.session = nodes.session => nodes'.version >= nodes.version]_vars
    BY StepForward
  <1> QED
    BY <1>1, ListHolds, PTL DEF Spec, NeverOlder

\* After a change is acknowledged no list read before it appears, whatever polls
\* were under way (perform's refresh supersedes them).
THEOREM WritesAreShown == Spec => OwnWritesAppear
  <1>1. ListInv /\ [Next]_vars =>
          [nodes' # nodes /\ nodes'.session = written.session /\ nodes'.session # None
             => nodes'.version >= written.version]_vars
    BY StepShowsWrites
  <1> QED
    BY <1>1, ListHolds, PTL DEF Spec, OwnWritesAppear
=============================================================================
