---------------------------- MODULE Pages_proofs ----------------------------
(***************************************************************************)
(* What holds of the panels for any number of requests on their way, any   *)
(* ranges and filters, and however often the hub's answers change.         *)
(***************************************************************************)
EXTENDS Pages, TLAPS

TrendInv ==
    /\ trend.timer => page = "dashboard"
    /\ OneChain

\* The one request for statistics is for the query as it stands.
StatsInv ==
    /\ \A s, t \in Of("stats") : s = t
    /\ \A s \in Of("stats") : flight[s].for = stats.query
    /\ stats.timer => Of("stats") = {}
    /\ stats.busy <=> stats.timer \/ Of("stats") # {}
    /\ stats.busy => stats.query # None
    /\ stats.result # None => stats.result.query = stats.query
    /\ IF page = "stats" THEN stats.busy \/ stats.error \/ stats.result # None
                         ELSE stats = NoStats

\* What the one request of the dialog brings was read after what is shown.
CardInv ==
    /\ \A s, t \in Of("card") : s = t
    /\ \/ card.open
       \/ Of("card") = {} /\ card.range = None
    /\ card.range # None => card.history \in 0 .. version /\ card.events \in 0 .. version
    /\ \A s \in Of("card") : \A p \in {"history", "events"} \ flight[s].left :
          /\ flight[s].got[p] \in 0 .. version
          /\ card.range # None => flight[s].got[p] >= card[p]

\* The text is only loaded before it is edited; the one save that was not typed over is
\* of the text as it stands, and once it is answered the hub has it.
CopyInv ==
    /\ \A s, t \in Of("load") : s = t
    /\ Of("load") # {} => copy.text = None
    /\ copy.text = None => Of("save") = {} /\ ~ copy.saved
    /\ \A s, t \in Of("save") : s = t
    /\ copy.busy <=> Of("save") # {}
    /\ copy.saved => ~ copy.busy
    /\ \A s \in Of("save") :
          /\ ~ edit.over => flight[s].for = copy.text
          /\ flight[s].left = {} /\ ~ flight[s].failed => edit.taken = flight[s].for
    /\ SavedIsTaken
-----------------------------------------------------------------------------
(* What a step does to the slots. *)

FlightOK == flight \in [Slot -> {Free, Late} \cup Request]

\* The requests of a panel stay as they are.
Keeps(panel) == Of(panel)' = Of(panel) /\ \A t \in Of(panel) : flight'[t] = flight[t]

LEMMA IsRequest ==
    ASSUME FlightOK, NEW s \in Slot, flight[s].panel \notin {"none", "late"}
    PROVE  flight[s] \in Request
  BY DEF FlightOK, Free, Late

LEMMA OthersKeep ==
    ASSUME NEW s \in Slot, NEW p, flight[s].panel # p, flight'[s].panel # p,
           \A t \in Slot \ {s} : flight'[t] = flight[t]
    PROVE  Keeps(p)
  BY DEF Keeps, Of

LEMMA AskedIsRequest ==
    ASSUME NEW panel \in Panel, NEW for \in Target(panel),
           NEW parts \in SUBSET Part
    PROVE  Asked(panel, for, parts) \in Request /\ Asked(panel, for, parts).panel = panel
  <1> DEFINE nothing == [p \in Part |-> None]
  <1>1. /\ nothing \in [Part -> Version \cup Texts \cup {None}]
        /\ nothing \in [Part -> Version \cup {None}] /\ nothing["all"] = None
    BY DEF Part
  <1> HIDE DEF nothing
  <1>2. Asked(panel, for, parts) = [panel |-> panel, for |-> for, failed |-> FALSE,
                                    left |-> parts, got |-> nothing]
    BY DEF Asked, nothing
  <1>3. for \in {None} \cup Hours \cup Texts \cup Ranges
    BY DEF Target, Panel
  <1> QED
    BY <1>1, <1>2, <1>3 DEF Request

LEMMA AfterAsk ==
    ASSUME FlightOK, NEW s \in Slot, NEW panel \in Panel, NEW parts \in SUBSET Part,
           NEW for \in Target(panel),
           Ask(flight, s, panel, for, parts)
    PROVE  /\ FlightOK' /\ flight'[s] = Asked(panel, for, parts)
           /\ \A t \in Slot \ {s} : flight'[t] = flight[t]
           /\ Of(panel)' = Of(panel) \cup {s}
           /\ \A p \in Panel \ {panel} : Keeps(p)
  <1>1. /\ flight[s].panel = "none" /\ flight'[s] = Asked(panel, for, parts)
        /\ \A t \in Slot \ {s} : flight'[t] = flight[t]
        /\ flight' \in [Slot -> {Free, Late} \cup Request]
    BY AskedIsRequest DEF Ask, FlightOK, Free
  <1>2. flight'[s].panel = panel
    BY <1>1, AskedIsRequest
  <1>3. \A p \in Panel \ {panel} : Keeps(p)
    BY <1>1, <1>2, OthersKeep DEF Panel
  <1>4. Of(panel)' = Of(panel) \cup {s}
    BY <1>1, <1>2 DEF Of
  <1>5. FlightOK'
    BY <1>1 DEF FlightOK, Request
  <1> QED
    BY <1>1, <1>3, <1>4, <1>5

LEMMA CleanedIsOK ==
    ASSUME FlightOK, NEW panel
    PROVE  /\ Cleaned(panel) \in [Slot -> {Free, Late} \cup Request]
           /\ \A t \in Slot : Cleaned(panel)[t] = IF flight[t].panel = panel THEN Late ELSE flight[t]
  BY DEF Cleaned, Of, FlightOK

LEMMA AfterCleaned ==
    ASSUME FlightOK, NEW panel \in Panel, flight' = Cleaned(panel)
    PROVE  FlightOK' /\ Of(panel)' = {} /\ \A p \in Panel \ {panel} : Keeps(p)
  <1>1. \A t \in Slot : flight'[t] = IF flight[t].panel = panel THEN Late ELSE flight[t]
    BY CleanedIsOK
  <1>2. Late.panel = "late"
    BY DEF Late
  <1>3. Of(panel)' = {}
    BY <1>1, <1>2 DEF Of, Panel
  <1>4. ASSUME NEW p \in Panel \ {panel} PROVE Keeps(p)
    BY <1>1, <1>2 DEF Keeps, Of, Panel
  <1>5. FlightOK'
    BY CleanedIsOK DEF FlightOK, Request
  <1> QED
    BY <1>3, <1>4, <1>5

LEMMA AfterAskAgain ==
    ASSUME FlightOK, NEW s \in Slot, NEW panel \in Panel, NEW parts \in SUBSET Part,
           NEW for \in Target(panel),
           Ask(Cleaned(panel), s, panel, for, parts)
    PROVE  /\ FlightOK' /\ flight'[s] = Asked(panel, for, parts)
           /\ Of(panel)' = {s}
           /\ \A p \in Panel \ {panel} : Keeps(p)
  <1>1. /\ flight[s].panel = "none" /\ flight'[s] = Asked(panel, for, parts)
        /\ \A t \in Slot \ {s} : flight'[t] = IF flight[t].panel = panel THEN Late ELSE flight[t]
        /\ flight' \in [Slot -> {Free, Late} \cup Request]
    BY AskedIsRequest, CleanedIsOK DEF Ask, Free
  <1>2. flight'[s].panel = panel /\ Late.panel = "late"
    BY <1>1, AskedIsRequest DEF Late
  <1>3. ASSUME NEW p \in Panel \ {panel} PROVE Keeps(p)
    BY <1>1, <1>2 DEF Keeps, Of, Panel
  <1>4. Of(panel)' = {s}
    BY <1>1, <1>2 DEF Of, Panel
  <1>5. FlightOK'
    BY <1>1 DEF FlightOK, Request
  <1> QED
    BY <1>1, <1>3, <1>4, <1>5

LEMMA AfterLeave ==
    ASSUME FlightOK, NEW s \in Slot, Leave(s)
    PROVE  /\ FlightOK' /\ flight'[s].panel = "none"
           /\ \A t \in Slot \ {s} : flight'[t] = flight[t]
           /\ \A p \in Panel : Of(p)' = Of(p) \ {s}
           /\ \A p \in Panel : s \notin Of(p) => Keeps(p)
  <1>1. /\ flight' \in [Slot -> {Free, Late} \cup Request] /\ flight'[s] = Free
        /\ \A t \in Slot \ {s} : flight'[t] = flight[t]
    BY DEF Leave, FlightOK
  <1>2. flight'[s].panel = "none"
    BY <1>1 DEF Free
  <1>3. ASSUME NEW p \in Panel PROVE Of(p)' = Of(p) \ {s} /\ (s \notin Of(p) => Keeps(p))
    BY <1>1, <1>2 DEF Keeps, Of, Panel
  <1>4. FlightOK'
    BY <1>1 DEF FlightOK, Request
  <1> QED
    BY <1>1, <1>2, <1>3, <1>4

\* An answer changes the slot of its request, and the panel it belongs to stays.
AnswerAt(s) ==
    /\ FlightOK'
    /\ \A t \in Slot \ {s} : flight'[t] = flight[t]
    /\ flight[s] \in Request /\ flight'[s] \in Request
    /\ flight'[s].panel = flight[s].panel /\ flight'[s].for = flight[s].for
    /\ \A p \in Panel : Of(p)' = Of(p) /\ (s \notin Of(p) => Keeps(p))

LEMMA AfterAnswer ==
    ASSUME FlightOK, NEW s \in Slot, NEW r \in Request, flight[s] \in Request,
           flight' = [flight EXCEPT ![s] = r],
           r.panel = flight[s].panel, r.for = flight[s].for
    PROVE  AnswerAt(s) /\ flight'[s] = r
  <1>1. /\ flight' \in [Slot -> {Free, Late} \cup Request] /\ flight'[s] = r
        /\ \A t \in Slot \ {s} : flight'[t] = flight[t]
    BY DEF FlightOK
  <1>2. ASSUME NEW p \in Panel PROVE Of(p)' = Of(p) /\ (s \notin Of(p) => Keeps(p))
    BY <1>1 DEF Keeps, Of
  <1>3. FlightOK'
    BY <1>1 DEF FlightOK, Request
  <1> QED
    BY <1>1, <1>2, <1>3 DEF AnswerAt

LEMMA AfterRead ==
    ASSUME FlightOK, version \in Version, NEW s \in Slot, NEW q \in Part, Read(s, q)
    PROVE  /\ AnswerAt(s) /\ flight[s].panel \in {"trend", "stats", "card"}
           /\ flight'[s].left = flight[s].left \ {q}
           /\ flight'[s].got = [flight[s].got EXCEPT ![q] = version]
  <1>1. flight[s].panel \in {"trend", "stats", "card"} /\ flight[s] \in Request
    BY IsRequest DEF Read
  <1> DEFINE got == [flight[s].got EXCEPT ![q] = version]
  <1> DEFINE r == [flight[s] EXCEPT !.left = @ \ {q}, !.got = got]
  <1>2. /\ flight[s].got \in [Part -> Version \cup {None}]
        /\ flight[s].panel \in Panel /\ flight[s].for \in {None} \cup Hours \cup Texts \cup Ranges
        /\ flight[s].failed \in BOOLEAN /\ flight[s].left \in SUBSET Part
        /\ flight[s] = [panel |-> flight[s].panel, for |-> flight[s].for,
                        failed |-> flight[s].failed, left |-> flight[s].left, got |-> flight[s].got]
    BY <1>1 DEF Request
  <1>4. got \in [Part -> Version \cup {None}]
    BY <1>2
  <1>5. flight' = [flight EXCEPT ![s] = r]
    BY DEF Read
  <1> HIDE DEF got
  <1>3. r.left = flight[s].left \ {q} /\ r.got = got
    BY <1>1 DEF Request
  <1>6. r \in Request /\ r.panel = flight[s].panel /\ r.for = flight[s].for
    BY <1>1, <1>2, <1>4 DEF Request
  <1> HIDE DEF r
  <1>7. AnswerAt(s) /\ flight'[s] = r
    BY <1>1, <1>5, <1>6, AfterAnswer
  <1> QED
    BY <1>1, <1>3, <1>7 DEF got

LEMMA AfterFail ==
    ASSUME FlightOK, NEW s \in Slot, Fail(s)
    PROVE  AnswerAt(s) /\ flight'[s] = [flight[s] EXCEPT !.failed = TRUE]
  <1>1. flight[s] \in Request
    BY IsRequest DEF Fail
  <1> DEFINE r == [flight[s] EXCEPT !.failed = TRUE]
  <1>2. flight' = [flight EXCEPT ![s] = r]
    BY DEF Fail
  <1>3. r \in Request /\ r.panel = flight[s].panel /\ r.for = flight[s].for
    BY <1>1 DEF Request
  <1> HIDE DEF r
  <1>4. AnswerAt(s) /\ flight'[s] = r
    BY <1>1, <1>2, <1>3, AfterAnswer
  <1> QED
    BY <1>4 DEF r

LEMMA AfterCopyRead ==
    ASSUME FlightOK, stored \in Texts, NEW s \in Slot, CopyRead(s)
    PROVE  AnswerAt(s) /\ flight[s].panel = "load"
  <1>1. flight[s].panel = "load" /\ flight[s] \in Request
    BY IsRequest DEF CopyRead, Of
  <1> DEFINE got == [flight[s].got EXCEPT !["all"] = stored]
  <1> DEFINE r == [flight[s] EXCEPT !.left = {}, !.got = got]
  <1>2. flight' = [flight EXCEPT ![s] = r]
    BY DEF CopyRead
  <1>3. got \in [Part -> Version \cup Texts \cup {None}]
    BY <1>1 DEF Request, Part
  <1>4. got["all"] = stored
    BY <1>1 DEF Request, Part
  <1> HIDE DEF got
  <1>6. r \in Request /\ r.panel = flight[s].panel /\ r.for = flight[s].for
    BY <1>1, <1>3, <1>4 DEF Request
  <1> HIDE DEF r
  <1> QED
    BY <1>1, <1>2, <1>6, AfterAnswer

LEMMA AfterCopyTaken ==
    ASSUME FlightOK, NEW s \in Slot, CopyTaken(s)
    PROVE  AnswerAt(s) /\ flight[s].panel \in {"save", "left save"}
  <1>1. flight[s].panel \in {"save", "left save"} /\ flight[s] \in Request
    BY IsRequest DEF CopyTaken, Of
  <1>2. PICK lost \in BOOLEAN : flight' = [flight EXCEPT ![s].left = {}, ![s].failed = lost]
    BY DEF CopyTaken
  <1> DEFINE r == [flight[s] EXCEPT !.left = {}, !.failed = lost]
  <1>3. flight' = [flight EXCEPT ![s] = r]
    BY <1>2
  <1>4. r \in Request /\ r.panel = flight[s].panel /\ r.for = flight[s].for
    BY <1>1 DEF Request
  <1> HIDE DEF r
  <1> QED
    BY <1>1, <1>3, <1>4, AfterAnswer

\* After another page was chosen.
LEMMA LeftIsOK ==
    ASSUME FlightOK
    PROVE  /\ Left \in [Slot -> {Free, Late} \cup Request]
           /\ \A t \in Slot : Left[t].panel \in {"none", "late", "left save"}
  <1>1. Left = [t \in Slot |-> IF flight[t].panel = "save"
                                THEN [flight[t] EXCEPT !.panel = "left save"]
                                ELSE IF flight[t] = Free THEN Free ELSE Late]
    BY DEF Left, CopyLeft, Of
  <1>2. ASSUME NEW t \in Slot
        PROVE  /\ Left[t] \in {Free, Late} \cup Request
               /\ Left[t].panel \in {"none", "late", "left save"}
    <2>1. CASE flight[t].panel = "save"
      <3>1. flight[t] \in Request
        BY <2>1, IsRequest
      <3>2. Left[t] = [flight[t] EXCEPT !.panel = "left save"]
        BY <1>1, <2>1
      <3>3. Target("save") = Target("left save")
        BY DEF Target
      <3> QED
        BY <2>1, <3>1, <3>2, <3>3 DEF Request, Panel
    <2>2. CASE flight[t].panel # "save"
      BY <1>1, <2>2 DEF Free, Late
    <2> QED
      BY <2>1, <2>2
  <1> QED
    BY <1>1, <1>2

LEMMA AfterLeft ==
    ASSUME FlightOK, flight' = Left
    PROVE  FlightOK' /\ \A p \in Panel \ {"left save"} : Of(p)' = {}
  <1>1. FlightOK'
    BY LeftIsOK DEF FlightOK, Request
  <1> QED
    BY <1>1, LeftIsOK DEF Of, Panel

LEMMA AfterAskLeft ==
    ASSUME FlightOK, NEW s \in Slot, NEW panel \in {"trend", "load"},
           Ask(Left, s, panel, None, {"all"})
    PROVE  /\ FlightOK' /\ Of(panel)' = {s}
           /\ \A p \in Panel \ {panel, "left save"} : Of(p)' = {}
  <1>0. panel \in Panel /\ {"all"} \in SUBSET Part /\ None \in Target(panel)
    BY DEF Panel, Part, Target
  <1>1. Asked(panel, None, {"all"}) \in Request /\ Asked(panel, None, {"all"}).panel = panel
    BY <1>0, AskedIsRequest
  <1>2. /\ flight' \in [Slot -> {Free, Late} \cup Request]
        /\ flight'[s] = Asked(panel, None, {"all"})
        /\ \A t \in Slot \ {s} : flight'[t] = Left[t]
    BY <1>1, LeftIsOK DEF Ask
  <1>3. FlightOK'
    BY <1>2 DEF FlightOK, Request
  <1>4. \A t \in Slot \ {s} : flight'[t].panel \in {"none", "late", "left save"}
    BY <1>2, LeftIsOK
  <1> QED
    BY <1>1, <1>2, <1>3, <1>4 DEF Of, Panel

-----------------------------------------------------------------------------
(* What the steps of a panel do to the requests of the others. *)

LEMMA TypeOfFlight ==
    ASSUME TypeOK
    PROVE  FlightOK /\ page \in PageName /\ version \in Version /\ stored \in Texts
  BY DEF TypeOK, FlightOK

LEMMA PartsOfAll == {"all"} \in SUBSET Part /\ {"history", "events"} \in SUBSET Part
  BY DEF Part

LEMMA HubStep ==
    ASSUME TypeOK, Hub
    PROVE  /\ FlightOK' /\ page' = page /\ version' \in Version /\ version' >= version
           /\ \A p \in Panel : Of(p)' = Of(p)
           /\ \A p \in Panel : \A t \in Of(p) : flight'[t].for = flight[t].for
  <1>0. FlightOK /\ version \in Version
    BY TypeOfFlight
  <1>1. CASE Pass
    BY <1>0, <1>1, TabAssumption DEF Pass, FlightOK, Request, Of, Version
  <1>2. ASSUME NEW s \in Slot, Fail(s)
        PROVE  /\ FlightOK' /\ page' = page /\ version' = version
               /\ \A p \in Panel : Of(p)' = Of(p)
               /\ \A p \in Panel : \A t \in Of(p) : flight'[t].for = flight[t].for
    BY <1>0, <1>2, AfterFail DEF AnswerAt, Fail, Of
  <1>3. ASSUME NEW s \in Slot, Ignored(s)
        PROVE  /\ FlightOK' /\ page' = page /\ version' = version
               /\ \A p \in Panel : Of(p)' = Of(p)
               /\ \A p \in Panel : \A t \in Of(p) : flight'[t].for = flight[t].for
    <2>0. flight[s].panel = "late"
      BY <1>3 DEF Ignored, Late
    <2>1. \A p \in Panel : s \notin Of(p)
      BY <2>0 DEF Of, Panel
    <2> QED
      BY <1>0, <1>3, <2>1, AfterLeave DEF Ignored, Keeps
  <1>4. ASSUME NEW s \in Slot, NEW q \in Part, Read(s, q)
        PROVE  /\ FlightOK' /\ page' = page /\ version' = version
               /\ \A p \in Panel : Of(p)' = Of(p)
               /\ \A p \in Panel : \A t \in Of(p) : flight'[t].for = flight[t].for
    BY <1>0, <1>4, AfterRead DEF AnswerAt, Read, Of
  <1> QED
    BY <1>0, <1>1, <1>2, <1>3, <1>4 DEF Hub, Version

LEMMA TrendStepKeeps ==
    ASSUME TypeOK, NEW s \in Slot, OfTrend(s)
    PROVE  /\ FlightOK' /\ UNCHANGED <<page, version>>
           /\ \A p \in Panel \ {"trend"} : Keeps(p)
  <1>0. FlightOK /\ "trend" \in Panel /\ None \in Target("trend")
    BY TypeOfFlight DEF Panel, Target
  <1>1. CASE TrendTick(s)
    BY <1>0, <1>1, AfterAsk, PartsOfAll DEF TrendTick
  <1>2. CASE Retry(s)
    BY <1>0, <1>2, AfterAskAgain, PartsOfAll DEF Retry
  <1>3. CASE TrendAnswered(s)
    <2>1. \A p \in Panel \ {"trend"} : s \notin Of(p)
      BY <1>3 DEF TrendAnswered, Of
    <2> QED
      BY <1>0, <1>3, <2>1, AfterLeave DEF TrendAnswered
  <1> QED
    BY <1>1, <1>2, <1>3 DEF OfTrend

LEMMA StatsChangeKeeps ==
    ASSUME TypeOK, Change
    PROVE  /\ FlightOK' /\ UNCHANGED <<page, version>>
           /\ \A p \in Panel \ {"stats"} : Keeps(p)
  <1>0. FlightOK /\ "stats" \in Panel
    BY TypeOfFlight DEF Panel
  <1>1. UNCHANGED <<page, version>> /\ (UNCHANGED flight \/ flight' = Cleaned("stats"))
    BY DEF Change, StatsChange
  <1>2. CASE UNCHANGED flight
    BY <1>0, <1>1, <1>2 DEF FlightOK, Request, Keeps, Of, Version
  <1>3. CASE flight' = Cleaned("stats")
    BY <1>0, <1>1, <1>3, AfterCleaned
  <1> QED
    BY <1>1, <1>2, <1>3

LEMMA StatsStepKeeps ==
    ASSUME TypeOK, StatsInv, NEW s \in Slot, OfStats(s)
    PROVE  /\ FlightOK' /\ UNCHANGED <<page, version>>
           /\ \A p \in Panel \ {"stats"} : Keeps(p)
  <1>0. FlightOK /\ "stats" \in Panel
    BY TypeOfFlight DEF Panel
  <1>1. CASE StatsTick(s)
    <2>1. stats.query \in Target("stats")
      BY <1>1 DEF StatsTick, StatsInv, TypeOK, Target
    <2> QED
      BY <1>0, <1>1, <2>1, AfterAsk, PartsOfAll DEF StatsTick
  <1>2. CASE StatsAnswered(s)
    <2>1. \A p \in Panel \ {"stats"} : s \notin Of(p)
      BY <1>2 DEF StatsAnswered, Of
    <2> QED
      BY <1>0, <1>2, <2>1, AfterLeave DEF StatsAnswered
  <1> QED
    BY <1>1, <1>2 DEF OfStats

LEMMA CardStepKeeps ==
    ASSUME TypeOK, CardClose \/ \E s \in Slot : OfCard(s)
    PROVE  /\ FlightOK' /\ UNCHANGED <<page, version>>
           /\ \A p \in Panel \ {"card"} : Keeps(p)
  <1>0. FlightOK /\ "card" \in Panel /\ Hours = Target("card") /\ Day \in Hours
    BY TypeOfFlight, DetailAssumption DEF Panel, Target, Day
  <1>1. CASE CardClose
    BY <1>0, <1>1, AfterCleaned DEF CardClose
  <1>2. ASSUME NEW s \in Slot, CardOpen(s)
        PROVE  /\ FlightOK' /\ UNCHANGED <<page, version>>
               /\ \A p \in Panel \ {"card"} : Keeps(p)
    BY <1>0, <1>2, AfterAsk, PartsOfAll DEF CardOpen, AskBoth
  <1>3. ASSUME NEW s \in Slot, Sampled(s)
        PROVE  /\ FlightOK' /\ UNCHANGED <<page, version>>
               /\ \A p \in Panel \ {"card"} : Keeps(p)
    <2>1. card.hours \in Hours
      BY <1>0, <1>3 DEF Sampled, TypeOK
    <2> QED
      BY <1>0, <1>3, <2>1, AfterAskAgain, PartsOfAll DEF Sampled, AskBoth
  <1>4. ASSUME NEW s \in Slot, NEW h \in Hours, ChooseHours(s, h)
        PROVE  /\ FlightOK' /\ UNCHANGED <<page, version>>
               /\ \A p \in Panel \ {"card"} : Keeps(p)
    BY <1>0, <1>4, AfterAskAgain, PartsOfAll DEF ChooseHours, AskBoth
  <1>5. ASSUME NEW s \in Slot, CardAnswered(s)
        PROVE  /\ FlightOK' /\ UNCHANGED <<page, version>>
               /\ \A p \in Panel \ {"card"} : Keeps(p)
    <2>1. \A p \in Panel \ {"card"} : s \notin Of(p)
      BY <1>5 DEF CardAnswered, Of
    <2> QED
      BY <1>0, <1>5, <2>1, AfterLeave DEF CardAnswered
  <1> QED
    BY <1>1, <1>2, <1>3, <1>4, <1>5 DEF OfCard

LEMMA CopyStepKeeps ==
    ASSUME TypeOK, Typing \/ \E s \in Slot : OfCopy(s)
    PROVE  /\ FlightOK' /\ UNCHANGED <<page, version>>
           /\ \A p \in Panel \ {"load", "save", "left save"} : Keeps(p)
  <1>0. FlightOK /\ "save" \in Panel /\ stored \in Texts
    BY TypeOfFlight DEF Panel
  <1>1. CASE Typing
    BY <1>0, <1>1 DEF Typing, Type, tab, FlightOK, Request, Keeps, Of, Version
  <1>2. ASSUME NEW s \in Slot, Save(s)
        PROVE  /\ FlightOK' /\ UNCHANGED <<page, version>>
               /\ \A p \in Panel \ {"load", "save", "left save"} : Keeps(p)
    <2>1. copy.text \in Target("save")
      BY <1>2 DEF Save, TypeOK, Target
    <2> QED
      BY <1>0, <1>2, <2>1, AfterAsk, PartsOfAll DEF Save
  <1>3. ASSUME NEW s \in Slot, CopyRead(s) \/ CopyTaken(s)
        PROVE  /\ FlightOK' /\ UNCHANGED <<page, version>>
               /\ \A p \in Panel \ {"load", "save", "left save"} : Keeps(p)
    <2>1. \A p \in Panel \ {"load", "save", "left save"} : s \notin Of(p)
      BY <1>3 DEF CopyRead, CopyTaken, Of
    <2> QED
      BY <1>0, <1>3, <2>1, AfterCopyRead, AfterCopyTaken DEF AnswerAt, CopyRead, CopyTaken
  <1>4. ASSUME NEW s \in Slot, CopyLoaded(s) \/ CopySaved(s)
        PROVE  /\ FlightOK' /\ UNCHANGED <<page, version>>
               /\ \A p \in Panel \ {"load", "save", "left save"} : Keeps(p)
    <2>1. \A p \in Panel \ {"load", "save", "left save"} : s \notin Of(p)
      BY <1>4 DEF CopyLoaded, CopySaved, Of
    <2> QED
      BY <1>0, <1>4, <2>1, AfterLeave DEF CopyLoaded, CopySaved
  <1> QED
    BY <1>1, <1>2, <1>3, <1>4 DEF OfCopy

LEMMA GoToStep ==
    ASSUME TypeOK, NEW p \in PageName, GoTo(p)
    PROVE  /\ FlightOK' /\ page' = p /\ UNCHANGED version
           /\ Of("stats")' = {} /\ Of("card")' = {} /\ Of("save")' = {}
           /\ IF p = "dashboard" THEN \E s \in Slot : Of("trend")' = {s} ELSE Of("trend")' = {}
           /\ IF p = "settings" THEN \E s \in Slot : Of("load")' = {s} ELSE Of("load")' = {}
  <1>0. FlightOK
    BY TypeOfFlight
  <1>1. CASE p = "dashboard"
    <2>1. PICK s \in Slot : Ask(Left, s, "trend", None, {"all"})
      BY <1>1 DEF GoTo, TrendMount
    <2> QED
      BY <1>0, <1>1, <2>1, AfterAskLeft DEF GoTo, Panel
  <1>2. CASE p = "settings"
    <2>1. PICK s \in Slot : Ask(Left, s, "load", None, {"all"})
      BY <1>2 DEF GoTo, CopyMount
    <2> QED
      BY <1>0, <1>2, <2>1, AfterAskLeft DEF GoTo, Panel
  <1>3. CASE p \in {"overview", "stats"}
    BY <1>0, <1>3, AfterLeft DEF GoTo, StatsMount, Panel
  <1> QED
    BY <1>1, <1>2, <1>3 DEF PageName

-----------------------------------------------------------------------------
(* Types. *)

TrendType ==
    trend \in [points : Version \cup {None}, error : BOOLEAN, loaded : BOOLEAN, timer : BOOLEAN]

StatsType ==
    /\ stats \in [criteria : Criteria \cup {None}, query : Ranges \cup {None}, timer : BOOLEAN,
                  busy : BOOLEAN, error : BOOLEAN, result : Results \cup {None}]
    /\ page = "stats" => stats.criteria \in Criteria

CardType ==
    /\ card \in [open : BOOLEAN, hours : Hours \cup {None}, history : Version \cup {None},
                 events : Version \cup {None}, range : Hours \cup {None}, error : BOOLEAN]
    /\ card.open => card.hours \in Hours

CopyType ==
    /\ stored \in Texts
    /\ copy \in [text : Texts \cup {None}, saved : BOOLEAN, busy : BOOLEAN, error : BOOLEAN]
    /\ edit \in [taken : Texts \cup {None}, over : BOOLEAN]

LEMMA TypeByParts ==
    TypeOK <=> page \in PageName /\ version \in Version /\ FlightOK
               /\ TrendType /\ StatsType /\ CardType /\ CopyType
  BY DEF TypeOK, FlightOK, TrendType, StatsType, CardType, CopyType

LEMMA AnswerTypes ==
    ASSUME FlightOK, NEW s \in Slot, flight[s].panel \in Panel
    PROVE  /\ flight[s].for \in Target(flight[s].panel) /\ flight[s].failed \in BOOLEAN
           /\ flight[s].left \in SUBSET Part
           /\ flight[s].panel # "load" => flight[s].got \in [Part -> Version \cup {None}]
           /\ flight[s].panel = "load" => flight[s].got["all"] \in Texts \cup {None}
  <1>1. flight[s] \in Request
    BY IsRequest DEF Panel
  <1> QED
    BY <1>1 DEF Request

LEMMA TrendTypeStep ==
    ASSUME TypeOK, NEW s \in Slot, OfTrend(s)
    PROVE  TrendType'
  <1>0. FlightOK /\ TrendType
    BY TypeByParts
  <1>1. CASE TrendTick(s) \/ Retry(s)
    BY <1>0, <1>1 DEF TrendTick, Retry, TrendType, Version
  <1>2. CASE TrendAnswered(s)
    <2>1. flight[s].got \in [Part -> Version \cup {None}] /\ flight[s].failed \in BOOLEAN
      BY <1>0, <1>2, AnswerTypes DEF TrendAnswered, Of, Panel
    <2>2. flight[s].got["all"] \in Version \cup {None}
      BY <2>1 DEF Part
    <2> QED
      BY <1>0, <1>2, <2>1, <2>2 DEF TrendAnswered, TrendType, Version
  <1> QED
    BY <1>1, <1>2 DEF OfTrend

LEMMA QueryType ==
    ASSUME NEW c \in Criteria, NEW now \in Int
    PROVE  Query(c, now) \in Ranges \cup {None}
  <1> DEFINE to == IF c.period = Custom THEN c.end ELSE now
             from == IF c.period = Custom THEN c.start ELSE to - c.period
  <1>1. /\ c.period \in Periods \cup {Custom} /\ c.start \in Int \cup {None}
        /\ c.end \in Int \cup {None} /\ c.filter \in Filters
    BY StatsAssumption DEF Criteria, Values
  <1>2. to \in Int \cup {None} /\ from \in Int \cup {None}
    <2>1. CASE c.period = Custom
      BY <1>1, <2>1
    <2>2. CASE c.period # Custom
      <3>1. c.period \in Int
        BY <1>1, <2>2, StatsAssumption
      <3>2. to = now /\ from = now - c.period
        BY <2>2
      <3> QED
        BY <3>1, <3>2
    <2> QED
      BY <2>1, <2>2
  <1>3. Query(c, now) = IF from # None /\ to # None /\ from < to
                          THEN [from |-> from, to |-> to, filter |-> c.filter] ELSE None
    BY DEF Query
  <1> HIDE DEF from, to
  <1> QED
    BY <1>1, <1>2, <1>3 DEF Ranges

LEMMA RenewedType ==
    ASSUME NEW c \in Criteria, NEW query \in Ranges \cup {None}
    PROVE  /\ Renewed(c, query) \in [criteria : Criteria \cup {None}, query : Ranges \cup {None},
                                     timer : BOOLEAN, busy : BOOLEAN, error : BOOLEAN,
                                     result : Results \cup {None}]
           /\ Renewed(c, query).criteria \in Criteria
  BY DEF Renewed

LEMMA StatsTypeStep ==
    ASSUME TypeOK, StatsInv, Change \/ \E s \in Slot : OfStats(s)
    PROVE  StatsType'
  <1>0. FlightOK /\ StatsType /\ version \in Int
    BY TypeByParts, TabAssumption DEF TypeOK, Version
  <1>1. ASSUME NEW field \in DOMAIN Values, NEW value \in Values[field], StatsChange(field, value)
        PROVE  StatsType'
    <2> DEFINE c == [stats.criteria EXCEPT ![field] = value]
    <2>1. page' = "stats" /\ stats.criteria \in Criteria
      BY <1>0, <1>1 DEF StatsChange, StatsType
    <2>2. c \in Criteria
      BY <2>1 DEF Criteria, Values
    <2>3. stats' = [stats EXCEPT !.criteria = c] \/ stats' = Renewed(c, Query(c, version))
      BY <1>1 DEF StatsChange
    <2> HIDE DEF c
    <2>4. Query(c, version) \in Ranges \cup {None}
      BY <1>0, <2>2, QueryType
    <2>5. CASE stats' = [stats EXCEPT !.criteria = c]
      BY <1>0, <2>1, <2>2, <2>5 DEF StatsType
    <2>6. CASE stats' = Renewed(c, Query(c, version))
      BY <2>1, <2>2, <2>4, <2>6, RenewedType DEF StatsType
    <2> QED
      BY <2>3, <2>5, <2>6
  <1>2. ASSUME NEW s \in Slot, StatsTick(s)
        PROVE  StatsType'
    BY <1>0, <1>2 DEF StatsTick, StatsType
  <1>3. ASSUME NEW s \in Slot, StatsAnswered(s)
        PROVE  StatsType'
    <2>1. flight[s].for \in Ranges
      BY <1>0, <1>3 DEF StatsAnswered, StatsInv, StatsType
    <2>2. CASE flight[s].failed
      BY <1>0, <1>3, <2>2 DEF StatsAnswered, StatsType
    <2>3. CASE ~ flight[s].failed
      <3>1. PICK rows \in Rows :
              stats' = [stats EXCEPT !.busy = FALSE,
                          !.result = [query |-> flight[s].for, rows |-> rows]]
        BY <1>3, <2>3 DEF StatsAnswered
      <3>2. [query |-> flight[s].for, rows |-> rows] \in Results
        BY <2>1 DEF Results
      <3> QED
        BY <1>0, <1>3, <3>1, <3>2 DEF StatsAnswered, StatsType
    <2> QED
      BY <2>2, <2>3
  <1> QED
    BY <1>1, <1>2, <1>3 DEF Change, OfStats

LEMMA CardTypeStep ==
    ASSUME TypeOK, CardClose \/ \E s \in Slot : OfCard(s)
    PROVE  CardType'
  <1>0. FlightOK /\ CardType /\ Day \in Hours
    BY TypeByParts, DetailAssumption DEF Day
  <1>1. CASE CardClose
    BY <1>0, <1>1 DEF CardClose, CardType, Closed, Version
  <1>2. ASSUME NEW s \in Slot, CardOpen(s) PROVE CardType'
    BY <1>0, <1>2 DEF CardOpen, CardType, Closed, Version
  <1>3. ASSUME NEW s \in Slot, Sampled(s) PROVE CardType'
    BY <1>0, <1>3 DEF Sampled, CardType, Version
  <1>4. ASSUME NEW s \in Slot, NEW h \in Hours, ChooseHours(s, h) PROVE CardType'
    BY <1>0, <1>4 DEF ChooseHours, CardType, Version
  <1>5. ASSUME NEW s \in Slot, CardAnswered(s) PROVE CardType'
    <2>1. /\ flight[s].got["history"] \in Version \cup {None}
          /\ flight[s].got["events"] \in Version \cup {None}
          /\ flight[s].for \in Hours
      <3>1. flight[s].panel = "card"
        BY <1>5 DEF CardAnswered, Of
      <3>2. flight[s].got \in [Part -> Version \cup {None}] /\ flight[s].for \in Target("card")
        BY <1>0, <3>1, AnswerTypes DEF Panel
      <3> QED
        BY <3>2 DEF Part, Target
    <2> QED
      BY <1>0, <1>5, <2>1 DEF CardAnswered, CardType, Version
  <1> QED
    BY <1>1, <1>2, <1>3, <1>4, <1>5 DEF OfCard

LEMMA CopyTypeStep ==
    ASSUME TypeOK, Typing \/ \E s \in Slot : OfCopy(s)
    PROVE  CopyType'
  <1>0. FlightOK /\ CopyType
    BY TypeByParts
  <1>1. CASE Typing
    BY <1>0, <1>1 DEF Typing, Type, CopyType
  <1>2. ASSUME NEW s \in Slot, Save(s) \/ CopyRead(s) PROVE CopyType'
    BY <1>0, <1>2 DEF Save, CopyRead, CopyType
  <1>3. ASSUME NEW s \in Slot, CopyTaken(s) PROVE CopyType'
    <2>1. flight[s].panel \in {"save", "left save"}
      BY <1>3 DEF CopyTaken, Of
    <2>2. flight[s].for \in Texts
      BY <1>0, <2>1, AnswerTypes DEF Panel, Target
    <2> QED
      BY <1>0, <1>3, <2>2 DEF CopyTaken, CopyType
  <1>4. ASSUME NEW s \in Slot, CopyLoaded(s) PROVE CopyType'
    <2>1. flight[s].got["all"] \in Texts \cup {None}
      BY <1>0, <1>4, AnswerTypes DEF CopyLoaded, Of, Panel
    <2> QED
      BY <1>0, <1>4, <2>1 DEF CopyLoaded, CopyType
  <1>5. ASSUME NEW s \in Slot, CopySaved(s) PROVE CopyType'
    <2>1. flight[s].failed \in BOOLEAN
      BY <1>0, <1>5, AnswerTypes DEF CopySaved, Of, Panel
    <2> QED
      BY <1>0, <1>5, <2>1 DEF CopySaved, CopyType
  <1> QED
    BY <1>1, <1>2, <1>3, <1>4, <1>5 DEF OfCopy

\* Steps of the page: which panels begin and end.
LEMMA GoToTypes ==
    ASSUME TypeOK, NEW p \in PageName, GoTo(p)
    PROVE  TypeOK'
  <1>0. version \in Version /\ TrendType /\ StatsType /\ CardType /\ CopyType
    BY TypeByParts
  <1>1. FlightOK' /\ page' = p /\ version' = version /\ card' = card /\ stored' = stored
    BY GoToStep DEF GoTo
  <1>2. TrendType'
    <2>1. trend' = NoTrend
      BY DEF GoTo, TrendMount
    <2> QED
      BY <1>1, <2>1 DEF TrendType, NoTrend, Version
  <1>3. StatsType'
    <2>1. CASE p = "stats"
      <3>1. PICK start \in Times \ {None}, end \in Times \ {None} :
               stats' = Renewed(Chosen(start, end), Query(Chosen(start, end), version))
        BY <2>1 DEF GoTo, StatsMount
      <3>2. Chosen(start, end) \in Criteria
        BY StatsAssumption DEF Chosen, Criteria, Values
      <3>3. Query(Chosen(start, end), version) \in Ranges \cup {None}
        BY <1>0, <3>2, QueryType, TabAssumption DEF Version
      <3> QED
        BY <3>1, <3>2, <3>3, RenewedType DEF StatsType
    <2>2. CASE p # "stats"
      <3>1. stats' = NoStats
        BY <2>2 DEF GoTo
      <3> QED
        BY <1>1, <2>2, <3>1 DEF StatsType, NoStats
    <2> QED
      BY <2>1, <2>2
  <1>4. CardType' /\ CopyType'
    <2>1. copy' = NoCopy /\ edit' = NoEdit
      BY DEF GoTo, CopyMount
    <2> QED
      BY <1>0, <1>1, <2>1 DEF CardType, CopyType, NoCopy, NoEdit, Version
  <1>5. TypeOK' <=> page' \in PageName /\ version' \in Version' /\ FlightOK'
                    /\ TrendType' /\ StatsType' /\ CardType' /\ CopyType'
    BY DEF TypeOK, FlightOK, TrendType, StatsType, CardType, CopyType
  <1> QED
    BY <1>0, <1>1, <1>2, <1>3, <1>4, <1>5 DEF Version

\* What a step leaves alone keeps its type: Version is a constant.
LEMMA TypesKept ==
    /\ TrendType /\ UNCHANGED trend => TrendType'
    /\ StatsType /\ UNCHANGED <<stats, page>> => StatsType'
    /\ CardType /\ UNCHANGED card => CardType'
    /\ CopyType /\ UNCHANGED <<stored, copy, edit>> => CopyType'
  BY DEF TrendType, StatsType, CardType, CopyType, Version

LEMMA TypeStep ==
    ASSUME TypeOK, StatsInv, [Next]_vars
    PROVE  TypeOK'
  <1>0. /\ page \in PageName /\ version \in Version /\ FlightOK
        /\ TrendType /\ StatsType /\ CardType /\ CopyType
    BY TypeByParts
  <1> USE DEF PageName
  <1>P. TypeOK' <=> page' \in PageName /\ version' \in Version /\ FlightOK'
                    /\ TrendType' /\ StatsType' /\ CardType' /\ CopyType'
    BY DEF TypeOK, FlightOK, TrendType, StatsType, CardType, CopyType, Version
  <1>1. CASE Hub /\ NotPanels
    BY <1>0, <1>1, <1>P, HubStep, TypesKept DEF NotPanels
  <1>2. CASE (\E s \in Slot : OfTrend(s)) /\ OnlyTrend
    BY <1>0, <1>2, <1>P, TrendStepKeeps, TrendTypeStep, TypesKept DEF OnlyTrend
  <1>3. CASE (Change \/ \E s \in Slot : OfStats(s)) /\ OnlyStats
    <2>1. FlightOK' /\ UNCHANGED <<page, version>>
      BY <1>3, StatsChangeKeeps, StatsStepKeeps
    <2> QED
      BY <1>0, <1>3, <1>P, <2>1, StatsTypeStep, TypesKept DEF OnlyStats
  <1>4. CASE (CardClose \/ \E s \in Slot : OfCard(s)) /\ OnlyCard
    BY <1>0, <1>4, <1>P, CardStepKeeps, CardTypeStep, TypesKept DEF OnlyCard
  <1>5. CASE (Typing \/ \E s \in Slot : OfCopy(s)) /\ OnlyCopy
    BY <1>0, <1>5, <1>P, CopyStepKeeps, CopyTypeStep, TypesKept DEF OnlyCopy
  <1>6. CASE \E p \in PageName : GoTo(p)
    BY <1>6, GoToTypes
  <1>7. CASE UNCHANGED vars
    <2>1. FlightOK'
      BY <1>0, <1>7 DEF FlightOK, Request, Version, vars, tab
    <2> QED
      BY <1>0, <1>7, <1>P, <2>1, TypesKept DEF vars, tab
  <1> QED
    BY <1>1, <1>2, <1>3, <1>4, <1>5, <1>6, <1>7 DEF Next

-----------------------------------------------------------------------------
(* The chain of the curve. *)

LEMMA TrendStep ==
    ASSUME TypeOK, StatsInv, TrendInv, [Next]_vars
    PROVE  TrendInv'
  <1>0. FlightOK /\ "trend" \in Panel /\ None \in Target("trend") /\ TrendType
    BY TypeByParts DEF Panel, Target
  <1>K. ASSUME Of("trend")' = Of("trend"), UNCHANGED <<trend, page>>
        PROVE  TrendInv'
    BY <1>K DEF TrendInv, OneChain
  <1>1. CASE Hub /\ NotPanels
    BY <1>0, <1>1, <1>K, HubStep DEF NotPanels
  <1>2. ASSUME NEW s \in Slot, TrendTick(s) PROVE TrendInv'
    <2>1. page' = page /\ Of("trend")' = Of("trend") \cup {s} /\ ~ trend'.timer
      BY <1>0, <1>2, AfterAsk, PartsOfAll DEF TrendTick, TrendType
    <2>2. page = "dashboard" /\ Of("trend") = {}
      BY <1>2 DEF TrendTick, TrendInv, OneChain
    <2> QED
      BY <2>1, <2>2 DEF TrendInv, OneChain
  <1>3. ASSUME NEW s \in Slot, Retry(s) PROVE TrendInv'
    <2>1. page' = "dashboard" /\ Of("trend")' = {s} /\ ~ trend'.timer
      BY <1>0, <1>3, AfterAskAgain, PartsOfAll DEF Retry, TrendType
    <2> QED
      BY <2>1 DEF TrendInv, OneChain
  <1>4. ASSUME NEW s \in Slot, TrendAnswered(s) PROVE TrendInv'
    <2>1. page' = page /\ s \in Of("trend") /\ Of("trend")' = Of("trend") \ {s}
      BY <1>0, <1>4, AfterLeave DEF TrendAnswered
    <2>2. trend'.timer
      BY <1>0, <1>4 DEF TrendAnswered, TrendType
    <2>3. page = "dashboard" /\ Of("trend") = {s}
      BY <2>1 DEF TrendInv, OneChain
    <2> QED
      BY <2>1, <2>2, <2>3 DEF TrendInv, OneChain
  <1>5. CASE (Change \/ \E s \in Slot : OfStats(s)) /\ OnlyStats
    <2>1. Of("trend")' = Of("trend") /\ page' = page
      BY <1>0, <1>5, StatsChangeKeeps, StatsStepKeeps DEF Keeps
    <2> QED
      BY <1>5, <1>K, <2>1 DEF OnlyStats
  <1>6. CASE (CardClose \/ \E s \in Slot : OfCard(s)) /\ OnlyCard
    BY <1>0, <1>6, <1>K, CardStepKeeps DEF OnlyCard, Keeps
  <1>7. CASE (Typing \/ \E s \in Slot : OfCopy(s)) /\ OnlyCopy
    BY <1>0, <1>7, <1>K, CopyStepKeeps DEF OnlyCopy, Keeps
  <1>8. ASSUME NEW p \in PageName, GoTo(p) PROVE TrendInv'
    <2>1. trend' = NoTrend
      BY <1>8 DEF GoTo, TrendMount
    <2>2. ~ trend'.timer
      BY <2>1 DEF NoTrend
    <2> QED
      BY <1>8, <2>2, GoToStep DEF TrendInv, OneChain
  <1>9. CASE UNCHANGED vars
    BY <1>9, <1>K DEF vars, tab, Of
  <1> QED
    BY <1>1, <1>2, <1>3, <1>4, <1>5, <1>6, <1>7, <1>8, <1>9 DEF Next, OfTrend

-----------------------------------------------------------------------------
(* Statistics. *)

LEMMA StatsStep ==
    ASSUME TypeOK, StatsInv, [Next]_vars
    PROVE  StatsInv'
  <1>0. FlightOK /\ "stats" \in Panel /\ StatsType
    BY TypeByParts DEF Panel
  <1>K. ASSUME Of("stats")' = Of("stats"), UNCHANGED <<stats, page>>,
               \A t \in Of("stats") : flight'[t].for = flight[t].for
        PROVE  StatsInv'
    BY <1>K DEF StatsInv
  <1>O. ASSUME Keeps("stats"), UNCHANGED <<stats, page>>
        PROVE  StatsInv'
    BY <1>K, <1>O DEF Keeps
  <1>1. CASE Hub /\ NotPanels
    BY <1>0, <1>1, <1>K, HubStep DEF NotPanels
  <1>2. CASE (\E s \in Slot : OfTrend(s)) /\ OnlyTrend
    BY <1>0, <1>2, <1>O, TrendStepKeeps DEF OnlyTrend
  <1>3. ASSUME NEW field \in DOMAIN Values, NEW value \in Values[field], StatsChange(field, value)
        PROVE  StatsInv'
    <2> DEFINE c == [stats.criteria EXCEPT ![field] = value]
    <2>1. page' = "stats" /\ page = "stats"
      BY <1>3 DEF StatsChange
    <2>2. \/ stats' = [stats EXCEPT !.criteria = c] /\ UNCHANGED flight
          \/ stats' = Renewed(c, Query(c, version)) /\ flight' = Cleaned("stats")
      BY <1>3 DEF StatsChange
    <2> HIDE DEF c
    <2>3. CASE stats' = [stats EXCEPT !.criteria = c] /\ UNCHANGED flight
      <3>1. Of("stats")' = Of("stats")
        BY <2>3 DEF Of
      <3>2. /\ stats'.query = stats.query /\ stats'.timer = stats.timer
            /\ stats'.busy = stats.busy /\ stats'.error = stats.error
            /\ stats'.result = stats.result
        BY <1>0, <2>3 DEF StatsType
      <3> QED
        BY <2>1, <2>3, <3>1, <3>2 DEF StatsInv
    <2>4. CASE stats' = Renewed(c, Query(c, version)) /\ flight' = Cleaned("stats")
      <3>1. Of("stats")' = {}
        BY <1>0, <2>4, AfterCleaned
      <3> QED
        BY <2>1, <2>4, <3>1 DEF StatsInv, Renewed
    <2> QED
      BY <2>2, <2>3, <2>4
  <1>4. ASSUME NEW s \in Slot, StatsTick(s) PROVE StatsInv'
    <2>1. stats.query \in Target("stats") /\ stats.query # None
      BY <1>0, <1>4 DEF StatsTick, StatsInv, StatsType, Target
    <2>2. Of("stats")' = Of("stats") \cup {s} /\ flight'[s] = Asked("stats", stats.query, {"all"})
      BY <1>0, <1>4, <2>1, AfterAsk, PartsOfAll DEF StatsTick
    <2>3. Of("stats")' = {s} /\ flight'[s].for = stats.query
      BY <1>4, <2>2 DEF StatsTick, StatsInv, Asked
    <2>4. /\ stats'.query = stats.query /\ ~ stats'.timer /\ page' = page
          /\ stats'.busy = stats.busy /\ stats'.error = stats.error
          /\ stats'.result = stats.result
      BY <1>0, <1>4 DEF StatsTick, StatsType
    <2>5. page = "stats" /\ stats.busy
      BY <1>4 DEF StatsTick, StatsInv, NoStats
    <2> QED
      BY <2>1, <2>3, <2>4, <2>5 DEF StatsInv
  <1>5. ASSUME NEW s \in Slot, StatsAnswered(s) PROVE StatsInv'
    <2>1. s \in Of("stats") /\ page' = page
      BY <1>5 DEF StatsAnswered
    <2>2. /\ flight[s].for = stats.query /\ stats.busy /\ ~ stats.timer /\ page = "stats"
          /\ Of("stats") = {s}
      BY <2>1 DEF StatsInv, NoStats
    <2>3. Of("stats")' = {}
      BY <1>0, <1>5, <2>2, AfterLeave DEF StatsAnswered
    <2>4. CASE flight[s].failed
      <3>1. /\ stats'.query = stats.query /\ ~ stats'.timer /\ ~ stats'.busy /\ stats'.error
            /\ stats'.result = stats.result
        BY <1>0, <1>5, <2>2, <2>4 DEF StatsAnswered, StatsType
      <3> QED
        BY <2>1, <2>2, <2>3, <3>1 DEF StatsInv
    <2>5. CASE ~ flight[s].failed
      <3>1. PICK rows \in Rows :
              stats' = [stats EXCEPT !.busy = FALSE,
                          !.result = [query |-> flight[s].for, rows |-> rows]]
        BY <1>5, <2>5 DEF StatsAnswered
      <3>2. stats.query \in Ranges
        BY <1>0, <2>2 DEF StatsType, StatsInv
      <3>3. [query |-> flight[s].for, rows |-> rows] # None
        BY <2>2, <3>2, StatsAssumption DEF Results
      <3>4. /\ stats'.query = stats.query /\ ~ stats'.timer /\ ~ stats'.busy
            /\ stats'.result # None /\ stats'.result.query = stats.query
        BY <1>0, <2>2, <3>1, <3>3 DEF StatsType
      <3> QED
        BY <2>1, <2>2, <2>3, <3>4 DEF StatsInv
    <2> QED
      BY <2>4, <2>5
  <1>6. CASE (CardClose \/ \E s \in Slot : OfCard(s)) /\ OnlyCard
    BY <1>0, <1>6, <1>O, CardStepKeeps DEF OnlyCard
  <1>7. CASE (Typing \/ \E s \in Slot : OfCopy(s)) /\ OnlyCopy
    BY <1>0, <1>7, <1>O, CopyStepKeeps DEF OnlyCopy
  <1>8. ASSUME NEW p \in PageName, GoTo(p) PROVE StatsInv'
    <2>1. Of("stats")' = {} /\ page' = p
      BY <1>8, GoToStep
    <2>2. CASE p = "stats"
      <3>1. PICK start \in Times \ {None}, end \in Times \ {None} :
               stats' = Renewed(Chosen(start, end), Query(Chosen(start, end), version))
        BY <1>8, <2>2 DEF GoTo, StatsMount
      <3> QED
        BY <2>1, <2>2, <3>1 DEF StatsInv, Renewed
    <2>3. CASE p # "stats"
      <3>1. stats' = NoStats
        BY <1>8, <2>3 DEF GoTo
      <3> QED
        BY <2>1, <2>3, <3>1 DEF StatsInv, NoStats
    <2> QED
      BY <2>2, <2>3
  <1>9. CASE UNCHANGED vars
    BY <1>9, <1>K DEF vars, tab, Of
  <1> QED
    BY <1>1, <1>2, <1>3, <1>4, <1>5, <1>6, <1>7, <1>8, <1>9 DEF Next, OfStats, Change

LEMMA StatsInvGives ==
    ASSUME TypeOK, StatsInv
    PROVE  StatsAreAsked /\ EmptyMeansEmpty
  <1>1. CanExport => stats.result # None
    BY DEF CanExport
  <1>2. StatsShow = "users" => stats.result # None
    BY DEF StatsShow, Got
  <1>3. StatsAreAsked
    BY <1>1, <1>2 DEF StatsAreAsked, StatsInv
  <1>4. StatsShow \in {"no match", "no use", "not readable"} =>
            ~ stats.busy /\ ~ stats.error /\ ~ Got("users")
    BY DEF StatsShow
  <1>5. EmptyMeansEmpty
    BY <1>4 DEF EmptyMeansEmpty, StatsInv, Got
  <1> QED
    BY <1>3, <1>5

-----------------------------------------------------------------------------
(* The dialog of a card. *)

LEMMA CardStep ==
    ASSUME TypeOK, StatsInv, CardInv, [Next]_vars
    PROVE  CardInv'
  <1>0. /\ FlightOK /\ "card" \in Panel /\ CardType /\ version \in Nat
        /\ Day \in Hours /\ Hours = Target("card")
    BY TypeByParts, TabAssumption, DetailAssumption DEF Panel, Day, Target, Version
  <1>K. ASSUME Keeps("card"), UNCHANGED card, version' \in Nat, version' >= version
        PROVE  CardInv'
    BY <1>0, <1>K DEF CardInv, Keeps
  <1>1. CASE Hub /\ NotPanels
    <2>1. card' = card
      BY <1>1 DEF NotPanels
    <2>2. CASE Pass
      BY <1>0, <1>K, <2>1, <2>2 DEF Pass, Keeps, Of
    <2>3. ASSUME NEW s \in Slot, Fail(s) PROVE CardInv'
      <3>1. AnswerAt(s) /\ flight[s] \in Request /\ flight'[s] = [flight[s] EXCEPT !.failed = TRUE]
        BY <1>0, <2>3, AfterFail DEF AnswerAt
      <3>2. flight'[s].left = flight[s].left /\ flight'[s].got = flight[s].got
        BY <3>1 DEF Request
      <3>3. version' = version /\ Of("card")' = Of("card") /\ Of("card") \subseteq Slot
        BY <1>0, <2>3, <3>1 DEF AnswerAt, Fail, Of
      <3> QED
        BY <2>1, <3>1, <3>2, <3>3 DEF CardInv, AnswerAt
    <2>4. ASSUME NEW s \in Slot, Ignored(s) PROVE CardInv'
      <3>1. s \notin Of("card")
        BY <2>4 DEF Ignored, Late, Of
      <3> QED
        BY <1>0, <1>K, <2>1, <2>4, <3>1, AfterLeave DEF Ignored
    <2>5. ASSUME NEW s \in Slot, NEW q \in Part, Read(s, q) PROVE CardInv'
      <3>1. /\ AnswerAt(s) /\ flight[s].panel \in {"trend", "stats", "card"}
            /\ flight'[s].left = flight[s].left \ {q}
            /\ flight'[s].got = [flight[s].got EXCEPT ![q] = version]
        BY <2>5, AfterRead, TypeOfFlight
      <3>2. version' = version /\ Of("card")' = Of("card") /\ Of("card") \subseteq Slot
        BY <1>0, <2>5, <3>1 DEF AnswerAt, Read, Of
      <3>3. flight[s].got \in [Part -> Version \cup {None}]
        BY <1>0, <3>1, AnswerTypes DEF Panel
      <3>4. flight'[s].got[q] = version /\ \A p \in Part \ {q} : flight'[s].got[p] = flight[s].got[p]
        BY <3>1, <3>3
      <3>5. card.range # None => card.history \in 0 .. version /\ card.events \in 0 .. version
        BY DEF CardInv
      <3>6. ASSUME NEW t \in Of("card"), NEW p \in {"history", "events"} \ flight'[t].left
            PROVE  /\ flight'[t].got[p] \in 0 .. version
                   /\ card.range # None => flight'[t].got[p] >= card[p]
        <4>1. CASE t # s
          <5>1. flight'[t] = flight[t]
            BY <3>1, <3>2, <4>1 DEF AnswerAt
          <5> QED
            BY <5>1 DEF CardInv
        <4>2. CASE t = s /\ p = q
          <5>1. flight'[t].got[p] = version
            BY <3>4, <4>2
          <5>2. card.range # None => card[p] \in 0 .. version
            BY <3>5
          <5> QED
            BY <1>0, <5>1, <5>2
        <4>3. CASE t = s /\ p # q
          <5>1. p \in {"history", "events"} \ flight[t].left /\ flight'[t].got[p] = flight[t].got[p]
            BY <3>1, <3>4, <4>3 DEF Part
          <5> QED
            BY <5>1 DEF CardInv
        <4> QED
          BY <4>1, <4>2, <4>3
      <3> QED
        BY <2>1, <3>2, <3>5, <3>6 DEF CardInv
    <2> QED
      BY <1>1, <2>2, <2>3, <2>4, <2>5 DEF Hub
  <1>2. CASE (\E s \in Slot : OfTrend(s)) /\ OnlyTrend
    BY <1>0, <1>2, <1>K, TrendStepKeeps DEF OnlyTrend
  <1>3. CASE (Change \/ \E s \in Slot : OfStats(s)) /\ OnlyStats
    <2>1. Keeps("card") /\ version' = version
      BY <1>0, <1>3, StatsChangeKeeps, StatsStepKeeps
    <2> QED
      BY <1>0, <1>3, <1>K, <2>1 DEF OnlyStats
  <1>4. CASE CardClose
    <2>1. Of("card")' = {} /\ card' = Closed
      BY <1>0, <1>4, AfterCleaned DEF CardClose
    <2> QED
      BY <2>1 DEF CardInv, Closed
  <1>A. ASSUME NEW s \in Slot, Of("card")' = {s}, flight'[s].left = {"history", "events"},
               card'.open, version' = version,
               \/ card'.range = None
               \/ /\ card'.range = card.range /\ card'.history = card.history
                  /\ card'.events = card.events
        PROVE  CardInv'
    BY <1>A DEF CardInv
  <1>5. ASSUME NEW s \in Slot, CardOpen(s) PROVE CardInv'
    <2>1. Of("card") = {}
      BY <1>5 DEF CardOpen, CardInv
    <2>2. /\ Of("card")' = Of("card") \cup {s}
          /\ flight'[s] = Asked("card", Day, {"history", "events"})
      BY <1>0, <1>5, AfterAsk, PartsOfAll DEF CardOpen, AskBoth
    <2>3. card'.open /\ card'.range = None /\ version' = version
      BY <1>5 DEF CardOpen, Closed
    <2> QED
      BY <1>A, <2>1, <2>2, <2>3 DEF Asked
  <1>6. ASSUME NEW s \in Slot, Sampled(s) PROVE CardInv'
    <2>1. card.hours \in Hours /\ card' = card /\ card.open /\ version' = version
      BY <1>0, <1>6 DEF Sampled, CardType
    <2>2. Of("card")' = {s} /\ flight'[s] = Asked("card", card.hours, {"history", "events"})
      BY <1>0, <1>6, <2>1, AfterAskAgain, PartsOfAll DEF Sampled, AskBoth
    <2> QED
      BY <1>A, <2>1, <2>2 DEF Asked
  <1>7. ASSUME NEW s \in Slot, NEW h \in Hours, ChooseHours(s, h) PROVE CardInv'
    <2>1. /\ card'.open /\ version' = version /\ card'.range = card.range
          /\ card'.history = card.history /\ card'.events = card.events
      BY <1>0, <1>7 DEF ChooseHours, CardType
    <2>2. Of("card")' = {s} /\ flight'[s] = Asked("card", h, {"history", "events"})
      BY <1>0, <1>7, AfterAskAgain, PartsOfAll DEF ChooseHours, AskBoth
    <2> QED
      BY <1>A, <2>1, <2>2 DEF Asked
  <1>8. ASSUME NEW s \in Slot, CardAnswered(s) PROVE CardInv'
    <2>1. s \in Of("card") /\ version' = version /\ Settled(s)
      BY <1>8 DEF CardAnswered
    <2>2. Of("card") = {s} /\ card.open
      BY <2>1 DEF CardInv
    <2>3. Of("card")' = {}
      BY <1>0, <1>8, <2>2, AfterLeave DEF CardAnswered
    <2>4. CASE flight[s].failed
      <3>1. /\ card'.open /\ card'.range = card.range /\ card'.history = card.history
            /\ card'.events = card.events
        BY <1>0, <1>8, <2>2, <2>4 DEF CardAnswered, CardType
      <3> QED
        BY <2>1, <2>3, <3>1 DEF CardInv
    <2>5. CASE ~ flight[s].failed
      <3>1. /\ card'.open /\ card'.history = flight[s].got["history"]
            /\ card'.events = flight[s].got["events"]
        BY <1>0, <1>8, <2>2, <2>5 DEF CardAnswered, CardType
      <3>2. flight[s].got["history"] \in 0 .. version /\ flight[s].got["events"] \in 0 .. version
        BY <2>1, <2>5 DEF CardInv, Settled
      <3> QED
        BY <2>1, <2>3, <3>1, <3>2 DEF CardInv
    <2> QED
      BY <2>4, <2>5
  <1>9. CASE (Typing \/ \E s \in Slot : OfCopy(s)) /\ OnlyCopy
    <2>1. Keeps("card") /\ version' = version
      BY <1>9, CopyStepKeeps DEF Panel
    <2> QED
      BY <1>0, <1>9, <1>K, <2>1 DEF OnlyCopy
  <1>10. ASSUME NEW p \in PageName, GoTo(p) PROVE CardInv'
    <2>1. Of("card")' = {} /\ card' = card /\ ~ card.open
      BY <1>10, GoToStep DEF GoTo
    <2> QED
      BY <2>1 DEF CardInv
  <1>11. CASE UNCHANGED vars
    BY <1>0, <1>11, <1>K DEF vars, tab, Of, Keeps
  <1> QED
    BY <1>1, <1>2, <1>3, <1>4, <1>5, <1>6, <1>7, <1>8, <1>9, <1>10, <1>11 DEF Next, OfCard

\* A step that replaces the curve takes both parts of an answer.
LEMMA CurveStep ==
    ASSUME TypeOK, CardInv, [Next]_vars, card.range # None, card'.range # None
    PROVE  card'.history >= card.history /\ card'.events >= card.events
  <1>0. CardType /\ card.history \in Nat /\ card.events \in Nat
    BY TypeByParts DEF CardInv
  <1>K. ASSUME card'.history = card.history, card'.events = card.events
        PROVE  card'.history >= card.history /\ card'.events >= card.events
    BY <1>0, <1>K
  <1>1. ASSUME NEW s \in Slot, CardAnswered(s)
        PROVE  card'.history >= card.history /\ card'.events >= card.events
    <2>1. CASE flight[s].failed
      BY <1>0, <1>1, <1>K, <2>1 DEF CardAnswered, CardType
    <2>2. CASE ~ flight[s].failed
      <3>1. /\ card'.history = flight[s].got["history"]
            /\ card'.events = flight[s].got["events"]
        BY <1>0, <1>1, <2>2 DEF CardAnswered, CardType
      <3>2. s \in Of("card") /\ flight[s].left = {}
        BY <1>1, <2>2 DEF CardAnswered, Settled
      <3>3. \A p \in {"history", "events"} : flight[s].got[p] >= card[p]
        BY <3>2 DEF CardInv
      <3> QED
        BY <3>1, <3>3
    <2> QED
      BY <2>1, <2>2
  <1>2. CASE CardClose \/ \E s \in Slot : CardOpen(s)
    <2>1. CardClose => card'.range = None
      BY DEF CardClose, Closed
    <2>2. ASSUME NEW s \in Slot, CardOpen(s) PROVE card'.range = None
      BY <2>2 DEF CardOpen, Closed
    <2> QED
      BY <1>2, <2>1, <2>2
  <1>3. ASSUME NEW s \in Slot, Sampled(s) \/ \E h \in Hours : ChooseHours(s, h)
        PROVE  card'.history >= card.history /\ card'.events >= card.events
    BY <1>0, <1>3, <1>K DEF Sampled, ChooseHours, CardType
  <1>4. CASE card' = card
    BY <1>4, <1>K
  <1> QED
    BY <1>1, <1>2, <1>3, <1>4
    DEF Next, OfCard, NotPanels, OnlyTrend, OnlyStats, OnlyCopy, GoTo, vars

-----------------------------------------------------------------------------
(* The text of the login page. *)

LEMMA CopyStep ==
    ASSUME TypeOK, StatsInv, CopyInv, [Next]_vars
    PROVE  CopyInv'
  <1>0. FlightOK /\ {"load", "save", "left save"} \subseteq Panel /\ CopyType /\ stored \in Texts
    BY TypeByParts, TypeOfFlight DEF Panel
  <1>K. ASSUME Keeps("save"), Of("load")' = Of("load"), UNCHANGED <<copy, edit>>
        PROVE  CopyInv'
    BY <1>K DEF CopyInv, Keeps, SavedIsTaken
  <1>1. CASE Hub /\ NotPanels
    <2>1. UNCHANGED <<copy, edit>>
      BY <1>1 DEF NotPanels
    <2>2. Of("load")' = Of("load") /\ Of("save")' = Of("save")
      BY <1>0, <1>1, HubStep
    <2>3. CASE Pass
      BY <1>K, <2>1, <2>2, <2>3 DEF Pass, Keeps
    <2>4. ASSUME NEW s \in Slot, Fail(s) PROVE CopyInv'
      <3>1. AnswerAt(s) /\ flight[s] \in Request /\ flight'[s] = [flight[s] EXCEPT !.failed = TRUE]
        BY <1>0, <2>4, AfterFail DEF AnswerAt
      <3>2. flight'[s].for = flight[s].for /\ flight'[s].failed
        BY <3>1 DEF Request
      <3>3. ASSUME NEW t \in Of("save")
            PROVE  /\ flight'[t].for = flight[t].for
                   /\ ~ flight'[t].failed => flight'[t] = flight[t]
        <4>1. CASE t = s
          BY <3>2, <4>1
        <4>2. CASE t # s
          BY <3>1, <4>2 DEF AnswerAt, Of
        <4> QED
          BY <4>1, <4>2
      <3>4. \A t \in Of("save") :
               /\ ~ edit.over => flight'[t].for = copy.text
               /\ flight'[t].left = {} /\ ~ flight'[t].failed => edit.taken = flight'[t].for
        BY <3>3 DEF CopyInv
      <3> QED
        BY <2>1, <2>2, <3>4 DEF CopyInv, SavedIsTaken
    <2>5. ASSUME NEW s \in Slot, Ignored(s) PROVE CopyInv'
      <3>1. s \notin Of("save")
        BY <2>5 DEF Ignored, Late, Of
      <3> QED
        BY <1>0, <1>K, <2>1, <2>2, <2>5, <3>1, AfterLeave DEF Ignored
    <2>6. ASSUME NEW s \in Slot, NEW q \in Part, Read(s, q) PROVE CopyInv'
      <3>1. AnswerAt(s) /\ s \notin Of("save")
        BY <2>6, AfterRead, TypeOfFlight DEF Of
      <3> QED
        BY <1>0, <1>K, <2>1, <2>2, <3>1 DEF AnswerAt
    <2> QED
      BY <1>1, <2>3, <2>4, <2>5, <2>6 DEF Hub
  <1>2. CASE (\E s \in Slot : OfTrend(s)) /\ OnlyTrend
    BY <1>0, <1>2, <1>K, TrendStepKeeps DEF OnlyTrend, Keeps
  <1>3. CASE (Change \/ \E s \in Slot : OfStats(s)) /\ OnlyStats
    <2>1. Keeps("save") /\ Keeps("load")
      BY <1>0, <1>3, StatsChangeKeeps, StatsStepKeeps
    <2> QED
      BY <1>3, <1>K, <2>1 DEF OnlyStats, Keeps
  <1>4. CASE (CardClose \/ \E s \in Slot : OfCard(s)) /\ OnlyCard
    BY <1>0, <1>4, <1>K, CardStepKeeps DEF OnlyCard, Keeps
  <1>5. ASSUME NEW text \in Texts, Type(text) PROVE CopyInv'
    <2>1. Of("save")' = Of("save") /\ Of("load")' = Of("load") /\ flight' = flight
      BY <1>5 DEF Type, tab, Of
    <2>2. /\ copy'.text = text /\ copy'.busy = copy.busy /\ ~ copy'.saved
          /\ edit'.taken = edit.taken /\ edit'.over = copy.busy
      BY <1>0, <1>5 DEF Type, CopyType
    <2>3. text # None /\ Of("load") = {}
      BY <1>5, CopyAssumption DEF Type, CopyInv
    <2> QED
      BY <2>1, <2>2, <2>3 DEF CopyInv, SavedIsTaken
  <1>6. ASSUME NEW s \in Slot, Save(s) PROVE CopyInv'
    <2>1. copy.text \in Target("save") /\ copy.text # None
      BY <1>0, <1>6 DEF Save, CopyType, Target
    <2>2. /\ Of("save")' = Of("save") \cup {s} /\ Keeps("load")
          /\ flight'[s] = Asked("save", copy.text, {"all"})
      BY <1>0, <1>6, <2>1, AfterAsk, PartsOfAll DEF Save
    <2>3. Of("save")' = {s} /\ Of("load")' = {}
      BY <1>6, <2>1, <2>2 DEF Save, CopyInv, Keeps
    <2>4. flight'[s].for = copy.text /\ flight'[s].left # {}
      BY <2>2 DEF Asked
    <2>5. copy'.text = copy.text /\ copy'.busy /\ ~ copy'.saved
      BY <1>0, <1>6 DEF Save, CopyType
    <2> QED
      BY <2>1, <2>3, <2>4, <2>5 DEF CopyInv, SavedIsTaken
  <1>7. ASSUME NEW s \in Slot, CopyRead(s) PROVE CopyInv'
    <2>1. AnswerAt(s) /\ s \notin Of("save") /\ UNCHANGED <<copy, edit>>
      BY <1>0, <1>7, AfterCopyRead DEF CopyRead, Of
    <2> QED
      BY <1>0, <1>K, <2>1 DEF AnswerAt
  <1>8. ASSUME NEW s \in Slot, CopyTaken(s) PROVE CopyInv'
    <2>1. AnswerAt(s) /\ copy' = copy
      BY <1>0, <1>8, AfterCopyTaken DEF CopyTaken
    <2>2. Of("save")' = Of("save") /\ Of("load")' = Of("load") /\ flight'[s].for = flight[s].for
      BY <1>0, <2>1 DEF AnswerAt
    <2>3. CASE s \in Of("save")
      <3>1. edit'.taken = flight[s].for /\ edit'.over = edit.over
        BY <1>0, <1>8, <2>3 DEF CopyTaken, CopyType
      <3>2. Of("save") = {s} /\ copy.busy /\ ~ copy.saved
        BY <2>3 DEF CopyInv
      <3> QED
        BY <2>1, <2>2, <3>1, <3>2 DEF CopyInv, SavedIsTaken
    <2>4. CASE s \notin Of("save")
      <3>1. edit' = edit
        BY <1>8, <2>4 DEF CopyTaken
      <3> QED
        BY <1>0, <1>K, <2>1, <2>2, <2>4, <3>1 DEF AnswerAt
    <2> QED
      BY <2>3, <2>4
  <1>9. ASSUME NEW s \in Slot, CopyLoaded(s) PROVE CopyInv'
    <2>1. s \in Of("load") /\ edit' = edit
      BY <1>9 DEF CopyLoaded
    <2>2. Of("load") = {s} /\ Of("save") = {} /\ ~ copy.saved /\ ~ copy.busy
      BY <2>1 DEF CopyInv
    <2>3. Of("load")' = {} /\ Of("save")' = {}
      BY <1>0, <1>9, <2>2, AfterLeave DEF CopyLoaded
    <2>4. ~ copy'.saved /\ ~ copy'.busy
      BY <1>0, <1>9, <2>2 DEF CopyLoaded, CopyType
    <2> QED
      BY <2>3, <2>4 DEF CopyInv, SavedIsTaken
  <1>10. ASSUME NEW s \in Slot, CopySaved(s) PROVE CopyInv'
    <2>1. /\ s \in Of("save") \cup Of("left save") /\ Settled(s) /\ edit' = edit
          /\ Of("load")' = Of("load") \ {s} /\ Of("save")' = Of("save") \ {s}
          /\ s \notin Of("load")
      BY <1>0, <1>10, AfterLeave DEF CopySaved, Of
    <2>2. CASE s \in Of("save")
      <3>1. copy'.text = copy.text /\ ~ copy'.busy /\ copy'.saved = ~ flight[s].failed
        BY <1>0, <1>10, <2>2 DEF CopySaved, CopyType
      <3>2. Of("save")' = {} /\ Of("load")' = Of("load") /\ copy.text # None
        BY <2>1, <2>2 DEF CopyInv
      <3>3. copy'.saved /\ ~ edit.over => copy.text = edit.taken
        BY <2>1, <2>2, <3>1 DEF CopyInv, Settled
      <3> QED
        BY <2>1, <3>1, <3>2, <3>3 DEF CopyInv, SavedIsTaken
    <2>3. CASE s \notin Of("save")
      <3>1. copy' = copy
        BY <1>10, <2>3 DEF CopySaved
      <3> QED
        BY <1>0, <1>10, <1>K, <2>1, <2>3, <3>1, AfterLeave DEF CopySaved
    <2> QED
      BY <2>2, <2>3
  <1>11. ASSUME NEW p \in PageName, GoTo(p) PROVE CopyInv'
    <2>1. copy' = NoCopy
      BY <1>11 DEF GoTo, CopyMount
    <2>2. Of("save")' = {} /\ \A s, t \in Of("load")' : s = t
      BY <1>11, GoToStep
    <2> QED
      BY <2>1, <2>2 DEF CopyInv, SavedIsTaken, NoCopy
  <1>12. CASE UNCHANGED vars
    BY <1>12, <1>K DEF vars, tab, Of, Keeps
  <1> QED
    BY <1>1, <1>2, <1>3, <1>4, <1>5, <1>6, <1>7, <1>8, <1>9, <1>10, <1>11, <1>12
    DEF Next, OfCopy, Typing

-----------------------------------------------------------------------------
PagesInv == TypeOK /\ TrendInv /\ StatsInv /\ CardInv /\ CopyInv

LEMMA InitInv ==
    ASSUME Init
    PROVE  PagesInv
  <1>1. PICK s \in Slot :
           flight = [t \in Slot |-> IF t = s THEN Asked("trend", None, {"all"}) ELSE Free]
    BY DEF Init
  <1>2. /\ Asked("trend", None, {"all"}) \in Request
        /\ Asked("trend", None, {"all"}).panel = "trend"
    BY AskedIsRequest, PartsOfAll DEF Panel, Target
  <1>3. Free.panel = "none"
    BY DEF Free
  <1>4. /\ Of("trend") = {s} /\ Of("stats") = {} /\ Of("card") = {}
        /\ Of("load") = {} /\ Of("save") = {}
    BY <1>1, <1>2, <1>3 DEF Of
  <1>5. /\ page = "dashboard" /\ version = 0 /\ trend = NoTrend /\ stats = NoStats
        /\ card = Closed /\ stored \in Texts /\ copy = NoCopy /\ edit = NoEdit
    BY DEF Init
  <1>6. TypeOK
    <2>1. FlightOK
      BY <1>1, <1>2 DEF FlightOK
    <2>2. TrendType /\ CardType
      BY <1>5 DEF TrendType, CardType, NoTrend, Closed
    <2>3. StatsType /\ CopyType
      BY <1>5 DEF StatsType, CopyType, NoStats, NoCopy, NoEdit
    <2>4. page \in PageName /\ version \in Version
      BY <1>5, TabAssumption DEF PageName, Version
    <2> QED
      BY <2>1, <2>2, <2>3, <2>4, TypeByParts
  <1>7. TrendInv
    BY <1>4, <1>5 DEF TrendInv, OneChain, NoTrend
  <1>8. StatsInv
    BY <1>4, <1>5 DEF StatsInv, NoStats
  <1>9. CardInv
    BY <1>4, <1>5 DEF CardInv, Closed
  <1>10. CopyInv
    BY <1>4, <1>5 DEF CopyInv, NoCopy, SavedIsTaken
  <1> QED
    BY <1>6, <1>7, <1>8, <1>9, <1>10 DEF PagesInv

LEMMA StepInv ==
    ASSUME PagesInv, [Next]_vars
    PROVE  PagesInv'
  BY TypeStep, TrendStep, StatsStep, CardStep, CopyStep DEF PagesInv

LEMMA Inductive == Spec => []PagesInv
  BY InitInv, StepInv, PTL DEF Spec

\* Every variable keeps its type, and every request asks for what its panel asks for.
THEOREM TypeCorrect == Spec => []TypeOK
  <1>1. PagesInv => TypeOK
    BY DEF PagesInv
  <1> QED
    BY <1>1, Inductive, PTL

\* The finally clause of the curve and its retry button together never make two chains of
\* requests, nor none while the dashboard is shown, with any number of slots.
THEOREM CurveHasOneChain == Spec => []OneChain
  <1>1. PagesInv => OneChain
    BY DEF PagesInv, TrendInv
  <1> QED
    BY <1>1, Inductive, PTL

\* An answer to earlier criteria is neither shown nor exported, whatever the criteria.
THEOREM StatisticsAreAsked == Spec => []StatsAreAsked
  <1>1. PagesInv => StatsAreAsked
    BY StatsInvGives DEF PagesInv
  <1> QED
    BY <1>1, Inductive, PTL

\* An empty table is explained by an answer to the criteria it stands under.
THEOREM EmptyTablesAreEmpty == Spec => []EmptyMeansEmpty
  <1>1. PagesInv => EmptyMeansEmpty
    BY StatsInvGives DEF PagesInv
  <1> QED
    BY <1>1, Inductive, PTL

\* What is called saved is what the hub took, through failures and edits in between.
THEOREM SavedTextIsTaken == Spec => []SavedIsTaken
  <1>1. PagesInv => SavedIsTaken
    BY DEF PagesInv, CopyInv
  <1> QED
    BY <1>1, Inductive, PTL

\* However answers overtake each other, the dialog never goes back to an older curve.
THEOREM CurveNeverGoesBack == Spec => CurveNeverOlder
  <1>1. PagesInv /\ [Next]_vars =>
            [card.range # None /\ card'.range # None =>
                card'.history >= card.history /\ card'.events >= card.events]_vars
    BY CurveStep DEF PagesInv
  <1> QED
    BY <1>1, Inductive, PTL DEF Spec, CurveNeverOlder
=============================================================================
