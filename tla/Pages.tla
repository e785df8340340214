------------------------------- MODULE Pages -------------------------------
(***************************************************************************)
(* The panels of the web client that ask the hub for themselves, mounted   *)
(* and unmounted as App shows one page or another.  A dialog covers the    *)
(* page.  The dialog of a card is the same over either page that opens it. *)
(***************************************************************************)
EXTENDS ClusterTrend, UserStats, GPUDetail, LoginCopySettings

vars == <<tab, trend, stats, card, stored, copy, edit>>

PageName == {"dashboard", "overview", "stats", "settings"}

\* What a request of a panel may be for, and what it may bring.
Panel == {"trend", "stats", "card", "load", "save", "left save"}
Target(panel) ==
    CASE panel = "stats" -> Ranges
      [] panel = "card" -> Hours
      [] panel \in {"save", "left save"} -> Texts
      [] panel \in {"trend", "load"} -> {None}
Request ==
    {r \in [panel : Panel, for : {None} \cup Hours \cup Texts \cup Ranges, failed : BOOLEAN,
            left : SUBSET Part, got : [Part -> Version \cup Texts \cup {None}]] :
        /\ r.for \in Target(r.panel)
        /\ r.panel = "load" => r.got["all"] \in Texts \cup {None}
        /\ r.panel # "load" => r.got \in [Part -> Version \cup {None}]}

TypeOK ==
    /\ page \in PageName /\ version \in Version
    /\ flight \in [Slot -> {Free, Late} \cup Request]
    /\ trend \in [points : Version \cup {None}, error : BOOLEAN, loaded : BOOLEAN, timer : BOOLEAN]
    /\ stats \in [criteria : Criteria \cup {None}, query : Ranges \cup {None}, timer : BOOLEAN,
                  busy : BOOLEAN, error : BOOLEAN, result : Results \cup {None}]
    /\ page = "stats" => stats.criteria \in Criteria
    /\ card \in [open : BOOLEAN, hours : Hours \cup {None}, history : Version \cup {None},
                 events : Version \cup {None}, range : Hours \cup {None}, error : BOOLEAN]
    /\ card.open => card.hours \in Hours
    /\ stored \in Texts
    /\ copy \in [text : Texts \cup {None}, saved : BOOLEAN, busy : BOOLEAN, error : BOOLEAN]
    /\ edit \in [taken : Texts \cup {None}, over : BOOLEAN]

Init ==
    /\ page = "dashboard" /\ version = 0
    /\ trend = NoTrend /\ stats = NoStats /\ card = Closed
    /\ stored \in Texts /\ copy = NoCopy /\ edit = NoEdit
    /\ \E s \in Slot :
          flight = [t \in Slot |-> IF t = s THEN Asked("trend", None, {"all"}) ELSE Free]

\* No panel of the page listens any more.
Left == CopyLeft([s \in Slot |-> IF flight[s] = Free THEN Free ELSE Late])

\* App shows another page: the panels of this one end, those of the other begin.
GoTo(p) ==
    /\ p # page /\ ~ card.open
    /\ page' = p
    /\ \/ /\ p = "dashboard"
          /\ \E s \in Slot : TrendMount(Left, s)
          /\ stats' = NoStats /\ copy' = NoCopy /\ edit' = NoEdit
       \/ /\ p = "overview"
          /\ flight' = Left
          /\ trend' = NoTrend /\ stats' = NoStats /\ copy' = NoCopy /\ edit' = NoEdit
       \/ /\ p = "stats"
          /\ StatsMount(Left)
          /\ trend' = NoTrend /\ copy' = NoCopy /\ edit' = NoEdit
       \/ /\ p = "settings"
          /\ \E s \in Slot : CopyMount(Left, s)
          /\ trend' = NoTrend /\ stats' = NoStats
    /\ UNCHANGED <<version, card, stored>>

Hub == Pass \/ \E s \in Slot : Fail(s) \/ Ignored(s) \/ \E p \in Part : Read(s, p)
OfTrend(s) == TrendTick(s) \/ Retry(s) \/ TrendAnswered(s)
OfStats(s) == StatsTick(s) \/ StatsAnswered(s)
Change == \E field \in DOMAIN Values : \E value \in Values[field] : StatsChange(field, value)
OfCard(s) ==
    \/ CardOpen(s) \/ Sampled(s) \/ CardAnswered(s)
    \/ \E h \in Hours : ChooseHours(s, h)
OfCopy(s) == Save(s) \/ CopyRead(s) \/ CopyTaken(s) \/ CopyLoaded(s) \/ CopySaved(s)
Typing == \E text \in Texts : Type(text)

\* Each panel leaves the others alone.
NotPanels == UNCHANGED <<trend, stats, card, stored, copy, edit>>
OnlyTrend == UNCHANGED <<stats, card, stored, copy, edit>>
OnlyStats == UNCHANGED <<trend, card, stored, copy, edit>>
OnlyCard == UNCHANGED <<trend, stats, stored, copy, edit>>
OnlyCopy == UNCHANGED <<trend, stats, card>>

Next ==
    \/ Hub /\ NotPanels
    \/ (\E s \in Slot : OfTrend(s)) /\ OnlyTrend
    \/ (Change \/ \E s \in Slot : OfStats(s)) /\ OnlyStats
    \/ (CardClose \/ \E s \in Slot : OfCard(s)) /\ OnlyCard
    \/ (Typing \/ \E s \in Slot : OfCopy(s)) /\ OnlyCopy
    \/ \E p \in PageName : GoTo(p)

Spec == Init /\ [][Next]_vars

\* Every request is answered in some way, and every answer is heard.
Answered(s) ==
    \/ (Fail(s) \/ \E p \in Part : Read(s, p)) /\ NotPanels
    \/ (CopyRead(s) \/ CopyTaken(s)) /\ OnlyCopy

Heard(s) ==
    \/ Ignored(s) /\ NotPanels
    \/ TrendAnswered(s) /\ OnlyTrend
    \/ StatsAnswered(s) /\ OnlyStats
    \/ CardAnswered(s) /\ OnlyCard
    \/ (CopyLoaded(s) \/ CopySaved(s)) /\ OnlyCopy

\* The timer of the curve fires (SF: the bound on requests may hold it up), and who asks
\* for the curve again and again gets it in the end.
Fairness ==
    /\ \A s \in Slot : WF_vars(Answered(s)) /\ WF_vars(Heard(s))
    /\ SF_vars((\E s \in Slot : TrendTick(s)) /\ OnlyTrend)
    /\ SF_vars((\E s \in Of("trend") : Read(s, "all")) /\ NotPanels)

FairSpec == Spec /\ Fairness

-----------------------------------------------------------------------------
\* However often a reader presses retry or leaves and comes back, the dashboard has one
\* request under way or one timer, never both, and no more than one of either.
OneChain ==
    IF page = "dashboard" /\ ~ trend.timer THEN \E s \in Slot : Of("trend") = {s}
                                          ELSE Of("trend") = {}

\* What the statistics page shows, and would export, is what was asked for last: the
\* same range and filters, in spite of late answers to earlier questions.
StatsAreAsked ==
    /\ CanExport \/ (page = "stats" /\ StatsShow = "users") => stats.result.query = stats.query
    /\ stats.busy <=> stats.timer \/ Of("stats") # {}

\* The table only says that there is no use, or no match, when an answer to these very
\* criteria said so.
EmptyMeansEmpty ==
    page = "stats" /\ StatsShow \in {"no match", "no use", "not readable"} =>
        stats.result # None /\ stats.result.rows # "users"

\* The curve and the events of a card never get older while a range is shown, though
\* every new sample asks again before the last answer is in.
CurveNeverOlder ==
    [][card.range # None /\ card'.range # None =>
          card'.history >= card.history /\ card'.events >= card.events]_vars

\* What is called saved is what the hub took, unless it was typed over meanwhile.
SavedIsTaken == copy.saved /\ ~ edit.over => copy.text = edit.taken

\* An open dashboard shows a curve as recent as the hub at some time, through any errors,
\* unless a reader presses retry for ever.
TrendCatchesUp ==
    \/ []<><<\E s \in Slot : Retry(s)>>_vars
    \/ \A v \in Version : (page = "dashboard" /\ version >= v)
           ~> (page # "dashboard" \/ (TrendShows = "curve" /\ trend.points >= v))
=============================================================================
