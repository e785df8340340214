---------------------------- MODULE ClusterTrend ----------------------------
(***************************************************************************)
(* The curve of the dashboard (features/dashboard/Dashboard.tsx): a chain  *)
(* of requests, each sent a minute after the one before was answered, and  *)
(* a button beside an error that starts another chain.                     *)
(***************************************************************************)
EXTENDS Tab

VARIABLE trend    \* ClusterTrend: points, error, loaded; and the timer of the effect

NoTrend == [points |-> None, error |-> FALSE, loaded |-> FALSE, timer |-> FALSE]

\* The dashboard appears, with the first request.
TrendMount(before, s) ==
    /\ Ask(before, s, "trend", None, {"all"})
    /\ trend' = NoTrend

TrendTick(s) ==
    /\ trend.timer
    /\ Ask(flight, s, "trend", None, {"all"})
    /\ trend' = [trend EXCEPT !.timer = FALSE]
    /\ UNCHANGED <<page, version>>

\* attempt changes: the effect starts again.
Retry(s) ==
    /\ page = "dashboard" /\ trend.error
    /\ Ask(Cleaned("trend"), s, "trend", None, {"all"})
    /\ trend' = [trend EXCEPT !.timer = FALSE]
    /\ UNCHANGED <<page, version>>

\* Fault: the next request is only planned after a success.
TrendAnswered_without_finally(s) ==
    /\ s \in Of("trend") /\ Settled(s)
    /\ Leave(s)
    /\ trend' = IF flight[s].failed
                  THEN [trend EXCEPT !.error = TRUE, !.loaded = TRUE]
                  ELSE [trend EXCEPT !.points = flight[s].got["all"], !.error = FALSE,
                                     !.loaded = TRUE, !.timer = TRUE]
    /\ UNCHANGED <<page, version>>

TrendAnswered(s) ==
    /\ s \in Of("trend") /\ Settled(s)
    /\ Leave(s)
    /\ trend' = IF flight[s].failed
                  THEN [trend EXCEPT !.error = TRUE, !.loaded = TRUE, !.timer = TRUE]
                  ELSE [trend EXCEPT !.points = flight[s].got["all"], !.error = FALSE,
                                     !.loaded = TRUE, !.timer = TRUE]
    /\ UNCHANGED <<page, version>>

\* What the panel shows.
TrendShows ==
    IF trend.error THEN "retry"
    ELSE IF trend.points # None THEN "curve"
    ELSE IF trend.loaded THEN "no history" ELSE "loading"
=============================================================================
