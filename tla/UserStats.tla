----------------------------- MODULE UserStats -----------------------------
(***************************************************************************)
(* The statistics page (features/statistics/UserStats.tsx).  The range of  *)
(* a query is fixed when its criteria change; 200 ms later it is asked     *)
(* for, and an export takes the same range.                                *)
(***************************************************************************)
EXTENDS Tab

CONSTANTS
    Custom,    \* a period that is typed
    Periods,   \* days of the ranges that end now
    Times,     \* what the two inputs may hold; None if nothing
    Filters    \* choices of node, model and user; None is none

\* A range with its filters.
Ranges == [from : Int, to : Int, filter : Filters]

\* What is in an answer: users, none, or none because they could not be read.
Rows == {"users", "none", "incomplete"}
Results == [query : Ranges, rows : Rows]

ASSUME StatsAssumption ==
    /\ None \in Filters
    /\ Periods # {} /\ Periods \subseteq Int /\ Custom \notin Periods
    /\ Times \subseteq Int \cup {None}
    /\ None \notin Ranges \cup Results

VARIABLE stats

\* The range, in the time of the page; None if it is empty.
Query(c, now) ==
    LET to   == IF c.period = Custom THEN c.end ELSE now
        from == IF c.period = Custom THEN c.start ELSE to - c.period
    IN  IF from # None /\ to # None /\ from < to
          THEN [from |-> from, to |-> to, filter |-> c.filter] ELSE None

\* What each of the criteria may be.
Values == [period |-> Periods \cup {Custom}, start |-> Times, end |-> Times, filter |-> Filters]

\* What the page starts with: the last week.
Chosen(start, end) ==
    [period |-> CHOOSE p \in Periods : TRUE, start |-> start, end |-> end, filter |-> None]

Criteria == [period : Values.period, start : Times, end : Times, filter : Filters]

NoStats == [criteria |-> None, query |-> None, timer |-> FALSE, busy |-> FALSE,
            error |-> FALSE, result |-> None]

\* Fault: what is shown stays until there is something else.
Renewed_kept(c, query) ==
    [criteria |-> c, query |-> query, timer |-> query # None, busy |-> query # None,
     error |-> query = None, result |-> stats.result]

\* The effect: everything shown is dropped, and a valid query waits for its timer.
Renewed(c, query) ==
    [criteria |-> c, query |-> query, timer |-> query # None, busy |-> query # None,
     error |-> query = None, result |-> None]

\* The page appears.
StatsMount(before) ==
    /\ flight' = before
    /\ \E start, end \in Times \ {None} :
          stats' = LET c == Chosen(start, end) IN Renewed(c, Query(c, version))

\* The criteria change; the effect runs if that makes another query.
StatsChange(field, value) ==
    /\ page = "stats" /\ value # stats.criteria[field]
    /\ field \in {"start", "end"} => stats.criteria.period = Custom
    /\ LET c     == [stats.criteria EXCEPT ![field] = value]
           query == Query(c, version)
       IN  IF query = stats.query
             THEN stats' = [stats EXCEPT !.criteria = c] /\ UNCHANGED flight
             ELSE stats' = Renewed(c, query) /\ flight' = Cleaned("stats")
    /\ UNCHANGED <<page, version>>

StatsTick(s) ==
    /\ stats.timer
    /\ Ask(flight, s, "stats", stats.query, {"all"})
    /\ stats' = [stats EXCEPT !.timer = FALSE]
    /\ UNCHANGED <<page, version>>

StatsAnswered(s) ==
    /\ s \in Of("stats") /\ Settled(s)
    /\ Leave(s)
    /\ \/ /\ flight[s].failed
          /\ stats' = [stats EXCEPT !.error = TRUE, !.busy = FALSE]
       \/ /\ ~ flight[s].failed
          /\ \E rows \in Rows :
                stats' = [stats EXCEPT !.busy = FALSE,
                            !.result = [query |-> flight[s].for, rows |-> rows]]
    /\ UNCHANGED <<page, version>>

Got(rows) == stats.result # None /\ stats.result.rows = rows

\* Fault: that an answer is still to come is not looked at.
StatsShow_at_once ==
    IF Got("users") THEN "users"
    ELSE IF stats.error THEN "failed"
    ELSE "no match"

\* The table: its rows, or the reason why there are none.
StatsShow ==
    IF Got("users") THEN "users"
    ELSE IF stats.busy THEN "loading"
    ELSE IF stats.error THEN "failed"
    ELSE IF stats.criteria.filter # None THEN "no match"
    ELSE IF Got("incomplete") THEN "not readable" ELSE "no use"

\* The button, which fetches the range of the query.
CanExport == ~ stats.busy /\ stats.result # None /\ stats.query # None
=============================================================================
