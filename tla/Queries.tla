------------------------------ MODULE Queries ------------------------------
(***************************************************************************)
(* What the hub answers from its rollups: the statistics of cards and      *)
(* users (stats.go), under the range that queryRange (history.go) makes of *)
(* a request, and the trend of all cards (cluster.go).                     *)
(*                                                                         *)
(* The answers are read in one statement each and change nothing: they are *)
(* operators on the state of HubIngest, and what they promise is promised  *)
(* in each of its states, for each request.                                *)
(***************************************************************************)
EXTENDS HubIngest

CONSTANTS
    Day,       \* the range of a request that names no start (24 hours)
    Week,      \* the longest range answered in minutes (7 days)
    Quarter    \* width of a bucket of the trend (15 minutes)

ASSUME QueryAssumption ==
    /\ {Day, Week, Quarter} \subseteq Nat \ {0}
    /\ Quarter % Minute = 0 /\ Day % Minute = 0
    /\ Day + Quarter <= MinuteRetain
    /\ IsFiniteSet(User)

-----------------------------------------------------------------------------
(* queryRange. *)

Lesser(a, b) == IF a < b THEN a ELSE b
Greater(a, b) == IF a > b THEN a ELSE b

\* What is asked: zero stands for a bound that is not given.
Until(to) == IF to <= 0 \/ to > now THEN now ELSE to

Since(from, to) ==
    LET asked == Greater(IF from <= 0 THEN Until(to) - Day ELSE from, now - HourRetain)
    IN  IF asked >= Until(to) THEN Until(to) - Hour ELSE asked

\* Fault: only the length of the range matters.
Resolution_by_length(since, until) == IF until - since > Week THEN Hour ELSE Minute

Resolution(since, until) ==
    IF since < now - MinuteRetain \/ until - since > Week THEN Hour ELSE Minute

QueryRange(from, to) ==
    LET res == Resolution(Since(from, to), Until(to))
    IN  [from |-> BucketOf(Since(from, to), res),
         to   |-> BucketOf(Until(to) + res - 1, res),
         res  |-> res]

-----------------------------------------------------------------------------
(* stats. *)

InRange(k, q) == k.res = q.res /\ k.bucket >= q.from /\ k.bucket < q.to

RowsOf(g, u, q) == {k \in DOMAIN rollups : k.gpu = g /\ k.user = u /\ InRange(k, q)}

\* The cards seen before the end of the range, whether or not it has rows of theirs.
Listed(q) == {g \in DOMAIN gpus : gpus[g].first < q.to}

\* The rows of a card and a user, summed up.
Summed(g, u, q) == SumRows(rollups, RowsOf(g, u, q))

UsedBy(g, u, q) == IF g \in Listed(q) THEN Summed(g, u, q).occupied ELSE 0

Observed(g, q) == Summed(g, NoUser, q).occupancyValid
Attributed(g, q) == Summed(g, NoUser, q).attributionValid

Expected(g, q) == Greater(0, Lesser(q.to, now) - Greater(q.from, gpus[g].first))

-----------------------------------------------------------------------------
(* clusterHistory. *)

TrendTo == BucketOf(now, Minute)

\* Fault: the trend begins within a bucket.
TrendFrom_unaligned == TrendTo - Day

TrendFrom == BucketOf(TrendTo - Day, Quarter)

TrendRows(at) ==
    {k \in DOMAIN rollups : /\ k.res = Minute /\ k.user = NoUser
                            /\ k.bucket >= TrendFrom /\ k.bucket < TrendTo
                            /\ BucketOf(k.bucket, Quarter) = at}

\* The two sums whose quotient is shown, or nothing when no second was valid.
Trend(at) ==
    LET sum == SumRows(rollups, TrendRows(at))
    IN  [weighted |-> sum.weighted, valid |-> sum.utilValid]

TrendPoints == {at \in TrendFrom .. TrendTo - 1 : (at - TrendFrom) % Quarter = 0}
-----------------------------------------------------------------------------
(* What the answers promise. *)

\* Bounds that are not given, and all others back to where nothing is kept.
Bounds == {0} \cup (now - HourRetain - 1 .. now)
Requests == Bounds \X Bounds

Ranges == {QueryRange(r[1], r[2]) : r \in Requests}

\* How much of [left, right) lies between lo and hi.
Within(e, lo, hi) ==
    Greater(0, Lesser(e.right.at, hi) - Greater(e.left.at, lo))

\* The time observed in which the card was used by u, pruned or not.
Uses(g, u) == {e \in charged : /\ e.left.gpu = g /\ Integrable(e.left, e.right)
                               /\ ProcessValid(e.left) /\ Occupied(e.left)
                               /\ u = NoUser \/ u \in Users(e.left)}

Total(E, lo, hi) == SumFunctionOnSet([e \in E |-> Within(e, lo, hi)], E)

\* The use reported for a request is all that was observed in what was asked, less
\* at most a first bucket that has expired, and nothing from outside of the range
\* that the answer names: the choice of resolution, the rounding, the cards left out
\* and the retention of both kinds of rows fit together.
StatsAreComplete ==
    \A g \in GPU, u \in User \cup {NoUser} :
        LET uses == Uses(g, u)
        IN  \A r \in Requests :
                LET q == QueryRange(r[1], r[2])
                    used == UsedBy(g, u, q)
                IN  /\ used <= Total(uses, q.from, q.to)
                    /\ used >= Total(uses, Since(r[1], r[2]) + q.res, Until(r[2]))

\* Before it is cut off at one, coverage is a share: no card is observed for longer
\* than it was expected to be since it was first seen, although a late sample may
\* show that it was there earlier.
CoverageIsAShare ==
    \A q \in Ranges : \A g \in Listed(q) : Observed(g, q) <= Expected(g, q) + Ahead

\* Coverage of users tells what their hours leave out: use that nobody's hours hold
\* falls in time that is not counted as attributed.
UnassignedIsUncovered ==
    \A q \in Ranges : \A g \in Listed(q) :
        UsedBy(g, NoUser, q) <= SumFunctionOnSet([u \in User |-> UsedBy(g, u, q)], User)
                                  + Observed(g, q) - Attributed(g, q)

UtilTotal(E, lo, hi) ==
    SumFunctionOnSet([e \in E |-> Within(e, lo, hi) * Util(e.left)], E)

Utilised(lo, hi) == {e \in charged : /\ Integrable(e.left, e.right)
                                     /\ Util(e.left) # NoUtil /\ Within(e, lo, hi) > 0}

\* The trend has a point for each quarter of an hour, made of all that was observed
\* in it up to the last full minute: what is missing is no idle time.
TrendIsComplete ==
    /\ \A e \in Utilised(TrendTo - Day, TrendTo) :
          \E at \in TrendPoints : Within(e, at, at + Quarter) > 0
    /\ \A at \in TrendPoints :
        LET hi == Lesser(at + Quarter, TrendTo)
        IN  Trend(at) =
              [weighted |-> UtilTotal(Utilised(at, hi), at, hi),
               valid    |-> Total(Utilised(at, hi), at, hi)]
=============================================================================
