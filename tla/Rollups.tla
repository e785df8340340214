------------------------------ MODULE Rollups ------------------------------
(***************************************************************************)
(* The card-hour arithmetic of the hub: what one pair of neighbouring      *)
(* observation points of a card adds to the minute and the hour rollup     *)
(* rows (internal/hub/rollups.go).                                         *)
(*                                                                         *)
(* Times are integers in one unit; Minute and Hour are the two bucket      *)
(* widths in that unit.  Average memory (memory_sum, memory_valid) is      *)
(* treated by the code exactly as utilisation is (weighted, util_valid)    *)
(* and is left out.                                                        *)
(***************************************************************************)
EXTENDS Integers, Functions

CONSTANTS
    GPU,        \* the cards, by UUID
    User,       \* the UIDs a collector can read
    NoUser,     \* the empty UID: an unreadable owner; in a row, the whole card
    NoUtil,     \* a utilisation that could not be read (nil)
    Interval,   \* the sampling interval
    Minute,     \* width of a minute bucket
    Hour        \* width of an hour bucket

ASSUME RollupAssumption ==
    /\ NoUser \notin User
    /\ NoUtil \notin Nat
    /\ Interval \in Nat \ {0}
    /\ Minute \in Nat \ {0}
    /\ Hour \in Nat \ {0}
    /\ Minute < Hour

Resolutions == {Minute, Hour}

-----------------------------------------------------------------------------
(* Observation points.  A reading is what one collection says of a card:   *)
(* its status, whether its processes could be listed, the owners of those  *)
(* processes (NoUser for an unreadable one) and its utilisation.           *)

ProcessValid(p) == p.status = "ok" /\ p.process = "ok"
\* Fault: an owner that could not be read counts as attributed.
UserValid_partly(p) == ProcessValid(p)
UserValid(p)    == ProcessValid(p) /\ NoUser \notin p.owners
Occupied(p)     == p.owners # {}
Users(p)        == p.owners \ {NoUser}
Util(p)         == IF p.status = "ok" THEN p.util ELSE NoUtil

-----------------------------------------------------------------------------
(* Rollup rows, keyed by card, user, bucket width and bucket start.        *)

RollupKey == [gpu : GPU, user : User \cup {NoUser}, res : Resolutions, bucket : Int]

Row == [occupied : Int, occupancyValid : Int, attributionValid : Int,
        utilValid : Int, weighted : Int]

ZeroRow == [occupied |-> 0, occupancyValid |-> 0, attributionValid |-> 0,
            utilValid |-> 0, weighted |-> 0]

Plus(r, d) == [occupied         |-> r.occupied + d.occupied,
               occupancyValid   |-> r.occupancyValid + d.occupancyValid,
               attributionValid |-> r.attributionValid + d.attributionValid,
               utilValid        |-> r.utilValid + d.utilValid,
               weighted         |-> r.weighted + d.weighted]

Minus(r, d) == [occupied         |-> r.occupied - d.occupied,
                occupancyValid   |-> r.occupancyValid - d.occupancyValid,
                attributionValid |-> r.attributionValid - d.attributionValid,
                utilValid        |-> r.utilValid - d.utilValid,
                weighted         |-> r.weighted - d.weighted]

\* The sum of the rows that F gives the elements of S.
SumRows(F, S) == FoldFunctionOnSet(Plus, ZeroRow, F, S)

-----------------------------------------------------------------------------
(* The integral of the state of a over [a.at, b.at).                       *)

\* A gap of more than two intervals is unknown, never the old state continued.
Integrable(a, b) == a.at < b.at /\ b.at - a.at <= 2 * Interval

BucketOf(t, res) == (t \div res) * res

\* The starts of the res-wide buckets that [a.at, b.at) meets.
Buckets(a, b, res) ==
    {n * res : n \in (a.at \div res) .. ((b.at - 1) \div res)}

\* How much of [a.at, b.at) lies in the bucket.
Seconds(a, b, res, bucket) ==
    LET start == IF a.at < bucket THEN bucket ELSE a.at
        end   == IF b.at < bucket + res THEN b.at ELSE bucket + res
    IN end - start

CardShare(a, sec) ==
    [occupied         |-> IF ProcessValid(a) /\ Occupied(a) THEN sec ELSE 0,
     occupancyValid   |-> IF ProcessValid(a) THEN sec ELSE 0,
     attributionValid |-> IF UserValid(a) THEN sec ELSE 0,
     utilValid        |-> IF Util(a) # NoUtil THEN sec ELSE 0,
     weighted         |-> IF Util(a) # NoUtil THEN sec * Util(a) ELSE 0]

UserShare(sec) ==
    [ZeroRow EXCEPT !.occupied = sec, !.occupancyValid = sec]

\* Whose rows the edge writes: the card's own and, when the process list is
\* valid, one for each readable owner.
Payers(a) == {NoUser} \cup (IF ProcessValid(a) THEN Users(a) ELSE {})

Touched(a, b) ==
    IF Integrable(a, b)
    THEN UNION {[gpu : {a.gpu}, user : Payers(a), res : {res},
                 bucket : Buckets(a, b, res)] : res \in Resolutions}
    ELSE {}

\* What the edge from a to b adds to the row of key k.
Contribution(a, b, k) ==
    IF k \notin Touched(a, b) THEN ZeroRow
    ELSE LET sec == Seconds(a, b, k.res, k.bucket)
         IN IF k.user = NoUser THEN CardShare(a, sec) ELSE UserShare(sec)
=============================================================================
