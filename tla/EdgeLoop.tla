------------------------------ MODULE EdgeLoop ------------------------------
(***************************************************************************)
(* The loop of contributions (internal/hub/rollups.go): one edge from a to *)
(* b is cut at the minute and then at the hour boundaries, one bucket per  *)
(* iteration.  Rollups states in closed form what the loop adds up to.     *)
(***************************************************************************)
EXTENDS Rollups

\* Rows that are appended for one key are added up later.
Appended(rows, more) ==
    [k \in DOMAIN rows \cup DOMAIN more |->
        IF k \notin DOMAIN more THEN rows[k]
        ELSE IF k \notin DOMAIN rows THEN more[k] ELSE Plus(rows[k], more[k])]

\* Fault: the piece runs to the end of the bucket, beyond the edge.
PieceEnd_whole_bucket(b, width, start) == BucketOf(start, width) + width

\* Where the piece in the bucket of start ends.
PieceEnd(b, width, start) ==
    LET end == BucketOf(start, width) + width
    IN  IF b.at < end THEN b.at ELSE end

\* The rows of one iteration: of the card, and of each readable owner.
Piece(a, width, start, end) ==
    [k \in [gpu : {a.gpu}, user : Payers(a), res : {width}, bucket : {BucketOf(start, width)}] |->
        IF k.user = NoUser THEN CardShare(a, end - start) ELSE UserShare(end - start)]

\* The inner loop, from start on.
Pass(a, b, width) ==
    LET from[start \in a.at .. (b.at + width)] ==
            IF start >= b.at THEN [k \in {} |-> ZeroRow]
            ELSE LET end == PieceEnd(b, width, start)
                 IN  Appended(Piece(a, width, start, end), from[end])
    IN  from[a.at]

Loop(a, b) ==
    IF Integrable(a, b) THEN Appended(Pass(a, b, Minute), Pass(a, b, Hour))
                        ELSE [k \in {} |-> ZeroRow]

\* The loop gives the rows of the closed form, each once and with all its time.
LoopAgrees(a, b) == Loop(a, b) = [k \in Touched(a, b) |-> Contribution(a, b, k)]
=============================================================================
