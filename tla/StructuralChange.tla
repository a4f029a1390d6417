-------------------------- MODULE StructuralChange --------------------------
(***************************************************************************)
(* How a row or column insertion, deletion or move renumbers the positions *)
(* of one axis of a sheet (internal/formula/structure.go).  Every part of  *)
(* the system that stores an address - cells, late cell writes, formula    *)
(* references, named ranges, comments, validation rules - is moved through *)
(* the two operators TransformPosition and TransformInterval; the browser  *)
(* has a twin of the first one.  A position is a number from 1; Gone (0)   *)
(* stands for the code's "false": a deletion removed it, or an insertion   *)
(* pushed it past the last position of the axis.                           *)
(***************************************************************************)
EXTENDS Integers

CONSTANTS
    Limit,      \* formula.MaxRows or formula.MaxColumns: positions per axis
    MaxCount    \* workbook.MaxStructuralCount: positions one change may span

ASSUME LimitAssumption == Limit \in Nat \ {0}
ASSUME MaxCountAssumption == MaxCount \in Nat \ {0}

Gone == 0

Positions == 1..Limit

(***************************************************************************)
(* What normalizeStructuralMutation accepts.  The destination of a move    *)
(* runs one past the last position and may lie inside the moved band.      *)
(***************************************************************************)
Mutations ==
    { c \in [action : {"insert", "delete", "move"},
             index : Positions, count : 1..MaxCount, destination : 0..Limit + 1] :
        /\ c.index + c.count - 1 <= Limit
        /\ (c.action = "move") <=> (c.destination # 0) }

BandEnd(c) == c.index + c.count - 1

InBand(p, c) == c.index <= p /\ p <= BandEnd(c)

-----------------------------------------------------------------------------
(***************************************************************************)
(* One position                                                            *)
(***************************************************************************)

\* Mutant: the positions the band passes over on its way down stay put.
MovedPositionForgetsPassed(p, c) ==
    IF c.destination > BandEnd(c)
    THEN IF InBand(p, c) THEN p + (c.destination - c.count) - c.index ELSE p
    ELSE IF c.destination < c.index
    THEN IF InBand(p, c) THEN p - (c.index - c.destination)
         ELSE IF c.destination <= p /\ p < c.index THEN p + c.count ELSE p
    ELSE p

\* The three-segment permutation of a move: the band lands in front of the
\* destination and what it passed over slides back by its width.
MovedPosition(p, c) ==
    IF c.destination > BandEnd(c)
    THEN IF InBand(p, c) THEN p + (c.destination - c.count) - c.index
         ELSE IF BandEnd(c) < p /\ p < c.destination THEN p - c.count ELSE p
    ELSE IF c.destination < c.index
    THEN IF InBand(p, c) THEN p - (c.index - c.destination)
         ELSE IF c.destination <= p /\ p < c.index THEN p + c.count ELSE p
    ELSE p

InsertedPosition(p, c) ==
    LET q == IF p >= c.index THEN p + c.count ELSE p
    IN  IF q <= Limit THEN q ELSE Gone

\* Mutant: the last position of the deleted band survives.
DeletedPositionOffByOne(p, c) ==
    IF c.index <= p /\ p < BandEnd(c) THEN Gone
    ELSE IF p > BandEnd(c) THEN p - c.count ELSE p

DeletedPosition(p, c) ==
    IF InBand(p, c) THEN Gone
    ELSE IF p > BandEnd(c) THEN p - c.count ELSE p

TransformPosition(p, c) ==
    IF c.action = "move" THEN MovedPosition(p, c)
    ELSE IF c.action = "insert" THEN InsertedPosition(p, c)
    ELSE DeletedPosition(p, c)

-----------------------------------------------------------------------------
(***************************************************************************)
(* A span of positions, as a pair <<start, end>> with start <= end.        *)
(***************************************************************************)

Spans == { s \in Positions \X Positions : s[1] <= s[2] }

NoSpan == <<Gone, Gone>>

Lower(x, y) == IF x <= y THEN x ELSE y
Upper(x, y) == IF x >= y THEN x ELSE y

\* The closure "cover" of movedInterval: clip the segment first..last to the
\* span, shift it, and widen the span collected so far (acc) to include it.
Cover(acc, span, first, last, shift) ==
    LET low  == Upper(first, span[1])
        high == Lower(last, span[2])
    IN  IF low > high THEN acc
        ELSE IF acc = NoSpan THEN <<low + shift, high + shift>>
        ELSE <<Lower(acc[1], low + shift), Upper(acc[2], high + shift)>>

\* A move may tear a span apart; the result spans everything it covered.
MovedInterval(span, c) ==
    LET collected ==
          IF c.destination > BandEnd(c)
          THEN Cover(Cover(Cover(Cover(NoSpan,
                 span, c.index, BandEnd(c), c.destination - c.count - c.index),
                 span, BandEnd(c) + 1, c.destination - 1, -c.count),
                 span, 1, c.index - 1, 0),
                 span, c.destination, Limit, 0)
          ELSE IF c.destination < c.index
          THEN Cover(Cover(Cover(Cover(NoSpan,
                 span, c.index, BandEnd(c), c.destination - c.index),
                 span, c.destination, c.index - 1, c.count),
                 span, 1, c.destination - 1, 0),
                 span, BandEnd(c) + 1, Limit, 0)
          ELSE span
    IN  IF collected = NoSpan THEN span ELSE collected

\* Mutant: an insertion exactly at the first row of a span widens the span
\* instead of pushing it, and one inside it is not noticed.
InsertedIntervalNarrow(span, c) ==
    IF c.index <= span[1] THEN <<span[1] + c.count, span[2] + c.count>> ELSE span

InsertedInterval(span, c) ==
    IF c.index <= span[1] THEN <<span[1] + c.count, span[2] + c.count>>
    ELSE IF c.index <= span[2] THEN <<span[1], span[2] + c.count>>
    ELSE span

DeletedInterval(span, c) ==
    IF span[2] < c.index THEN span
    ELSE IF span[1] > BandEnd(c) THEN <<span[1] - c.count, span[2] - c.count>>
    ELSE IF InBand(span[1], c) /\ InBand(span[2], c) THEN NoSpan
    ELSE << IF span[1] < c.index THEN span[1] ELSE BandEnd(c) + 1 - c.count,
            IF span[2] > BandEnd(c) THEN span[2] - c.count ELSE c.index - 1 >>

TransformInterval(span, c) ==
    IF c.action = "move" THEN MovedInterval(span, c)
    ELSE IF c.action = "insert" THEN InsertedInterval(span, c)
    ELSE DeletedInterval(span, c)

\* TransformRangeAddress refuses a span pushed past the end of the axis, and
\* ApplyStructure then refuses the whole change.
SpanFits(span) == span = NoSpan \/ (1 <= span[1] /\ span[2] <= Limit)

=============================================================================
