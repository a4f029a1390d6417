------------------------------ MODULE RowOrder ------------------------------
(***************************************************************************)
(* The reference against which the position arithmetic of StructuralChange *)
(* is judged: an axis is the sequence of its rows, and a structural change *)
(* cuts and pastes whole rows.  Nothing here computes with positions the   *)
(* way the code does.  Used only by properties and by the ghost state that *)
(* remembers which row is which.                                           *)
(***************************************************************************)
EXTENDS StructuralChange, Sequences

\* The axis without the band, and how many of the remaining rows stand before
\* the place where the band is pasted back.
WithoutBand(rows, c) ==
    SubSeq(rows, 1, c.index - 1) \o SubSeq(rows, BandEnd(c) + 1, Len(rows))

RowsBeforeLanding(c) ==
    IF c.destination > BandEnd(c) THEN c.destination - 1 - c.count
    ELSE IF c.destination < c.index THEN c.destination - 1
    ELSE c.index - 1

\* The rows after the change.  fresh is a sequence of c.count new rows: the
\* inserted ones, or the ones that fill up the end after a deletion.
Rearranged(rows, c, fresh) ==
    IF c.action = "insert"
    THEN SubSeq(rows, 1, c.index - 1) \o fresh
           \o SubSeq(rows, c.index, Len(rows) - c.count)
    ELSE IF c.action = "delete"
    THEN WithoutBand(rows, c) \o fresh
    ELSE LET rest == WithoutBand(rows, c)
             k    == RowsBeforeLanding(c)
         IN  SubSeq(rest, 1, k) \o SubSeq(rows, c.index, BandEnd(c))
               \o SubSeq(rest, k + 1, Len(rest))

=============================================================================
