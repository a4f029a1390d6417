----------------------- MODULE StructuralChangeProofs -----------------------
(***************************************************************************)
(* What the position arithmetic of internal/formula/structure.go does for  *)
(* every axis length and every accepted change, and that it agrees with    *)
(* cutting and pasting whole rows.                                         *)
(***************************************************************************)
EXTENDS RowOrder, SequenceTheorems, TLAPS

\* What is known of the fields of an accepted change.
LEMMA MutationFields ==
    ASSUME NEW c \in Mutations
    PROVE  /\ c.action \in {"insert", "delete", "move"}
           /\ c.index \in Int /\ 1 <= c.index /\ c.index <= Limit
           /\ c.count \in Int /\ 1 <= c.count
           /\ c.destination \in Int /\ 0 <= c.destination /\ c.destination <= Limit + 1
           /\ c.index + c.count - 1 <= Limit
           /\ (c.action = "move") <=> (c.destination # 0)
           /\ Limit \in Int /\ 1 <= Limit
  BY LimitAssumption, MaxCountAssumption DEF Mutations, Positions

\* A position is moved to a position of the axis or is gone.
THEOREM TransformPositionStaysOnAxis ==
    ASSUME NEW c \in Mutations, NEW p \in Positions
    PROVE  TransformPosition(p, c) \in Positions \cup {Gone}
  BY MutationFields
  DEF TransformPosition, MovedPosition, InsertedPosition, DeletedPosition,
      Positions, Gone, InBand, BandEnd

\* A move loses no position.
LEMMA MoveKeepsEveryPosition ==
    ASSUME NEW c \in Mutations, NEW p \in Positions, c.action = "move"
    PROVE  TransformPosition(p, c) \in Positions
  <1>1. TransformPosition(p, c) \in Positions \cup {Gone}
    BY TransformPositionStaysOnAxis
  <1>2. TransformPosition(p, c) # Gone
    BY MutationFields
    DEF TransformPosition, MovedPosition, Positions, Gone, InBand, BandEnd
  <1> QED  BY <1>1, <1>2

\* Two positions never land on one: no cell overwrites another.
THEOREM TransformPositionInjective ==
    ASSUME NEW c \in Mutations, NEW p \in Positions, NEW q \in Positions,
           p # q, TransformPosition(p, c) # Gone
    PROVE  TransformPosition(p, c) # TransformPosition(q, c)
  BY MutationFields
  DEF TransformPosition, MovedPosition, InsertedPosition, DeletedPosition,
      Positions, Gone, InBand, BandEnd

\* Insertions and deletions keep the order of what they keep.
LEMMA InsertAndDeleteKeepOrder ==
    ASSUME NEW c \in Mutations, NEW p \in Positions, NEW q \in Positions,
           c.action # "move", p < q,
           TransformPosition(p, c) # Gone, TransformPosition(q, c) # Gone
    PROVE  TransformPosition(p, c) < TransformPosition(q, c)
  BY MutationFields
  DEF TransformPosition, InsertedPosition, DeletedPosition,
      Positions, Gone, InBand, BandEnd

-----------------------------------------------------------------------------
(***************************************************************************)
(* Spans                                                                   *)
(***************************************************************************)

\* The span t contains every position of span in first..last, shifted.
Contains(t, span, first, last, shift) ==
    \A p \in Positions :
        span[1] <= p /\ p <= span[2] /\ first <= p /\ p <= last
        => t # NoSpan /\ t[1] <= p + shift /\ p + shift <= t[2]

\* The span t contains the span acc.
Widens(t, acc) == acc # NoSpan => t # NoSpan /\ t[1] <= acc[1] /\ acc[2] <= t[2]

\* One call of the closure "cover": what it returns is a span, contains what
\* was collected before, and contains the shifted part of the segment.
LEMMA CoverFacts ==
    ASSUME NEW acc \in Spans \cup {NoSpan}, NEW span \in Spans,
           NEW first \in Int, NEW last \in Int, NEW shift \in Int,
           1 <= first + shift, last + shift <= Limit
    PROVE  LET t == Cover(acc, span, first, last, shift)
           IN  /\ t \in Spans \cup {NoSpan}
               /\ Widens(t, acc)
               /\ Contains(t, span, first, last, shift)
  <1> DEFINE low  == Upper(first, span[1])
             high == Lower(last, span[2])
             t == Cover(acc, span, first, last, shift)
  <1>1. span = <<span[1], span[2]>> /\ span[1] \in Positions /\ span[2] \in Positions
    BY DEF Spans
  <1>2. /\ low \in Int /\ first <= low /\ span[1] <= low
        /\ high \in Int /\ high <= last /\ high <= span[2]
        /\ \A p \in Positions : span[1] <= p /\ p <= span[2] /\ first <= p /\ p <= last
              => low <= p /\ p <= high
    BY <1>1 DEF Upper, Lower, Positions
  <1> HIDE DEF low, high
  <1>3. t = IF low > high THEN acc
            ELSE IF acc = NoSpan THEN <<low + shift, high + shift>>
            ELSE <<Lower(acc[1], low + shift), Upper(acc[2], high + shift)>>
    BY DEF low, high, Cover
  <1> HIDE DEF t
  <1>4. Limit \in Int
    BY LimitAssumption
  <1>5. CASE low > high
    <2>1. \A p \in Positions : ~(span[1] <= p /\ p <= span[2] /\ first <= p /\ p <= last)
      BY <1>2, <1>5 DEF Positions
    <2>2. t = acc
      BY <1>3, <1>5
    <2>3. acc # NoSpan => acc[1] \in Int /\ acc[2] \in Int
      BY DEF Spans, Positions
    <2> QED  BY <2>1, <2>2, <2>3 DEF t, Widens, Contains
  <1>6. CASE low <= high /\ acc = NoSpan
    <2>1. t = <<low + shift, high + shift>>
      BY <1>2, <1>3, <1>6
    <2>2. t \in Spans /\ t # NoSpan
      BY <2>1, <1>2, <1>4, <1>6 DEF Spans, NoSpan, Gone, Positions
    <2>3. \A p \in Positions : span[1] <= p /\ p <= span[2] /\ first <= p /\ p <= last
             => t[1] <= p + shift /\ p + shift <= t[2]
      BY <2>1, <1>2 DEF Positions
    <2> QED  BY <2>2, <2>3, <1>6 DEF t, Widens, Contains
  <1>7. CASE low <= high /\ acc # NoSpan
    <2>1. t = <<Lower(acc[1], low + shift), Upper(acc[2], high + shift)>>
      BY <1>2, <1>3, <1>7
    <2>2. acc[1] \in Positions /\ acc[2] \in Positions /\ acc[1] <= acc[2]
      BY <1>7 DEF Spans
    <2>3. t \in Spans /\ t # NoSpan
      BY <2>1, <2>2, <1>2, <1>4, <1>7 DEF Spans, NoSpan, Gone, Positions, Lower, Upper
    <2>4. t[1] <= acc[1] /\ acc[2] <= t[2]
      BY <2>1, <2>2, <1>2 DEF Lower, Upper, Positions
    <2>5. \A p \in Positions : span[1] <= p /\ p <= span[2] /\ first <= p /\ p <= last
             => t[1] <= p + shift /\ p + shift <= t[2]
      BY <2>1, <2>2, <1>2 DEF Lower, Upper, Positions
    <2> QED  BY <2>3, <2>4, <2>5 DEF t, Widens, Contains
  <1> QED  BY <1>2, <1>5, <1>6, <1>7

\* movedInterval returns a span that contains the new place of every position
\* of the old one, although it works on four segments and never on a position.
LEMMA MovedIntervalFacts ==
    ASSUME NEW c \in Mutations, c.action = "move", NEW span \in Spans
    PROVE  /\ MovedInterval(span, c) \in Spans
           /\ \A p \in Positions : span[1] <= p /\ p <= span[2] =>
                 /\ MovedInterval(span, c)[1] <= MovedPosition(p, c)
                 /\ MovedPosition(p, c) <= MovedInterval(span, c)[2]
  <1>1. /\ c.index \in Int /\ 1 <= c.index /\ c.index <= Limit
        /\ c.count \in Int /\ 1 <= c.count
        /\ c.destination \in Int /\ 1 <= c.destination /\ c.destination <= Limit + 1
        /\ c.index + c.count - 1 <= Limit
        /\ Limit \in Int /\ 1 <= Limit
        /\ span[1] \in Positions /\ span[2] \in Positions /\ span[1] <= span[2]
        /\ NoSpan \notin Spans
    BY MutationFields DEF Spans, NoSpan, Gone, Positions
  <1>2. CASE c.destination > c.index + c.count - 1
    <2> DEFINE c1 == Cover(NoSpan, span, c.index, c.index + c.count - 1, c.destination - c.count - c.index)
               c2 == Cover(c1, span, c.index + c.count - 1 + 1, c.destination - 1, -c.count)
               c3 == Cover(c2, span, 1, c.index - 1, 0)
               c4 == Cover(c3, span, c.destination, Limit, 0)
    <2>1. /\ c1 \in Spans \cup {NoSpan}
          /\ Widens(c1, NoSpan)
          /\ Contains(c1, span, c.index, c.index + c.count - 1, c.destination - c.count - c.index)
      BY <1>2, <1>1, CoverFacts
    <2>2. /\ c2 \in Spans \cup {NoSpan}
          /\ Widens(c2, c1)
          /\ Contains(c2, span, c.index + c.count - 1 + 1, c.destination - 1, -c.count)
      BY <2>1, <1>2, <1>1, CoverFacts
    <2>3. /\ c3 \in Spans \cup {NoSpan}
          /\ Widens(c3, c2)
          /\ Contains(c3, span, 1, c.index - 1, 0)
      BY <2>2, <1>2, <1>1, CoverFacts
    <2>4. /\ c4 \in Spans \cup {NoSpan}
          /\ Widens(c4, c3)
          /\ Contains(c4, span, c.destination, Limit, 0)
      BY <2>3, <1>2, <1>1, CoverFacts
    <2>5. MovedInterval(span, c) = IF c4 = NoSpan THEN span ELSE c4
      BY <1>1, <1>2 DEF MovedInterval, BandEnd
    <2> HIDE DEF c1, c2, c3, c4
    <2>6. c1 # NoSpan \/ c2 # NoSpan \/ c3 # NoSpan \/ c4 # NoSpan => c4 # NoSpan
      BY <2>2, <2>3, <2>4 DEF Widens
    <2>7. Contains(c4, span, c.index, c.index + c.count - 1, c.destination - c.count - c.index)
      BY <2>1, <2>2, <2>3, <2>4, <1>1 DEF Contains, Widens, Spans, Positions
    <2>8. Contains(c4, span, c.index + c.count - 1 + 1, c.destination - 1, -c.count)
      BY <2>2, <2>3, <2>4, <1>1 DEF Contains, Widens, Spans, Positions
    <2>9. Contains(c4, span, 1, c.index - 1, 0)
      BY <2>3, <2>4, <1>1 DEF Contains, Widens, Spans, Positions
    <2>10. Contains(c4, span, c.destination, Limit, 0)
      BY <2>4, <1>1 DEF Contains, Widens, Spans, Positions
    <2>11. \A p \in Positions : span[1] <= p /\ p <= span[2] =>
             c4 # NoSpan /\ c4[1] <= MovedPosition(p, c) /\ MovedPosition(p, c) <= c4[2]
      BY <2>7, <2>8, <2>9, <2>10, <1>1, <1>2
      DEF Contains, MovedPosition, InBand, BandEnd, Positions
    <2> QED  BY <2>4, <2>5, <2>11, <1>1
  <1>3. CASE c.destination < c.index
    <2> DEFINE c1 == Cover(NoSpan, span, c.index, c.index + c.count - 1, c.destination - c.index)
               c2 == Cover(c1, span, c.destination, c.index - 1, c.count)
               c3 == Cover(c2, span, 1, c.destination - 1, 0)
               c4 == Cover(c3, span, c.index + c.count - 1 + 1, Limit, 0)
    <2>1. /\ c1 \in Spans \cup {NoSpan}
          /\ Widens(c1, NoSpan)
          /\ Contains(c1, span, c.index, c.index + c.count - 1, c.destination - c.index)
      BY <1>3, <1>1, CoverFacts
    <2>2. /\ c2 \in Spans \cup {NoSpan}
          /\ Widens(c2, c1)
          /\ Contains(c2, span, c.destination, c.index - 1, c.count)
      BY <2>1, <1>3, <1>1, CoverFacts
    <2>3. /\ c3 \in Spans \cup {NoSpan}
          /\ Widens(c3, c2)
          /\ Contains(c3, span, 1, c.destination - 1, 0)
      BY <2>2, <1>3, <1>1, CoverFacts
    <2>4. /\ c4 \in Spans \cup {NoSpan}
          /\ Widens(c4, c3)
          /\ Contains(c4, span, c.index + c.count - 1 + 1, Limit, 0)
      BY <2>3, <1>3, <1>1, CoverFacts
    <2>5. MovedInterval(span, c) = IF c4 = NoSpan THEN span ELSE c4
      BY <1>1, <1>3 DEF MovedInterval, BandEnd
    <2> HIDE DEF c1, c2, c3, c4
    <2>6. c1 # NoSpan \/ c2 # NoSpan \/ c3 # NoSpan \/ c4 # NoSpan => c4 # NoSpan
      BY <2>2, <2>3, <2>4 DEF Widens
    <2>7. Contains(c4, span, c.index, c.index + c.count - 1, c.destination - c.index)
      BY <2>1, <2>2, <2>3, <2>4, <1>1 DEF Contains, Widens, Spans, Positions
    <2>8. Contains(c4, span, c.destination, c.index - 1, c.count)
      BY <2>2, <2>3, <2>4, <1>1 DEF Contains, Widens, Spans, Positions
    <2>9. Contains(c4, span, 1, c.destination - 1, 0)
      BY <2>3, <2>4, <1>1 DEF Contains, Widens, Spans, Positions
    <2>10. Contains(c4, span, c.index + c.count - 1 + 1, Limit, 0)
      BY <2>4, <1>1 DEF Contains, Widens, Spans, Positions
    <2>11. \A p \in Positions : span[1] <= p /\ p <= span[2] =>
             c4 # NoSpan /\ c4[1] <= MovedPosition(p, c) /\ MovedPosition(p, c) <= c4[2]
      BY <2>7, <2>8, <2>9, <2>10, <1>1, <1>3
      DEF Contains, MovedPosition, InBand, BandEnd, Positions
    <2> QED  BY <2>4, <2>5, <2>11, <1>1
  <1>4. CASE ~(c.destination > c.index + c.count - 1) /\ ~(c.destination < c.index)
    <2>1. MovedInterval(span, c) = span
      BY <1>1, <1>4 DEF MovedInterval, BandEnd
    <2>2. \A p \in Positions : MovedPosition(p, c) = p
      BY <1>1, <1>4 DEF MovedPosition, BandEnd
    <2> QED  BY <2>1, <2>2
  <1> QED  BY <1>2, <1>3, <1>4

\* A span pushed through a change that does not refuse it is a proper span
\* again, or gone with the rows a deletion removed.  Only an insertion can push
\* it past the end of the axis, which ApplyStructure then refuses.
THEOREM TransformIntervalIsSpan ==
    ASSUME NEW c \in Mutations, NEW span \in Spans
    PROVE  /\ SpanFits(TransformInterval(span, c)) =>
                  \/ TransformInterval(span, c) \in Spans
                  \/ TransformInterval(span, c) = NoSpan /\ c.action = "delete"
           /\ c.action # "insert" => SpanFits(TransformInterval(span, c))
  <1> USE MutationFields DEF Positions, Gone, NoSpan, InBand, BandEnd, SpanFits, Spans
  <1>1. CASE c.action = "insert"
    BY <1>1 DEF TransformInterval, InsertedInterval
  <1>2. CASE c.action = "delete"
    BY <1>2 DEF TransformInterval, DeletedInterval
  <1>3. CASE c.action = "move"
    BY <1>3, MovedIntervalFacts DEF TransformInterval
  <1> QED  BY <1>1, <1>2, <1>3

\* A span covers the new place of every position it covered.
THEOREM TransformIntervalCovers ==
    ASSUME NEW c \in Mutations, NEW span \in Spans,
           NEW p \in Positions, span[1] <= p, p <= span[2],
           TransformPosition(p, c) # Gone
    PROVE  /\ TransformInterval(span, c) # NoSpan
           /\ TransformInterval(span, c)[1] <= TransformPosition(p, c)
           /\ TransformPosition(p, c) <= TransformInterval(span, c)[2]
  <1> USE MutationFields DEF Positions, Gone, NoSpan, InBand, BandEnd, TransformPosition, Spans
  <1>1. CASE c.action = "insert"
    BY <1>1 DEF TransformInterval, InsertedInterval, InsertedPosition
  <1>2. CASE c.action = "delete"
    BY <1>2 DEF TransformInterval, DeletedInterval, DeletedPosition
  <1>3. CASE c.action = "move"
    BY <1>3, MovedIntervalFacts DEF TransformInterval
  <1> QED  BY <1>1, <1>2, <1>3

\* Without moves a span covers no position it did not cover before.
THEOREM TransformIntervalExact ==
    ASSUME NEW c \in Mutations, NEW span \in Spans,
           NEW p \in Positions, c.action # "move",
           TransformPosition(p, c) # Gone,
           TransformInterval(span, c)[1] <= TransformPosition(p, c),
           TransformPosition(p, c) <= TransformInterval(span, c)[2]
    PROVE  span[1] <= p /\ p <= span[2]
  <1> USE MutationFields DEF Positions, Gone, NoSpan, InBand, BandEnd, TransformPosition, Spans
  <1>1. CASE c.action = "insert"
    BY <1>1 DEF TransformInterval, InsertedInterval, InsertedPosition
  <1>2. CASE c.action = "delete"
    BY <1>2 DEF TransformInterval, DeletedInterval, DeletedPosition
  <1> QED  BY <1>1, <1>2

-----------------------------------------------------------------------------
(***************************************************************************)
(* Agreement with the cut and paste of rows                                *)
(***************************************************************************)

\* Rows in their order, and the rows an insertion or a deletion brings in.
Axes(S) == [Positions -> S]

Bands(S, c) == [1..c.count -> S]

\* Three pieces put together, entry by entry.
LEMMA ThreePieces ==
    ASSUME NEW S, NEW x \in Seq(S), NEW y \in Seq(S), NEW z \in Seq(S)
    PROVE  LET t == x \o y \o z
           IN  /\ t \in Seq(S)
               /\ Len(t) = Len(x) + Len(y) + Len(z)
               /\ \A i \in 1..Len(t) :
                     t[i] = IF i <= Len(x) THEN x[i]
                            ELSE IF i <= Len(x) + Len(y) THEN y[i - Len(x)]
                            ELSE z[i - Len(x) - Len(y)]
  <1>1. /\ x \o y \in Seq(S)
        /\ Len(x \o y) = Len(x) + Len(y)
        /\ \A i \in 1..Len(x) + Len(y) :
              (x \o y)[i] = IF i <= Len(x) THEN x[i] ELSE y[i - Len(x)]
    BY ConcatProperties
  <1> DEFINE xy == x \o y
  <1> HIDE DEF xy
  <1>2. /\ xy \o z \in Seq(S)
        /\ Len(xy \o z) = Len(xy) + Len(z)
        /\ \A i \in 1..Len(xy) + Len(z) :
              (xy \o z)[i] = IF i <= Len(xy) THEN xy[i] ELSE z[i - Len(xy)]
    BY <1>1, ConcatProperties DEF xy
  <1>3. Len(x) \in Nat /\ Len(y) \in Nat /\ Len(z) \in Nat
    BY LenProperties
  <1>4. xy = x \o y
    BY DEF xy
  <1> QED  BY <1>1, <1>2, <1>3, <1>4

\* The axis without the band, entry by entry.
LEMMA WithoutBandFacts ==
    ASSUME NEW S, NEW rows \in Axes(S), NEW c \in Mutations
    PROVE  LET t == WithoutBand(rows, c)
           IN  /\ t \in Seq(S)
               /\ Len(t) = Limit - c.count
               /\ \A i \in 1..Limit - c.count :
                     t[i] = IF i < c.index THEN rows[i] ELSE rows[i + c.count]
  <1>1. /\ Limit \in Nat /\ c.index \in 1..Limit /\ c.count \in 1..Limit
        /\ c.index + c.count - 1 <= Limit
    BY MutationFields
  <1>2. rows \in Seq(S) /\ Len(rows) = Limit
    BY <1>1 DEF Positions, Axes
  <1> DEFINE x == SubSeq(rows, 1, c.index - 1)
             y == SubSeq(rows, c.index + c.count, Limit)
  <1>3. /\ x \in Seq(S) /\ Len(x) = c.index - 1
        /\ \A i \in 1..c.index - 1 : x[i] = rows[i]
    BY <1>1, SubSeqProperties DEF Positions, Axes
  <1>4. /\ y \in Seq(S) /\ Len(y) = Limit - (c.index + c.count - 1)
        /\ \A i \in 1..Limit - (c.index + c.count - 1) : y[i] = rows[c.index + c.count + i - 1]
    <2> DEFINE m == c.index + c.count
    <2>1. m \in Int /\ Limit \in Int /\ \A i \in m..Limit : rows[i] \in S
      BY <1>1 DEF Positions, Axes
    <2>2. m <= Limit + 1 /\ m = c.index + c.count
      BY <1>1
    <2>3. y = SubSeq(rows, m, Limit)
      OBVIOUS
    <2> HIDE DEF m, y
    <2>4. /\ y \in Seq(S) /\ Len(y) = IF m <= Limit THEN Limit - m + 1 ELSE 0
          /\ \A i \in 1..Limit - m + 1 : y[i] = rows[m + i - 1]
      BY <2>1, <2>3, SubSeqProperties
    <2> QED  BY <2>1, <2>2, <2>4, <1>1
  <1>5. WithoutBand(rows, c) = x \o y
    <2>1. BandEnd(c) + 1 = c.index + c.count
      BY <1>1 DEF BandEnd
    <2> QED  BY <2>1, <1>2 DEF WithoutBand
  <1> HIDE DEF x, y
  <1>6. /\ x \o y \in Seq(S)
        /\ Len(x \o y) = Len(x) + Len(y)
        /\ \A i \in 1..Len(x) + Len(y) : (x \o y)[i] =
                  IF i <= Len(x) THEN x[i] ELSE y[i - Len(x)]
    BY <1>3, <1>4, ConcatProperties
  <1>7. Len(x) + Len(y) = Limit - c.count
    BY <1>1, <1>3, <1>4
  <1>8. ASSUME NEW i \in 1..Limit - c.count
        PROVE  (x \o y)[i] = IF i < c.index THEN rows[i] ELSE rows[i + c.count]
    <2>1. (x \o y)[i] = IF i <= Len(x) THEN x[i] ELSE y[i - Len(x)]
      BY <1>6, <1>7
    <2>2. CASE i < c.index
      BY <2>1, <2>2, <1>1, <1>3
    <2>3. CASE ~(i < c.index)
      <3> DEFINE j == i - (c.index - 1)
      <3>1. (x \o y)[i] = y[j]
        BY <2>1, <2>3, <1>1, <1>3
      <3>2. j \in 1..Limit - (c.index + c.count - 1) /\ c.index + c.count + j - 1 = i + c.count
        BY <2>3, <1>1
      <3> HIDE DEF j
      <3>3. y[j] = rows[c.index + c.count + j - 1]
        BY <3>2, <1>4
      <3>4. y[j] = rows[i + c.count]
        BY <3>2, <3>3
      <3> QED  BY <3>1, <3>4, <2>3
    <2> QED  BY <2>2, <2>3
  <1> QED  BY <1>5, <1>6, <1>7, <1>8

\* A piece of the axis, entry by entry.
LEMMA Piece ==
    ASSUME NEW S, NEW s \in Seq(S), NEW m \in Int, NEW n \in Int,
           1 <= m, m <= n + 1, n <= Len(s)
    PROVE  /\ SubSeq(s, m, n) \in Seq(S)
           /\ Len(SubSeq(s, m, n)) = n - m + 1
           /\ \A i \in 1..n - m + 1 : SubSeq(s, m, n)[i] = s[m + i - 1]
  <1>1. Len(s) \in Nat /\ \A i \in 1..Len(s) : s[i] \in S
    BY LenProperties, ElementOfSeq
  <1>2. \A i \in m..n : s[i] \in S
    BY <1>1
  <1>3. /\ SubSeq(s, m, n) \in Seq(S)
        /\ Len(SubSeq(s, m, n)) = IF m <= n THEN n - m + 1 ELSE 0
        /\ \A i \in 1..n - m + 1 : SubSeq(s, m, n)[i] = s[m + i - 1]
    BY <1>2, SubSeqProperties
  <1> QED  BY <1>3

\* Every row after an insertion is an old row in its new place, or fresh.
LEMMA InsertedRows ==
    ASSUME NEW S, NEW rows \in Axes(S), NEW c \in Mutations,
           NEW fresh \in Bands(S, c), c.action = "insert"
    PROVE  /\ Rearranged(rows, c, fresh) \in Seq(S)
           /\ Len(Rearranged(rows, c, fresh)) = Limit
           /\ \A i \in Positions :
                 Rearranged(rows, c, fresh)[i] = IF i < c.index THEN rows[i]
                        ELSE IF i < c.index + c.count THEN fresh[i - (c.index - 1)]
                        ELSE rows[i - c.count]
  <1>1. /\ Limit \in Nat /\ c.index \in 1..Limit /\ c.count \in 1..Limit
        /\ c.index + c.count - 1 <= Limit
    BY MutationFields
  <1>2. rows \in Seq(S) /\ Len(rows) = Limit /\ fresh \in Seq(S) /\ Len(fresh) = c.count
    BY <1>1 DEF Positions, Axes, Bands
  <1> DEFINE x == SubSeq(rows, 1, c.index - 1)
             z == SubSeq(rows, c.index, Limit - c.count)
             t == x \o fresh \o z
  <1>3. /\ x \in Seq(S) /\ Len(x) = c.index - 1
        /\ \A i \in 1..c.index - 1 : x[i] = rows[i]
    BY <1>1, <1>2, Piece
  <1>4. /\ z \in Seq(S) /\ Len(z) = Limit - c.count - c.index + 1
        /\ \A i \in 1..Limit - c.count - c.index + 1 : z[i] = rows[c.index + i - 1]
    <2> DEFINE n == Limit - c.count
    <2>1. n \in Int /\ c.index <= n + 1 /\ n <= Len(rows) /\ 1 <= c.index /\ c.index \in Int
      BY <1>1, <1>2
    <2> HIDE DEF n
    <2>2. /\ SubSeq(rows, c.index, n) \in Seq(S)
          /\ Len(SubSeq(rows, c.index, n)) = n - c.index + 1
          /\ \A i \in 1..n - c.index + 1 : SubSeq(rows, c.index, n)[i] = rows[c.index + i - 1]
      BY <2>1, <1>2, Piece
    <2> QED  BY <2>2 DEF n
  <1>5. Rearranged(rows, c, fresh) = t
    BY <1>2 DEF Rearranged
  <1> HIDE DEF x, z
  <1>6. /\ t \in Seq(S) /\ Len(t) = Len(x) + Len(fresh) + Len(z)
        /\ \A i \in 1..Len(t) :
              t[i] = IF i <= Len(x) THEN x[i]
                     ELSE IF i <= Len(x) + Len(fresh) THEN fresh[i - Len(x)]
                     ELSE z[i - Len(x) - Len(fresh)]
    <2>1. x \in Seq(S) /\ fresh \in Seq(S) /\ z \in Seq(S)
      BY <1>2, <1>3, <1>4
    <2> QED  BY <2>1, ThreePieces
  <1> HIDE DEF t
  <1>7. Len(t) = Limit
    BY <1>1, <1>2, <1>3, <1>4, <1>6
  <1>8. ASSUME NEW i \in Positions
        PROVE  t[i] = IF i < c.index THEN rows[i]
                      ELSE IF i < c.index + c.count THEN fresh[i - (c.index - 1)]
                      ELSE rows[i - c.count]
    <2>1. t[i] = IF i <= c.index - 1 THEN x[i]
                 ELSE IF i <= c.index - 1 + c.count THEN fresh[i - (c.index - 1)]
                 ELSE z[i - (c.index - 1) - c.count]
      BY <1>2, <1>3, <1>6, <1>7 DEF Positions
    <2>2. CASE i < c.index
      BY <2>1, <2>2, <1>1, <1>3 DEF Positions
    <2>3. CASE c.index <= i /\ i < c.index + c.count
      BY <2>1, <2>3, <1>1 DEF Positions
    <2>4. CASE c.index + c.count <= i
      <3> DEFINE j == i - (c.index - 1) - c.count
      <3>1. t[i] = z[j]
        BY <2>1, <2>4, <1>1 DEF Positions
      <3>2. j \in 1..Limit - c.count - c.index + 1 /\ c.index + j - 1 = i - c.count
        <4>1. i \in Int /\ i <= Limit /\ c.index \in Int /\ c.count \in Int /\ Limit \in Int
          BY <1>1 DEF Positions
        <4> QED  BY <4>1, <2>4
      <3> HIDE DEF j
      <3>3. z[j] = rows[i - c.count]
        BY <3>2, <1>4
      <3>4. ~(i < c.index) /\ ~(i < c.index + c.count)
        BY <2>4, <1>1 DEF Positions
      <3> QED  BY <3>1, <3>3, <3>4
    <2> QED  BY <2>2, <2>3, <2>4, <1>1 DEF Positions
  <1> QED  BY <1>5, <1>6, <1>7, <1>8

\* The rows after a deletion: the remaining ones, then the fresh ones.
LEMMA DeletedRows ==
    ASSUME NEW S, NEW rows \in Axes(S), NEW c \in Mutations,
           NEW fresh \in Bands(S, c), c.action = "delete"
    PROVE  /\ Rearranged(rows, c, fresh) \in Seq(S)
           /\ Len(Rearranged(rows, c, fresh)) = Limit
           /\ \A i \in Positions :
                 Rearranged(rows, c, fresh)[i] = IF i < c.index THEN rows[i]
                        ELSE IF i <= Limit - c.count THEN rows[i + c.count]
                        ELSE fresh[i - (Limit - c.count)]
  <1>1. /\ Limit \in Nat /\ c.index \in 1..Limit /\ c.count \in 1..Limit
        /\ c.index + c.count - 1 <= Limit
    BY MutationFields
  <1>2. fresh \in Seq(S) /\ Len(fresh) = c.count
    BY <1>1 DEF Bands
  <1> DEFINE x == WithoutBand(rows, c)
             t == x \o fresh
  <1>3. /\ x \in Seq(S)
        /\ Len(x) = Limit - c.count
        /\ \A i \in 1..Limit - c.count : x[i] = IF i < c.index THEN rows[i] ELSE rows[i + c.count]
    BY WithoutBandFacts
  <1>4. Rearranged(rows, c, fresh) = t
    BY DEF Rearranged
  <1> HIDE DEF x
  <1>5. /\ t \in Seq(S) /\ Len(t) = Len(x) + Len(fresh)
        /\ \A i \in 1..Len(x) + Len(fresh) : t[i] = IF i <= Len(x) THEN x[i] ELSE fresh[i - Len(x)]
    BY <1>2, <1>3, ConcatProperties
  <1> HIDE DEF t
  <1>6. Len(t) = Limit
    BY <1>1, <1>2, <1>3, <1>5
  <1>7. \A i \in Positions : t[i] = IF i <= Limit - c.count THEN x[i] ELSE fresh[i - (Limit - c.count)]
    BY <1>1, <1>2, <1>3, <1>5 DEF Positions
  <1>8. \A i \in Positions :
           t[i] = IF i < c.index THEN rows[i]
                  ELSE IF i <= Limit - c.count THEN rows[i + c.count]
                  ELSE fresh[i - (Limit - c.count)]
    BY <1>1, <1>3, <1>7 DEF Positions
  <1> QED  BY <1>4, <1>5, <1>6, <1>8

\* The rows after a move: the band stands behind the first k remaining rows.
LEMMA MovedRows ==
    ASSUME NEW S, NEW rows \in Axes(S), NEW c \in Mutations,
           NEW fresh, c.action = "move"
    PROVE  /\ Rearranged(rows, c, fresh) \in Seq(S)
           /\ Len(Rearranged(rows, c, fresh)) = Limit
           /\ RowsBeforeLanding(c) \in 0..Limit - c.count
           /\ \A i \in Positions :
                 Rearranged(rows, c, fresh)[i] = IF i <= RowsBeforeLanding(c) THEN rows[IF i < c.index THEN i ELSE i + c.count]
                        ELSE IF i <= RowsBeforeLanding(c) + c.count THEN rows[c.index + (i - RowsBeforeLanding(c)) - 1]
                        ELSE rows[IF i - c.count < c.index THEN i - c.count ELSE i]
  <1>1. /\ Limit \in Nat /\ c.index \in 1..Limit /\ c.count \in 1..Limit
        /\ c.index + c.count - 1 <= Limit /\ c.destination \in 1..Limit + 1
    BY MutationFields
  <1>2. rows \in Seq(S) /\ Len(rows) = Limit
    BY <1>1 DEF Positions, Axes
  <1> DEFINE k == RowsBeforeLanding(c)
             rest == WithoutBand(rows, c)
             L == Limit - c.count
             x == SubSeq(rest, 1, k)
             y == SubSeq(rows, c.index, BandEnd(c))
             z == SubSeq(rest, k + 1, Len(rest))
             t == x \o y \o z
  <1>3. k \in 0..L /\ L \in Nat /\ L = Limit - c.count
    BY <1>1 DEF RowsBeforeLanding, BandEnd
  <1>4. /\ rest \in Seq(S) /\ Len(rest) = L
        /\ \A i \in 1..L : rest[i] = rows[IF i < c.index THEN i ELSE i + c.count]
    BY WithoutBandFacts
  <1>5. Rearranged(rows, c, fresh) = t
    BY DEF Rearranged
  <1> HIDE DEF k, rest, L
  <1>6. /\ x \in Seq(S) /\ Len(x) = k
        /\ \A i \in 1..k : x[i] = rest[i]
    BY <1>3, <1>4, Piece
  <1>7. /\ y \in Seq(S) /\ Len(y) = c.count
        /\ \A i \in 1..c.count : y[i] = rows[c.index + i - 1]
    <2> DEFINE n == BandEnd(c)
    <2>1. n \in Int /\ n <= Len(rows) /\ c.index <= n + 1 /\ n - c.index + 1 = c.count
          /\ c.index \in Int /\ 1 <= c.index
      BY <1>1, <1>2 DEF BandEnd
    <2> HIDE DEF n
    <2>2. /\ SubSeq(rows, c.index, n) \in Seq(S)
          /\ Len(SubSeq(rows, c.index, n)) = n - c.index + 1
          /\ \A i \in 1..n - c.index + 1 : SubSeq(rows, c.index, n)[i] = rows[c.index + i - 1]
      BY <2>1, <1>2, Piece
    <2> QED  BY <2>1, <2>2 DEF n
  <1>8. /\ z \in Seq(S) /\ Len(z) = L - k
        /\ \A i \in 1..L - k : z[i] = rest[k + i]
    <2> DEFINE m == k + 1
    <2>1. m \in Int /\ 1 <= m /\ m <= L + 1 /\ L \in Int /\ L - m + 1 = L - k /\ k \in Int
      BY <1>3
    <2>2. \A i \in 1..L - k : m + i - 1 = k + i
      BY <1>3
    <2> HIDE DEF m
    <2>3. /\ SubSeq(rest, m, L) \in Seq(S)
          /\ Len(SubSeq(rest, m, L)) = L - m + 1
          /\ \A i \in 1..L - m + 1 : SubSeq(rest, m, L)[i] = rest[m + i - 1]
      BY <2>1, <1>4, Piece
    <2>4. z = SubSeq(rest, m, L)
      BY <1>4 DEF m
    <2> QED  BY <2>1, <2>2, <2>3, <2>4
  <1> HIDE DEF x, y, z
  <1>9. /\ t \in Seq(S) /\ Len(t) = Len(x) + Len(y) + Len(z)
        /\ \A i \in 1..Len(t) :
              t[i] = IF i <= Len(x) THEN x[i]
                     ELSE IF i <= Len(x) + Len(y) THEN y[i - Len(x)]
                     ELSE z[i - Len(x) - Len(y)]
    <2>1. x \in Seq(S) /\ y \in Seq(S) /\ z \in Seq(S)
      BY <1>6, <1>7, <1>8
    <2> QED  BY <2>1, ThreePieces
  <1> HIDE DEF t
  <1>10. Len(t) = Limit
    <2>1. Len(t) = k + c.count + (L - k)
      BY <1>6, <1>7, <1>8, <1>9
    <2> QED  BY <2>1, <1>1, <1>3
  <1>11. ASSUME NEW i \in Positions
         PROVE  t[i] = IF i <= k THEN rows[IF i < c.index THEN i ELSE i + c.count]
                       ELSE IF i <= k + c.count THEN rows[c.index + (i - k) - 1]
                       ELSE rows[IF i - c.count < c.index THEN i - c.count ELSE i]
    <2>1. t[i] = IF i <= k THEN x[i]
                 ELSE IF i <= k + c.count THEN y[i - k]
                 ELSE z[i - k - c.count]
      BY <1>6, <1>7, <1>9, <1>10 DEF Positions
    <2>2. i \in Int /\ 1 <= i /\ i <= Limit /\ k \in Int /\ L \in Int /\ c.count \in Int /\ c.index \in Int
          /\ 0 <= k /\ k <= L /\ L = Limit - c.count /\ Limit \in Int
      BY <1>1, <1>3 DEF Positions
    <2>3. CASE i <= k
      <3>1. x[i] = rest[i] /\ i \in 1..L
        BY <2>2, <2>3, <1>6
      <3> QED  BY <3>1, <2>1, <2>3, <1>4
    <2>4. CASE ~(i <= k) /\ i <= k + c.count
      <3>1. i - k \in 1..c.count
        BY <2>2, <2>4
      <3>2. y[i - k] = rows[c.index + (i - k) - 1]
        BY <3>1, <1>7
      <3> QED  BY <3>2, <2>1, <2>4
    <2>5. CASE ~(i <= k) /\ ~(i <= k + c.count)
      <3> DEFINE j == i - k - c.count
      <3>1. j \in 1..L - k /\ k + j = i - c.count /\ i - c.count \in 1..L
        BY <2>2, <2>5
      <3>2. z[j] = rest[i - c.count]
        BY <3>1, <1>8
      <3>3. rest[i - c.count] = rows[IF i - c.count < c.index THEN i - c.count ELSE i - c.count + c.count]
        BY <3>1, <1>4
      <3>4. i - c.count + c.count = i
        BY <2>2
      <3> QED  BY <3>2, <3>3, <3>4, <2>1, <2>5
    <2> QED  BY <2>3, <2>4, <2>5
  <1> QED  BY <1>3, <1>5, <1>9, <1>10, <1>11 DEF k, L

\* Every entry after a change is an old row that TransformPosition sends here,
\* or a fresh row in a place to which it sends none.
LEMMA RearrangedEntry ==
    ASSUME NEW S, NEW rows \in Axes(S), NEW c \in Mutations,
           NEW fresh \in Bands(S, c), NEW i \in Positions
    PROVE  \/ \E p \in Positions : TransformPosition(p, c) = i /\ Rearranged(rows, c, fresh)[i] = rows[p]
           \/ /\ \A p \in Positions : TransformPosition(p, c) # i
              /\ \E j \in 1..c.count : Rearranged(rows, c, fresh)[i] = fresh[j]
  <1> DEFINE t == Rearranged(rows, c, fresh)
  <1> HIDE DEF t
  <1>1. /\ Limit \in Nat /\ c.index \in 1..Limit /\ c.count \in 1..Limit
        /\ c.index + c.count - 1 <= Limit
        /\ c.action \in {"insert", "delete", "move"}
        /\ i \in 1..Limit
    BY MutationFields DEF Positions
  <1>2. CASE c.action = "insert"
    <2>1. t[i] = IF i < c.index THEN rows[i]
                 ELSE IF i < c.index + c.count THEN fresh[i - (c.index - 1)]
                 ELSE rows[i - c.count]
      BY <1>2, InsertedRows DEF t
    <2>2. CASE i < c.index
      BY <2>1, <2>2, <1>1, <1>2 DEF TransformPosition, InsertedPosition, Positions, t
    <2>3. CASE ~(i < c.index) /\ i < c.index + c.count
      <3>1. \A p \in Positions : TransformPosition(p, c) # i
        BY <2>3, <1>1, <1>2 DEF TransformPosition, InsertedPosition, Positions, Gone
      <3>2. i - (c.index - 1) \in 1..c.count
        BY <2>3, <1>1
      <3> QED  BY <3>1, <3>2, <2>1, <2>3 DEF t
    <2>4. CASE ~(i < c.index) /\ ~(i < c.index + c.count)
      <3>1. i - c.count \in Positions /\ TransformPosition(i - c.count, c) = i
        <4>1. i \in Int /\ i <= Limit /\ c.index \in Int /\ c.count \in Int /\ Limit \in Int
              /\ 1 <= c.index /\ 1 <= c.count
          BY <1>1 DEF Positions
        <4> QED  BY <4>1, <2>4, <1>2 DEF TransformPosition, InsertedPosition, Positions
      <3> QED  BY <3>1, <2>1, <2>4 DEF t
    <2> QED  BY <2>2, <2>3, <2>4
  <1>3. CASE c.action = "delete"
    <2>1. t[i] = IF i < c.index THEN rows[i]
                 ELSE IF i <= Limit - c.count THEN rows[i + c.count]
                 ELSE fresh[i - (Limit - c.count)]
      <3>1. \A j \in Positions :
               t[j] = IF j < c.index THEN rows[j]
                      ELSE IF j <= Limit - c.count THEN rows[j + c.count]
                      ELSE fresh[j - (Limit - c.count)]
        BY <1>3, DeletedRows DEF t
      <3> QED  BY <3>1
    <2>2. CASE i < c.index
      BY <2>1, <2>2, <1>1, <1>3
      DEF TransformPosition, DeletedPosition, Positions, InBand, BandEnd, t
    <2>3. CASE ~(i < c.index) /\ i <= Limit - c.count
      <3>1. i + c.count \in Positions /\ TransformPosition(i + c.count, c) = i
        BY <2>3, <1>1, <1>3
        DEF TransformPosition, DeletedPosition, Positions, InBand, BandEnd
      <3> QED  BY <3>1, <2>1, <2>3 DEF t
    <2>4. CASE ~(i < c.index) /\ ~(i <= Limit - c.count)
      <3>1. \A p \in Positions : TransformPosition(p, c) # i
        BY <2>4, <1>1, <1>3
        DEF TransformPosition, DeletedPosition, Positions, InBand, BandEnd, Gone
      <3>2. i - (Limit - c.count) \in 1..c.count
        BY <2>4, <1>1
      <3> QED  BY <3>1, <3>2, <2>1, <2>4 DEF t
    <2> QED  BY <2>2, <2>3, <2>4
  <1>4. CASE c.action = "move"
    <2> DEFINE k == RowsBeforeLanding(c)
               p == IF i <= k THEN (IF i < c.index THEN i ELSE i + c.count)
                    ELSE IF i <= k + c.count THEN c.index + (i - k) - 1
                    ELSE (IF i - c.count < c.index THEN i - c.count ELSE i)
    <2>1. /\ k \in 0..Limit - c.count
          /\ \A j \in Positions :
                t[j] = IF j <= k THEN rows[IF j < c.index THEN j ELSE j + c.count]
                       ELSE IF j <= k + c.count THEN rows[c.index + (j - k) - 1]
                       ELSE rows[IF j - c.count < c.index THEN j - c.count ELSE j]
      BY <1>4, MovedRows DEF t
    <2>2. t[i] = rows[p]
      BY <2>1
    <2>3. c.destination \in 1..Limit + 1
      BY <1>4, MutationFields
    <2>4. p \in Positions /\ MovedPosition(p, c) = i
      <3>1. CASE c.destination > BandEnd(c)
        <4>1. k = c.destination - 1 - c.count
          BY <3>1 DEF RowsBeforeLanding
        <4>2. CASE i <= k
          BY <4>1, <4>2, <3>1, <2>3, <1>1 DEF MovedPosition, Positions, InBand, BandEnd
        <4>3. CASE ~(i <= k) /\ i <= k + c.count
          <5>1. p = c.index + (i - k) - 1 /\ i \in Int /\ k \in Int
            BY <4>3, <2>1, <1>1
          <5> HIDE DEF p, k
          <5>2. c.index <= p /\ p <= c.index + c.count - 1 /\ p \in Int
            BY <5>1, <4>3, <1>1
          <5> QED  BY <5>1, <5>2, <4>1, <3>1, <2>3, <1>1 DEF MovedPosition, Positions, InBand, BandEnd
        <4>4. CASE ~(i <= k) /\ ~(i <= k + c.count)
          BY <4>1, <4>4, <3>1, <2>3, <1>1 DEF MovedPosition, Positions, InBand, BandEnd
        <4> QED  BY <4>2, <4>3, <4>4
      <3>2. CASE c.destination < c.index
        <4>1. k = c.destination - 1 /\ ~(c.destination > BandEnd(c))
          BY <3>2, <2>3, <1>1 DEF RowsBeforeLanding, BandEnd
        <4>2. CASE i <= k
          BY <4>1, <4>2, <3>2, <2>3, <1>1 DEF MovedPosition, Positions, InBand, BandEnd
        <4>3. CASE ~(i <= k) /\ i <= k + c.count
          <5>1. p = c.index + (i - k) - 1 /\ i \in Int /\ k \in Int
            BY <4>3, <2>1, <1>1
          <5> HIDE DEF p, k
          <5>2. c.index <= p /\ p <= c.index + c.count - 1 /\ p \in Int
            BY <5>1, <4>3, <1>1
          <5> QED  BY <5>1, <5>2, <4>1, <3>2, <2>3, <1>1 DEF MovedPosition, Positions, InBand, BandEnd
        <4>4. CASE ~(i <= k) /\ ~(i <= k + c.count)
          BY <4>1, <4>4, <3>2, <2>3, <1>1 DEF MovedPosition, Positions, InBand, BandEnd
        <4> QED  BY <4>2, <4>3, <4>4
      <3>3. CASE ~(c.destination > BandEnd(c)) /\ ~(c.destination < c.index)
        <4>1. k = c.index - 1
          BY <3>3 DEF RowsBeforeLanding
        <4>2. p = i
          BY <4>1, <1>1
        <4> QED  BY <4>2, <3>3 DEF MovedPosition
      <3> QED  BY <3>1, <3>2, <3>3
    <2>5. TransformPosition(p, c) = i
      BY <2>4, <1>4 DEF TransformPosition
    <2> QED  BY <2>2, <2>4, <2>5 DEF t
  <1> QED  BY <1>1, <1>2, <1>3, <1>4

\* The rows after a change are again a full axis.
LEMMA RearrangedType ==
    ASSUME NEW S, NEW rows \in Axes(S), NEW c \in Mutations,
           NEW fresh \in Bands(S, c)
    PROVE  Rearranged(rows, c, fresh) \in Axes(S)
  <1>1. Rearranged(rows, c, fresh) \in Seq(S) /\ Len(Rearranged(rows, c, fresh)) = Limit
    <2>1. CASE c.action = "insert"
      BY <2>1, InsertedRows
    <2>2. CASE c.action = "delete"
      BY <2>2, DeletedRows
    <2>3. CASE c.action = "move"
      BY <2>3, MovedRows
    <2> QED  BY <2>1, <2>2, <2>3, MutationFields
  <1> QED  BY <1>1, LenProperties DEF Positions, Axes

\* The arithmetic of TransformPosition is the cut and paste of rows: a row whose
\* position the code moves to q is the row found at q when whole rows are cut
\* and pasted, for every axis length and every accepted change.
THEOREM PositionsFollowRows ==
    ASSUME NEW S, NEW rows \in Axes(S), NEW c \in Mutations,
           NEW fresh \in Bands(S, c),
           NEW p \in Positions, TransformPosition(p, c) # Gone
    PROVE  Rearranged(rows, c, fresh)[TransformPosition(p, c)] = rows[p]
  <1> DEFINE i == TransformPosition(p, c)
  <1>1. i \in Positions
    BY TransformPositionStaysOnAxis
  <1>2. PICK q \in Positions :
           TransformPosition(q, c) = i /\ Rearranged(rows, c, fresh)[i] = rows[q]
    <2>1. \/ \E q \in Positions :
                TransformPosition(q, c) = i /\ Rearranged(rows, c, fresh)[i] = rows[q]
          \/ \A q \in Positions : TransformPosition(q, c) # i
      BY <1>1, RearrangedEntry
    <2> QED  BY <2>1
  <1>3. q = p
    BY <1>2, TransformPositionInjective
  <1> QED  BY <1>2, <1>3

=============================================================================
