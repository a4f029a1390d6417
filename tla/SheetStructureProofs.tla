------------------------ MODULE SheetStructureProofs ------------------------
(***************************************************************************)
(* For every axis length, every span and every sequence of changes: the    *)
(* stored cells are the ones typed into their rows, notes on values go     *)
(* with them, no span loses a row, and no typed cell is pushed off the     *)
(* sheet.  The argument is one induction over ApplyStructure; what a       *)
(* change does to a position, to a span and to the rows is taken from      *)
(* StructuralChangeProofs.                                                 *)
(***************************************************************************)
EXTENDS SheetStructure, StructuralChangeProofs, FiniteSetTheorems

\* The inductive invariant.
Inv ==
    /\ TypeOK
    /\ CellsFollowTheirRows
    /\ NotesOnValuesFollow
    /\ SpansKeepTheirRows
    /\ SpansAreExactWithoutMoves

\* The empty span is not a span of rows.
LEMMA NoSpanIsNoSpan == NoSpan \notin Spans
  BY LimitAssumption DEF NoSpan, Gone, Spans, Positions

\* An empty sheet satisfies the invariant.
LEMMA InitEstablishesInv == Init => Inv
  <1> SUFFICES ASSUME Init PROVE Inv
    OBVIOUS
  <1>1. EmptyCell \in Cell /\ Unset \in Reference
    BY DEF EmptyCell, Cell, Unset, Reference
  <1>2. FreshRow \in Row
    BY <1>1 DEF FreshRow, Row
  <1>3. 0 \in 0..MaxSteps
    BY MaxStepsAssumption
  <1>4. TypeOK
    BY <1>1, <1>2, <1>3 DEF Init, TypeOK
  <1>5. \A p \in Positions : cells[p] = EmptyCell /\ rows[p] = FreshRow
    BY DEF Init
  <1>6. FreshRow.cell = EmptyCell /\ ~FreshRow.named /\ ~FreshRow.rule
    BY DEF FreshRow
  <1>7. CellsFollowTheirRows /\ NotesOnValuesFollow
    BY <1>5, <1>6 DEF CellsFollowTheirRows, NotesOnValuesFollow
  <1>8. SpansKeepTheirRows /\ SpansAreExactWithoutMoves
    BY <1>5, <1>6 DEF SpansKeepTheirRows, SpansAreExactWithoutMoves, Init, Unset
  <1> QED  BY <1>4, <1>7, <1>8 DEF Inv

-----------------------------------------------------------------------------
(***************************************************************************)
(* Laying cells and spans                                                  *)
(***************************************************************************)

\* Writing a cell keeps the invariant.
LEMMA WriteCellKeepsInv ==
    ASSUME Inv, NEW p \in Positions, NEW cell \in Cell, WriteCell(p, cell)
    PROVE  Inv'
  <1>1. /\ cells' = [cells EXCEPT ![p] = cell]
        /\ rows' = [rows EXCEPT ![p].cell = cell]
        /\ UNCHANGED <<named, rule, exception, torn>>
        /\ cells \in [Positions -> Cell] /\ rows \in [Positions -> Row]
    BY DEF WriteCell, Inv, TypeOK
  <1>2. TypeOK'
    BY <1>1, MaxStepsAssumption DEF Inv, TypeOK, WriteCell, Step, Row
  <1>3. \A q \in Positions :
           /\ cells'[q] = IF q = p THEN cell ELSE cells[q]
           /\ rows'[q].cell = IF q = p THEN cell ELSE rows[q].cell
           /\ rows'[q].named = rows[q].named /\ rows'[q].rule = rows[q].rule
    BY <1>1 DEF Row
  <1>4. CellsFollowTheirRows'
    BY <1>3 DEF Inv, CellsFollowTheirRows
  <1>5. NotesOnValuesFollow'
    BY <1>3 DEF Inv, NotesOnValuesFollow
  <1>6. SpansKeepTheirRows' /\ SpansAreExactWithoutMoves'
    BY <1>1, <1>3 DEF Inv, SpansKeepTheirRows, SpansAreExactWithoutMoves
  <1> QED  BY <1>2, <1>4, <1>5, <1>6 DEF Inv

\* So does naming a range,
LEMMA CreateNamedRangeKeepsInv ==
    ASSUME Inv, NEW span \in Spans, CreateNamedRange(span)
    PROVE  Inv'
  <1>1. /\ named' = [state |-> "live", span |-> span]
        /\ rows' = [p \in Positions |-> [rows[p] EXCEPT !.named = InSpan(p, span)]]
        /\ UNCHANGED <<cells, rule, exception, torn>>
        /\ rows \in [Positions -> Row]
    BY DEF CreateNamedRange, Inv, TypeOK
  <1>2. TypeOK'
    <2>1. \A q \in Positions : InSpan(q, span) \in BOOLEAN
      BY DEF InSpan
    <2>2. rows' \in [Positions -> Row]
      BY <1>1, <2>1 DEF Row
    <2>3. named' \in Reference
      BY <1>1, NoSpanIsNoSpan DEF Reference
    <2>4. steps' \in 0..MaxSteps
      BY MaxStepsAssumption DEF Inv, TypeOK, CreateNamedRange, Step
    <2> QED  BY <1>1, <2>2, <2>3, <2>4 DEF Inv, TypeOK
  <1>3. \A q \in Positions :
           /\ rows'[q].cell = rows[q].cell /\ rows'[q].rule = rows[q].rule
           /\ rows'[q].named = InSpan(q, span)
    BY <1>1 DEF Row
  <1>4. CellsFollowTheirRows' /\ NotesOnValuesFollow'
    BY <1>1, <1>3 DEF Inv, CellsFollowTheirRows, NotesOnValuesFollow
  <1>5. SpansKeepTheirRows' /\ SpansAreExactWithoutMoves'
    BY <1>1, <1>3 DEF Inv, SpansKeepTheirRows, SpansAreExactWithoutMoves
  <1> QED  BY <1>2, <1>4, <1>5 DEF Inv

\* laying a validation rule over rows,
LEMMA CreateDataValidationKeepsInv ==
    ASSUME Inv, NEW span \in Spans, CreateDataValidation(span)
    PROVE  Inv'
  <1>1. /\ rule' = [state |-> "live", span |-> span]
        /\ rows' = [p \in Positions |-> [rows[p] EXCEPT !.rule = InSpan(p, span)]]
        /\ UNCHANGED <<cells, named, exception, torn>>
        /\ rows \in [Positions -> Row]
    BY DEF CreateDataValidation, Inv, TypeOK
  <1>2. TypeOK'
    <2>1. \A q \in Positions : InSpan(q, span) \in BOOLEAN
      BY DEF InSpan
    <2>2. rows' \in [Positions -> Row]
      BY <1>1, <2>1 DEF Row
    <2>3. rule' \in Reference
      BY <1>1, NoSpanIsNoSpan DEF Reference
    <2>4. steps' \in 0..MaxSteps
      BY MaxStepsAssumption DEF Inv, TypeOK, CreateDataValidation, Step
    <2> QED  BY <1>1, <2>2, <2>3, <2>4 DEF Inv, TypeOK
  <1>3. \A q \in Positions :
           /\ rows'[q].cell = rows[q].cell /\ rows'[q].named = rows[q].named
           /\ rows'[q].rule = InSpan(q, span)
    BY <1>1 DEF Row
  <1>4. CellsFollowTheirRows' /\ NotesOnValuesFollow'
    BY <1>1, <1>3 DEF Inv, CellsFollowTheirRows, NotesOnValuesFollow
  <1>5. SpansKeepTheirRows' /\ SpansAreExactWithoutMoves'
    BY <1>1, <1>3 DEF Inv, SpansKeepTheirRows, SpansAreExactWithoutMoves
  <1> QED  BY <1>2, <1>4, <1>5 DEF Inv

\* and protecting the sheet.
LEMMA CreateSheetProtectionKeepsInv ==
    ASSUME Inv, NEW span \in Spans, CreateSheetProtection(span)
    PROVE  Inv'
  <1>1. /\ exception' = [state |-> "live", span |-> span]
        /\ rows' = [p \in Positions |-> [rows[p] EXCEPT !.open = InSpan(p, span)]]
        /\ UNCHANGED <<cells, named, rule, torn>>
        /\ rows \in [Positions -> Row]
    BY DEF CreateSheetProtection, Inv, TypeOK
  <1>2. TypeOK'
    <2>1. \A q \in Positions : InSpan(q, span) \in BOOLEAN
      BY DEF InSpan
    <2>2. rows' \in [Positions -> Row]
      BY <1>1, <2>1 DEF Row
    <2>3. exception' \in Reference
      BY <1>1, NoSpanIsNoSpan DEF Reference
    <2>4. steps' \in 0..MaxSteps
      BY MaxStepsAssumption DEF Inv, TypeOK, CreateSheetProtection, Step
    <2> QED  BY <1>1, <2>2, <2>3, <2>4 DEF Inv, TypeOK
  <1>3. \A q \in Positions :
           /\ rows'[q].cell = rows[q].cell /\ rows'[q].named = rows[q].named
           /\ rows'[q].rule = rows[q].rule
    BY <1>1 DEF Row
  <1>4. CellsFollowTheirRows' /\ NotesOnValuesFollow'
    BY <1>1, <1>3 DEF Inv, CellsFollowTheirRows, NotesOnValuesFollow
  <1>5. SpansKeepTheirRows' /\ SpansAreExactWithoutMoves'
    BY <1>1, <1>3 DEF Inv, SpansKeepTheirRows, SpansAreExactWithoutMoves
  <1> QED  BY <1>2, <1>4, <1>5 DEF Inv

-----------------------------------------------------------------------------
(***************************************************************************)
(* ApplyStructure                                                          *)
(***************************************************************************)

\* The rows that ApplyStructure brings in are rows.
LEMMA InsertedRowType ==
    ASSUME Inv, NEW c \in Mutations
    PROVE  /\ InsertedRow(c) \in Row
           /\ InsertedRow(c).cell = EmptyCell
           /\ [i \in 1..c.count |-> InsertedRow(c)] \in Bands(Row, c)
           /\ InsertedRow(c).named <=>
                 c.action = "insert" /\ c.index > 1 /\ rows[c.index - 1].named /\ rows[c.index].named
           /\ InsertedRow(c).rule <=>
                 c.action = "insert" /\ c.index > 1 /\ rows[c.index - 1].rule /\ rows[c.index].rule
  <1>1. FreshRow \in Row /\ FreshRow.cell = EmptyCell /\ ~FreshRow.named /\ ~FreshRow.rule
    BY DEF FreshRow, Row, EmptyCell, Cell
  <1>2. c.index > 1 => rows[c.index - 1] \in Row /\ rows[c.index] \in Row
    BY MutationFields DEF Inv, TypeOK, Positions
  <1>3. CASE c.action = "insert" /\ c.index > 1
    BY <1>1, <1>2, <1>3 DEF InsertedRow, Row, Bands
  <1>4. CASE ~(c.action = "insert" /\ c.index > 1)
    BY <1>1, <1>4 DEF InsertedRow, Bands
  <1> QED  BY <1>3, <1>4

\* A row after the change is an old row in its new place, or a new row in a
\* place to which no old position is sent.
LEMMA RowAfterChange ==
    ASSUME Inv, NEW c \in Mutations, ApplyStructure(c), NEW q \in Positions
    PROVE  \/ \E p \in Positions : TransformPosition(p, c) = q /\ rows'[q] = rows[p]
           \/ /\ \A p \in Positions : TransformPosition(p, c) # q
              /\ rows'[q] = InsertedRow(c)
  <1> DEFINE fresh == [i \in 1..c.count |-> InsertedRow(c)]
  <1>1. rows' = Rearranged(rows, c, fresh)
    BY DEF ApplyStructure
  <1>2. rows \in Axes(Row) /\ fresh \in Bands(Row, c)
    BY InsertedRowType DEF Inv, TypeOK, Axes
  <1>3. \A j \in 1..c.count : fresh[j] = InsertedRow(c)
    OBVIOUS
  <1> HIDE DEF fresh
  <1>4. \/ \E p \in Positions :
              TransformPosition(p, c) = q /\ Rearranged(rows, c, fresh)[q] = rows[p]
        \/ /\ \A p \in Positions : TransformPosition(p, c) # q
           /\ \E j \in 1..c.count : Rearranged(rows, c, fresh)[q] = fresh[j]
    BY <1>2, RearrangedEntry
  <1> QED  BY <1>1, <1>3, <1>4

\* A cell after the change is the recalculated cell of the old position.
LEMMA CellAfterChange ==
    ASSUME Inv, NEW c \in Mutations, ApplyStructure(c), NEW q \in Positions
    PROVE  /\ \A p \in Positions :
                 TransformPosition(p, c) = q => cells'[q] = Recalculated(cells[p])
           /\ (\A p \in Positions : TransformPosition(p, c) # q) => cells'[q] = EmptyCell
  <1>1. cells'[q] = IF \E p \in Positions : TransformPosition(p, c) = q
                    THEN Recalculated(cells[CHOOSE p \in Positions : TransformPosition(p, c) = q])
                    ELSE EmptyCell
    BY DEF ApplyStructure, TransformStructureCells
  <1>2. ASSUME NEW p \in Positions, TransformPosition(p, c) = q
        PROVE  cells'[q] = Recalculated(cells[p])
    <2> DEFINE r == CHOOSE r \in Positions : TransformPosition(r, c) = q
    <2>1. r \in Positions /\ TransformPosition(r, c) = q
      BY <1>2
    <2> HIDE DEF r
    <2>2. q # Gone
      BY LimitAssumption DEF Positions, Gone
    <2>3. r = p
      BY <1>2, <2>1, <2>2, TransformPositionInjective
    <2> QED  BY <1>1, <1>2, <2>3 DEF r
  <1> QED  BY <1>1, <1>2

\* A reference that ApplyStructure does not refuse stays a reference.
LEMMA FollowedReferenceType ==
    ASSUME NEW ref \in Reference, NEW c \in Mutations, Fits(ref, c)
    PROVE  TransformNamedRange(ref, c) \in Reference /\ TransformValidation(ref, c) \in Reference
  <1>1. CASE ref.state # "live"
    BY <1>1 DEF TransformNamedRange, TransformValidation
  <1>2. CASE ref.state = "live"
    <2>1. ref.span \in Spans
      BY <1>2 DEF Reference
    <2>2. TransformInterval(ref.span, c) \in Spans \cup {NoSpan}
      BY <1>2, <2>1, TransformIntervalIsSpan DEF Fits
    <2>3. CASE TransformInterval(ref.span, c) = NoSpan
      BY <1>2, <2>3 DEF TransformNamedRange, TransformValidation, Reference, Unset
    <2>4. CASE TransformInterval(ref.span, c) # NoSpan
      BY <1>2, <2>2, <2>4 DEF TransformNamedRange, TransformValidation, Reference
    <2> QED  BY <2>3, <2>4
  <1> QED  BY <1>1, <1>2

\* A structural change keeps the types,
LEMMA ApplyStructureKeepsTypeOK ==
    ASSUME Inv, NEW c \in Mutations, ApplyStructure(c)
    PROVE  TypeOK'
  <1>1. cells' \in [Positions -> Cell]
    <2>1. \A cell \in Cell : Recalculated(cell) \in Cell
      BY DEF Recalculated, Cell
    <2>2. EmptyCell \in Cell
      BY DEF EmptyCell, Cell
    <2>3. cells' = [q \in Positions |-> cells'[q]]
      BY DEF ApplyStructure, TransformStructureCells
    <2>4. ASSUME NEW q \in Positions PROVE cells'[q] \in Cell
      BY <2>1, <2>2, CellAfterChange DEF Inv, TypeOK
    <2> QED  BY <2>3, <2>4
  <1>2. named' \in Reference /\ rule' \in Reference /\ exception' \in Reference
    BY FollowedReferenceType DEF ApplyStructure, TransformProtected, Inv, TypeOK
  <1>3. rows' \in [Positions -> Row]
    <2> DEFINE fresh == [i \in 1..c.count |-> InsertedRow(c)]
    <2>1. rows \in Axes(Row) /\ fresh \in Bands(Row, c)
      BY InsertedRowType DEF Inv, TypeOK, Axes
    <2> HIDE DEF fresh
    <2>2. Rearranged(rows, c, fresh) \in Axes(Row)
      BY <2>1, RearrangedType
    <2> QED  BY <2>2 DEF ApplyStructure, fresh, Axes
  <1>4. torn' \in BOOLEAN
    BY DEF ApplyStructure, Inv, TypeOK
  <1>5. steps' \in 0..MaxSteps
    BY MaxStepsAssumption DEF ApplyStructure, Step, Inv, TypeOK
  <1> QED  BY <1>1, <1>2, <1>3, <1>4, <1>5 DEF TypeOK

\* it keeps each cell with its row,
LEMMA ApplyStructureKeepsCells ==
    ASSUME Inv, NEW c \in Mutations, ApplyStructure(c)
    PROVE  CellsFollowTheirRows' /\ NotesOnValuesFollow'
  <1>1. ASSUME NEW q \in Positions
        PROVE  /\ cells'[q].body = rows'[q].cell.body
               /\ rows'[q].cell.body # "formula" => cells'[q].note = rows'[q].cell.note
    <2>1. CASE \E p \in Positions : TransformPosition(p, c) = q /\ rows'[q] = rows[p]
      <3>1. PICK p \in Positions : TransformPosition(p, c) = q /\ rows'[q] = rows[p]
        BY <2>1
      <3>2. cells'[q] = Recalculated(cells[p])
        BY <3>1, CellAfterChange
      <3>3. cells[p] \in Cell /\ cells[p].body = rows[p].cell.body
            /\ (rows[p].cell.body # "formula" => cells[p].note = rows[p].cell.note)
        BY DEF Inv, TypeOK, CellsFollowTheirRows, NotesOnValuesFollow
      <3>4. Recalculated(cells[p]).body = cells[p].body
            /\ (cells[p].body # "formula" => Recalculated(cells[p]).note = cells[p].note)
        BY <3>3 DEF Recalculated, Cell
      <3> QED  BY <3>1, <3>2, <3>3, <3>4
    <2>2. CASE /\ \A p \in Positions : TransformPosition(p, c) # q
               /\ rows'[q] = InsertedRow(c)
      <3>1. cells'[q] = EmptyCell /\ rows'[q].cell = EmptyCell
        BY <2>2, CellAfterChange, InsertedRowType
      <3> QED  BY <3>1
    <2> QED  BY <2>1, <2>2, RowAfterChange
  <1> QED  BY <1>1 DEF CellsFollowTheirRows, NotesOnValuesFollow

\* Where no old position is sent, an insertion made room.
LEMMA RoomMade ==
    ASSUME NEW c \in Mutations, NEW q \in Positions, c.action = "insert",
           \A p \in Positions : TransformPosition(p, c) # q
    PROVE  c.index <= q /\ q <= c.index + c.count - 1
  <1>1. /\ c.index \in Int /\ c.count \in Int /\ 1 <= c.count /\ 1 <= c.index /\ Limit \in Int
        /\ q \in Int /\ 1 <= q /\ q <= Limit
    BY MutationFields DEF Positions
  <1>2. ASSUME q < c.index PROVE FALSE
    <2>1. TransformPosition(q, c) = q
      BY <1>1, <1>2 DEF TransformPosition, InsertedPosition
    <2> QED  BY <2>1
  <1>3. ASSUME q > c.index + c.count - 1 PROVE FALSE
    <2> DEFINE p == q - c.count
    <2>1. p \in Positions /\ TransformPosition(p, c) = q
      BY <1>1, <1>3 DEF TransformPosition, InsertedPosition, Positions
    <2> QED  BY <2>1
  <1> QED  BY <1>1, <1>2, <1>3

\* A span over both neighbours of an insertion takes in the inserted rows.
LEMMA SpanTakesInsertion ==
    ASSUME NEW c \in Mutations, NEW q \in Positions, NEW span \in Spans,
           c.action = "insert", c.index > 1, InSpan(c.index - 1, span), InSpan(c.index, span),
           c.index <= q, q <= c.index + c.count - 1
    PROVE  /\ TransformInterval(span, c) # NoSpan
           /\ InSpan(q, TransformInterval(span, c))
  BY MutationFields
  DEF InSpan, TransformInterval, InsertedInterval, Spans, Positions, NoSpan, Gone

\* One mark and one reference: the rows marked before the change are covered
\* before, so the rows marked after it are covered after it.
LEMMA MarkedRowsStayCovered ==
    ASSUME NEW ref \in Reference, NEW c \in Mutations, NEW q \in Positions,
           NEW Marked,
           \A p \in Positions : p \in Marked => ref.state = "live" /\ InSpan(p, ref.span),
           \/ \E p \in Positions : TransformPosition(p, c) = q /\ p \in Marked
           \/ /\ \A p \in Positions : TransformPosition(p, c) # q
              /\ c.action = "insert" /\ c.index > 1 /\ c.index - 1 \in Marked /\ c.index \in Marked
    PROVE  /\ ref.state = "live"
           /\ TransformInterval(ref.span, c) # NoSpan
           /\ InSpan(q, TransformInterval(ref.span, c))
  <1>1. ref.state = "live" => ref.span \in Spans
    BY DEF Reference
  <1>2. q # Gone
    BY LimitAssumption DEF Positions, Gone
  <1>3. CASE \E p \in Positions : TransformPosition(p, c) = q /\ p \in Marked
    <2>1. PICK p \in Positions : TransformPosition(p, c) = q /\ p \in Marked
      BY <1>3
    <2>2. ref.state = "live" /\ ref.span[1] <= p /\ p <= ref.span[2]
      BY <2>1 DEF InSpan
    <2> QED  BY <1>1, <1>2, <2>1, <2>2, TransformIntervalCovers DEF InSpan
  <1>4. CASE /\ \A p \in Positions : TransformPosition(p, c) # q
             /\ c.action = "insert" /\ c.index > 1 /\ c.index - 1 \in Marked /\ c.index \in Marked
    <2>1. c.index - 1 \in Positions /\ c.index \in Positions
      BY <1>4, MutationFields DEF Positions
    <2>2. ref.state = "live" /\ InSpan(c.index - 1, ref.span) /\ InSpan(c.index, ref.span)
      BY <1>4, <2>1
    <2>3. c.index <= q /\ q <= c.index + c.count - 1
      BY <1>4, RoomMade
    <2> QED  BY <1>1, <1>4, <2>2, <2>3, SpanTakesInsertion
  <1> QED  BY <1>3, <1>4

\* The converse without moves: what is covered after the change is marked.
LEMMA CoveredRowsAreMarked ==
    ASSUME NEW ref \in Reference, NEW c \in Mutations, NEW q \in Positions,
           NEW Marked, c.action # "move", ref.state = "live",
           \A p \in Positions : p \in Marked <=> InSpan(p, ref.span),
           InSpan(q, TransformInterval(ref.span, c))
    PROVE  \/ \E p \in Positions : TransformPosition(p, c) = q /\ p \in Marked
           \/ /\ \A p \in Positions : TransformPosition(p, c) # q
              /\ c.action = "insert" /\ c.index > 1 /\ c.index - 1 \in Marked /\ c.index \in Marked
  <1> DEFINE span == ref.span
  <1>1. span \in Spans /\ q # Gone
    BY LimitAssumption DEF Reference, Positions, Gone
  <1> HIDE DEF span
  <1>2. CASE \E p \in Positions : TransformPosition(p, c) = q
    <2>1. PICK p \in Positions : TransformPosition(p, c) = q
      BY <1>2
    <2>2. span[1] <= p /\ p <= span[2]
      BY <1>1, <2>1, TransformIntervalExact DEF InSpan, span
    <2> QED  BY <2>1, <2>2 DEF InSpan, span
  <1>3. CASE \A p \in Positions : TransformPosition(p, c) # q
    <2>1. /\ c.index \in Int /\ c.count \in Int /\ 1 <= c.count /\ 1 <= c.index /\ Limit \in Int
          /\ c.index + c.count - 1 <= Limit
          /\ q \in Int /\ 1 <= q /\ q <= Limit
          /\ span[1] \in Int /\ span[2] \in Int /\ 1 <= span[1] /\ span[1] <= span[2]
          /\ span[2] <= Limit
      BY <1>1, MutationFields DEF Positions, Spans
    <2>2. CASE c.action = "insert"
      <3>1. c.index <= q /\ q <= c.index + c.count - 1
        BY <1>3, <2>2, RoomMade
      <3>2. TransformInterval(span, c) = InsertedInterval(span, c)
        BY <2>2 DEF TransformInterval
      <3>3. span[1] < c.index /\ c.index <= span[2]
        BY <2>1, <3>1, <3>2 DEF InsertedInterval, InSpan, span
      <3>4. c.index - 1 \in Positions /\ c.index \in Positions /\ c.index > 1
        BY <2>1, <3>3 DEF Positions
      <3>5. InSpan(c.index - 1, span) /\ InSpan(c.index, span)
        BY <2>1, <3>3 DEF InSpan
      <3> QED  BY <1>3, <2>2, <3>4, <3>5 DEF span
    <2>3. CASE c.action = "delete"
      <3>1. q > Limit - c.count
        <4>1. SUFFICES ASSUME q <= Limit - c.count PROVE FALSE
          BY <2>1
        <4>2. CASE q < c.index
          <5>1. TransformPosition(q, c) = q
            BY <2>1, <2>3, <4>2 DEF TransformPosition, DeletedPosition, InBand, BandEnd
          <5> QED  BY <5>1, <1>3
        <4>3. CASE q >= c.index
          <5> DEFINE p == q + c.count
          <5>1. p \in Positions /\ TransformPosition(p, c) = q
            BY <2>1, <2>3, <4>1, <4>3 DEF TransformPosition, DeletedPosition, InBand, BandEnd, Positions
          <5> QED  BY <5>1, <1>3
        <4> QED  BY <2>1, <4>2, <4>3
      <3>2. TransformInterval(span, c) = DeletedInterval(span, c)
        BY <2>3 DEF TransformInterval
      <3>3. DeletedInterval(span, c)[2] <= Limit - c.count
        BY <2>1 DEF DeletedInterval, InBand, BandEnd, NoSpan, Gone
      <3>4. DeletedInterval(span, c)[2] \in Int
        BY <2>1 DEF DeletedInterval, InBand, BandEnd, NoSpan, Gone
      <3> QED  BY <2>1, <3>1, <3>2, <3>3, <3>4 DEF InSpan, span
    <2> QED  BY <2>2, <2>3, MutationFields
  <1> QED  BY <1>2, <1>3

\* and the spans over theirs.
LEMMA ApplyStructureKeepsSpans ==
    ASSUME Inv, NEW c \in Mutations, ApplyStructure(c)
    PROVE  SpansKeepTheirRows' /\ SpansAreExactWithoutMoves'
  <1>1. named \in Reference /\ rule \in Reference
    BY DEF Inv, TypeOK
  <1>2. named' = TransformNamedRange(named, c) /\ rule' = TransformValidation(rule, c)
        /\ torn' = (torn \/ c.action = "move")
    BY DEF ApplyStructure
  <1> DEFINE NM == {p \in Positions : rows[p].named}
             RM == {p \in Positions : rows[p].rule}
  <1>3. ASSUME NEW q \in Positions
        PROVE  /\ rows'[q].named <=>
                    \/ \E p \in Positions : TransformPosition(p, c) = q /\ p \in NM
                    \/ /\ \A p \in Positions : TransformPosition(p, c) # q
                       /\ c.action = "insert" /\ c.index > 1 /\ c.index - 1 \in NM /\ c.index \in NM
               /\ rows'[q].rule <=>
                    \/ \E p \in Positions : TransformPosition(p, c) = q /\ p \in RM
                    \/ /\ \A p \in Positions : TransformPosition(p, c) # q
                       /\ c.action = "insert" /\ c.index > 1 /\ c.index - 1 \in RM /\ c.index \in RM
    <2>1. q # Gone /\ c.index \in Positions /\ (c.index > 1 => c.index - 1 \in Positions)
      BY MutationFields DEF Positions, Gone
    <2>2. CASE \E p \in Positions : TransformPosition(p, c) = q /\ rows'[q] = rows[p]
      <3>1. PICK p \in Positions : TransformPosition(p, c) = q /\ rows'[q] = rows[p]
        BY <2>2
      <3>2. \A o \in Positions : TransformPosition(o, c) = q => o = p
        BY <2>1, <3>1, TransformPositionInjective
      <3> QED  BY <3>1, <3>2
    <2>3. CASE /\ \A p \in Positions : TransformPosition(p, c) # q
               /\ rows'[q] = InsertedRow(c)
      BY <2>1, <2>3, InsertedRowType
    <2> QED  BY <2>2, <2>3, RowAfterChange
  <1>4. \A p \in Positions : p \in NM => named.state = "live" /\ InSpan(p, named.span)
    BY DEF Inv, SpansKeepTheirRows
  <1>5. \A p \in Positions : p \in RM => rule.state = "live" /\ InSpan(p, rule.span)
    BY DEF Inv, SpansKeepTheirRows
  <1>6. ~torn => \A p \in Positions : p \in NM <=> named.state = "live" /\ InSpan(p, named.span)
    BY DEF Inv, SpansAreExactWithoutMoves
  <1>7. ~torn => \A p \in Positions : p \in RM <=> rule.state = "live" /\ InSpan(p, rule.span)
    BY DEF Inv, SpansAreExactWithoutMoves
  <1> HIDE DEF NM, RM
  <1>8. ASSUME NEW q \in Positions, rows'[q].named
        PROVE  named'.state = "live" /\ InSpan(q, named'.span)
    <2>1. /\ named.state = "live"
          /\ TransformInterval(named.span, c) # NoSpan
          /\ InSpan(q, TransformInterval(named.span, c))
      BY <1>1, <1>3, <1>4, <1>8, MarkedRowsStayCovered
    <2> QED  BY <1>1, <1>2, <2>1 DEF TransformNamedRange, Reference
  <1>9. ASSUME NEW q \in Positions, rows'[q].rule
        PROVE  rule'.state = "live" /\ InSpan(q, rule'.span)
    <2>1. /\ rule.state = "live"
          /\ TransformInterval(rule.span, c) # NoSpan
          /\ InSpan(q, TransformInterval(rule.span, c))
      BY <1>1, <1>3, <1>5, <1>9, MarkedRowsStayCovered
    <2> QED  BY <1>1, <1>2, <2>1 DEF TransformValidation, Reference
  <1>10. ASSUME NEW q \in Positions, ~torn', named'.state = "live" /\ InSpan(q, named'.span)
         PROVE  rows'[q].named
    <2>1. named.state = "live" /\ named'.span = TransformInterval(named.span, c)
      BY <1>1, <1>2, <1>10 DEF TransformNamedRange, Reference
    <2>2. ~torn /\ c.action # "move"
      BY <1>2, <1>10
    <2> QED  BY <1>1, <1>3, <1>6, <1>10, <2>1, <2>2, CoveredRowsAreMarked
  <1>11. ASSUME NEW q \in Positions, ~torn', rule'.state = "live" /\ InSpan(q, rule'.span)
         PROVE  rows'[q].rule
    <2>1. rule.state = "live" /\ rule'.span = TransformInterval(rule.span, c)
      BY <1>1, <1>2, <1>11 DEF TransformValidation, Reference, Unset
    <2>2. ~torn /\ c.action # "move"
      BY <1>2, <1>11
    <2> QED  BY <1>1, <1>3, <1>7, <1>11, <2>1, <2>2, CoveredRowsAreMarked
  <1>12. SpansKeepTheirRows'
    BY <1>8, <1>9 DEF SpansKeepTheirRows
  <1>13. SpansAreExactWithoutMoves'
    BY <1>8, <1>9, <1>10, <1>11 DEF SpansAreExactWithoutMoves
  <1> QED  BY <1>12, <1>13

-----------------------------------------------------------------------------

\* Every step keeps the invariant.
LEMMA NextKeepsInv == Inv /\ [Next]_vars => Inv'
  <1> SUFFICES ASSUME Inv, [Next]_vars PROVE Inv'
    OBVIOUS
  <1>1. ASSUME NEW p \in Positions, NEW cell \in Cell, WriteCell(p, cell) PROVE Inv'
    BY <1>1, WriteCellKeepsInv
  <1>2. ASSUME NEW span \in Spans, CreateNamedRange(span) PROVE Inv'
    BY <1>2, CreateNamedRangeKeepsInv
  <1>3. ASSUME NEW span \in Spans, CreateDataValidation(span) PROVE Inv'
    BY <1>3, CreateDataValidationKeepsInv
  <1>4. ASSUME NEW span \in Spans, CreateSheetProtection(span) PROVE Inv'
    BY <1>4, CreateSheetProtectionKeepsInv
  <1>5. ASSUME NEW c \in Mutations, ApplyStructure(c) PROVE Inv'
    BY <1>5, ApplyStructureKeepsTypeOK, ApplyStructureKeepsCells, ApplyStructureKeepsSpans DEF Inv
  <1>6. CASE UNCHANGED vars
    BY <1>6
    DEF vars, Inv, TypeOK, CellsFollowTheirRows, NotesOnValuesFollow, SpansKeepTheirRows,
        SpansAreExactWithoutMoves
  <1> QED  BY <1>1, <1>2, <1>3, <1>4, <1>5, <1>6 DEF Next

\* The invariant holds in every behaviour.
LEMMA InvAlways == Spec => []Inv
  BY InitEstablishesInv, NextKeepsInv, PTL DEF Spec

\* The stored sheet stays well formed: in particular no change ever leaves a live
\* range that reaches past the end of the axis.
THEOREM TypeOKAlways == Spec => []TypeOK
  <1>1. Inv => TypeOK
    BY DEF Inv
  <1> QED  BY <1>1, InvAlways, PTL

\* The arithmetic of transformStructureCells keeps every cell in the row it was
\* typed into, whatever changes are applied.
THEOREM CellsAlwaysFollow == Spec => []CellsFollowTheirRows
  <1>1. Inv => CellsFollowTheirRows
    BY DEF Inv
  <1> QED  BY <1>1, InvAlways, PTL

\* Notes on cells without a formula are never lost by a structural change.
THEOREM NotesOnValuesAlwaysFollow == Spec => []NotesOnValuesFollow
  <1>1. Inv => NotesOnValuesFollow
    BY DEF Inv
  <1> QED  BY <1>1, InvAlways, PTL

\* A named range or a rule never loses a row that is still there.
THEOREM SpansAlwaysKeepTheirRows == Spec => []SpansKeepTheirRows
  <1>1. Inv => SpansKeepTheirRows
    BY DEF Inv
  <1> QED  BY <1>1, InvAlways, PTL

\* As long as no row has been moved, spans cover exactly their rows.
THEOREM SpansAlwaysExact == Spec => []SpansAreExactWithoutMoves
  <1>1. Inv => SpansAreExactWithoutMoves
    BY DEF Inv
  <1> QED  BY <1>1, InvAlways, PTL

-----------------------------------------------------------------------------
(***************************************************************************)
(* Nothing is pushed off the sheet                                         *)
(***************************************************************************)

\* The positions where something has been typed.
Typed == { p \in Positions : cells[p].body # "empty" }

\* As many are typed after a step that sends each of them to a place of its own.
LEMMA EachInItsPlace ==
    ASSUME NEW f, f \in [Typed -> Typed'],
           \A p, q \in Typed : p # q => f[p] # f[q]
    PROVE  Cardinality(Typed') >= Cardinality(Typed)
  <1>1. IsFiniteSet(Positions)
    BY LimitAssumption, FS_Interval DEF Positions
  <1>2. Typed \subseteq Positions /\ Typed' \subseteq Positions
    BY DEF Typed
  <1>3. IsFiniteSet(Typed) /\ IsFiniteSet(Typed')
    BY <1>1, <1>2, FS_Subset
  <1>4. f \in Injection(Typed, Typed')
    BY DEF Injection, IsInjective
  <1>5. Cardinality(Typed) <= Cardinality(Typed')
    BY <1>3, <1>4, FS_Injection
  <1>6. Cardinality(Typed) \in Nat /\ Cardinality(Typed') \in Nat
    BY <1>3, FS_CardinalityType
  <1> QED  BY <1>5, <1>6

\* An insertion refuses what would be pushed off, and a move lands nowhere twice.
LEMMA EveryTypedCellLands ==
    ASSUME Inv, NEW c \in Mutations, ApplyStructure(c), c.action # "delete", NEW p \in Typed
    PROVE  TransformPosition(p, c) \in Typed'
  <1>1. p \in Positions /\ cells[p].body # "empty"
    BY DEF Typed
  <1> PICK q : q = TransformPosition(p, c)
    OBVIOUS
  <1>2. q \in Positions
    <2>1. CASE c.action = "move"
      BY <1>1, <2>1, MoveKeepsEveryPosition
    <2>2. CASE c.action = "insert"
      <3>1. cells[p] # EmptyCell
        BY <1>1 DEF EmptyCell
      <3>2. q # Gone
        BY <1>1, <2>2, <3>1 DEF ApplyStructure, CellOverflows, TransformPosition
      <3> QED  BY <1>1, <3>2, TransformPositionStaysOnAxis
    <2> QED  BY <2>1, <2>2, MutationFields
  <1>3. cells'[q] = Recalculated(cells[p])
    BY <1>1, <1>2, CellAfterChange
  <1>4. Recalculated(cells[p]).body = cells[p].body
    BY <1>1 DEF Inv, TypeOK, Recalculated, Cell
  <1> QED  BY <1>1, <1>2, <1>3, <1>4 DEF Typed

LEMMA ChangesPushNothingOff ==
    ASSUME Inv, NEW c \in Mutations, ApplyStructure(c), c.action # "delete"
    PROVE  Cardinality(Typed') >= Cardinality(Typed)
  <1> PICK f : f = [p \in Typed |-> TransformPosition(p, c)]
    OBVIOUS
  <1>1. f \in [Typed -> Typed']
    BY EveryTypedCellLands
  <1>2. ASSUME NEW p \in Typed, NEW q \in Typed, p # q
        PROVE  f[p] # f[q]
    <2>1. p \in Positions /\ q \in Positions
      BY DEF Typed
    <2>2. TransformPosition(p, c) # Gone
      BY EveryTypedCellLands, LimitAssumption DEF Typed, Positions, Gone
    <2> QED  BY <1>2, <2>1, <2>2, TransformPositionInjective
  <1> QED  BY <1>1, <1>2, EachInItsPlace

\* Only a deletion or an overwrite makes a typed cell disappear, on an axis of any
\* length: an insertion that would push one past the end is refused as a whole, and
\* no two cells land on one position (ApplyStructure, structuralPosition).
THEOREM NothingTypedIsEverPushedOff == Spec => NothingTypedIsPushedOff
  <1>1. ASSUME Inv, [Next]_vars
        PROVE  \/ Cardinality(Typed') >= Cardinality(Typed)
               \/ \E c \in Mutations : c.action = "delete" /\ ApplyStructure(c)
               \/ \E p \in Positions, cell \in Cell : WriteCell(p, cell)
    <2>1. CASE cells' = cells
      <3> PICK f : f = [p \in Typed |-> p]
        OBVIOUS
      <3>1. Typed' = Typed
        BY <2>1 DEF Typed
      <3>2. f \in [Typed -> Typed'] /\ \A p, q \in Typed : p # q => f[p] # f[q]
        BY <3>1
      <3> QED  BY <3>2, EachInItsPlace
    <2>2. ASSUME NEW c \in Mutations, ApplyStructure(c), c.action # "delete"
          PROVE  Cardinality(Typed') >= Cardinality(Typed)
      BY <1>1, <2>2, ChangesPushNothingOff
    <2> QED
      BY <1>1, <2>1, <2>2 DEF Next, vars, CreateNamedRange, CreateDataValidation, CreateSheetProtection
  <1>2. Inv /\ [Next]_vars
        => \/ Cardinality({p \in Positions : cells'[p].body # "empty"})
                >= Cardinality({p \in Positions : cells[p].body # "empty"})
           \/ \E c \in Mutations : c.action = "delete" /\ ApplyStructure(c)
           \/ \E p \in Positions, cell \in Cell : WriteCell(p, cell)
    BY <1>1 DEF Typed
  <1> QED  BY <1>2, InvAlways, PTL DEF Spec, NothingTypedIsPushedOff

=============================================================================
