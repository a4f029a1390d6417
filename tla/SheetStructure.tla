--------------------------- MODULE SheetStructure ---------------------------
(***************************************************************************)
(* One axis of one sheet, with what the server stores about it by address: *)
(* the cells, a named range (comments, charts and pivots behave alike), a  *)
(* validation rule (conditional formats, filters, tables, watch rules and  *)
(* protected ranges behave alike) and the exception of a sheet-wide        *)
(* protection.  ApplyStructure moves all of them in one transaction        *)
(* (internal/workbook/postgres_structure.go).                              *)
(*                                                                         *)
(* The ghost variable rows is the sheet as its users think of it, a        *)
(* sequence of rows that are cut and pasted; each row carries the cell     *)
(* that was typed into it and marks for the spans that were laid over it.  *)
(***************************************************************************)
EXTENDS RowOrder, FiniteSets

CONSTANT
    MaxSteps    \* bound: structural changes and edits per behaviour

ASSUME MaxStepsAssumption == MaxSteps \in Nat

\* A cell: nothing, a typed value or a formula, with or without a note.
Cell == [body : {"empty", "value", "formula"}, note : BOOLEAN]

EmptyCell == [body |-> "empty", note |-> FALSE]

InSpan(p, span) == span[1] <= p /\ p <= span[2]

\* "unset": never created or removed; "broken": its range reads #REF!.
Reference ==
    { r \in [state : {"unset", "live", "broken"}, span : Spans \cup {NoSpan}] :
        (r.state = "live") <=> (r.span # NoSpan) }

Unset == [state |-> "unset", span |-> NoSpan]

VARIABLES
    cells,      \* cell_blocks: position -> cell
    named,      \* named_ranges.cell_range
    rule,       \* data_validations.cell_range
    exception,  \* protected_ranges.exceptions of a sheet-wide protection
    rows,       \* ghost: the rows in their true order
    torn,       \* ghost: some rows have been moved
    steps       \* bound counter

vars == <<cells, named, rule, exception, rows, torn, steps>>

FreshRow == [cell |-> EmptyCell, named |-> FALSE, rule |-> FALSE, open |-> FALSE]

Row == [cell : Cell, named : BOOLEAN, rule : BOOLEAN, open : BOOLEAN]

TypeOK ==
    /\ cells \in [Positions -> Cell]
    /\ named \in Reference
    /\ rule \in Reference
    /\ exception \in Reference
    /\ rows \in [Positions -> Row]
    /\ torn \in BOOLEAN
    /\ steps \in 0..MaxSteps

Init ==
    /\ cells = [p \in Positions |-> EmptyCell]
    /\ named = Unset
    /\ rule = Unset
    /\ exception = Unset
    /\ rows = [p \in Positions |-> FreshRow]
    /\ torn = FALSE
    /\ steps = 0

-----------------------------------------------------------------------------
(***************************************************************************)
(* Edits that lay something on the sheet                                   *)
(***************************************************************************)

Step == steps < MaxSteps /\ steps' = steps + 1

\* A cell write replaces the stored cell with what the client sent.
WriteCell(p, cell) ==
    /\ Step
    /\ cell # cells[p]
    /\ cells' = [cells EXCEPT ![p] = cell]
    /\ rows' = [rows EXCEPT ![p].cell = cell]
    /\ UNCHANGED <<named, rule, exception, torn>>

CreateNamedRange(span) ==
    /\ Step
    /\ named = Unset
    /\ named' = [state |-> "live", span |-> span]
    /\ rows' = [p \in Positions |-> [rows[p] EXCEPT !.named = InSpan(p, span)]]
    /\ UNCHANGED <<cells, rule, exception, torn>>

CreateDataValidation(span) ==
    /\ Step
    /\ rule = Unset
    /\ rule' = [state |-> "live", span |-> span]
    /\ rows' = [p \in Positions |-> [rows[p] EXCEPT !.rule = InSpan(p, span)]]
    /\ UNCHANGED <<cells, named, exception, torn>>

CreateSheetProtection(span) ==
    /\ Step
    /\ exception = Unset
    /\ exception' = [state |-> "live", span |-> span]
    /\ rows' = [p \in Positions |-> [rows[p] EXCEPT !.open = InSpan(p, span)]]
    /\ UNCHANGED <<cells, named, rule, torn>>

-----------------------------------------------------------------------------
(***************************************************************************)
(* ApplyStructure                                                          *)
(***************************************************************************)

\* Mutant: the cells an insertion pushes past the last position are dropped.
CellOverflowsNever(c) == c.count = 0

\* structuralPosition: the same rule as TransformPosition, except that an
\* insertion is bounds-checked by the caller for the cells that really exist.
CellOverflows(c) ==
    \E p \in Positions :
        cells[p] # EmptyCell /\ c.action = "insert" /\ InsertedPosition(p, c) = Gone

\* Mutant: every cell, not only the formulas, is rebuilt without its note.
RecalculatedDropsEveryNote(cell) == [cell EXCEPT !.note = FALSE]

\* applyRecalculatedInputs: every formula cell is evaluated again and its cell
\* is rebuilt from value, formula, style and spill source - not from its note.
Recalculated(cell) ==
    IF cell.body = "formula" THEN [cell EXCEPT !.note = FALSE] ELSE cell

TransformStructureCells(c) ==
    [q \in Positions |->
        IF \E p \in Positions : TransformPosition(p, c) = q
        THEN Recalculated(cells[CHOOSE p \in Positions : TransformPosition(p, c) = q])
        ELSE EmptyCell]

\* Mutant: a range pushed past the last position is stored as it is.
FitsAlways(ref, c) == ref.state = "live" => c.count > 0

\* Fits: the range error that makes ApplyStructure refuse the whole change.
Fits(ref, c) == ref.state = "live" => SpanFits(TransformInterval(ref.span, c))

\* Mutant: a range that loses its first row is given up.
FollowGivesUpEarly(ref, c) ==
    IF ref.state # "live" THEN ref
    ELSE IF c.action = "delete" /\ InBand(ref.span[1], c)
    THEN [state |-> "broken", span |-> NoSpan]
    ELSE [ref EXCEPT !.span = TransformInterval(ref.span, c)]

\* A named range, a comment, a chart or a pivot whose rows are all deleted
\* keeps #REF! for good.
TransformNamedRange(ref, c) ==
    IF ref.state # "live" THEN ref
    ELSE IF TransformInterval(ref.span, c) = NoSpan
    THEN [state |-> "broken", span |-> NoSpan]
    ELSE [ref EXCEPT !.span = TransformInterval(ref.span, c)]

\* A rule whose rows are all deleted is deleted with them.
TransformValidation(ref, c) ==
    IF ref.state # "live" THEN ref
    ELSE IF TransformInterval(ref.span, c) = NoSpan THEN Unset
    ELSE [ref EXCEPT !.span = TransformInterval(ref.span, c)]

\* The sheet-wide protection: its own range never changes, so the loop over
\* the protections goes on to the next one and the exceptions it has just
\* transformed are not written back.
TransformProtected(ref, c) == ref

\* Ghost: a row inserted between two marked rows belongs to their span.
InsertedRow(c) ==
    IF c.action = "insert" /\ c.index > 1
    THEN [FreshRow EXCEPT !.named = rows[c.index - 1].named /\ rows[c.index].named,
                          !.rule  = rows[c.index - 1].rule /\ rows[c.index].rule,
                          !.open  = rows[c.index - 1].open /\ rows[c.index].open]
    ELSE FreshRow

ApplyStructure(c) ==
    /\ Step
    /\ ~CellOverflows(c)
    /\ Fits(named, c) /\ Fits(rule, c) /\ Fits(exception, c)
    /\ cells' = TransformStructureCells(c)
    /\ named' = TransformNamedRange(named, c)
    /\ rule' = TransformValidation(rule, c)
    /\ exception' = TransformProtected(exception, c)
    /\ rows' = Rearranged(rows, c, [i \in 1..c.count |-> InsertedRow(c)])
    /\ torn' = (torn \/ c.action = "move")

Next ==
    \/ \E p \in Positions, cell \in Cell : WriteCell(p, cell)
    \/ \E span \in Spans : CreateNamedRange(span)
    \/ \E span \in Spans : CreateDataValidation(span)
    \/ \E span \in Spans : CreateSheetProtection(span)
    \/ \E c \in Mutations : ApplyStructure(c)

Spec == Init /\ [][Next]_vars

-----------------------------------------------------------------------------
(***************************************************************************)
(* Properties                                                              *)
(***************************************************************************)

\* However rows are inserted, deleted and moved, each stored cell is the one
\* that was typed into its row: the arithmetic of transformStructureCells
\* agrees with cutting and pasting rows.
CellsFollowTheirRows ==
    \A p \in Positions : cells[p].body = rows[p].cell.body

\* The note of a cell without a formula moves with the cell.
NotesOnValuesFollow ==
    \A p \in Positions :
        rows[p].cell.body # "formula" => cells[p].note = rows[p].cell.note

\* A named range or a rule never loses a row that is still there: it is widened
\* where a move tears it apart, and #REF! (or removed) only when its last row is
\* gone.
SpansKeepTheirRows ==
    \A p \in Positions :
        /\ rows[p].named => named.state = "live" /\ InSpan(p, named.span)
        /\ rows[p].rule => rule.state = "live" /\ InSpan(p, rule.span)

\* Only a deletion or an overwrite makes a cell disappear: an insertion that
\* would push a cell past the end of the sheet is refused as a whole, and a move
\* never lands two cells on one position.
NothingTypedIsPushedOff ==
    [][ \/ Cardinality({p \in Positions : cells'[p].body # "empty"})
              >= Cardinality({p \in Positions : cells[p].body # "empty"})
        \/ \E c \in Mutations : c.action = "delete" /\ ApplyStructure(c)
        \/ \E p \in Positions, cell \in Cell : WriteCell(p, cell) ]_vars

\* Without moves the spans are exact: a rule applies to the rows it was laid
\* over and to those inserted between them, to no other, and it disappears
\* exactly when they do.
SpansAreExactWithoutMoves ==
    ~torn =>
      /\ \A p \in Positions :
            rows[p].named <=> (named.state = "live" /\ InSpan(p, named.span))
      /\ \A p \in Positions :
            rows[p].rule <=> (rule.state = "live" /\ InSpan(p, rule.span))

\* Documented in docs/USER_GUIDE.md:474 ("when rows or columns move the note
\* goes with its cell") and internal/workbook/model.go:137: a note is never
\* lost by a structural change, whatever its cell holds.
NotesFollowTheirCells ==
    \A p \in Positions : cells[p].note = rows[p].cell.note

\* Documented in docs/USER_GUIDE.md:1280: the exception of a sheet protection
\* moves with inserted and deleted rows, so the cells left open for input are
\* the ones that were left open.
ExceptionsFollowTheirRows ==
    ~torn => \A p \in Positions :
        rows[p].open <=> (exception.state = "live" /\ InSpan(p, exception.span))

=============================================================================
