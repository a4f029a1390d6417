---------------------------- MODULE SpilledArrays ----------------------------
(***************************************************************************)
(* What a write does to the cells of a sheet, whatever its formulas come   *)
(* to: recalculateCellInputs (internal/workbook/recalculation.go), run     *)
(* inside the transaction of every cell operation.                         *)
(*                                                                         *)
(* A formula may return an array, which spills: its first entry stays in   *)
(* the cell of the formula (the anchor), the others go to the cells below, *)
(* which remember the anchor they came from.  Filling or emptying these    *)
(* cells is itself a change other formulas may depend on, so passes over   *)
(* the dependency graph repeat until one changes no spilled cell.          *)
(*                                                                         *)
(* Operations hold the lock of the workbook, so an operation is one step;  *)
(* the question is what a sequence of them leaves in the cells.  What a    *)
(* pass calculates is a parameter, which Recalculation defines.            *)
(***************************************************************************)
EXTENDS Integers, Sequences, FiniteSets

CONSTANTS
    Columns, Rows,      \* the sheet; its last row is the boundary of the real one
    Typed,              \* numbers users type
    Kinds,              \* the formulas users write
    NamedRows,          \* the rows whose cells formulas name
    MaxBatch,           \* cells of one operation
    MaxOperations,      \* operations in all
    Remembered,         \* how many of the last operations may still be undone
    Evaluated(_, _, _)  \* what the formulas of a pass come to: given the cells,
                        \* the anchors without room and the affected formulas

ASSUME SheetAssumption ==
    Columns \in Nat \ {0} /\ Rows \in Nat \ {0} /\ NamedRows \subseteq 1..Rows

ASSUME TypedAssumption == Typed \subseteq Int

ASSUME KindsAssumption ==
    Kinds \subseteq {"minus", "sum", "sequence", "pair", "indirect"}

ASSUME BoundsAssumption ==
    MaxBatch \in Nat \ {0} /\ MaxOperations \in Nat /\ Remembered \in Nat \ {0}

\* An address is <<column, row>>; addresses are compared as texts, A1, A2, B1.
Addresses == (1..Columns) \X (1..Rows)

Precedes(a, b) == a[1] < b[1] \/ (a[1] = b[1] /\ a[2] < b[2])

InOrder ==
    [k \in 1..(Columns * Rows) |-> <<((k - 1) \div Rows) + 1, ((k - 1) % Rows) + 1>>]

\* The cells of the column of a, from a to the last row.
Below(a) == { <<a[1], r>> : r \in a[2]..Rows }

-----------------------------------------------------------------------------
(***************************************************************************)
(* Values and formulas.  minus is =3-a, sum is =SUM of a and the cells     *)
(* below it, sequence =SEQUENCE(a), pair =SEQUENCE(2), which names no a,   *)
(* and indirect a reference computed at run time, such as                  *)
(* =INDIRECT("A"&2): one formula of each sort the recalculation treats in  *)
(* its own way.  An array is a column of numbers.                          *)
(***************************************************************************)
Blank == [kind |-> "blank"]

Number(n) == [kind |-> "number", n |-> n]

Error(code) == [kind |-> "error", code |-> code]

Array(entries) == [kind |-> "array", entries |-> entries]

IsError(v) == v.kind = "error"

NoFormula == [op |-> "none"]

Pair == [op |-> "pair", at |-> <<1, 1>>]

Formulas == [op : Kinds \ {"pair"}, at : { a \in Addresses : a[2] \in NamedRows }]
              \cup { f \in {Pair} : f.op \in Kinds }

NoSource == <<>>

Value(v) == [value |-> v, formula |-> NoFormula, source |-> NoSource]

Formula(f) == [value |-> Blank, formula |-> f, source |-> NoSource]

EmptyCell == Value(Blank)

IsFormula(c) == c.formula # NoFormula

\* The cells a formula is known to read before it is calculated.
Dependencies(f) ==
    CASE f.op = "sum" -> Below(f.at)
      [] f.op \in {"none", "pair", "indirect"} -> {}
      [] OTHER -> { f.at }

-----------------------------------------------------------------------------
(***************************************************************************)
(* The dependency graph                                                    *)
(***************************************************************************)

\* What the changed cells reach: a chain of formulas is no longer than the sheet.
Reached(cells, changed) ==
    LET steps[n \in 0..(Columns * Rows)] ==
            IF n = 0 THEN changed
            ELSE LET S == steps[n - 1]
                 IN  S \cup { a \in Addresses : Dependencies(cells[a].formula) \cap S # {} }
    IN  steps[Columns * Rows]

\* The formulas among them.
Affected(cells, changed) == { a \in Addresses \cap Reached(cells, changed) : IsFormula(cells[a]) }

\* The results of the affected formulas, by address.
Recalculate(cells, forced, changed) ==
    LET affected == Affected(cells, changed)
        values == Evaluated(cells, forced, affected)
    IN  [a \in affected |-> values[a]]

-----------------------------------------------------------------------------
(***************************************************************************)
(* Spilled cells                                                           *)
(***************************************************************************)

\* A result changes the value of a cell and nothing else.
Showing(c, value) == [value |-> value, formula |-> c.formula, source |-> c.source]

SpilledFrom(cells, source) == { a \in Addresses : cells[a].source = source }

Emptied(cells, S) == [a \in Addresses |-> IF a \in S THEN EmptyCell ELSE cells[a]]

ClearSpillCells(cells, source) == Emptied(cells, SpilledFrom(cells, source))

\* The cells that an array of so many entries fills besides its anchor.
Targets(anchor, length) == { <<anchor[1], r>> : r \in (anchor[2] + 1)..(anchor[2] + length - 1) }

FilledFrom(anchor, entry) == [value |-> Number(entry), formula |-> NoFormula, source |-> anchor]

\* The cells with the entries of an array laid over them.
Spilled(cells, anchor, entries) ==
    [a \in Addresses |->
        IF a \in Targets(anchor, Len(entries)) THEN FilledFrom(anchor, entries[a[2] - anchor[2] + 1])
        ELSE IF a = anchor THEN Showing(cells[a], Number(entries[1]))
        ELSE cells[a]]

NotSpilled(cells, anchor) ==
    [a \in Addresses |-> IF a = anchor THEN Showing(cells[a], Error("#SPILL!")) ELSE cells[a]]

Materialized(cells, after, anchor, spills) ==
    [cells |-> after, spills |-> spills,
     changed |-> { a \in Addresses \ {anchor} : cells[a] # after[a] }]

\* A plausible bug: the cells below the anchor are not looked at.
MaterializeSpillAnyway(cells, anchor, entries) ==
    IF anchor[2] + Len(entries) - 1 > Rows THEN [cells |-> cells, changed |-> {}, spills |-> FALSE]
    ELSE Materialized(cells, Spilled(ClearSpillCells(cells, anchor), anchor, entries), anchor, TRUE)

\* An array that fits neither the sheet nor the free cells below its anchor
\* does not spill; past the sheet, what it spilled before stays for now.
MaterializeSpill(cells, anchor, entries) ==
    LET cleared == ClearSpillCells(cells, anchor)
        fits == \A a \in Targets(anchor, Len(entries)) : cleared[a] = EmptyCell
    IN  IF anchor[2] + Len(entries) - 1 > Rows
        THEN [cells |-> cells, changed |-> {}, spills |-> FALSE]
        ELSE Materialized(cells, IF fits THEN Spilled(cleared, anchor, entries)
                                 ELSE NotSpilled(cleared, anchor), anchor, fits)

\* What a result does to the cells: p is [cells, forced, next].
StoreArray(p, a, m) ==
    [cells |-> m.cells,
     forced |-> IF m.spills THEN p.forced \ {a} ELSE p.forced \cup {a},
     next |-> p.next \cup m.changed \cup (IF m.spills THEN {} ELSE {a})]

StoreSingle(p, a, result) ==
    LET cleared == ClearSpillCells(p.cells, a)
    IN  [cells |-> [b \in Addresses |->
                      IF b = a THEN [value |-> result, formula |-> cleared[b].formula, source |-> NoSource]
                      ELSE cleared[b]],
         forced |-> IF IsError(result) THEN p.forced ELSE p.forced \ {a},
         next |-> p.next \cup SpilledFrom(p.cells, a)]

Store(p, a, result) ==
    IF result.kind = "array" THEN StoreArray(p, a, MaterializeSpill(p.cells, a, result.entries))
    ELSE StoreSingle(p, a, result)

\* The results are stored in the order of their addresses.
StoreAll(p, results) ==
    LET upTo[k \in 0..(Columns * Rows)] ==
            IF k = 0 THEN p
            ELSE IF InOrder[k] \notin DOMAIN results THEN upTo[k - 1]
            ELSE Store(upTo[k - 1], InOrder[k], results[InOrder[k]])
    IN  upTo[Columns * Rows]

Pass(p) ==
    StoreAll([cells |-> p.cells, forced |-> p.forced, next |-> {}],
             Recalculate(p.cells, p.forced, p.next))

\* Passes until one changes no spilled cell, at most eight of them.
MaxPasses == 8

Refused == <<>>

\* A plausible bug: the cells that arrays filled are not followed.
StabilizeOnce(p) == Pass(p).cells

PassesAfter(p) ==
    LET after[n \in 0..MaxPasses] ==
            IF n = 0 THEN p
            ELSE LET q == after[n - 1] IN IF q.next = {} THEN q ELSE Pass(q)
    IN  after[MaxPasses]

Stabilize(p) ==
    LET last == PassesAfter(p) IN IF last.next = {} THEN last.cells ELSE Refused

-----------------------------------------------------------------------------
(***************************************************************************)
(* The submitted cells, in their order.  An input is a cell with its       *)
(* address, original the cells before the operation; q is [cells, changed, *)
(* refused].                                                               *)
(***************************************************************************)

\* A spilled cell is not edited, except to what the anchor put there; a write
\* to an anchor empties the cells it had filled; a value sent with a formula
\* is ignored.
Submit(q, input, original) ==
    LET a == input.at
        current == q.cells[a]
        spilled == SpilledFrom(original, a)
        submitted == IF IsFormula(input.cell) THEN Formula(input.cell.formula) ELSE input.cell
        cleared == Emptied(q.cells, spilled)
    IN  IF q.refused \/ (current.source # NoSource /\ input.cell.source # current.source)
        THEN [cells |-> q.cells, changed |-> q.changed, refused |-> TRUE]
        ELSE [cells |-> [b \in Addresses |-> IF b = a THEN submitted ELSE cleared[b]],
              changed |-> q.changed \cup spilled \cup {a},
              refused |-> FALSE]

\* A plausible bug: an array that found no room is not tried again.
RetriedForNames(cells, forceAll) ==
    { a \in Addresses : IsFormula(cells[a]) /\ (forceAll \/ cells[a].formula.op = "indirect") }

\* Formulas calculated again whatever changed: the ones that could not spill,
\* the volatile ones, and all of them when names, sheets or positions change.
Retried(cells, forceAll) ==
    { a \in Addresses : IsFormula(cells[a]) /\ (\/ forceAll
                                                \/ cells[a].value = Error("#SPILL!")
                                                \/ cells[a].formula.op = "indirect") }

SubmitAll(cells, inputs) ==
    LET upTo[n \in 0..Len(inputs)] ==
            IF n = 0 THEN [cells |-> cells, changed |-> {}, refused |-> FALSE]
            ELSE Submit(upTo[n - 1], inputs[n], cells)
    IN  upTo[Len(inputs)]

Settle(q, forceAll) ==
    IF q.refused THEN Refused
    ELSE Stabilize([cells |-> q.cells, forced |-> {}, next |-> q.changed \cup Retried(q.cells, forceAll)])

\* The cells after the operation, or Refused.
RecalculateCellInputs(cells, inputs, forceAll) == Settle(SubmitAll(cells, inputs), forceAll)

-----------------------------------------------------------------------------
VARIABLES
    cell,   \* what each cell holds
    log,    \* the last operations, oldest first
    made,   \* operations so far
    partial \* whether an undo has left out cells that had changed since

vars == <<cell, log, made, partial>>

Init ==
    /\ cell = [a \in Addresses |-> EmptyCell]
    /\ log = <<>>
    /\ made = 0
    /\ partial = FALSE

Contents == { EmptyCell } \cup { Value(Number(n)) : n \in Typed } \cup { Formula(f) : f \in Formulas }

Increasing(n) ==
    { s \in [1..n -> Addresses] : \A i, j \in 1..n : i < j => Precedes(s[i], s[j]) }

\* One cell is written, or several are cleared; their addresses differ.
Batches == { <<[at |-> a, cell |-> c]>> : a \in Addresses, c \in Contents }
             \cup { [i \in DOMAIN s |-> [at |-> s[i], cell |-> EmptyCell]] :
                      s \in UNION { Increasing(n) : n \in 2..MaxBatch } }

LastOf(s, n) == IF Len(s) <= n THEN s ELSE SubSeq(s, Len(s) - n + 1, Len(s))

\* An operation is logged with the cells it submitted, and what they held
\* before and after it.
Commit(inputs, forceAll) ==
    /\ made < MaxOperations
    /\ \E after \in { RecalculateCellInputs(cell, inputs, forceAll) } \ {Refused} :
          /\ cell' = after
          /\ log' = LastOf(Append(log, [i \in DOMAIN inputs |->
                                          [at |-> inputs[i].at, before |-> cell[inputs[i].at],
                                           after |-> after[inputs[i].at]]]), Remembered)
    /\ made' = made + 1

ApplyCells == (\E inputs \in Batches : Commit(inputs, FALSE)) /\ UNCHANGED partial

\* The cells an operation submitted that still hold what it put there.
Unchanged(op) ==
    LET kept[n \in 0..Len(op)] ==
            IF n = 0 THEN <<>>
            ELSE IF cell[op[n].at] = op[n].after THEN Append(kept[n - 1], op[n])
            ELSE kept[n - 1]
    IN  kept[Len(op)]

PutBack(changes) == [i \in DOMAIN changes |-> [at |-> changes[i].at, cell |-> changes[i].before]]

UndoOperation ==
    \E k \in DOMAIN log :
        /\ log[k] # <<>>
        /\ Commit(PutBack(Unchanged(log[k])), FALSE)
        /\ partial' = (partial \/ Unchanged(log[k]) # log[k])

\* A named range, a table or the name of a sheet changed.
RecalculateAll == Commit(<<>>, TRUE) /\ UNCHANGED partial

Next == ApplyCells \/ UndoOperation \/ RecalculateAll

Spec == Init /\ [][Next]_vars

TypeOK ==
    /\ DOMAIN cell = Addresses
    /\ \A a \in Addresses :
         /\ cell[a].value.kind # "array"
         /\ cell[a].formula \in Formulas \cup {NoFormula}
         /\ cell[a].source \in Addresses \cup {NoSource}
    /\ Len(log) <= Remembered
    /\ made \in 0..MaxOperations
    /\ partial \in BOOLEAN

-----------------------------------------------------------------------------
(***************************************************************************)
(* Properties                                                              *)
(***************************************************************************)
\* A cell filled by an array names a formula that is there.  Not so after an
\* undo that left out the anchor because it had changed since and put back a
\* cell the anchor had filled: nobody can edit that cell any more.
FilledCellsHaveAFormula ==
    partial \/ \A a \in Addresses : cell[a].source # NoSource => IsFormula(cell[cell[a].source])

\* What a formula fills is a block of cells right below it, without a gap, and
\* a formula that shows an error fills nothing: no array is ever left half
\* stored or half emptied, though a pass may keep what an array filled before
\* (recalculation.go:370), or fill cells that the next one empties.
FilledCellsFormBlocks ==
    partial \/ \A a \in Addresses : IsFormula(cell[a]) =>
                 \E n \in 1..Rows : /\ SpilledFrom(cell, a) = Targets(a, n)
                                   /\ n > 1 => cell[a].value.kind = "number"

\* What a user typed, number or formula, changes only by an operation that
\* submits that cell: results never overwrite it, whoever spills where.
TypedStays ==
    [][\A a \in Addresses :
         cell[a].source = NoSource /\ cell[a] # EmptyCell
           => \/ cell'[a].formula = cell[a].formula /\ cell'[a].source = NoSource
                 /\ (IsFormula(cell[a]) \/ cell'[a].value = cell[a].value)
              \/ \E i \in DOMAIN log'[Len(log')] : log'[Len(log')][i].at = a]_vars
===============================================================================
