----------------------------- MODULE Recalculation -----------------------------
(***************************************************************************)
(* SpilledArrays with what formulas come to: a pass over the dependency    *)
(* graph of internal/formula/graph.go, with cycles, errors and arrays in   *)
(* it, and what the operations leave on the sheet.                         *)
(***************************************************************************)
EXTENDS SpilledArrays, FiniteSetsExt, SequencesExt, TLC

Sorted(S) == SelectSeq(InOrder, LAMBDA a : a \in S)

-----------------------------------------------------------------------------
(***************************************************************************)
(* What a formula comes to                                                 *)
(***************************************************************************)

\* toNumber
AsNumber(v) == IF v.kind = "number" THEN v.n ELSE 0

\* An operator that meets an array works on each entry.
Minus(v) ==
    CASE IsError(v) -> v
      [] v.kind = "array" -> Array([i \in DOMAIN v.entries |-> 3 - v.entries[i]])
      [] OTHER -> Number(3 - AsNumber(v))

\* A range with an error in it is that error; what is no number is left out,
\* an array in a cell of the range too, unless the range is that cell alone.
Sum(f, values) ==
    LET cells == Sorted(Below(f.at))
        bad == SelectSeq(cells, LAMBDA a : IsError(values[a]))
        entries == IF Len(cells) = 1 /\ values[f.at].kind = "array" THEN values[f.at].entries ELSE <<>>
    IN  IF bad # <<>> THEN values[Head(bad)]
        ELSE Number(FoldSeq(LAMBDA n, total : n + total, 0, entries) +
                    FoldSeq(LAMBDA a, total : AsNumber(values[a]) + total, 0, cells))

\* A size that is an array is its first entry; a single row is no array.  One
\* entry past the length of the sheet is enough to know that it does not fit.
Sequence(v) ==
    LET size == IF v.kind = "array" THEN v.entries[1] ELSE AsNumber(v)
    IN  CASE IsError(v) -> v
          [] ~IsError(v) /\ size < 1 -> Error("#NUM!")
          [] ~IsError(v) /\ size = 1 -> Number(1)
          [] OTHER -> Array([i \in 1..Min({size, Rows + 1}) |-> i])

Evaluate(f, values) ==
    CASE f.op = "minus" -> Minus(values[f.at])
      [] f.op = "sum" -> Sum(f, values)
      [] f.op = "sequence" -> Sequence(values[f.at])
      [] f.op = "pair" -> Sequence(Number(2))
      [] f.op = "indirect" -> values[f.at]

-----------------------------------------------------------------------------
(***************************************************************************)
(* One pass over the dependency graph (Evaluator.Recalculate).             *)
(***************************************************************************)

\* g is the pass so far: the values, the formulas that are done, those that
\* are being calculated, outermost first, and those found on a cycle.
Calculated(g, a, cells, forced) ==
    [g EXCEPT !.stack = Front(@), !.done = @ \cup {a},
              !.values[a] = IF a \in g.cycles THEN Error("#CIRC!")
                            ELSE IF a \in forced THEN Error("#SPILL!")
                            ELSE Evaluate(cells[a].formula, g.values)]

\* A formula that is being calculated is met again: from there on, what is on
\* the stack is circular.
ClosedCycle(g, circular) ==
    [g EXCEPT !.cycles = @ \cup circular,
              !.values = [b \in circular |-> Error("#CIRC!")] @@ @]

\* calculate: the formulas a depends on first, in the order of their addresses.
RECURSIVE Calculate(_, _, _, _, _)
Calculate(a, g, cells, forced, affected) ==
    CASE a \in g.done -> g
      [] a \in Range(g.stack) ->
            ClosedCycle(g, Range(SubSeq(g.stack, SelectInSeq(g.stack, LAMBDA b : b = a), Len(g.stack))))
      [] OTHER ->
            Calculated(FoldLeft(LAMBDA h, b : Calculate(b, h, cells, forced, affected),
                                [g EXCEPT !.stack = Append(@, a)],
                                Sorted(Dependencies(cells[a].formula) \cap affected)),
                       a, cells, forced)

\* The values at the end of a pass that calculates the affected formulas.
ValuesAfter(cells, forced, affected) ==
    FoldLeft(LAMBDA g, a : Calculate(a, g, cells, forced, affected),
             [values |-> [a \in Addresses |-> IF a \in forced THEN Error("#SPILL!") ELSE cells[a].value],
              done |-> {}, stack |-> <<>>, cycles |-> {}],
             Sorted(affected)).values

-----------------------------------------------------------------------------
(***************************************************************************)
(* Properties                                                              *)
(***************************************************************************)
Anchors == { a \in Addresses : cell[a].formula.op \in {"sequence", "pair"} }

\* Formulas that take in the cell of an array formula, directly or not: in one
\* pass with it they are given the whole array (graph.go:206), in another its
\* first entry, and what they show is what the last one gave.
TakeAnchors == UNION { Reached(cell, {b}) \ {b} : b \in Anchors }

\* References computed at run time.
Computed == { a \in Addresses : cell[a].formula.op = "indirect" }

\* They are in no order with the formulas, and the filled cells, they name
\* (recalculation.go:140): only one to a cell somebody typed is sure to be
\* current.
LateReferences ==
    { a \in Computed : LET named == cell[cell[a].formula.at]
                       IN  IsFormula(named) \/ named.source # NoSource \/ named = EmptyCell }

\* Formulas that show no room, and take in a cell nobody typed in, which may
\* have been filled or emptied since they lacked room: that is not questioned
\* again in the later passes of an operation (recalculation.go:206).
LateSpills ==
    { a \in Addresses :
        /\ cell[a].value = Error("#SPILL!")
        /\ \E b \in Addresses :
              (cell[b] = EmptyCell \/ cell[b].source # NoSource) /\ a \in Reached(cell, {b}) }

\* The cells that what is in S may reach in one step: the formulas that name
\* it, and the cells one of the fillers in S may fill.
Onward(S, fillers) ==
    { a \in Addresses :
        \/ Dependencies(cell[a].formula) \cap S # {}
        \/ a \in Computed /\ cell[a].formula.at \in S
        \/ ~IsFormula(cell[a]) /\ \E b \in (S \cap fillers) \ {a} : a \in Below(b) }

RECURSIVE Influenced(_, _)
Influenced(S, fillers) ==
    IF Onward(S, fillers) \subseteq S THEN S ELSE Influenced(S \cup Onward(S, fillers), fillers)

\* The other formulas, as long as no chain of references comes back to them,
\* the cells filled by arrays being links of the chain.
PlainFormulas ==
    LET takers == TakeAnchors
        fillers == Anchors \cup takers \cup Computed
        late == Influenced(LateReferences, fillers)
        OnLoop(a) == a \in Influenced(Onward({a}, fillers), fillers)
    IN  { a \in Addresses \ (takers \cup late \cup LateSpills) : IsFormula(cell[a]) /\ ~OnLoop(a) }

\* What the formula of a comes to on the sheet as it is shown.
Preview(a) == Evaluate(cell[a].formula, [b \in Addresses |-> cell[b].value])

Target(a, i) == <<a[1], a[2] + i - 1>>

Free(a, i) == /\ Target(a, i) \in Addresses
              /\ \/ cell[Target(a, i)] = EmptyCell
                 \/ cell[Target(a, i)].source = a

\* The cell of a formula, and the cells it fills, hold its preview.
ShowsPreview(a) ==
    LET v == Preview(a)
        filled == SpilledFrom(cell, a)
        more == 2..Len(v.entries)
    IN  IF v.kind # "array" THEN cell[a].value = v /\ filled = {}
        ELSE IF \A i \in more : Free(a, i)
        THEN /\ cell[a].value = Number(v.entries[1])
             /\ filled = { Target(a, i) : i \in more }
             /\ \A i \in more : cell[Target(a, i)].value = Number(v.entries[i])
        ELSE cell[a].value = Error("#SPILL!") /\ filled = {}

\* Whatever was typed or undone, in whatever order, the sheet is what its
\* formulas come to: a formula shows its result on the cells as they are shown,
\* and fills the cells it needs, so no pass of recalculateCellInputs was missing
\* and none worked on a value that changed later; and no other cell is filled.
\* PlainFormulas are the formulas of which the code makes it true.
ShowsItsResult ==
    /\ \A a \in PlainFormulas : ShowsPreview(a)
    /\ FilledCellsHaveAFormula
    /\ FilledCellsFormBlocks

\* Calculating everything again, as a renamed sheet or a new name does, is
\* never refused on a sheet that operations left, and moves nothing where
\* ShowsItsResult speaks of every formula.
FullRecalculationAgrees ==
    LET again == RecalculateCellInputs(cell, <<>>, TRUE)
    IN  /\ again # Refused
        /\ { a \in Addresses : IsFormula(cell[a]) } \subseteq PlainFormulas => again = cell

===============================================================================
