------------------------ MODULE SpilledArraysProofs ------------------------
(***************************************************************************)
(* For every sheet, every sequence of operations and whatever formulas     *)
(* come to: what a user typed stays, and a filled cell names a formula.    *)
(* The argument follows an operation down: the submitted cells one by one, *)
(* then the passes, then the results of a pass one by one.  Each of these  *)
(* loops is a recursive function, of which it is shown first that it       *)
(* solves its equation.                                                    *)
(***************************************************************************)
EXTENDS SpilledArrays, TLAPS, WellFoundedInduction

-----------------------------------------------------------------------------
(***************************************************************************)
(* Cells                                                                   *)
(***************************************************************************)

\* What is in a cell: an array never is, and no filled cell has a formula.
IsCell(c) ==
    /\ c.value.kind # "array"
    /\ c.formula \in Formulas \cup {NoFormula}
    /\ c.source \in Addresses \cup {NoSource}
    /\ IsFormula(c) => c.source = NoSource

\* Every address has a cell.
IsSheet(cells) == DOMAIN cells = Addresses /\ \A a \in Addresses : IsCell(cells[a])

\* What a cell may show.
IsValue(v) == v.kind \in {"blank", "number", "error"} /\ (v.kind = "number" => v.n \in Int)

IsPlain(cells) == \A a \in Addresses : IsValue(cells[a].value)

\* Filled cells name a formula.
Anchored(cells) ==
    \A a \in Addresses : cells[a].source # NoSource => IsFormula(cells[cells[a].source])

\* What x held is still in y, but for the value a formula shows.
Kept(x, y) ==
    IF IsFormula(x) THEN y.formula = x.formula /\ y.source = NoSource ELSE y = x

\* What was typed is kept.
Keeps(before, after) ==
    \A a \in Addresses :
        before[a].source = NoSource /\ before[a] # EmptyCell => Kept(before[a], after[a])

\* What storing results may do.
Follows(before, after) ==
    /\ IsSheet(after)
    /\ Keeps(before, after)
    /\ Anchored(before) => Anchored(after)

\* A cell without a source comes from nowhere.
LEMMA NoSourceIsNoAddress == NoSource \notin Addresses
  BY DEF NoSource, Addresses

\* An empty cell is one, with neither a formula nor a source.
LEMMA EmptyIsCell == IsCell(EmptyCell) /\ ~IsFormula(EmptyCell) /\ EmptyCell.source = NoSource
  <1>1. EmptyCell.value.kind = "blank" /\ EmptyCell.formula = NoFormula /\ EmptyCell.source = NoSource
    BY DEF EmptyCell, Value, Blank
  <1> QED  BY <1>1 DEF IsCell, IsFormula

\* Storing nothing is storing results.
LEMMA FollowsItself == ASSUME NEW cells, IsSheet(cells) PROVE Follows(cells, cells)
  <1>1. Keeps(cells, cells)
    <2> SUFFICES ASSUME NEW a \in Addresses, cells[a].source = NoSource
                 PROVE  Kept(cells[a], cells[a])
      BY DEF Keeps
    <2> QED  BY DEF Kept
  <1> QED  BY <1>1 DEF Follows

\* What two steps may do one after the other, they may do together.
LEMMA FollowsOn ==
    ASSUME NEW x, NEW y, NEW z, Follows(x, y), Follows(y, z)
    PROVE  Follows(x, z)
  <1>1. ASSUME NEW a \in Addresses, x[a].source = NoSource, x[a] # EmptyCell
        PROVE  Kept(x[a], z[a])
    <2>1. Kept(x[a], y[a])
      BY <1>1 DEF Follows, Keeps
    <2>2. CASE IsFormula(x[a])
      <3>1. y[a].formula = x[a].formula /\ y[a].source = NoSource /\ IsFormula(y[a])
        BY <2>1, <2>2 DEF Kept, IsFormula
      <3>2. y[a] # EmptyCell
        BY <3>1, EmptyIsCell
      <3>3. Kept(y[a], z[a])
        BY <3>1, <3>2 DEF Follows, Keeps
      <3> QED  BY <2>2, <3>1, <3>3 DEF Kept
    <2>3. CASE ~IsFormula(x[a])
      <3>1. y[a] = x[a]
        BY <2>1, <2>3 DEF Kept
      <3>2. Kept(y[a], z[a])
        BY <1>1, <3>1 DEF Follows, Keeps
      <3> QED  BY <3>1, <3>2
    <2> QED  BY <2>2, <2>3
  <1> QED  BY <1>1 DEF Follows, Keeps

-----------------------------------------------------------------------------
(***************************************************************************)
(* One result is stored                                                    *)
(***************************************************************************)

\* Emptying the cells an anchor had filled takes nothing typed.
LEMMA ClearedCells ==
    ASSUME NEW cells, IsSheet(cells), NEW a \in Addresses
    PROVE  /\ DOMAIN ClearSpillCells(cells, a) = Addresses
           /\ \A b \in Addresses :
                ClearSpillCells(cells, a)[b] = IF cells[b].source = a THEN EmptyCell ELSE cells[b]
  BY DEF ClearSpillCells, Emptied, SpilledFrom

\* A step from one sheet to the next that changes, of the cells that are not
\* filled from a, only the value of a, and fills, from a, only cells that were
\* empty or filled from a.
IsStep(cells, a, after) ==
    /\ DOMAIN after = Addresses
    /\ \A b \in Addresses :
          \/ b # a /\ after[b] = cells[b] /\ cells[b].source # a
          \/ b # a /\ after[b] = EmptyCell /\ cells[b].source = a
          \/ b # a /\ (cells[b] = EmptyCell \/ cells[b].source = a)
               /\ after[b].value.kind # "array"
               /\ after[b].formula = NoFormula /\ after[b].source = a
          \/ b = a /\ after[b].value.kind # "array"
               /\ after[b].formula = cells[a].formula /\ after[b].source = NoSource

\* Such a step overwrites nothing that was typed.
LEMMA StepFollows ==
    ASSUME NEW cells, IsSheet(cells), NEW a \in Addresses, IsFormula(cells[a]),
           NEW after, IsStep(cells, a, after)
    PROVE  Follows(cells, after)
  <1> USE DEF IsStep
  <1>1. ASSUME NEW b \in Addresses PROVE IsCell(after[b])
    <2>1. IsCell(cells[b]) /\ IsCell(cells[a])
      BY DEF IsSheet
    <2>2. CASE after[b] = cells[b] \/ after[b] = EmptyCell
      BY <2>1, <2>2, EmptyIsCell
    <2>3. CASE after[b].formula = NoFormula /\ after[b].source = a /\ after[b].value.kind # "array"
      BY <2>3 DEF IsCell, IsFormula
    <2>4. CASE after[b].formula = cells[a].formula /\ after[b].source = NoSource
                 /\ after[b].value.kind # "array"
      BY <2>1, <2>4 DEF IsCell
    <2> QED  BY <2>2, <2>3, <2>4
  <1>2. ASSUME NEW b \in Addresses, cells[b].source = NoSource, cells[b] # EmptyCell
        PROVE  Kept(cells[b], after[b])
    <2>1. cells[b].source # a
      BY <1>2, NoSourceIsNoAddress
    <2>2. CASE b # a
      <3>1. after[b] = cells[b]
        BY <1>2, <2>1, <2>2
      <3> QED  BY <1>2, <3>1 DEF Kept
    <2>3. CASE b = a
      BY <2>3 DEF Kept
    <2> QED  BY <2>2, <2>3
  <1>3. ASSUME Anchored(cells), NEW b \in Addresses, after[b].source # NoSource
        PROVE  IsFormula(after[after[b].source])
    <2>1. IsFormula(after[a])
      BY DEF IsFormula
    <2>2. CASE after[b].source = a
      BY <2>1, <2>2
    <2>3. CASE after[b].source # a
      <3>1. after[b] = cells[b] /\ cells[b].source # NoSource /\ b # a
        BY <1>3, <2>3, EmptyIsCell
      <3> DEFINE s == cells[b].source
      <3>2. IsFormula(cells[s]) /\ s \in Addresses
        BY <1>3, <3>1 DEF Anchored, IsSheet, IsCell
      <3>3. cells[s].source = NoSource /\ cells[s] # EmptyCell
        BY <3>2, EmptyIsCell DEF IsSheet, IsCell
      <3>4. Kept(cells[s], after[s])
        BY <1>2, <3>2, <3>3
      <3> QED  BY <3>1, <3>2, <3>4 DEF Kept, IsFormula
    <2> QED  BY <2>2, <2>3
  <1>4. IsSheet(after)
    BY <1>1 DEF IsSheet
  <1>5. Keeps(cells, after)
    BY <1>2 DEF Keeps
  <1>6. Anchored(cells) => Anchored(after)
    BY <1>3 DEF Anchored
  <1> QED  BY <1>4, <1>5, <1>6 DEF Follows

\* A single result.
LEMMA StoreSingleSteps ==
    ASSUME NEW p, IsSheet(p.cells), NEW a \in Addresses, IsFormula(p.cells[a]),
           NEW result, result.kind # "array"
    PROVE  IsStep(p.cells, a, StoreSingle(p, a, result).cells)
  <1> DEFINE cells == p.cells
             cleared == ClearSpillCells(cells, a)
             after == [b \in Addresses |->
                         IF b = a THEN [value |-> result, formula |-> cleared[b].formula, source |-> NoSource]
                         ELSE cleared[b]]
  <1>1. StoreSingle(p, a, result).cells = after
    BY DEF StoreSingle
  <1>2. cells[a].source # a
    BY NoSourceIsNoAddress DEF IsSheet, IsCell
  <1>3. cleared[a] = cells[a]
    BY <1>2, ClearedCells
  <1>4. \A b \in Addresses : cleared[b] = IF cells[b].source = a THEN EmptyCell ELSE cells[b]
    BY ClearedCells
  <1> HIDE DEF cleared
  <1>5. DOMAIN after = Addresses /\ IsFormula(cells[a]) /\ IsSheet(cells)
    OBVIOUS
  <1>6. ASSUME NEW b \in Addresses, b # a PROVE after[b] = cleared[b]
    BY <1>6
  <1>7. /\ after[a].value = result /\ after[a].formula = cells[a].formula
        /\ after[a].source = NoSource
    BY <1>3
  <1> HIDE DEF after, cells
  <1>8. IsStep(cells, a, after)
    BY <1>4, <1>5, <1>6, <1>7 DEF IsStep
  <1> QED  BY <1>1, <1>8 DEF cells

\* An array.
LEMMA MaterializeSpillSteps ==
    ASSUME NEW cells, IsSheet(cells), NEW a \in Addresses, IsFormula(cells[a]), NEW entries
    PROVE  LET after == MaterializeSpill(cells, a, entries).cells
           IN  after = cells \/ IsStep(cells, a, after)
  <1> DEFINE cleared == ClearSpillCells(cells, a)
             T == Targets(a, Len(entries))
             fits == \A b \in T : cleared[b] = EmptyCell
  <1>1. cells[a].source # a /\ cells[a].source = NoSource
    BY NoSourceIsNoAddress DEF IsSheet, IsCell
  <1>2. \A b \in Addresses : cleared[b] = IF cells[b].source = a THEN EmptyCell ELSE cells[b]
    BY ClearedCells
  <1>3. cleared[a] = cells[a]
    BY <1>1, <1>2
  <1>4. CASE a[2] + Len(entries) - 1 > Rows
    <2>1. MaterializeSpill(cells, a, entries).cells = cells
      BY <1>4 DEF MaterializeSpill
    <2> QED  BY <2>1
  <1>5. CASE ~(a[2] + Len(entries) - 1 > Rows) /\ fits
    <2> DEFINE after == Spilled(cleared, a, entries)
    <2>1. MaterializeSpill(cells, a, entries).cells = after
      BY <1>5 DEF MaterializeSpill, Materialized
    <2>2. a \notin T
      <3>1. a[2] \in Int
        BY SheetAssumption DEF Addresses
      <3>2. \A r \in (a[2] + 1)..(a[2] + Len(entries) - 1) : r # a[2]
        BY <3>1
      <3> QED  BY <3>2 DEF Targets
    <2> HIDE DEF cleared, T
    <2>3. ASSUME NEW b \in Addresses, b \in T
          PROVE  /\ after[b].value.kind # "array" /\ after[b].formula = NoFormula
                 /\ after[b].source = a
      BY <2>3 DEF Spilled, FilledFrom, Number, T
    <2>4. ASSUME NEW b \in Addresses, b \notin T, b # a PROVE after[b] = cleared[b]
      BY <2>4 DEF Spilled, T
    <2>5. /\ after[a].value.kind # "array" /\ after[a].formula = cells[a].formula
          /\ after[a].source = NoSource
      BY <1>1, <1>3, <2>2 DEF Spilled, Showing, Number, T
    <2>6. DOMAIN after = Addresses
      BY DEF Spilled
    <2>7. ASSUME NEW b \in Addresses, b \in T
          PROVE  b # a /\ (cells[b] = EmptyCell \/ cells[b].source = a)
      BY <1>2, <1>5, <2>2, <2>7
    <2> HIDE DEF after, fits
    <2>8. IsStep(cells, a, after)
      BY <1>2, <2>3, <2>4, <2>5, <2>6, <2>7 DEF IsStep
    <2> QED  BY <2>1, <2>8
  <1>6. CASE ~(a[2] + Len(entries) - 1 > Rows) /\ ~fits
    <2> DEFINE after == NotSpilled(cleared, a)
    <2>1. MaterializeSpill(cells, a, entries).cells = after
      BY <1>6 DEF MaterializeSpill, Materialized
    <2> HIDE DEF cleared
    <2>2. ASSUME NEW b \in Addresses, b # a PROVE after[b] = cleared[b]
      BY <2>2 DEF NotSpilled
    <2>3. /\ after[a].value.kind # "array" /\ after[a].formula = cells[a].formula
          /\ after[a].source = NoSource
      BY <1>1, <1>3 DEF NotSpilled, Showing, Error
    <2>4. DOMAIN after = Addresses
      BY DEF NotSpilled
    <2> HIDE DEF after, fits
    <2>5. IsStep(cells, a, after)
      BY <1>2, <2>2, <2>3, <2>4 DEF IsStep
    <2> QED  BY <2>1, <2>5
  <1> QED  BY <1>4, <1>5, <1>6

\* Any result.
LEMMA StoreSteps ==
    ASSUME NEW p, IsSheet(p.cells), NEW a \in Addresses, IsFormula(p.cells[a]), NEW result
    PROVE  LET after == Store(p, a, result).cells
           IN  after = p.cells \/ IsStep(p.cells, a, after)
  <1>1. CASE result.kind = "array"
    <2>1. Store(p, a, result).cells = MaterializeSpill(p.cells, a, result.entries).cells
      BY <1>1 DEF Store, StoreArray
    <2> QED  BY <2>1, MaterializeSpillSteps
  <1>2. CASE result.kind # "array"
    BY <1>2, StoreSingleSteps DEF Store
  <1> QED  BY <1>1, <1>2

\* A result, array or not, overwrites nothing that was typed.
LEMMA StoreFollows ==
    ASSUME NEW p, IsSheet(p.cells), NEW a \in Addresses, IsFormula(p.cells[a]), NEW result
    PROVE  Follows(p.cells, Store(p, a, result).cells)
  <1> DEFINE after == Store(p, a, result).cells
  <1>1. after = p.cells \/ IsStep(p.cells, a, after)
    BY StoreSteps
  <1> HIDE DEF after
  <1>2. Follows(p.cells, after)
    BY <1>1, StepFollows, FollowsItself
  <1> QED  BY <1>2 DEF after

-----------------------------------------------------------------------------
(***************************************************************************)
(* The results of a pass, and the passes                                   *)
(***************************************************************************)

\* What holds at first and is passed on holds all the way.
LEMMA AlongTheWay ==
    ASSUME NEW N \in Nat, NEW S, 0 \in S, \A k \in 1..N : k - 1 \in S => k \in S
    PROVE  \A k \in 0..N : k \in S
  <1> SUFFICES ASSUME NEW w \in 0..N, w \notin S PROVE FALSE
    OBVIOUS
  <1> DEFINE T == {k \in 0..N : k \notin S}
             R == OpToRel(<, Nat)
  <1>1. T \subseteq Nat /\ T # {}
    OBVIOUS
  <1>2. IsWellFoundedOn(R, Nat)
    BY NatLessThanWellFounded
  <1> HIDE DEF T, R
  <1>3. PICK t \in T : \A u \in T : ~(<<u, t>> \in R)
    BY <1>1, <1>2, WFMin
  <1>4. \A u \in T : ~(u < t)
    BY <1>1, <1>3 DEF R, OpToRel
  <1>5. t \in 0..N /\ t \notin S /\ t # 0
    BY DEF T
  <1>6. t - 1 \in 0..N /\ t \in 1..N
    BY <1>5
  <1>7. t - 1 \in S
    <2> SUFFICES ASSUME t - 1 \notin S PROVE FALSE
      OBVIOUS
    <2>1. t - 1 \in T
      BY <1>6 DEF T
    <2> QED  BY <1>4, <1>5, <2>1
  <1> QED  BY <1>5, <1>6, <1>7

\* The number of cells.
LEMMA SizeIsNatural == Columns * Rows \in Nat
  BY SheetAssumption

\* The k-th address is stored, if it has a result.
StoreNext(q, k, results) ==
    IF InOrder[k] \notin DOMAIN results THEN q ELSE Store(q, InOrder[k], results[InOrder[k]])

\* The loop over the results.
LEMMA StoreAllIs ==
    ASSUME NEW p, NEW results
    PROVE  \E at : /\ StoreAll(p, results) = at[Columns * Rows] /\ at[0] = p
                   /\ \A k \in 1..Columns * Rows : at[k] = StoreNext(at[k - 1], k, results)
  <1> DEFINE Solves(f, n) == f[0] = p /\ \A k \in 1..n : f[k] = StoreNext(f[k - 1], k, results)
             S == {n \in 0..Columns * Rows : \E f : Solves(f, n)}
  <1>1. Columns * Rows \in Nat
    BY SizeIsNatural
  <1>2. 0 \in S
    <2> DEFINE f == [k \in 0..0 |-> p]
    <2>1. Solves(f, 0)
      OBVIOUS
    <2>2. 0 \in 0..Columns * Rows
      BY <1>1
    <2> QED  BY <2>1, <2>2
  <1>3. ASSUME NEW n \in 1..Columns * Rows, n - 1 \in S
        PROVE  n \in S
    <2>1. PICK f : Solves(f, n - 1)
      BY <1>3
    <2> DEFINE g == [k \in 0..n |-> IF k = n THEN StoreNext(f[n - 1], n, results) ELSE f[k]]
    <2>2. n \in Nat /\ n >= 1 /\ n \in 0..Columns * Rows
      BY <1>1
    <2>3. g[0] = p
      BY <2>1, <2>2
    <2>4. ASSUME NEW k \in 1..n
          PROVE  g[k] = StoreNext(g[k - 1], k, results)
      <3>1. k - 1 \in 0..n /\ k - 1 # n /\ k \in 0..n
        BY <2>2, <2>4
      <3>2. g[k - 1] = f[k - 1]
        BY <3>1
      <3>3. CASE k = n
        BY <3>1, <3>2, <3>3
      <3>4. CASE k # n
        <4>1. k \in 1..n - 1
          BY <2>2, <2>4, <3>4
        <4>2. g[k] = f[k]
          BY <3>1, <3>4
        <4> QED  BY <2>1, <3>2, <4>1, <4>2
      <3> QED  BY <3>3, <3>4
    <2> HIDE DEF g
    <2>5. Solves(g, n)
      BY <2>3, <2>4
    <2> QED  BY <2>2, <2>5
  <1>4. PICK f : Solves(f, Columns * Rows)
    <2> HIDE DEF S
    <2>1. \A k \in 0..Columns * Rows : k \in S
      BY <1>1, <1>2, <1>3, AlongTheWay
    <2>2. Columns * Rows \in S
      BY <1>1, <2>1
    <2> QED  BY <2>2 DEF S
  <1> DEFINE E(at) == [k \in 0..Columns * Rows |-> IF k = 0 THEN p
                                          ELSE IF InOrder[k] \notin DOMAIN results THEN at[k - 1]
                                          ELSE Store(at[k - 1], InOrder[k], results[InOrder[k]])]
             at == CHOOSE at : at = E(at)
             h == [k \in 0..Columns * Rows |-> f[k]]
  <1>5. h = E(h)
    <2>1. ASSUME NEW k \in 0..Columns * Rows PROVE h[k] = E(h)[k]
      <3>1. CASE k = 0
        BY <1>4, <3>1
      <3>2. CASE k # 0
        <4>1. k \in 1..Columns * Rows /\ k - 1 \in 0..Columns * Rows
          BY <1>1, <3>2
        <4>2. h[k] = StoreNext(h[k - 1], k, results)
          BY <1>4, <4>1
        <4> HIDE DEF h
        <4> QED  BY <3>2, <4>2 DEF StoreNext
      <3> QED  BY <3>1, <3>2
    <2> QED  BY <2>1
  <1>6. at = E(at)
    <2> HIDE DEF E
    <2> QED  BY <1>5
  <1>7. StoreAll(p, results) = at[Columns * Rows]
    BY DEF StoreAll
  <1> HIDE DEF at
  <1>8. at[0] = p
    BY <1>1, <1>6
  <1>9. ASSUME NEW k \in 1..Columns * Rows
        PROVE  at[k] = StoreNext(at[k - 1], k, results)
    <2>1. k \in 0..Columns * Rows /\ k # 0
      BY <1>1, <1>9
    <2>2. at[k] = E(at)[k]
      BY <1>6, <2>1
    <2> QED  BY <2>1, <2>2 DEF StoreNext
  <1> QED  BY <1>7, <1>8, <1>9

\* Another pass, if there is something to do.
PassNext(q, k) == IF q.next = {} THEN q ELSE Pass(q)

\* The loop over the passes.
LEMMA StabilizeIs ==
    ASSUME NEW p
    PROVE  \E at : /\ PassesAfter(p) = at[MaxPasses] /\ at[0] = p
                   /\ \A k \in 1..MaxPasses : at[k] = PassNext(at[k - 1], k)
  <1> DEFINE Solves(f, n) == f[0] = p /\ \A k \in 1..n : f[k] = PassNext(f[k - 1], k)
             S == {n \in 0..MaxPasses : \E f : Solves(f, n)}
  <1>1. MaxPasses \in Nat
    BY DEF MaxPasses
  <1>2. 0 \in S
    <2> DEFINE f == [k \in 0..0 |-> p]
    <2>1. Solves(f, 0)
      OBVIOUS
    <2>2. 0 \in 0..MaxPasses
      BY <1>1
    <2> QED  BY <2>1, <2>2
  <1>3. ASSUME NEW n \in 1..MaxPasses, n - 1 \in S
        PROVE  n \in S
    <2>1. PICK f : Solves(f, n - 1)
      BY <1>3
    <2> DEFINE g == [k \in 0..n |-> IF k = n THEN PassNext(f[n - 1], n) ELSE f[k]]
    <2>2. n \in Nat /\ n >= 1 /\ n \in 0..MaxPasses
      BY <1>1
    <2>3. g[0] = p
      BY <2>1, <2>2
    <2>4. ASSUME NEW k \in 1..n
          PROVE  g[k] = PassNext(g[k - 1], k)
      <3>1. k - 1 \in 0..n /\ k - 1 # n /\ k \in 0..n
        BY <2>2, <2>4
      <3>2. g[k - 1] = f[k - 1]
        BY <3>1
      <3>3. CASE k = n
        BY <3>1, <3>2, <3>3
      <3>4. CASE k # n
        <4>1. k \in 1..n - 1
          BY <2>2, <2>4, <3>4
        <4>2. g[k] = f[k]
          BY <3>1, <3>4
        <4> QED  BY <2>1, <3>2, <4>1, <4>2
      <3> QED  BY <3>3, <3>4
    <2> HIDE DEF g
    <2>5. Solves(g, n)
      BY <2>3, <2>4
    <2> QED  BY <2>2, <2>5
  <1>4. PICK f : Solves(f, MaxPasses)
    <2> HIDE DEF S
    <2>1. \A k \in 0..MaxPasses : k \in S
      BY <1>1, <1>2, <1>3, AlongTheWay
    <2>2. MaxPasses \in S
      BY <1>1, <2>1
    <2> QED  BY <2>2 DEF S
  <1> DEFINE E(at) == [k \in 0..MaxPasses |-> IF k = 0 THEN p
                                       ELSE LET q == at[k - 1] IN IF q.next = {} THEN q ELSE Pass(q)]
             at == CHOOSE at : at = E(at)
             h == [k \in 0..MaxPasses |-> f[k]]
  <1>5. h = E(h)
    <2>1. ASSUME NEW k \in 0..MaxPasses PROVE h[k] = E(h)[k]
      <3>1. CASE k = 0
        BY <1>4, <3>1
      <3>2. CASE k # 0
        <4>1. k \in 1..MaxPasses /\ k - 1 \in 0..MaxPasses
          BY <1>1, <3>2
        <4>2. h[k] = PassNext(h[k - 1], k)
          BY <1>4, <4>1
        <4> HIDE DEF h
        <4> QED  BY <3>2, <4>2 DEF PassNext
      <3> QED  BY <3>1, <3>2
    <2> QED  BY <2>1
  <1>6. at = E(at)
    <2> HIDE DEF E
    <2> QED  BY <1>5
  <1>7. PassesAfter(p) = at[MaxPasses]
    BY DEF PassesAfter
  <1> HIDE DEF at
  <1>8. at[0] = p
    BY <1>1, <1>6
  <1>9. ASSUME NEW k \in 1..MaxPasses
        PROVE  at[k] = PassNext(at[k - 1], k)
    <2>1. k \in 0..MaxPasses /\ k # 0
      BY <1>1, <1>9
    <2>2. at[k] = E(at)[k]
      BY <1>6, <2>1
    <2> QED  BY <2>1, <2>2 DEF PassNext
  <1> QED  BY <1>7, <1>8, <1>9

\* A pass.
LEMMA PassFollows ==
    ASSUME NEW p, IsSheet(p.cells)
    PROVE  Follows(p.cells, Pass(p).cells)
  <1> DEFINE cells == p.cells
             start == [cells |-> p.cells, forced |-> p.forced, next |-> {}]
             results == Recalculate(p.cells, p.forced, p.next)
  <1>1. \A a \in DOMAIN results : a \in Addresses /\ IsFormula(cells[a])
    BY DEF Recalculate, Affected
  <1>2. Pass(p) = StoreAll(start, results) /\ start.cells = cells
    BY DEF Pass
  <1> HIDE DEF start, results
  <1>3. PICK at : /\ StoreAll(start, results) = at[Columns * Rows] /\ at[0] = start
                  /\ \A k \in 1..Columns * Rows : at[k] = StoreNext(at[k - 1], k, results)
    BY StoreAllIs
  <1> DEFINE S == {k \in 0..Columns * Rows : Follows(cells, at[k].cells)}
  <1>4. 0 \in S
    BY <1>2, <1>3, FollowsItself, SizeIsNatural
  <1>5. ASSUME NEW k \in 1..Columns * Rows, k - 1 \in S
        PROVE  k \in S
    <2> DEFINE q == at[k - 1]
               a == InOrder[k]
    <2>1. Follows(cells, q.cells) /\ k \in 0..Columns * Rows
      BY <1>5, SizeIsNatural
    <2>2. CASE a \notin DOMAIN results
      BY <1>3, <2>1, <2>2 DEF StoreNext
    <2>3. CASE a \in DOMAIN results
      <3>1. at[k] = Store(q, a, results[a])
        BY <1>3, <2>3 DEF StoreNext
      <3>2. a \in Addresses /\ IsFormula(cells[a])
        BY <1>1, <2>3
      <3>3. cells[a].source = NoSource /\ cells[a] # EmptyCell
        BY <3>2, EmptyIsCell DEF IsSheet, IsCell
      <3>4. Kept(cells[a], q.cells[a])
        BY <2>1, <3>2, <3>3 DEF Follows, Keeps
      <3>5. IsFormula(q.cells[a]) /\ IsSheet(q.cells)
        BY <2>1, <3>2, <3>4 DEF Follows, Kept, IsFormula
      <3> HIDE DEF q, a, cells
      <3>6. Follows(q.cells, Store(q, a, results[a]).cells)
        BY <3>2, <3>5, StoreFollows
      <3>7. Follows(cells, Store(q, a, results[a]).cells)
        BY <2>1, <3>6, FollowsOn
      <3> QED  BY <2>1, <3>1, <3>7
    <2> QED  BY <2>2, <2>3
  <1> HIDE DEF S
  <1>6. Columns * Rows \in S
    <2>1. \A k \in 0..Columns * Rows : k \in S
      BY <1>4, <1>5, SizeIsNatural, AlongTheWay
    <2> QED  BY <2>1, SizeIsNatural
  <1> QED  BY <1>2, <1>3, <1>6 DEF S

\* All passes.
LEMMA StabilizeFollows ==
    ASSUME NEW p, IsSheet(p.cells), Stabilize(p) # Refused
    PROVE  Follows(p.cells, Stabilize(p))
  <1>1. PICK at : /\ PassesAfter(p) = at[MaxPasses] /\ at[0] = p
                  /\ \A k \in 1..MaxPasses : at[k] = PassNext(at[k - 1], k)
    BY StabilizeIs
  <1> DEFINE S == {k \in 0..MaxPasses : Follows(p.cells, at[k].cells)}
  <1>2. 0 \in S
    BY <1>1, FollowsItself DEF MaxPasses
  <1>3. ASSUME NEW k \in 1..MaxPasses, k - 1 \in S
        PROVE  k \in S
    <2> DEFINE q == at[k - 1]
    <2>1. Follows(p.cells, q.cells) /\ k \in 0..MaxPasses
      BY <1>3 DEF MaxPasses
    <2>2. CASE q.next = {}
      BY <1>1, <2>1, <2>2 DEF PassNext
    <2>3. CASE q.next # {}
      <3>1. at[k] = Pass(q)
        BY <1>1, <2>3 DEF PassNext
      <3> HIDE DEF q
      <3>2. IsSheet(q.cells)
        BY <2>1 DEF Follows
      <3>3. Follows(q.cells, Pass(q).cells)
        BY <3>2, PassFollows
      <3>4. Follows(p.cells, Pass(q).cells)
        BY <2>1, <3>3, FollowsOn
      <3> QED  BY <2>1, <3>1, <3>4
    <2> QED  BY <2>2, <2>3
  <1> HIDE DEF S
  <1>4. MaxPasses \in S
    <2>1. \A k \in 0..MaxPasses : k \in S
      BY <1>2, <1>3, AlongTheWay DEF MaxPasses
    <2> QED  BY <2>1 DEF MaxPasses
  <1>5. Follows(p.cells, PassesAfter(p).cells)
    BY <1>1, <1>4 DEF S
  <1> QED  BY <1>5 DEF Stabilize

\* What the passes keep of the submitted cells.
LEMMA SettleFollows ==
    ASSUME NEW q, IsSheet(q.cells), NEW forceAll, Settle(q, forceAll) # Refused
    PROVE  ~q.refused /\ Follows(q.cells, Settle(q, forceAll))
  <1> DEFINE p == [cells |-> q.cells, forced |-> {}, next |-> q.changed \cup Retried(q.cells, forceAll)]
  <1>1. ~q.refused /\ Settle(q, forceAll) = Stabilize(p) /\ p.cells = q.cells
    BY DEF Settle
  <1> HIDE DEF p
  <1>2. Follows(p.cells, Stabilize(p))
    BY <1>1, StabilizeFollows
  <1> QED  BY <1>1, <1>2

-----------------------------------------------------------------------------
(***************************************************************************)
(* The submitted cells                                                     *)
(***************************************************************************)

\* Where the loop begins, and what it does to the k-th input.
Beginning(cells) == [cells |-> cells, changed |-> {}, refused |-> FALSE]

SubmitNext(q, k, inputs, cells) == Submit(q, inputs[k], cells)

\* The loop over the submitted cells.
LEMMA SubmitAllIs ==
    ASSUME NEW cells, NEW inputs, Len(inputs) \in Nat
    PROVE  \E at : /\ SubmitAll(cells, inputs) = at[Len(inputs)] /\ at[0] = Beginning(cells)
                   /\ \A k \in 1..Len(inputs) : at[k] = SubmitNext(at[k - 1], k, inputs, cells)
  <1> DEFINE Solves(f, n) == f[0] = Beginning(cells) /\ \A k \in 1..n : f[k] = SubmitNext(f[k - 1], k, inputs, cells)
             S == {n \in 0..Len(inputs) : \E f : Solves(f, n)}
  <1>1. Len(inputs) \in Nat
    OBVIOUS
  <1>2. 0 \in S
    <2> DEFINE f == [k \in 0..0 |-> Beginning(cells)]
    <2>1. Solves(f, 0)
      OBVIOUS
    <2>2. 0 \in 0..Len(inputs)
      BY <1>1
    <2> QED  BY <2>1, <2>2
  <1>3. ASSUME NEW n \in 1..Len(inputs), n - 1 \in S
        PROVE  n \in S
    <2>1. PICK f : Solves(f, n - 1)
      BY <1>3
    <2> DEFINE g == [k \in 0..n |-> IF k = n THEN SubmitNext(f[n - 1], n, inputs, cells) ELSE f[k]]
    <2>2. n \in Nat /\ n >= 1 /\ n \in 0..Len(inputs)
      BY <1>1
    <2>3. g[0] = Beginning(cells)
      BY <2>1, <2>2
    <2>4. ASSUME NEW k \in 1..n
          PROVE  g[k] = SubmitNext(g[k - 1], k, inputs, cells)
      <3>1. k - 1 \in 0..n /\ k - 1 # n /\ k \in 0..n
        BY <2>2, <2>4
      <3>2. g[k - 1] = f[k - 1]
        BY <3>1
      <3>3. CASE k = n
        BY <3>1, <3>2, <3>3
      <3>4. CASE k # n
        <4>1. k \in 1..n - 1
          BY <2>2, <2>4, <3>4
        <4>2. g[k] = f[k]
          BY <3>1, <3>4
        <4> QED  BY <2>1, <3>2, <4>1, <4>2
      <3> QED  BY <3>3, <3>4
    <2> HIDE DEF g
    <2>5. Solves(g, n)
      BY <2>3, <2>4
    <2> QED  BY <2>2, <2>5
  <1>4. PICK f : Solves(f, Len(inputs))
    <2> HIDE DEF S
    <2>1. \A k \in 0..Len(inputs) : k \in S
      BY <1>1, <1>2, <1>3, AlongTheWay
    <2>2. Len(inputs) \in S
      BY <1>1, <2>1
    <2> QED  BY <2>2 DEF S
  <1> DEFINE E(at) == [k \in 0..Len(inputs) |-> IF k = 0 THEN [cells |-> cells, changed |-> {}, refused |-> FALSE]
                                         ELSE Submit(at[k - 1], inputs[k], cells)]
             at == CHOOSE at : at = E(at)
             h == [k \in 0..Len(inputs) |-> f[k]]
  <1>5. h = E(h)
    <2>1. ASSUME NEW k \in 0..Len(inputs) PROVE h[k] = E(h)[k]
      <3>1. CASE k = 0
        BY <1>4, <3>1 DEF Beginning
      <3>2. CASE k # 0
        <4>1. k \in 1..Len(inputs) /\ k - 1 \in 0..Len(inputs)
          BY <1>1, <3>2
        <4>2. h[k] = SubmitNext(h[k - 1], k, inputs, cells)
          BY <1>4, <4>1
        <4> HIDE DEF h
        <4> QED  BY <3>2, <4>2 DEF SubmitNext
      <3> QED  BY <3>1, <3>2
    <2> QED  BY <2>1
  <1>6. at = E(at)
    <2> HIDE DEF E
    <2> QED  BY <1>5
  <1>7. SubmitAll(cells, inputs) = at[Len(inputs)]
    BY DEF SubmitAll
  <1> HIDE DEF at
  <1>8. at[0] = Beginning(cells)
    BY <1>1, <1>6 DEF Beginning
  <1>9. ASSUME NEW k \in 1..Len(inputs)
        PROVE  at[k] = SubmitNext(at[k - 1], k, inputs, cells)
    <2>1. k \in 0..Len(inputs) /\ k # 0
      BY <1>1, <1>9
    <2>2. at[k] = E(at)[k]
      BY <1>6, <2>1
    <2> QED  BY <2>1, <2>2 DEF SubmitNext
  <1> QED  BY <1>7, <1>8, <1>9

\* What may be submitted: a cell, at an address.
IsInput(input) == input.at \in Addresses /\ IsCell(input.cell)

\* What operations submit may be shown.
ArePlain(inputs) == \A i \in 1..Len(inputs) : IsValue(inputs[i].cell.value)

\* What is put into the submitted cell.
Submitted(c) == IF IsFormula(c) THEN Formula(c.formula) ELSE c

\* What is put into a cell is a cell with the formula that was submitted.
LEMMA SubmittedIsCell ==
    ASSUME NEW c, IsCell(c)
    PROVE  /\ IsCell(Submitted(c))
           /\ IsFormula(c) => Submitted(c).formula = c.formula
           /\ Submitted(c).source = c.source
  <1>1. Formula(c.formula).value.kind = "blank" /\ Formula(c.formula).formula = c.formula
          /\ Formula(c.formula).source = NoSource
    BY DEF Formula, Blank
  <1> HIDE DEF Formula
  <1> QED  BY <1>1 DEF Submitted, IsCell, IsFormula

\* One cell is submitted.
LEMMA SubmitIs ==
    ASSUME NEW q, NEW original, NEW input
    PROVE  LET r == Submit(q, input, original)
               a == input.at
               current == q.cells[a].source
           IN  \/ r.refused /\ r.cells = q.cells
               \/ /\ ~r.refused /\ ~q.refused /\ DOMAIN r.cells = Addresses
                  /\ current = NoSource \/ input.cell.source = current
                  /\ \A b \in Addresses :
                        r.cells[b] = IF b = a THEN Submitted(input.cell)
                                     ELSE IF original[b].source = a THEN EmptyCell
                                     ELSE q.cells[b]
  BY DEF Submit, Submitted, Emptied, SpilledFrom

\* Whatever is submitted, sheets stay sheets, and other cells that are not
\* filled stay as they are.
LEMMA SubmitAllKeeps ==
    ASSUME NEW cells, IsSheet(cells), NEW inputs, Len(inputs) \in Nat,
           \A i \in 1..Len(inputs) : IsInput(inputs[i])
    PROVE  LET after == SubmitAll(cells, inputs).cells
           IN  /\ IsSheet(after)
               /\ \A a \in Addresses :
                     (\A i \in 1..Len(inputs) : inputs[i].at # a) /\ cells[a].source = NoSource
                       => after[a] = cells[a]
  <1> DEFINE N == Len(inputs)
             Untouched == {a \in Addresses : (\A i \in 1..N : inputs[i].at # a) /\ cells[a].source = NoSource}
             Good(c) == IsSheet(c) /\ \A a \in Untouched : c[a] = cells[a]
  <1>1. PICK at : /\ SubmitAll(cells, inputs) = at[N] /\ at[0] = Beginning(cells)
                  /\ \A k \in 1..N : at[k] = SubmitNext(at[k - 1], k, inputs, cells)
    BY SubmitAllIs
  <1> DEFINE S == {k \in 0..N : Good(at[k].cells)}
  <1>2. 0 \in S
    <2>1. at[0].cells = cells
      BY <1>1 DEF Beginning
    <2> QED  BY <2>1
  <1>3. ASSUME NEW k \in 1..N, k - 1 \in S
        PROVE  k \in S
    <2> DEFINE q == at[k - 1]
               a == inputs[k].at
               r == Submit(q, inputs[k], cells)
    <2>1. Good(q.cells) /\ k \in 0..N /\ IsInput(inputs[k]) /\ at[k] = r
      BY <1>1, <1>3 DEF SubmitNext
    <2>2. CASE r.refused /\ r.cells = q.cells
      BY <2>1, <2>2
    <2>3. CASE /\ DOMAIN r.cells = Addresses
               /\ \A b \in Addresses :
                     r.cells[b] = IF b = a THEN Submitted(inputs[k].cell)
                                  ELSE IF cells[b].source = a THEN EmptyCell ELSE q.cells[b]
      <3>1. IsCell(Submitted(inputs[k].cell)) /\ a \in Addresses
        BY <2>1, SubmittedIsCell DEF IsInput
      <3> HIDE DEF r, q
      <3>2. ASSUME NEW b \in Addresses PROVE IsCell(r.cells[b])
        <4>1. IsCell(q.cells[b])
          BY <2>1 DEF IsSheet
        <4> QED  BY <2>3, <3>1, <4>1, EmptyIsCell
      <3>3. ASSUME NEW b \in Untouched PROVE r.cells[b] = cells[b]
        <4>1. b # a /\ cells[b].source # a /\ q.cells[b] = cells[b]
          BY <2>1, <3>1, NoSourceIsNoAddress
        <4> QED  BY <2>3, <4>1
      <3>4. IsSheet(r.cells)
        BY <2>3, <3>2 DEF IsSheet
      <3> HIDE DEF Untouched
      <3> QED  BY <2>1, <3>3, <3>4
    <2> QED  BY <2>2, <2>3, SubmitIs
  <1> HIDE DEF S
  <1>4. N \in S
    <2>1. \A k \in 0..N : k \in S
      BY <1>2, <1>3, AlongTheWay
    <2> QED  BY <2>1
  <1>5. Good(SubmitAll(cells, inputs).cells)
    BY <1>1, <1>4 DEF S
  <1> QED  BY <1>5

-----------------------------------------------------------------------------
(***************************************************************************)
(* The submitted cells, of an operation that is complete                   *)
(***************************************************************************)

\* Addresses differ, and a filled cell is put back together with the formula
\* that filled it.
IsComplete(inputs) ==
    /\ \A i, j \in 1..Len(inputs) : i # j => inputs[i].at # inputs[j].at
    /\ \A i \in 1..Len(inputs) : inputs[i].cell.source # NoSource =>
          \E j \in 1..Len(inputs) :
             inputs[j].at = inputs[i].cell.source /\ IsFormula(inputs[j].cell)

Ats(inputs, n) == {inputs[i].at : i \in 1..n}

\* The sheet after n inputs: other cells are emptied with the anchor they came
\* from; a submitted formula is still there, because a cell that was filled is
\* only overwritten when its anchor was submitted before it.
Progress(now, n, inputs, cells) ==
    /\ \A a \in Addresses \ Ats(inputs, n) :
          now[a] = IF cells[a].source \in Ats(inputs, n) THEN EmptyCell ELSE cells[a]
    /\ \A i \in 1..n :
          LET a == inputs[i].at
              c == inputs[i].cell
          IN  /\ IsFormula(c) => /\ now[a].formula = c.formula
                                 /\ cells[a].source \in Ats(inputs, n) \cup {NoSource}
              /\ now[a].source # NoSource => now[a].source = c.source
              /\ cells[a].source # NoSource => cells[a].source \in Ats(inputs, Len(inputs))

\* One input.
LEMMA SubmitProgresses ==
    ASSUME NEW cells, IsSheet(cells), NEW inputs, Len(inputs) \in Nat,
           \A i \in 1..Len(inputs) : IsInput(inputs[i]), IsComplete(inputs),
           NEW k \in 1..Len(inputs), NEW now, Progress(now, k - 1, inputs, cells),
           NEW after,
           LET a == inputs[k].at
           IN  /\ now[a].source = NoSource \/ inputs[k].cell.source = now[a].source
               /\ \A b \in Addresses :
                     after[b] = IF b = a THEN Submitted(inputs[k].cell)
                                ELSE IF cells[b].source = a THEN EmptyCell ELSE now[b]
    PROVE  Progress(after, k, inputs, cells)
  <1> DEFINE a == inputs[k].at
             c == inputs[k].cell
  <1>1. /\ a \in Addresses /\ IsCell(c) /\ k \in Nat /\ k >= 1 /\ k - 1 \in Nat
    BY DEF IsInput
  <1>2. Ats(inputs, k) = Ats(inputs, k - 1) \cup {a}
    BY <1>1 DEF Ats
  <1>3. a \notin Ats(inputs, k - 1)
    <2>1. \A i \in 1..k - 1 : i \in 1..Len(inputs) /\ i # k
      BY <1>1
    <2> QED  BY <2>1 DEF Ats, IsComplete
  <1>4. \A b \in Addresses \ Ats(inputs, k - 1) :
          now[b] = IF cells[b].source \in Ats(inputs, k - 1) THEN EmptyCell ELSE cells[b]
    BY DEF Progress
  <1>5. cells[a].source \in Ats(inputs, k - 1) \/ cells[a].source = NoSource \/ cells[a].source = c.source
    BY <1>1, <1>3, <1>4
  <1>6. \A b \in Addresses :
          after[b] = IF b = a THEN Submitted(c) ELSE IF cells[b].source = a THEN EmptyCell ELSE now[b]
    OBVIOUS
  <1>7. /\ IsFormula(c) => Submitted(c).formula = c.formula /\ c.source = NoSource
        /\ Submitted(c).source = c.source
    BY <1>1, SubmittedIsCell DEF IsCell
  <1>8. c.source # NoSource => c.source \in Ats(inputs, Len(inputs))
    BY DEF IsComplete, Ats
  <1>9. Ats(inputs, k - 1) \subseteq Ats(inputs, Len(inputs))
    <2>1. \A i \in 1..k - 1 : i \in 1..Len(inputs)
      BY <1>1
    <2> QED  BY <2>1 DEF Ats
  <1>10. ASSUME NEW b \in Addresses \ Ats(inputs, k)
         PROVE  after[b] = IF cells[b].source \in Ats(inputs, k) THEN EmptyCell ELSE cells[b]
    <2>1. b # a /\ b \in Addresses \ Ats(inputs, k - 1)
      BY <1>2, <1>10
    <2>2. after[b] = IF cells[b].source = a THEN EmptyCell ELSE now[b]
      BY <1>6, <2>1
    <2> HIDE DEF a
    <2> QED  BY <1>2, <1>4, <2>1, <2>2
  <1>11. ASSUME NEW i \in 1..k
         PROVE  LET x == inputs[i].at
                    y == inputs[i].cell
                IN  /\ IsFormula(y) => /\ after[x].formula = y.formula
                                       /\ cells[x].source \in Ats(inputs, k) \cup {NoSource}
                    /\ after[x].source # NoSource => after[x].source = y.source
                    /\ cells[x].source # NoSource => cells[x].source \in Ats(inputs, Len(inputs))
    <2> DEFINE x == inputs[i].at
               y == inputs[i].cell
    <2>1. CASE i = k
      <3>1. after[a] = Submitted(c)
        BY <1>1, <1>6
      <3> HIDE DEF a, c
      <3>2. IsFormula(c) => cells[a].source \in Ats(inputs, k - 1) \cup {NoSource}
        BY <1>5, <1>7
      <3>3. x = a /\ y = c
        BY <2>1 DEF a, c
      <3> HIDE DEF x, y
      <3> QED  BY <1>2, <1>5, <1>7, <1>8, <1>9, <3>1, <3>2, <3>3 DEF x, y
    <2>2. CASE i # k
      <3>1. i \in 1..k - 1 /\ i \in 1..Len(inputs)
        BY <1>1, <2>2
      <3>2. /\ IsFormula(y) => /\ now[x].formula = y.formula
                               /\ cells[x].source \in Ats(inputs, k - 1) \cup {NoSource}
            /\ now[x].source # NoSource => now[x].source = y.source
            /\ cells[x].source # NoSource => cells[x].source \in Ats(inputs, Len(inputs))
        BY <3>1 DEF Progress
      <3>3. x # a /\ x \in Addresses
        BY <2>2, <3>1 DEF IsComplete, IsInput
      <3>4. after[x] = IF cells[x].source = a THEN EmptyCell ELSE now[x]
        BY <1>6, <3>3
      <3>5. IsFormula(y) => cells[x].source # a
        BY <1>1, <1>3, <3>2, NoSourceIsNoAddress
      <3> HIDE DEF a, c, x, y
      <3>6. IsFormula(y) => /\ after[x].formula = y.formula
                            /\ cells[x].source \in Ats(inputs, k) \cup {NoSource}
        BY <1>2, <3>2, <3>4, <3>5
      <3>7. after[x].source # NoSource => after[x].source = y.source
        BY <3>2, <3>4, EmptyIsCell
      <3> QED  BY <3>2, <3>6, <3>7 DEF x, y
    <2> QED  BY <2>1, <2>2
  <1> HIDE DEF a, c
  <1> QED  BY <1>10, <1>11 DEF Progress

\* All inputs.
LEMMA SubmitAllProgresses ==
    ASSUME NEW cells, IsSheet(cells), NEW inputs, Len(inputs) \in Nat,
           \A i \in 1..Len(inputs) : IsInput(inputs[i]), IsComplete(inputs),
           ~SubmitAll(cells, inputs).refused
    PROVE  Progress(SubmitAll(cells, inputs).cells, Len(inputs), inputs, cells)
  <1> DEFINE N == Len(inputs)
  <1>1. PICK at : /\ SubmitAll(cells, inputs) = at[N] /\ at[0] = Beginning(cells)
                  /\ \A k \in 1..N : at[k] = SubmitNext(at[k - 1], k, inputs, cells)
    BY SubmitAllIs
  <1> DEFINE S == {k \in 0..N : at[k].refused \/ Progress(at[k].cells, k, inputs, cells)}
  <1>2. 0 \in S
    <2>1. at[0].cells = cells
      BY <1>1 DEF Beginning
    <2>2. Ats(inputs, 0) = {}
      BY DEF Ats
    <2>3. Progress(cells, 0, inputs, cells)
      BY <2>2 DEF Progress
    <2> QED  BY <2>1, <2>3
  <1>3. ASSUME NEW k \in 1..N, k - 1 \in S
        PROVE  k \in S
    <2> DEFINE q == at[k - 1]
               r == Submit(q, inputs[k], cells)
    <2>1. at[k] = r /\ k \in 0..N
      BY <1>1, <1>3 DEF SubmitNext
    <2>2. CASE r.refused
      BY <2>1, <2>2
    <2>3. CASE ~r.refused
      <3>1. /\ ~q.refused
            /\ LET a == inputs[k].at
               IN  /\ q.cells[a].source = NoSource \/ inputs[k].cell.source = q.cells[a].source
                   /\ \A b \in Addresses :
                         r.cells[b] = IF b = a THEN Submitted(inputs[k].cell)
                                      ELSE IF cells[b].source = a THEN EmptyCell ELSE q.cells[b]
        BY <2>3, SubmitIs
      <3>2. Progress(q.cells, k - 1, inputs, cells)
        BY <1>3, <3>1
      <3> HIDE DEF q, r
      <3>3. Progress(r.cells, k, inputs, cells)
        BY <3>1, <3>2, SubmitProgresses
      <3> QED  BY <2>1, <3>3
    <2> QED  BY <2>2, <2>3
  <1> HIDE DEF S
  <1>4. N \in S
    <2>1. \A k \in 0..N : k \in S
      BY <1>2, <1>3, AlongTheWay
    <2> QED  BY <2>1
  <1> QED  BY <1>1, <1>4 DEF S

\* All inputs: filled cells still name a formula, and what filled a submitted
\* cell is submitted with it.
LEMMA SubmitAllAnchored ==
    ASSUME NEW cells, IsSheet(cells), Anchored(cells), NEW inputs, Len(inputs) \in Nat,
           \A i \in 1..Len(inputs) : IsInput(inputs[i]), IsComplete(inputs),
           ~SubmitAll(cells, inputs).refused
    PROVE  /\ Anchored(SubmitAll(cells, inputs).cells)
           /\ \A i \in 1..Len(inputs) :
                 cells[inputs[i].at].source # NoSource =>
                   \E j \in 1..Len(inputs) : inputs[j].at = cells[inputs[i].at].source
  <1> DEFINE N == Len(inputs)
             now == SubmitAll(cells, inputs).cells
  <1>5. Progress(now, N, inputs, cells)
    BY SubmitAllProgresses
  <1>6. ASSUME NEW i \in 1..N, cells[inputs[i].at].source # NoSource
        PROVE  \E j \in 1..N : inputs[j].at = cells[inputs[i].at].source
    BY <1>5, <1>6 DEF Progress, Ats
  <1>7. ASSUME NEW b \in Addresses, now[b].source # NoSource
        PROVE  IsFormula(now[now[b].source])
    <2> DEFINE s == now[b].source
    <2>1. CASE b \notin Ats(inputs, N)
      <3>1. now[b] = cells[b] /\ cells[b].source \notin Ats(inputs, N)
        BY <1>5, <1>7, <2>1, EmptyIsCell DEF Progress
      <3>2. s \in Addresses /\ IsFormula(cells[s])
        BY <1>7, <3>1 DEF Anchored, IsSheet, IsCell
      <3>3. cells[s].source = NoSource
        BY <3>2 DEF IsSheet, IsCell
      <3>4. NoSource \notin Ats(inputs, N)
        BY NoSourceIsNoAddress DEF Ats, IsInput
      <3>5. now[s] = cells[s]
        BY <1>5, <3>1, <3>2, <3>3, <3>4 DEF Progress
      <3> QED  BY <3>2, <3>5
    <2>2. CASE b \in Ats(inputs, N)
      <3>1. PICK i \in 1..N : inputs[i].at = b
        BY <2>2 DEF Ats
      <3>2. s = inputs[i].cell.source
        BY <1>5, <1>7, <3>1 DEF Progress
      <3>3. PICK j \in 1..N : inputs[j].at = s /\ IsFormula(inputs[j].cell)
        BY <1>7, <3>2 DEF IsComplete
      <3>4. now[s].formula = inputs[j].cell.formula
        BY <1>5, <3>3 DEF Progress
      <3> QED  BY <3>3, <3>4 DEF IsFormula
    <2> QED  BY <2>1, <2>2
  <1> HIDE DEF now
  <1> QED  BY <1>6, <1>7 DEF Anchored, now

-----------------------------------------------------------------------------
(***************************************************************************)
(* Operations and the log                                                  *)
(***************************************************************************)
\* A sequence, of whatever.
IsList(s) == \E S : s \in Seq(S)

\* A list has a length, and its places are the numbers up to it.
LEMMA ListFacts ==
    ASSUME NEW s, IsList(s)
    PROVE  Len(s) \in Nat /\ DOMAIN s = 1..Len(s)
  BY DEF IsList

\* A function of the first n places is a list of length n.
LEMMA OverPlaces ==
    ASSUME NEW n \in Nat, NEW s, DOMAIN s = 1..n, s = [i \in 1..n |-> s[i]]
    PROVE  IsList(s) /\ Len(s) = n
  <1> DEFINE S == {s[i] : i \in 1..n}
  <1>1. s \in [1..n -> S]
    OBVIOUS
  <1> HIDE DEF S
  <1>2. s \in Seq(S) /\ Len(s) = n
    BY <1>1
  <1> QED  BY <1>2 DEF IsList

\* An entry of the log, and an entry of which every part can be put back.
IsEntry(e) ==
    /\ IsList(e)
    /\ \A i \in 1..Len(e) : e[i].at \in Addresses /\ IsCell(e[i].before)

IsCompleteEntry(e) ==
    /\ \A i, j \in 1..Len(e) : i # j => e[i].at # e[j].at
    /\ \A i \in 1..Len(e) : e[i].before.source # NoSource =>
          \E j \in 1..Len(e) : e[j].at = e[i].before.source /\ IsFormula(e[j].before)

IsLog(l) ==
    /\ IsList(l) /\ Len(l) <= Remembered
    /\ \A k \in 1..Len(l) : IsEntry(l[k])

\* What is put back may be shown.
IsPlainLog(l) == \A k \in 1..Len(l) : \A i \in 1..Len(l[k]) : IsValue(l[k][i].before.value)

\* The inductive invariant.
Inv ==
    /\ IsSheet(cell)
    /\ IsLog(log)
    /\ made \in 0..MaxOperations
    /\ partial \in BOOLEAN
    /\ ~partial => Anchored(cell) /\ \A k \in 1..Len(log) : IsCompleteEntry(log[k])

\* The last of a list that got one more.
LEMMA LastOfIs ==
    ASSUME NEW l, IsList(l), NEW e, NEW n \in Nat \ {0}
    PROVE  LET m == LastOf(Append(l, e), n)
           IN  /\ IsList(m) /\ Len(m) <= n /\ Len(m) \in Nat \ {0} /\ m[Len(m)] = e
               /\ \A k \in 1..Len(m) : m[k] = e \/ \E j \in 1..Len(l) : m[k] = l[j]
  <1>1. PICK S : l \in Seq(S)
    BY DEF IsList
  <1> DEFINE T == S \cup {e}
             a == Append(l, e)
  <1>2. /\ a \in Seq(T) /\ Len(a) = Len(l) + 1 /\ Len(l) \in Nat
        /\ \A k \in 1..Len(a) : a[k] = IF k = Len(a) THEN e ELSE l[k]
    <2>1. l \in Seq(T)
      BY <1>1
    <2> HIDE DEF T
    <2>2. e \in T
      BY DEF T
    <2> QED  BY <2>1, <2>2
  <1> HIDE DEF a, T
  <1>3. \A k \in 1..Len(a) : a[k] = e \/ \E j \in 1..Len(l) : a[k] = l[j]
    <2> SUFFICES ASSUME NEW k \in 1..Len(a), k # Len(a) PROVE \E j \in 1..Len(l) : a[k] = l[j]
      BY <1>2
    <2>1. k \in 1..Len(l)
      BY <1>2
    <2> QED  BY <1>2, <2>1
  <1>4. CASE Len(a) <= n
    <2>1. LastOf(a, n) = a
      BY <1>4 DEF LastOf
    <2>2. Len(a) \in 1..Len(a) /\ Len(a) \in Nat \ {0}
      BY <1>2
    <2>3. a[Len(a)] = e
      BY <1>2, <2>2
    <2> QED  BY <1>2, <1>3, <1>4, <2>1, <2>2, <2>3 DEF IsList, a
  <1>5. CASE ~(Len(a) <= n)
    <2> DEFINE m == SubSeq(a, Len(a) - n + 1, Len(a))
    <2>1. LastOf(a, n) = m
      BY <1>5 DEF LastOf
    <2>2. Len(a) \in Nat /\ Len(a) - n + 1 \in 1..Len(a)
      BY <1>2, <1>5
    <2>3. /\ m \in Seq(T) /\ Len(m) = n
          /\ \A k \in 1..n : m[k] = a[Len(a) - n + k]
      BY <1>2, <2>2
    <2> HIDE DEF m
    <2>4. \A k \in 1..n : Len(a) - n + k \in 1..Len(a)
      BY <1>2, <2>2
    <2>5. m[n] = a[Len(a)] /\ a[Len(a)] = e
      BY <1>2, <2>2, <2>3
    <2>6. \A k \in 1..n : m[k] = e \/ \E j \in 1..Len(l) : m[k] = l[j]
      <3> SUFFICES ASSUME NEW k \in 1..n PROVE m[k] = e \/ \E j \in 1..Len(l) : m[k] = l[j]
        OBVIOUS
      <3>1. PICK i \in 1..Len(a) : i = Len(a) - n + k
        BY <2>4
      <3>2. m[k] = a[i]
        BY <2>3, <3>1
      <3> QED  BY <1>3, <3>2
    <2> QED  BY <2>1, <2>3, <2>5, <2>6 DEF IsList, a
  <1> QED  BY <1>4, <1>5

\* What an operation that is not refused leaves.
LEMMA CommitKeeps ==
    ASSUME Inv, NEW inputs, IsList(inputs), \A i \in 1..Len(inputs) : IsInput(inputs[i]),
           NEW forceAll, Commit(inputs, forceAll)
    PROVE  /\ IsSheet(cell') /\ IsLog(log') /\ made' \in 0..MaxOperations
           /\ \A a \in Addresses :
                 cell[a].source = NoSource /\ cell[a] # EmptyCell =>
                    \/ Kept(cell[a], cell'[a])
                    \/ \E i \in DOMAIN log'[Len(log')] : log'[Len(log')][i].at = a
           /\ ~partial /\ IsComplete(inputs) =>
                 Anchored(cell') /\ \A k \in 1..Len(log') : IsCompleteEntry(log'[k])
           /\ IsPlain(cell) /\ IsPlainLog(log) => IsPlainLog(log')
  <1> DEFINE q == SubmitAll(cell, inputs)
             after == Settle(q, forceAll)
             e == [i \in DOMAIN inputs |->
                     [at |-> inputs[i].at, before |-> cell[inputs[i].at],
                      after |-> after[inputs[i].at]]]
  <1>1. /\ after # Refused /\ cell' = after
        /\ log' = LastOf(Append(log, e), Remembered)
        /\ made < MaxOperations /\ made' = made + 1
    BY DEF Commit, RecalculateCellInputs
  <1>2. Len(inputs) \in Nat /\ DOMAIN inputs = 1..Len(inputs) /\ IsSheet(cell)
    BY ListFacts DEF Inv
  <1>3. /\ IsSheet(q.cells)
        /\ \A a \in Addresses :
              (\A i \in 1..Len(inputs) : inputs[i].at # a) /\ cell[a].source = NoSource
                 => q.cells[a] = cell[a]
    BY <1>2, SubmitAllKeeps
  <1> HIDE DEF q
  <1>4. ~q.refused /\ Follows(q.cells, after)
    BY <1>1, <1>3, SettleFollows
  <1> HIDE DEF after
  <1>5. /\ IsList(e) /\ Len(e) = Len(inputs)
        /\ \A i \in 1..Len(inputs) : e[i].at = inputs[i].at /\ e[i].before = cell[inputs[i].at]
    <2>1. DOMAIN e = 1..Len(inputs) /\ e = [i \in 1..Len(inputs) |-> e[i]]
      BY <1>2
    <2>2. \A i \in 1..Len(inputs) : e[i].at = inputs[i].at /\ e[i].before = cell[inputs[i].at]
      BY <1>2
    <2> HIDE DEF e
    <2>3. IsList(e) /\ Len(e) = Len(inputs)
      BY <1>2, <2>1, OverPlaces
    <2> QED  BY <2>2, <2>3
  <1> HIDE DEF e
  <1>6. /\ IsList(log') /\ Len(log') <= Remembered /\ Len(log') \in Nat \ {0}
        /\ log'[Len(log')] = e
        /\ \A k \in 1..Len(log') : log'[k] = e \/ \E j \in 1..Len(log) : log'[k] = log[j]
    <2>1. IsList(log) /\ Remembered \in Nat \ {0}
      BY BoundsAssumption DEF Inv, IsLog
    <2> DEFINE m == LastOf(Append(log, e), Remembered)
    <2>2. /\ IsList(m) /\ Len(m) <= Remembered /\ Len(m) \in Nat \ {0}
          /\ m[Len(m)] = e
          /\ \A k \in 1..Len(m) : m[k] = e \/ \E j \in 1..Len(log) : m[k] = log[j]
      BY <2>1, LastOfIs
    <2>3. log' = m
      BY <1>1
    <2> HIDE DEF m
    <2> QED  BY <2>2, <2>3
  <1>7. IsEntry(e)
    BY <1>2, <1>5 DEF IsEntry, IsInput, IsSheet
  <1>8. IsLog(log')
    BY <1>6, <1>7 DEF IsLog, Inv
  <1>9. made' \in 0..MaxOperations
    BY <1>1, BoundsAssumption DEF Inv
  <1>10. ASSUME NEW a \in Addresses, cell[a].source = NoSource, cell[a] # EmptyCell
         PROVE  \/ Kept(cell[a], cell'[a])
                \/ \E i \in DOMAIN log'[Len(log')] : log'[Len(log')][i].at = a
    <2>1. CASE \A i \in 1..Len(inputs) : inputs[i].at # a
      <3>1. q.cells[a] = cell[a]
        BY <1>3, <1>10, <2>1
      <3>2. Kept(q.cells[a], after[a])
        BY <1>4, <1>10, <3>1 DEF Follows, Keeps
      <3> QED  BY <1>1, <3>1, <3>2
    <2>2. CASE \E i \in 1..Len(inputs) : inputs[i].at = a
      <3>1. DOMAIN e = 1..Len(inputs)
        BY <1>5, ListFacts
      <3> QED  BY <1>5, <1>6, <2>2, <3>1
    <2> QED  BY <2>1, <2>2
  <1>11. ASSUME ~partial, IsComplete(inputs)
         PROVE  Anchored(cell') /\ \A k \in 1..Len(log') : IsCompleteEntry(log'[k])
    <2>1. Anchored(cell) /\ \A k \in 1..Len(log) : IsCompleteEntry(log[k])
      BY <1>11 DEF Inv
    <2>2. /\ Anchored(q.cells)
          /\ \A i \in 1..Len(inputs) :
                cell[inputs[i].at].source # NoSource =>
                  \E j \in 1..Len(inputs) : inputs[j].at = cell[inputs[i].at].source
      BY <1>2, <1>4, <1>11, <2>1, SubmitAllAnchored DEF q
    <2>3. Anchored(after)
      BY <1>4, <2>2 DEF Follows
    <2>4. IsCompleteEntry(e)
      <3>1. \A i, j \in 1..Len(e) : i # j => e[i].at # e[j].at
        BY <1>5, <1>11 DEF IsComplete
      <3>2. ASSUME NEW i \in 1..Len(e), e[i].before.source # NoSource
            PROVE  \E j \in 1..Len(e) : e[j].at = e[i].before.source /\ IsFormula(e[j].before)
        <4>1. PICK j \in 1..Len(inputs) : inputs[j].at = cell[inputs[i].at].source
          BY <1>5, <2>2, <3>2
        <4>2. IsFormula(cell[inputs[j].at])
          BY <1>5, <2>1, <3>2, <4>1 DEF Anchored, IsInput
        <4> QED  BY <1>5, <3>2, <4>1, <4>2
      <3> QED  BY <3>1, <3>2 DEF IsCompleteEntry
    <2> QED  BY <1>1, <1>6, <2>1, <2>3, <2>4
  <1>12. ASSUME IsPlain(cell), IsPlainLog(log)
         PROVE  IsPlainLog(log')
    <2>1. \A i \in 1..Len(e) : IsValue(e[i].before.value)
      BY <1>5, <1>12 DEF IsPlain, IsInput
    <2> QED  BY <1>6, <1>12, <2>1 DEF IsPlainLog
  <1> QED  BY <1>1, <1>4, <1>8, <1>9, <1>10, <1>11, <1>12 DEF Follows

-----------------------------------------------------------------------------
(***************************************************************************)
(* What operations submit                                                  *)
(***************************************************************************)

\* One cell or several cleared ones.
LEMMA BatchesAreComplete ==
    ASSUME NEW inputs \in Batches
    PROVE  /\ IsList(inputs) /\ IsComplete(inputs)
           /\ \A i \in 1..Len(inputs) : IsInput(inputs[i])
           /\ ArePlain(inputs)
  <1>1. ASSUME NEW c \in Contents PROVE IsCell(c) /\ c.source = NoSource
    <2>1. CASE c = EmptyCell
      BY <2>1, EmptyIsCell
    <2>2. ASSUME NEW n \in Typed, c = Value(Number(n))
          PROVE  IsCell(c) /\ c.source = NoSource
      <3>1. c.value.kind = "number" /\ c.formula = NoFormula /\ c.source = NoSource
        BY <2>2 DEF Value, Number
      <3> QED  BY <3>1 DEF IsCell, IsFormula
    <2>3. ASSUME NEW f \in Formulas, c = Formula(f)
          PROVE  IsCell(c) /\ c.source = NoSource
      <3>1. c.value.kind = "blank" /\ c.formula = f /\ c.source = NoSource
        BY <2>3 DEF Formula, Blank
      <3> QED  BY <3>1 DEF IsCell
    <2> QED  BY <2>1, <2>2, <2>3 DEF Contents
  <1>2. ASSUME NEW a \in Addresses, NEW c \in Contents, inputs = <<[at |-> a, cell |-> c]>>
        PROVE  IsList(inputs) /\ IsComplete(inputs) /\ \A i \in 1..Len(inputs) : IsInput(inputs[i])
    <2>1. Len(inputs) = 1 /\ inputs[1].at = a /\ inputs[1].cell = c
      BY <1>2
    <2>2. inputs \in Seq({inputs[1]})
      BY <1>2
    <2>3. IsCell(c) /\ c.source = NoSource
      BY <1>1
    <2>4. \A i \in 1..Len(inputs) : i = 1
      BY <2>1
    <2> QED  BY <2>1, <2>2, <2>3, <2>4 DEF IsList, IsComplete, IsInput
  <1>3. ASSUME NEW n \in 2..MaxBatch, NEW s \in Increasing(n),
               inputs = [i \in DOMAIN s |-> [at |-> s[i], cell |-> EmptyCell]]
        PROVE  IsList(inputs) /\ IsComplete(inputs) /\ \A i \in 1..Len(inputs) : IsInput(inputs[i])
    <2>1. /\ n \in Nat /\ s \in [1..n -> Addresses]
          /\ \A i, j \in 1..n : i < j => Precedes(s[i], s[j])
      BY BoundsAssumption DEF Increasing
    <2>2. /\ DOMAIN inputs = 1..n /\ inputs = [i \in 1..n |-> inputs[i]]
          /\ \A i \in 1..n : inputs[i].at = s[i] /\ inputs[i].cell = EmptyCell
      BY <1>3, <2>1
    <2>3. IsList(inputs) /\ Len(inputs) = n
      BY <2>1, <2>2, OverPlaces
    <2>4. ASSUME NEW i \in 1..n, NEW j \in 1..n, i < j PROVE s[i] # s[j]
      <3>1. Precedes(s[i], s[j]) /\ s[i] \in Addresses
        BY <2>1, <2>4
      <3>2. ~Precedes(s[i], s[i])
        <4>1. s[i][1] \in Int /\ s[i][2] \in Int
          BY <3>1, SheetAssumption DEF Addresses
        <4> QED  BY <4>1 DEF Precedes
      <3> QED  BY <3>1, <3>2
    <2>5. \A i, j \in 1..n : i # j => s[i] # s[j]
      <3> SUFFICES ASSUME NEW i \in 1..n, NEW j \in 1..n, i # j PROVE s[i] # s[j]
        OBVIOUS
      <3>1. i < j \/ j < i
        BY <2>1
      <3> QED  BY <2>4, <3>1
    <2> QED  BY <2>1, <2>2, <2>3, <2>5, EmptyIsCell DEF IsComplete, IsInput
  <1>4. ArePlain(inputs)
    <2>1. IsValue(Blank) /\ \A n \in Int : IsValue(Number(n))
      BY DEF IsValue, Blank, Number
    <2>2. ASSUME NEW c \in Contents PROVE IsValue(c.value)
      <3>1. \/ c.value = Blank
            \/ \E n \in Typed : c.value = Number(n)
        BY DEF Contents, EmptyCell, Value, Formula
      <3> QED  BY <2>1, <3>1, TypedAssumption
    <2>3. ASSUME NEW i \in 1..Len(inputs) PROVE inputs[i].cell \in Contents
      <3>1. CASE \E a \in Addresses, c \in Contents : inputs = <<[at |-> a, cell |-> c]>>
        BY <3>1
      <3>2. CASE \E n \in 2..MaxBatch : \E s \in Increasing(n) :
                    inputs = [j \in DOMAIN s |-> [at |-> s[j], cell |-> EmptyCell]]
        <4>1. PICK s : inputs = [j \in DOMAIN s |-> [at |-> s[j], cell |-> EmptyCell]]
          BY <3>2
        <4>2. i \in DOMAIN inputs
          BY <1>2, <1>3, <3>2, ListFacts
        <4>3. inputs[i].cell = EmptyCell
          BY <4>1, <4>2
        <4> QED  BY <4>3 DEF Contents
      <3> QED  BY <3>1, <3>2 DEF Batches
    <2> QED  BY <2>2, <2>3 DEF ArePlain
  <1> QED  BY <1>2, <1>3, <1>4 DEF Batches

\* A change that still holds is put back.
UnchangedNext(s, k, op) == IF cell[op[k].at] = op[k].after THEN Append(s, op[k]) ELSE s

\* The loop over what an operation submitted.
LEMMA UnchangedIs ==
    ASSUME NEW op, Len(op) \in Nat
    PROVE  \E at : /\ Unchanged(op) = at[Len(op)] /\ at[0] = <<>>
                   /\ \A k \in 1..Len(op) : at[k] = UnchangedNext(at[k - 1], k, op)
  <1> DEFINE Solves(f, n) == f[0] = <<>> /\ \A k \in 1..n : f[k] = UnchangedNext(f[k - 1], k, op)
             S == {n \in 0..Len(op) : \E f : Solves(f, n)}
  <1>1. Len(op) \in Nat
    OBVIOUS
  <1>2. 0 \in S
    <2> DEFINE f == [k \in 0..0 |-> <<>>]
    <2>1. Solves(f, 0)
      OBVIOUS
    <2>2. 0 \in 0..Len(op)
      BY <1>1
    <2> QED  BY <2>1, <2>2
  <1>3. ASSUME NEW n \in 1..Len(op), n - 1 \in S
        PROVE  n \in S
    <2>1. PICK f : Solves(f, n - 1)
      BY <1>3
    <2> DEFINE g == [k \in 0..n |-> IF k = n THEN UnchangedNext(f[n - 1], n, op) ELSE f[k]]
    <2>2. n \in Nat /\ n >= 1 /\ n \in 0..Len(op)
      BY <1>1
    <2>3. g[0] = <<>>
      BY <2>1, <2>2
    <2>4. ASSUME NEW k \in 1..n
          PROVE  g[k] = UnchangedNext(g[k - 1], k, op)
      <3>1. k - 1 \in 0..n /\ k - 1 # n /\ k \in 0..n
        BY <2>2, <2>4
      <3>2. g[k - 1] = f[k - 1]
        BY <3>1
      <3>3. CASE k = n
        BY <3>1, <3>2, <3>3
      <3>4. CASE k # n
        <4>1. k \in 1..n - 1
          BY <2>2, <2>4, <3>4
        <4>2. g[k] = f[k]
          BY <3>1, <3>4
        <4> QED  BY <2>1, <3>2, <4>1, <4>2
      <3> QED  BY <3>3, <3>4
    <2> HIDE DEF g
    <2>5. Solves(g, n)
      BY <2>3, <2>4
    <2> QED  BY <2>2, <2>5
  <1>4. PICK f : Solves(f, Len(op))
    <2> HIDE DEF S
    <2>1. \A k \in 0..Len(op) : k \in S
      BY <1>1, <1>2, <1>3, AlongTheWay
    <2>2. Len(op) \in S
      BY <1>1, <2>1
    <2> QED  BY <2>2 DEF S
  <1> DEFINE E(at) == [k \in 0..Len(op) |-> IF k = 0 THEN <<>>
                                     ELSE IF cell[op[k].at] = op[k].after THEN Append(at[k - 1], op[k])
                                     ELSE at[k - 1]]
             at == CHOOSE at : at = E(at)
             h == [k \in 0..Len(op) |-> f[k]]
  <1>5. h = E(h)
    <2>1. ASSUME NEW k \in 0..Len(op) PROVE h[k] = E(h)[k]
      <3>1. CASE k = 0
        BY <1>4, <3>1
      <3>2. CASE k # 0
        <4>1. k \in 1..Len(op) /\ k - 1 \in 0..Len(op)
          BY <1>1, <3>2
        <4>2. h[k] = UnchangedNext(h[k - 1], k, op)
          BY <1>4, <4>1
        <4> HIDE DEF h
        <4> QED  BY <3>2, <4>2 DEF UnchangedNext
      <3> QED  BY <3>1, <3>2
    <2> QED  BY <2>1
  <1>6. at = E(at)
    <2> HIDE DEF E
    <2> QED  BY <1>5
  <1>7. Unchanged(op) = at[Len(op)]
    BY DEF Unchanged
  <1> HIDE DEF at
  <1>8. at[0] = <<>>
    BY <1>1, <1>6
  <1>9. ASSUME NEW k \in 1..Len(op)
        PROVE  at[k] = UnchangedNext(at[k - 1], k, op)
    <2>1. k \in 0..Len(op) /\ k # 0
      BY <1>1, <1>9
    <2>2. at[k] = E(at)[k]
      BY <1>6, <2>1
    <2> QED  BY <2>1, <2>2 DEF UnchangedNext
  <1> QED  BY <1>7, <1>8, <1>9

\* What an undo submits comes from the log; it is complete when nothing is left out.
LEMMA PutBackIsInput ==
    ASSUME NEW op, IsEntry(op)
    PROVE  LET inputs == PutBack(Unchanged(op))
           IN  /\ IsList(inputs)
               /\ \A i \in 1..Len(inputs) : IsInput(inputs[i])
               /\ Unchanged(op) = op /\ IsCompleteEntry(op) => IsComplete(inputs)
               /\ Unchanged(op) = op /\ (\A i \in 1..Len(op) : IsValue(op[i].before.value))
                     => ArePlain(inputs)
  <1> DEFINE X == {op[i] : i \in 1..Len(op)}
             kept == Unchanged(op)
             inputs == PutBack(kept)
  <1>1. Len(op) \in Nat
    BY ListFacts DEF IsEntry
  <1>2. PICK at : /\ kept = at[Len(op)] /\ at[0] = <<>>
                  /\ \A k \in 1..Len(op) : at[k] = UnchangedNext(at[k - 1], k, op)
    BY <1>1, UnchangedIs
  <1> DEFINE S == {k \in 0..Len(op) : at[k] \in Seq(X)}
  <1>3. 0 \in S
    <2> HIDE DEF X
    <2>1. <<>> \in Seq(X) /\ 0 \in 0..Len(op)
      BY <1>1
    <2> QED  BY <1>2, <2>1
  <1>4. ASSUME NEW k \in 1..Len(op), k - 1 \in S
        PROVE  k \in S
    <2>1. at[k - 1] \in Seq(X) /\ op[k] \in X /\ k \in 0..Len(op)
      BY <1>1, <1>4
    <2> HIDE DEF X
    <2>2. Append(at[k - 1], op[k]) \in Seq(X)
      BY <2>1
    <2>3. at[k] = at[k - 1] \/ at[k] = Append(at[k - 1], op[k])
      BY <1>2 DEF UnchangedNext
    <2> QED  BY <2>1, <2>2, <2>3
  <1> HIDE DEF S
  <1>5. kept \in Seq(X)
    <2>1. \A k \in 0..Len(op) : k \in S
      BY <1>1, <1>3, <1>4, AlongTheWay
    <2>2. Len(op) \in S
      BY <1>1, <2>1
    <2> QED  BY <1>2, <2>2 DEF S
  <1> HIDE DEF kept
  <1>6. ASSUME NEW x \in X PROVE x.at \in Addresses /\ IsCell(x.before)
    BY <1>6 DEF IsEntry
  <1> HIDE DEF X
  <1>7. Len(kept) \in Nat /\ DOMAIN kept = 1..Len(kept) /\ \A i \in 1..Len(kept) : kept[i] \in X
    BY <1>5
  <1>8. /\ DOMAIN inputs = 1..Len(kept) /\ inputs = [i \in 1..Len(kept) |-> inputs[i]]
        /\ \A i \in 1..Len(kept) : inputs[i].at = kept[i].at /\ inputs[i].cell = kept[i].before
    BY <1>7 DEF PutBack
  <1> HIDE DEF inputs
  <1>9. IsList(inputs) /\ Len(inputs) = Len(kept)
    BY <1>7, <1>8, OverPlaces
  <1>10. \A i \in 1..Len(inputs) : IsInput(inputs[i])
    BY <1>6, <1>7, <1>8, <1>9 DEF IsInput
  <1>11. ASSUME kept = op, IsCompleteEntry(op) PROVE IsComplete(inputs)
    <2>1. /\ Len(inputs) = Len(op)
          /\ \A i \in 1..Len(op) : inputs[i].at = op[i].at /\ inputs[i].cell = op[i].before
      BY <1>8, <1>9, <1>11
    <2>2. \A i, j \in 1..Len(op) : i # j => op[i].at # op[j].at
      BY <1>11 DEF IsCompleteEntry
    <2>3. ASSUME NEW i \in 1..Len(op), op[i].before.source # NoSource
          PROVE  \E j \in 1..Len(op) : op[j].at = op[i].before.source /\ IsFormula(op[j].before)
      BY <1>11, <2>3 DEF IsCompleteEntry
    <2>4. \A i, j \in 1..Len(inputs) : i # j => inputs[i].at # inputs[j].at
      BY <2>1, <2>2
    <2>5. ASSUME NEW i \in 1..Len(inputs), inputs[i].cell.source # NoSource
          PROVE  \E j \in 1..Len(inputs) :
                    inputs[j].at = inputs[i].cell.source /\ IsFormula(inputs[j].cell)
      <3>1. PICK j \in 1..Len(op) : op[j].at = op[i].before.source /\ IsFormula(op[j].before)
        BY <2>1, <2>3, <2>5
      <3> QED  BY <2>1, <2>5, <3>1
    <2> QED  BY <2>4, <2>5 DEF IsComplete
  <1>12. ASSUME kept = op, \A i \in 1..Len(op) : IsValue(op[i].before.value)
         PROVE  ArePlain(inputs)
    BY <1>8, <1>9, <1>12 DEF ArePlain
  <1> QED  BY <1>9, <1>10, <1>11, <1>12 DEF inputs, kept

-----------------------------------------------------------------------------
(***************************************************************************)
(* Results that are values or columns of numbers                           *)
(***************************************************************************)

\* An array is a column of at least one number.
IsColumn(v) == v.kind = "array" /\ v.entries \in Seq(Int) /\ v.entries # <<>>

\* On a sheet of such cells, formulas come to values or columns.
EvaluatesToResults ==
    \A cells, forced, affected :
        /\ IsSheet(cells) /\ IsPlain(cells)
        /\ forced \subseteq Addresses /\ affected \subseteq Addresses
        /\ \A a \in affected : IsFormula(cells[a])
        => \A a \in affected : LET v == Evaluated(cells, forced, affected)[a]
                                IN  IsValue(v) \/ IsColumn(v)

\* What a formula fills is right below it, and it shows a number then.
IsBlock(cells, a) ==
    \E n \in 1..Rows : /\ SpilledFrom(cells, a) = Targets(a, n)
                       /\ n > 1 => cells[a].value.kind = "number"

\* All formulas but those in S fill blocks.
Blocks(cells, S) == \A a \in Addresses \ S : IsFormula(cells[a]) => IsBlock(cells, a)

\* A formula that fills nothing fills a block.
LEMMA FillingNothing ==
    ASSUME NEW cells, NEW a \in Addresses, SpilledFrom(cells, a) = {}
    PROVE  IsBlock(cells, a)
  <1>1. a[2] \in Int /\ 1 \in 1..Rows
    BY SheetAssumption DEF Addresses
  <1>2. Targets(a, 1) = {}
    <2>1. (a[2] + 1)..(a[2] + 1 - 1) = {}
      BY <1>1
    <2> QED  BY <2>1 DEF Targets
  <1> QED  BY <1>1, <1>2 DEF IsBlock

\* Storing the result of one formula leaves alone what the others fill.
LEMMA StepSpares ==
    ASSUME NEW cells, IsSheet(cells), NEW a \in Addresses, IsFormula(cells[a]),
           NEW after, IsStep(cells, a, after),
           NEW c \in Addresses, c # a, IsFormula(after[c])
    PROVE  after[c] = cells[c] /\ SpilledFrom(after, c) = SpilledFrom(cells, c)
  <1>1. after[c] = cells[c]
    BY EmptyIsCell DEF IsStep, IsFormula
  <1>2. ASSUME NEW b \in Addresses PROVE after[b].source = c <=> cells[b].source = c
    <2>1. c # NoSource /\ EmptyCell.source = NoSource /\ cells[a].source = NoSource
      BY NoSourceIsNoAddress, EmptyIsCell DEF IsSheet, IsCell
    <2> QED  BY <2>1 DEF IsStep
  <1> QED  BY <1>1, <1>2 DEF SpilledFrom

\* A result that is stored at last leaves a block.
LEMMA StoreLeavesBlock ==
    ASSUME NEW p, IsSheet(p.cells), NEW a \in Addresses, IsFormula(p.cells[a]),
           NEW result, IsValue(result) \/ IsColumn(result)
    PROVE  a \in Store(p, a, result).next \/ IsBlock(Store(p, a, result).cells, a)
  <1> DEFINE cells == p.cells
             cleared == ClearSpillCells(cells, a)
  <1>1. cells[a].source = NoSource /\ cells[a].source # a
    BY NoSourceIsNoAddress DEF IsSheet, IsCell
  <1>2. \A b \in Addresses : cleared[b] = IF cells[b].source = a THEN EmptyCell ELSE cells[b]
    BY ClearedCells
  <1>3. \A b \in Addresses : cleared[b].source # a
    BY <1>2, NoSourceIsNoAddress, EmptyIsCell
  <1>4. CASE result.kind # "array"
    <2> DEFINE after == Store(p, a, result).cells
    <2>1. \A b \in Addresses :
            after[b] = IF b = a THEN [value |-> result, formula |-> cleared[b].formula, source |-> NoSource]
                       ELSE cleared[b]
      BY <1>4 DEF Store, StoreSingle
    <2> HIDE DEF after, cleared
    <2>2. after[a].source = NoSource
      <3>1. after[a] = [value |-> result, formula |-> cleared[a].formula, source |-> NoSource]
        BY <2>1
      <3> QED  BY <3>1
    <2>3. \A b \in Addresses : after[b].source # a
      BY <1>3, <2>1, <2>2, NoSourceIsNoAddress
    <2>4. SpilledFrom(after, a) = {}
      BY <2>3 DEF SpilledFrom
    <2> QED  BY <2>4, FillingNothing DEF after
  <1>5. CASE result.kind = "array"
    <2> DEFINE m == MaterializeSpill(cells, a, result.entries)
               T == Targets(a, Len(result.entries))
               fits == \A b \in T : cleared[b] = EmptyCell
    <2>1. /\ Store(p, a, result).cells = m.cells
          /\ ~m.spills => a \in Store(p, a, result).next
      BY <1>5 DEF Store, StoreArray
    <2>2. CASE ~m.spills
      BY <2>1, <2>2
    <2>3. CASE m.spills
      <3>1. ~(a[2] + Len(result.entries) - 1 > Rows) /\ fits
        BY <2>3 DEF MaterializeSpill, Materialized
      <3> DEFINE after == Spilled(cleared, a, result.entries)
      <3>2. m.cells = after
        BY <3>1 DEF MaterializeSpill, Materialized
      <3>3. /\ a[2] \in 1..Rows /\ Rows \in Nat /\ a[1] \in 1..Columns
            /\ Len(result.entries) \in Nat /\ Len(result.entries) >= 1
        BY <1>5, SheetAssumption DEF IsValue, IsColumn, Addresses
      <3> DEFINE n == Len(result.entries)
      <3>4. n \in 1..Rows /\ a \notin T /\ T \subseteq Addresses
        <4>1. n \in 1..Rows
          BY <3>1, <3>3
        <4>2. \A r \in (a[2] + 1)..(a[2] + n - 1) : r # a[2] /\ r \in 1..Rows
          BY <3>1, <3>3
        <4>3. T = { <<a[1], r>> : r \in (a[2] + 1)..(a[2] + n - 1) }
          BY DEF Targets
        <4> HIDE DEF n, T
        <4>4. a \notin T
          BY <4>2, <4>3
        <4>5. T \subseteq Addresses
          BY <3>3, <4>2, <4>3 DEF Addresses
        <4> QED  BY <4>1, <4>4, <4>5
      <3>5. \A b \in Addresses :
              after[b] = IF b \in T THEN FilledFrom(a, result.entries[b[2] - a[2] + 1])
                         ELSE IF b = a THEN Showing(cleared[b], Number(result.entries[1]))
                         ELSE cleared[b]
        BY DEF Spilled
      <3>6. after[a].value.kind = "number" /\ after[a].source = NoSource
        <4>1. after[a] = Showing(cleared[a], Number(result.entries[1]))
          BY <3>4, <3>5
        <4>2. cleared[a] = cells[a]
          BY <1>1, <1>2
        <4> HIDE DEF after
        <4> QED  BY <1>1, <4>1, <4>2 DEF Showing, Number
      <3> HIDE DEF after, T, cleared
      <3>7. ASSUME NEW b \in Addresses PROVE after[b].source = a <=> b \in T
        <4>1. CASE b \in T
          <5>1. after[b] = FilledFrom(a, result.entries[b[2] - a[2] + 1])
            BY <3>5, <4>1
          <5>2. after[b].source = a
            BY <5>1 DEF FilledFrom
          <5> QED  BY <4>1, <5>2
        <4>2. CASE b \notin T /\ b = a
          BY <3>6, <4>2, NoSourceIsNoAddress
        <4>3. CASE b \notin T /\ b # a
          BY <1>3, <3>5, <4>3
        <4> QED  BY <4>1, <4>2, <4>3
      <3>8. SpilledFrom(after, a) = T
        BY <3>4, <3>7 DEF SpilledFrom
      <3> QED  BY <2>1, <3>2, <3>4, <3>6, <3>8 DEF IsBlock, T
    <2> QED  BY <2>2, <2>3 DEF MaterializeSpill, Materialized
  <1> QED  BY <1>4, <1>5

\* A result is stored: whatever does not fill a block now is calculated again.
LEMMA StoreBlocks ==
    ASSUME NEW p, IsSheet(p.cells), NEW a \in Addresses, IsFormula(p.cells[a]),
           NEW result, IsValue(result) \/ IsColumn(result),
           NEW S, Blocks(p.cells, S)
    PROVE  Blocks(Store(p, a, result).cells, (S \ {a}) \cup Store(p, a, result).next)
  <1> DEFINE after == Store(p, a, result).cells
             next == Store(p, a, result).next
  <1>1. a \in next \/ IsBlock(after, a)
    BY StoreLeavesBlock
  <1>2. after = p.cells \/ IsStep(p.cells, a, after)
    BY StoreSteps
  <1> HIDE DEF after, next
  <1>3. ASSUME NEW c \in Addresses \ ((S \ {a}) \cup next), IsFormula(after[c])
        PROVE  IsBlock(after, c)
    <2>1. CASE c = a
      BY <1>1, <1>3, <2>1
    <2>2. CASE c # a
      <3>1. after[c] = p.cells[c] /\ SpilledFrom(after, c) = SpilledFrom(p.cells, c)
        BY <1>2, <1>3, <2>2, StepSpares
      <3>2. IsBlock(p.cells, c)
        BY <1>3, <2>2, <3>1 DEF Blocks
      <3> QED  BY <3>1, <3>2 DEF IsBlock
    <2> QED  BY <2>1, <2>2
  <1> QED  BY <1>3 DEF Blocks, after, next

\* What is stored may be shown.
LEMMA StorePlain ==
    ASSUME NEW p, IsSheet(p.cells), IsPlain(p.cells), NEW a \in Addresses, IsFormula(p.cells[a]),
           NEW result, IsValue(result) \/ IsColumn(result)
    PROVE  IsPlain(Store(p, a, result).cells)
  <1> DEFINE cells == p.cells
             cleared == ClearSpillCells(cells, a)
             after == Store(p, a, result).cells
  <1>1. IsValue(Blank) /\ EmptyCell.value = Blank
    BY DEF IsValue, Blank, EmptyCell, Value
  <1>2. ASSUME NEW b \in Addresses PROVE IsValue(cleared[b].value)
    BY <1>1, ClearedCells DEF IsPlain
  <1>3. ASSUME NEW n \in Int PROVE IsValue(Number(n))
    BY DEF IsValue, Number
  <1>4. IsValue(Error("#SPILL!"))
    BY DEF IsValue, Error
  <1>5. CASE result.kind # "array"
    <2>1. IsValue(result)
      BY <1>5 DEF IsColumn
    <2>2. ASSUME NEW b \in Addresses PROVE IsValue(after[b].value)
      <3>1. after[b] = IF b = a THEN [value |-> result, formula |-> cleared[b].formula, source |-> NoSource]
                       ELSE cleared[b]
        BY <1>5 DEF Store, StoreSingle
      <3> HIDE DEF after, cleared
      <3> QED  BY <1>2, <2>1, <3>1
    <2> QED  BY <2>2 DEF IsPlain
  <1>6. CASE result.kind = "array"
    <2> DEFINE entries == result.entries
               n == Len(entries)
               m == MaterializeSpill(cells, a, entries)
    <2>1. entries \in Seq(Int) /\ n \in Nat /\ n >= 1 /\ after = m.cells
      BY <1>6 DEF IsValue, IsColumn, Store, StoreArray
    <2>2. CASE a[2] + n - 1 > Rows
      BY <2>1, <2>2 DEF MaterializeSpill
    <2>3. CASE ~(a[2] + n - 1 > Rows) /\ m.cells = NotSpilled(cleared, a)
      <3>1. ASSUME NEW b \in Addresses PROVE IsValue(NotSpilled(cleared, a)[b].value)
        <4> HIDE DEF cleared
        <4> QED  BY <1>2, <1>4 DEF NotSpilled, Showing
      <3> QED  BY <2>1, <2>3, <3>1 DEF IsPlain
    <2>4. CASE ~(a[2] + n - 1 > Rows) /\ m.cells = Spilled(cleared, a, entries)
      <3>1. ASSUME NEW b \in Addresses, b \in Targets(a, n)
            PROVE  entries[b[2] - a[2] + 1] \in Int
        <4>1. a[2] \in Int
          BY SheetAssumption DEF Addresses
        <4>2. PICK r \in (a[2] + 1)..(a[2] + n - 1) : b[2] = r
          BY <3>1 DEF Targets
        <4> HIDE DEF entries, n
        <4>3. r - a[2] + 1 \in 1..n
          BY <2>1, <4>1, <4>2
        <4> QED  BY <2>1, <4>2, <4>3 DEF n
      <3>2. entries[1] \in Int
        <4> HIDE DEF entries
        <4> QED  BY <2>1 DEF n
      <3> HIDE DEF entries, cleared, n
      <3>3. ASSUME NEW b \in Addresses PROVE IsValue(Spilled(cleared, a, entries)[b].value)
        BY <1>2, <1>3, <3>1, <3>2 DEF Spilled, FilledFrom, Showing, n
      <3> QED  BY <2>1, <2>4, <3>3 DEF IsPlain
    <2> QED  BY <2>2, <2>3, <2>4 DEF MaterializeSpill, Materialized
  <1> QED  BY <1>5, <1>6

\* The anchors without room are addresses.
LEMMA StoreForces ==
    ASSUME NEW p, p.forced \subseteq Addresses, NEW a \in Addresses, NEW result
    PROVE  /\ Store(p, a, result).forced \subseteq Addresses
           /\ p.next \subseteq Store(p, a, result).next
  BY DEF Store, StoreArray, StoreSingle

\* Division by the number of rows.
LEMMA Quotient ==
    ASSUME NEW R \in Nat, R > 0, NEW q \in Nat, NEW r \in 0..R - 1
    PROVE  (q * R + r) \div R = q
  OBVIOUS

LEMMA Remainder ==
    ASSUME NEW R \in Nat, R > 0, NEW q \in Nat, NEW r \in 0..R - 1
    PROVE  (q * R + r) % R = r
  OBVIOUS

\* Every address has its turn.
LEMMA InOrderReaches ==
    ASSUME NEW a \in Addresses
    PROVE  \E k \in 1..Columns * Rows : InOrder[k] = a
  <1> DEFINE q == a[1] - 1
             r == a[2] - 1
             k == q * Rows + a[2]
  <1>1. /\ q \in Nat /\ a[1] \in 1..Columns /\ a[2] \in 1..Rows /\ r \in 0..Rows - 1
        /\ Rows \in Nat /\ Rows > 0 /\ Columns \in Nat /\ a = <<a[1], a[2]>>
    BY SheetAssumption DEF Addresses
  <1>2. k \in 1..Columns * Rows
    BY <1>1
  <1>3. k - 1 = q * Rows + r
    BY <1>1
  <1>4. (q * Rows + r) \div Rows = q /\ (q * Rows + r) % Rows = r
    <2> HIDE DEF q, r
    <2> QED  BY <1>1, Quotient, Remainder
  <1>5. InOrder[k] = <<((k - 1) \div Rows) + 1, ((k - 1) % Rows) + 1>>
    <2> HIDE DEF k
    <2> QED  BY <1>2 DEF InOrder
  <1>6. q + 1 = a[1] /\ r + 1 = a[2]
    BY <1>1
  <1> HIDE DEF k, q, r
  <1>7. InOrder[k] = <<a[1], a[2]>>
    BY <1>3, <1>4, <1>5, <1>6
  <1> QED  BY <1>1, <1>2, <1>7

\* What is reached in one more step.
ReachNext(S, cells) == S \cup { a \in Addresses : Dependencies(cells[a].formula) \cap S # {} }

\* What changed is reached.
LEMMA ReachedContains ==
    ASSUME NEW cells, NEW changed
    PROVE  changed \subseteq Reached(cells, changed)
  <1> DEFINE N == Columns * Rows
             Solves(f, n) == f[0] = changed /\ \A k \in 1..n : f[k] = ReachNext(f[k - 1], cells)
             S == {n \in 0..N : \E f : Solves(f, n)}
  <1>1. N \in Nat
    BY SizeIsNatural
  <1> HIDE DEF N
  <1>2. 0 \in S
    <2> DEFINE f == [k \in 0..0 |-> changed]
    <2>1. Solves(f, 0)
      OBVIOUS
    <2>2. 0 \in 0..N
      BY <1>1
    <2> QED  BY <2>1, <2>2
  <1>3. ASSUME NEW n \in 1..N, n - 1 \in S
        PROVE  n \in S
    <2>1. PICK f : Solves(f, n - 1)
      BY <1>3
    <2> DEFINE g == [k \in 0..n |-> IF k = n THEN ReachNext(f[n - 1], cells) ELSE f[k]]
    <2>2. n \in Nat /\ n >= 1 /\ n \in 0..N
      BY <1>1
    <2>3. g[0] = changed
      BY <2>1, <2>2
    <2>4. ASSUME NEW k \in 1..n
          PROVE  g[k] = ReachNext(g[k - 1], cells)
      <3>1. k - 1 \in 0..n /\ k - 1 # n /\ k \in 0..n
        BY <2>2, <2>4
      <3>2. g[k - 1] = f[k - 1]
        BY <3>1
      <3>3. CASE k = n
        BY <3>1, <3>2, <3>3
      <3>4. CASE k # n
        <4>1. k \in 1..n - 1
          BY <2>2, <2>4, <3>4
        <4>2. g[k] = f[k]
          BY <3>1, <3>4
        <4> QED  BY <2>1, <3>2, <4>1, <4>2
      <3> QED  BY <3>3, <3>4
    <2> HIDE DEF g
    <2>5. Solves(g, n)
      BY <2>3, <2>4
    <2> QED  BY <2>2, <2>5
  <1>4. PICK f : Solves(f, N)
    <2> HIDE DEF S
    <2>1. \A k \in 0..N : k \in S
      BY <1>1, <1>2, <1>3, AlongTheWay
    <2>2. N \in S
      BY <1>1, <2>1
    <2> QED  BY <2>2 DEF S
  <1> DEFINE E(at) == [n \in 0..N |->
                         IF n = 0 THEN changed
                         ELSE at[n - 1] \cup { a \in Addresses :
                                                 Dependencies(cells[a].formula) \cap at[n - 1] # {} }]
             at == CHOOSE at : at = E(at)
             h == [k \in 0..N |-> f[k]]
  <1>5. h = E(h)
    <2>1. ASSUME NEW k \in 0..N PROVE h[k] = E(h)[k]
      <3>1. CASE k = 0
        BY <1>4, <3>1
      <3>2. CASE k # 0
        <4>1. k \in 1..N /\ k - 1 \in 0..N
          BY <1>1, <3>2
        <4>2. h[k] = ReachNext(h[k - 1], cells)
          BY <1>4, <4>1
        <4> HIDE DEF h
        <4> QED  BY <3>2, <4>2 DEF ReachNext
      <3> QED  BY <3>1, <3>2
    <2> QED  BY <2>1
  <1>6. at = E(at)
    <2> HIDE DEF E
    <2> QED  BY <1>5
  <1>7. Reached(cells, changed) = at[N]
    BY DEF Reached, N
  <1> HIDE DEF at
  <1> DEFINE C == {k \in 0..N : changed \subseteq at[k]}
  <1>8. 0 \in C
    BY <1>1, <1>6
  <1>9. ASSUME NEW k \in 1..N, k - 1 \in C PROVE k \in C
    <2>1. k \in 0..N /\ k # 0 /\ changed \subseteq at[k - 1]
      BY <1>1, <1>9
    <2>2. at[k] = E(at)[k]
      BY <1>6, <2>1
    <2> QED  BY <2>1, <2>2
  <1> HIDE DEF C
  <1>10. \A k \in 0..N : k \in C
    BY <1>1, <1>8, <1>9, AlongTheWay
  <1> QED  BY <1>1, <1>7, <1>10 DEF C

\* Where a pass begins, and the loop over its results.
Opening(p) == [cells |-> p.cells, forced |-> p.forced, next |-> {}]

ResultsOf(p) == Recalculate(p.cells, p.forced, p.next)

LEMMA PassIs ==
    ASSUME NEW p
    PROVE  \E at : /\ Pass(p) = at[Columns * Rows] /\ at[0] = Opening(p)
                   /\ \A k \in 1..Columns * Rows : at[k] = StoreNext(at[k - 1], k, ResultsOf(p))
  <1>1. Pass(p) = StoreAll(Opening(p), ResultsOf(p))
    BY DEF Pass, Opening, ResultsOf
  <1> QED  BY <1>1, StoreAllIs

\* A pass: what does not fill a block now is in the next one.
LEMMA PassBlocks ==
    ASSUME EvaluatesToResults,
           NEW p, IsSheet(p.cells), IsPlain(p.cells), p.forced \subseteq Addresses,
           Blocks(p.cells, p.next)
    PROVE  LET q == Pass(p)
           IN  IsPlain(q.cells) /\ q.forced \subseteq Addresses /\ Blocks(q.cells, q.next)
  <1> DEFINE cells == p.cells
             start == Opening(p)
             results == ResultsOf(p)
  <1>1. DOMAIN results = Affected(cells, p.next)
    BY DEF ResultsOf, Recalculate
  <1>2. \A a \in DOMAIN results : /\ a \in Addresses /\ IsFormula(cells[a])
                                  /\ IsValue(results[a]) \/ IsColumn(results[a])
    <2> DEFINE S == Affected(cells, p.next)
    <2>1. S \subseteq Addresses /\ \A a \in S : IsFormula(cells[a])
      BY DEF Affected
    <2>2. \A a \in S : results[a] = Evaluated(cells, p.forced, S)[a]
      BY DEF ResultsOf, Recalculate
    <2> HIDE DEF S, results, cells
    <2>3. \A a \in S : LET v == Evaluated(cells, p.forced, S)[a] IN IsValue(v) \/ IsColumn(v)
      BY <2>1 DEF EvaluatesToResults, cells
    <2> QED  BY <1>1, <2>1, <2>2, <2>3 DEF S
  <1>3. \A a \in Addresses : IsFormula(cells[a]) /\ a \in p.next => a \in DOMAIN results
    BY <1>1, ReachedContains DEF Affected
  <1>4. start.cells = cells /\ start.forced \subseteq Addresses /\ start.next = {}
    BY DEF Opening
  <1> HIDE DEF start, results
  <1>5. PICK at : /\ Pass(p) = at[Columns * Rows] /\ at[0] = start
                  /\ \A k \in 1..Columns * Rows : at[k] = StoreNext(at[k - 1], k, results)
    BY PassIs DEF start, results
  <1> DEFINE N == Columns * Rows
  <1>6. N \in Nat
    BY SizeIsNatural
  <1> DEFINE Left(k) == DOMAIN results \ {InOrder[j] : j \in 1..k}
             Good(q, k) == /\ Follows(cells, q.cells) /\ IsPlain(q.cells)
                           /\ q.forced \subseteq Addresses
                           /\ Blocks(q.cells, Left(k) \cup q.next)
             S == {k \in 0..N : Good(at[k], k)}
  <1>7. 0 \in S
    <2>1. Left(0) = DOMAIN results
      OBVIOUS
    <2>2. Blocks(cells, DOMAIN results \cup start.next)
      BY <1>3 DEF Blocks
    <2> HIDE DEF Left
    <2>3. Good(start, 0)
      BY <1>4, <2>1, <2>2, FollowsItself
    <2>4. at[0] = start /\ 0 \in 0..N
      BY <1>5, <1>6
    <2>5. Good(at[0], 0)
      BY <2>3, <2>4
    <2> QED  BY <2>4, <2>5
  <1>8. ASSUME NEW k \in 1..N, k - 1 \in S
        PROVE  k \in S
    <2> DEFINE q == at[k - 1]
               a == InOrder[k]
               r == Store(q, a, results[a])
    <2>1. Good(q, k - 1) /\ k \in 0..N
      BY <1>6, <1>8
    <2>2. Left(k) = Left(k - 1) \ {a}
      <3>1. \A j \in Int : j \in 1..k <=> j \in 1..k - 1 \/ j = k
        BY <1>6
      <3> QED  BY <3>1
    <2> HIDE DEF Left
    <2>3. CASE a \notin DOMAIN results
      <3>1. at[k] = q
        BY <1>5, <2>3 DEF StoreNext
      <3>2. Left(k) = Left(k - 1)
        BY <2>2, <2>3 DEF Left
      <3> QED  BY <2>1, <3>1, <3>2
    <2>4. CASE a \in DOMAIN results
      <3>1. at[k] = r
        BY <1>5, <2>4 DEF StoreNext
      <3>2. a \in Addresses /\ IsFormula(cells[a]) /\ (IsValue(results[a]) \/ IsColumn(results[a]))
        BY <1>2, <2>4
      <3>3. cells[a].source = NoSource /\ cells[a] # EmptyCell
        BY <3>2, EmptyIsCell DEF IsSheet, IsCell
      <3>4. Kept(cells[a], q.cells[a])
        BY <2>1, <3>2, <3>3 DEF Follows, Keeps
      <3>5. IsFormula(q.cells[a]) /\ IsSheet(q.cells)
        BY <2>1, <3>2, <3>4 DEF Follows, Kept, IsFormula
      <3> DEFINE L == Left(k - 1)
      <3>6. /\ IsPlain(q.cells) /\ q.forced \subseteq Addresses /\ Blocks(q.cells, L \cup q.next)
            /\ Follows(cells, q.cells)
        BY <2>1
      <3> HIDE DEF q, a, cells, L
      <3>7. Follows(cells, r.cells)
        BY <3>2, <3>5, <3>6, StoreFollows, FollowsOn
      <3>8. IsPlain(r.cells)
        BY <3>2, <3>5, <3>6, StorePlain
      <3>9. r.forced \subseteq Addresses /\ q.next \subseteq r.next
        BY <3>2, <3>6, StoreForces
      <3>10. Blocks(r.cells, ((L \cup q.next) \ {a}) \cup r.next)
        BY <3>2, <3>5, <3>6, StoreBlocks
      <3> HIDE DEF r
      <3>11. Blocks(r.cells, (L \ {a}) \cup r.next)
        BY <3>9, <3>10 DEF Blocks
      <3>12. Good(r, k)
        BY <2>2, <3>7, <3>8, <3>9, <3>11 DEF L
      <3> QED  BY <2>1, <3>1, <3>12
    <2> QED  BY <2>3, <2>4
  <1> HIDE DEF S
  <1>9. N \in S
    <2>1. \A k \in 0..N : k \in S
      BY <1>6, <1>7, <1>8, AlongTheWay
    <2> QED  BY <1>6, <2>1
  <1>10. Left(N) = {}
    BY <1>2, InOrderReaches
  <1> DEFINE q == Pass(p)
  <1>11. Good(q, N)
    BY <1>5, <1>9 DEF S
  <1> HIDE DEF q, Left
  <1> QED  BY <1>10, <1>11 DEF q

\* All passes, until nothing is left to calculate.
LEMMA StabilizeBlocks ==
    ASSUME EvaluatesToResults,
           NEW p, IsSheet(p.cells), IsPlain(p.cells), p.forced \subseteq Addresses,
           Blocks(p.cells, p.next), Stabilize(p) # Refused
    PROVE  IsPlain(Stabilize(p)) /\ Blocks(Stabilize(p), {})
  <1>1. PICK at : /\ PassesAfter(p) = at[MaxPasses] /\ at[0] = p
                  /\ \A k \in 1..MaxPasses : at[k] = PassNext(at[k - 1], k)
    BY StabilizeIs
  <1> DEFINE Good(q) == /\ IsSheet(q.cells) /\ IsPlain(q.cells) /\ q.forced \subseteq Addresses
                        /\ Blocks(q.cells, q.next)
             S == {k \in 0..MaxPasses : Good(at[k])}
  <1>2. 0 \in S
    BY <1>1 DEF MaxPasses
  <1>3. ASSUME NEW k \in 1..MaxPasses, k - 1 \in S
        PROVE  k \in S
    <2> DEFINE q == at[k - 1]
    <2>1. Good(q) /\ k \in 0..MaxPasses
      BY <1>3 DEF MaxPasses
    <2>2. CASE q.next = {}
      BY <1>1, <2>1, <2>2 DEF PassNext
    <2>3. CASE q.next # {}
      <3>1. at[k] = Pass(q)
        BY <1>1, <2>3 DEF PassNext
      <3> HIDE DEF q
      <3>2. Good(Pass(q))
        BY <2>1, PassBlocks, PassFollows DEF Follows
      <3> QED  BY <2>1, <3>1, <3>2
    <2> QED  BY <2>2, <2>3
  <1> HIDE DEF S
  <1>4. MaxPasses \in S
    <2>1. \A k \in 0..MaxPasses : k \in S
      BY <1>2, <1>3, AlongTheWay DEF MaxPasses
    <2> QED  BY <2>1 DEF MaxPasses
  <1> DEFINE last == PassesAfter(p)
  <1>5. Good(last)
    BY <1>1, <1>4 DEF S
  <1>6. last.next = {} /\ Stabilize(p) = last.cells
    BY DEF Stabilize
  <1> HIDE DEF last
  <1> QED  BY <1>5, <1>6

\* All inputs: cells may still be shown, and the submitted ones have changed.
LEMMA SubmitAllPlain ==
    ASSUME NEW cells, IsPlain(cells), NEW inputs, Len(inputs) \in Nat, ArePlain(inputs)
    PROVE  LET q == SubmitAll(cells, inputs)
           IN  ~q.refused => IsPlain(q.cells) /\ Ats(inputs, Len(inputs)) \subseteq q.changed
  <1> DEFINE N == Len(inputs)
             Good(q, k) == q.refused \/ (IsPlain(q.cells) /\ Ats(inputs, k) \subseteq q.changed)
  <1>1. PICK at : /\ SubmitAll(cells, inputs) = at[N] /\ at[0] = Beginning(cells)
                  /\ \A k \in 1..N : at[k] = SubmitNext(at[k - 1], k, inputs, cells)
    BY SubmitAllIs
  <1> DEFINE S == {k \in 0..N : Good(at[k], k)}
  <1>2. 0 \in S
    <2>1. at[0].cells = cells
      BY <1>1 DEF Beginning
    <2>2. Ats(inputs, 0) = {}
      BY DEF Ats
    <2> QED  BY <2>1, <2>2
  <1>3. ASSUME NEW k \in 1..N, k - 1 \in S
        PROVE  k \in S
    <2> DEFINE q == at[k - 1]
               a == inputs[k].at
               c == inputs[k].cell
               r == Submit(q, inputs[k], cells)
    <2>1. at[k] = r /\ k \in 0..N /\ Good(q, k - 1)
      BY <1>1, <1>3 DEF SubmitNext
    <2>2. CASE r.refused
      BY <2>1, <2>2
    <2>3. CASE ~r.refused
      <3>1. ~q.refused /\ q.changed \cup {a} \subseteq r.changed
        BY <2>3 DEF Submit
      <3>2. \A b \in Addresses : \/ r.cells[b] = Submitted(c)
                                 \/ r.cells[b] = EmptyCell
                                 \/ r.cells[b] = q.cells[b]
        BY <2>3, SubmitIs
      <3>3. IsValue(Blank) /\ EmptyCell.value = Blank
        BY DEF IsValue, Blank, EmptyCell, Value
      <3>4. Submitted(c).value \in {Blank, c.value}
        BY DEF Submitted, Formula
      <3>5. IsValue(c.value)
        BY DEF ArePlain
      <3>6. Ats(inputs, k) = Ats(inputs, k - 1) \cup {a}
        BY DEF Ats
      <3> HIDE DEF q, r, a, c
      <3>7. IsPlain(r.cells)
        BY <2>1, <3>1, <3>2, <3>3, <3>4, <3>5 DEF IsPlain
      <3>8. Ats(inputs, k) \subseteq r.changed
        BY <2>1, <3>1, <3>6
      <3> QED  BY <2>1, <3>7, <3>8
    <2> QED  BY <2>2, <2>3
  <1> HIDE DEF S
  <1>4. N \in S
    <2>1. \A k \in 0..N : k \in S
      BY <1>2, <1>3, AlongTheWay
    <2> QED  BY <2>1
  <1> QED  BY <1>1, <1>4 DEF S

\* All inputs of an operation that is complete: the formulas that were not
\* submitted still fill the blocks they filled, for a filled cell is put back
\* or overwritten only together with its anchor.
LEMMA SubmitAllBlocks ==
    ASSUME NEW cells, IsSheet(cells), Blocks(cells, {}), NEW inputs, Len(inputs) \in Nat,
           \A i \in 1..Len(inputs) : IsInput(inputs[i]), IsComplete(inputs),
           ~SubmitAll(cells, inputs).refused
    PROVE  Blocks(SubmitAll(cells, inputs).cells, Ats(inputs, Len(inputs)))
  <1> DEFINE N == Len(inputs)
             T == Ats(inputs, N)
             now == SubmitAll(cells, inputs).cells
  <1>1. Progress(now, N, inputs, cells)
    BY SubmitAllProgresses
  <1>2. T \subseteq Addresses /\ NoSource \notin T
    BY NoSourceIsNoAddress DEF Ats, IsInput
  <1> HIDE DEF now
  <1>3. \A b \in Addresses \ T :
          now[b] = IF cells[b].source \in T THEN EmptyCell ELSE cells[b]
    BY <1>1 DEF Progress
  <1>4. ASSUME NEW b \in T
        PROVE  now[b].source \in T \cup {NoSource} /\ cells[b].source \in T \cup {NoSource}
    <2>1. PICK i \in 1..N : inputs[i].at = b
      BY DEF Ats
    <2>2. /\ now[b].source # NoSource => now[b].source = inputs[i].cell.source
          /\ cells[b].source # NoSource => cells[b].source \in T
      BY <1>1, <2>1 DEF Progress
    <2>3. inputs[i].cell.source # NoSource => inputs[i].cell.source \in T
      BY DEF IsComplete, Ats
    <2> QED  BY <2>2, <2>3
  <1> HIDE DEF T
  <1>5. ASSUME NEW a \in Addresses \ T, IsFormula(now[a])
        PROVE  IsBlock(now, a)
    <2>1. now[a] = cells[a]
      BY <1>3, <1>5, EmptyIsCell
    <2>2. ASSUME NEW b \in Addresses PROVE now[b].source = a <=> cells[b].source = a
      <3>1. CASE b \in T
        BY <1>4, <3>1, NoSourceIsNoAddress
      <3>2. CASE b \notin T
        BY <1>3, <3>2, EmptyIsCell, NoSourceIsNoAddress
      <3> QED  BY <3>1, <3>2
    <2>3. SpilledFrom(now, a) = SpilledFrom(cells, a)
      BY <2>2 DEF SpilledFrom
    <2>4. IsBlock(cells, a)
      BY <1>5, <2>1 DEF Blocks
    <2> QED  BY <2>1, <2>3, <2>4 DEF IsBlock
  <1> QED  BY <1>5 DEF Blocks, now, T

\* What an operation that is complete leaves: every formula fills a block.
LEMMA OperationBlocks ==
    ASSUME EvaluatesToResults,
           NEW cells, IsSheet(cells), IsPlain(cells), Blocks(cells, {}),
           NEW inputs, Len(inputs) \in Nat,
           \A i \in 1..Len(inputs) : IsInput(inputs[i]), IsComplete(inputs), ArePlain(inputs),
           NEW forceAll, RecalculateCellInputs(cells, inputs, forceAll) # Refused
    PROVE  LET after == RecalculateCellInputs(cells, inputs, forceAll)
           IN  IsPlain(after) /\ Blocks(after, {})
  <1> DEFINE q == SubmitAll(cells, inputs)
             p == [cells |-> q.cells, forced |-> {}, next |-> q.changed \cup Retried(q.cells, forceAll)]
             after == RecalculateCellInputs(cells, inputs, forceAll)
  <1>1. ~q.refused /\ after = Stabilize(p)
    BY DEF RecalculateCellInputs, Settle
  <1>2. IsSheet(q.cells)
    BY SubmitAllKeeps
  <1>3. IsPlain(q.cells) /\ Ats(inputs, Len(inputs)) \subseteq q.changed
    BY <1>1, SubmitAllPlain
  <1>4. Blocks(q.cells, Ats(inputs, Len(inputs)))
    BY <1>1, SubmitAllBlocks
  <1>5. p.cells = q.cells /\ p.forced = {} /\ q.changed \subseteq p.next
    OBVIOUS
  <1> HIDE DEF p, q, after
  <1>6. Blocks(p.cells, p.next)
    BY <1>3, <1>4, <1>5 DEF Blocks
  <1>7. Stabilize(p) # Refused
    BY <1>1 DEF after
  <1> QED  BY <1>1, <1>2, <1>3, <1>5, <1>6, <1>7, StabilizeBlocks DEF after

-----------------------------------------------------------------------------
(***************************************************************************)
(* The theorems                                                            *)
(***************************************************************************)

\* A new sheet is empty.
LEMMA InvInit == Init => Inv
  <1> SUFFICES ASSUME Init PROVE Inv
    OBVIOUS
  <1>1. \A a \in Addresses : cell[a] = EmptyCell
    BY DEF Init
  <1>2. DOMAIN cell = Addresses
    BY DEF Init
  <1>3. IsSheet(cell) /\ Anchored(cell)
    BY <1>1, <1>2, EmptyIsCell DEF IsSheet, Anchored
  <1>4. log = <<>> /\ made = 0 /\ partial = FALSE
    BY DEF Init
  <1>5. IsList(log) /\ Len(log) = 0
    <2>1. <<>> \in Seq({0})
      OBVIOUS
    <2> QED  BY <1>4, <2>1 DEF IsList
  <1>6. IsLog(log) /\ \A k \in 1..Len(log) : IsCompleteEntry(log[k])
    BY <1>5, BoundsAssumption DEF IsLog
  <1>7. made \in 0..MaxOperations
    BY <1>4, BoundsAssumption
  <1> QED  BY <1>3, <1>4, <1>6, <1>7 DEF Inv

\* What each operation submits may be submitted, and is complete unless an
\* undo left something out.
LEMMA StepsCommit ==
    ASSUME Inv, Next
    PROVE  \E inputs, forceAll :
              /\ Commit(inputs, forceAll)
              /\ IsList(inputs) /\ \A i \in 1..Len(inputs) : IsInput(inputs[i])
              /\ partial' \in BOOLEAN
              /\ ~partial' => ~partial /\ IsComplete(inputs)
              /\ ~partial' /\ IsPlainLog(log) => ArePlain(inputs)
  <1>1. CASE ApplyCells
    <2>1. PICK inputs \in Batches : Commit(inputs, FALSE)
      BY <1>1 DEF ApplyCells
    <2>2. partial' = partial
      BY <1>1 DEF ApplyCells
    <2> QED  BY <2>1, <2>2, BatchesAreComplete DEF Inv
  <1>2. CASE UndoOperation
    <2>1. PICK k \in DOMAIN log : /\ Commit(PutBack(Unchanged(log[k])), FALSE)
                                 /\ partial' = (partial \/ Unchanged(log[k]) # log[k])
      BY <1>2 DEF UndoOperation
    <2> DEFINE op == log[k]
               inputs == PutBack(Unchanged(op))
    <2>2. k \in 1..Len(log)
      BY <2>1, ListFacts DEF Inv, IsLog
    <2>3. IsEntry(op)
      BY <2>2 DEF Inv, IsLog
    <2>4. ~partial => IsCompleteEntry(op)
      BY <2>2 DEF Inv
    <2>5. /\ IsList(inputs)
          /\ \A i \in 1..Len(inputs) : IsInput(inputs[i])
          /\ Unchanged(op) = op /\ IsCompleteEntry(op) => IsComplete(inputs)
          /\ Unchanged(op) = op /\ (\A i \in 1..Len(op) : IsValue(op[i].before.value))
                => ArePlain(inputs)
      BY <2>3, PutBackIsInput
    <2>6. Commit(inputs, FALSE)
      BY <2>1
    <2>7. partial' \in BOOLEAN /\ (~partial' => ~partial /\ Unchanged(op) = op)
      BY <2>1 DEF Inv
    <2>8. IsPlainLog(log) => \A i \in 1..Len(op) : IsValue(op[i].before.value)
      BY <2>2 DEF IsPlainLog
    <2> HIDE DEF op, inputs
    <2> QED  BY <2>4, <2>5, <2>6, <2>7, <2>8
  <1>3. CASE RecalculateAll
    <2>1. IsList(<<>>) /\ Len(<<>>) = 0
      <3>1. <<>> \in Seq({0})
        OBVIOUS
      <3> QED  BY <3>1 DEF IsList
    <2>2. IsComplete(<<>>) /\ ArePlain(<<>>) /\ \A i \in 1..Len(<<>>) : IsInput(<<>>[i])
      BY <2>1 DEF IsComplete, ArePlain
    <2>3. Commit(<<>>, TRUE) /\ partial' = partial
      BY <1>3 DEF RecalculateAll
    <2> QED  BY <2>1, <2>2, <2>3 DEF Inv
  <1> QED  BY <1>1, <1>2, <1>3 DEF Next

\* The invariant is inductive.
LEMMA InvNext == ASSUME Inv, [Next]_vars PROVE Inv'
  <1>1. CASE Next
    <2>1. PICK inputs, forceAll :
              /\ Commit(inputs, forceAll)
              /\ IsList(inputs) /\ \A i \in 1..Len(inputs) : IsInput(inputs[i])
              /\ partial' \in BOOLEAN
              /\ ~partial' => ~partial /\ IsComplete(inputs)
      BY <1>1, StepsCommit
    <2>2. /\ IsSheet(cell') /\ IsLog(log') /\ made' \in 0..MaxOperations
          /\ ~partial /\ IsComplete(inputs) =>
                Anchored(cell') /\ \A k \in 1..Len(log') : IsCompleteEntry(log'[k])
      BY <2>1, CommitKeeps
    <2> QED  BY <2>1, <2>2 DEF Inv
  <1>2. CASE UNCHANGED vars
    BY <1>2 DEF Inv, vars
  <1> QED  BY <1>1, <1>2

LEMMA InvAlways == Spec => []Inv
  BY InvInit, InvNext, PTL DEF Spec

\* Whatever the formulas come to: the results of recalculateCellInputs leave
\* no array in a cell, and no cell that has both a formula and an anchor.
THEOREM TypeCorrect == Spec => []TypeOK
  <1>1. Inv => TypeOK
    BY DEF Inv, TypeOK, IsSheet, IsCell, IsLog
  <1> QED  BY <1>1, InvAlways, PTL

\* Whatever the formulas come to: a cell filled by an array names a cell with
\* a formula, through every write, undo and recalculation, as long as no undo
\* has left out cells that had changed (materializeSpill, clearSpillCells).
THEOREM FilledCellsAlwaysHaveAFormula == Spec => []FilledCellsHaveAFormula
  <1>1. Inv => FilledCellsHaveAFormula
    BY DEF Inv, FilledCellsHaveAFormula, Anchored
  <1> QED  BY <1>1, InvAlways, PTL

\* Whatever the formulas come to: an operation changes what a user typed only
\* in the cells it submits (materializeSpill looks at the cells it fills, and
\* undoes its own spill before).
THEOREM TypedAlwaysStays == Spec => TypedStays
  <1>1. ASSUME Inv, [Next]_vars
        PROVE  [\A a \in Addresses :
                  cell[a].source = NoSource /\ cell[a] # EmptyCell
                    => \/ cell'[a].formula = cell[a].formula /\ cell'[a].source = NoSource
                          /\ (IsFormula(cell[a]) \/ cell'[a].value = cell[a].value)
                       \/ \E i \in DOMAIN log'[Len(log')] : log'[Len(log')][i].at = a]_vars
    <2>1. CASE Next
      <3>1. PICK inputs, forceAll :
                /\ Commit(inputs, forceAll)
                /\ IsList(inputs) /\ \A i \in 1..Len(inputs) : IsInput(inputs[i])
        BY <1>1, <2>1, StepsCommit
      <3>2. \A a \in Addresses :
                cell[a].source = NoSource /\ cell[a] # EmptyCell =>
                   \/ Kept(cell[a], cell'[a])
                   \/ \E i \in DOMAIN log'[Len(log')] : log'[Len(log')][i].at = a
        BY <1>1, <3>1, CommitKeeps
      <3>3. ASSUME NEW a \in Addresses, cell[a].source = NoSource, Kept(cell[a], cell'[a])
            PROVE  /\ cell'[a].formula = cell[a].formula /\ cell'[a].source = NoSource
                   /\ (IsFormula(cell[a]) \/ cell'[a].value = cell[a].value)
        BY <3>3 DEF Kept
      <3> QED  BY <3>2, <3>3
    <2>2. CASE UNCHANGED vars
      BY <2>2
    <2> QED  BY <1>1, <2>1, <2>2
  <1> QED  BY <1>1, InvAlways, PTL DEF Spec, TypedStays

\* The second inductive invariant, which rests on the first.
BlocksInv == ~partial => IsPlain(cell) /\ IsPlainLog(log) /\ Blocks(cell, {})

\* A new sheet has no formulas.
LEMMA BlocksInit == Init => BlocksInv
  <1> SUFFICES ASSUME Init PROVE BlocksInv
    OBVIOUS
  <1>1. \A a \in Addresses : cell[a] = EmptyCell
    BY DEF Init
  <1>2. IsValue(EmptyCell.value)
    BY DEF IsValue, EmptyCell, Value, Blank
  <1>3. IsPlain(cell)
    BY <1>1, <1>2 DEF IsPlain
  <1>4. Blocks(cell, {})
    BY <1>1, EmptyIsCell DEF Blocks
  <1>5. log = <<>>
    BY DEF Init
  <1>6. IsPlainLog(log)
    BY <1>5 DEF IsPlainLog
  <1> QED  BY <1>3, <1>4, <1>6 DEF BlocksInv

\* Every operation keeps it.
LEMMA BlocksNext ==
    ASSUME EvaluatesToResults, Inv, BlocksInv, [Next]_vars
    PROVE  BlocksInv'
  <1>1. CASE Next
    <2> SUFFICES ASSUME ~partial'
                 PROVE  IsPlain(cell') /\ IsPlainLog(log') /\ Blocks(cell', {})
      BY DEF BlocksInv
    <2>1. PICK inputs, forceAll :
              /\ Commit(inputs, forceAll)
              /\ IsList(inputs) /\ \A i \in 1..Len(inputs) : IsInput(inputs[i])
              /\ ~partial' => ~partial /\ IsComplete(inputs)
              /\ ~partial' /\ IsPlainLog(log) => ArePlain(inputs)
      BY <1>1, StepsCommit
    <2>2. IsPlain(cell) /\ IsPlainLog(log) /\ Blocks(cell, {})
      BY <2>1 DEF BlocksInv
    <2>3. IsPlainLog(log')
      BY <2>1, <2>2, CommitKeeps
    <2>4. cell' = RecalculateCellInputs(cell, inputs, forceAll) /\ cell' # Refused
      BY <2>1 DEF Commit
    <2>5. IsSheet(cell) /\ Len(inputs) \in Nat
      BY <2>1, ListFacts DEF Inv
    <2>6. IsPlain(cell') /\ Blocks(cell', {})
      BY <2>1, <2>2, <2>4, <2>5, OperationBlocks
    <2> QED  BY <2>3, <2>6
  <1>2. CASE UNCHANGED vars
    BY <1>2 DEF BlocksInv, vars
  <1> QED  BY <1>1, <1>2

\* However formulas depend on each other, as long as each comes to a value or
\* to a column of numbers: when an operation is over, every formula fills a
\* block of cells right below it, and none while it shows an error.  The
\* passes of recalculateCellInputs (recalculation.go:284) leave no array half
\* stored, since whatever lost or kept a spill is calculated in the next pass.
THEOREM FilledCellsAlwaysFormBlocks ==
    ASSUME EvaluatesToResults
    PROVE  Spec => []FilledCellsFormBlocks
  <1>1. Init => BlocksInv
    BY BlocksInit
  <1>2. Inv /\ BlocksInv /\ [Next]_vars => BlocksInv'
    BY BlocksNext
  <1>3. BlocksInv => FilledCellsFormBlocks
    BY DEF BlocksInv, FilledCellsFormBlocks, Blocks, IsBlock
  <1> QED  BY <1>1, <1>2, <1>3, InvAlways, PTL DEF Spec

=============================================================================
