------------------------ MODULE CellOperationsProofs ------------------------
(***************************************************************************)
(* For any number of clients, rows and versions: the write path keeps its  *)
(* types, its log is an OperationLog, a conflict is closed by the          *)
(* operation that resolved it, and late writes, undos and restorations     *)
(* land where they were meant to, replace what they were meant to replace  *)
(* and report what they overwrite.                                         *)
(***************************************************************************)
EXTENDS CellOperations, StructuralChangeProofs, WellFoundedInduction

\* One operation per version.
LogMakesVersions == version = Len(log) + 1

\* Only the operations of ResolveCellConflict are about a conflict.
OnlyResolutionsAreAbout ==
    \A i \in DOMAIN log :
        log[i].req.about # NoConflict => log[i].req.type \in Resolutions

\* No actor has two operations under one key.
AppliedOnce ==
    \A i, j \in DOMAIN log :
        /\ ActorOf[log[i].req.client] = ActorOf[log[j].req.client]
        /\ log[i].req.key = log[j].req.key
        => i = j

\* A call holds the lock of a conflict that is open, alone, and remembers the
\* operation it has committed.
CallsAreSound ==
    /\ \A x \in resolving : Open(x.conflict)
    /\ \A x, y \in resolving : x.conflict = y.conflict => x = y
    /\ \A x \in resolving : x.phase = "applied" =>
          /\ x.base - 1 \in DOMAIN log
          /\ log[x.base - 1].req.about = ConflictId(x.conflict)
          /\ log[x.base - 1].req.type = x.resolution

\* The inductive invariant.
Inv ==
    /\ TypeOK
    /\ LogMakesVersions
    /\ OnlyResolutionsAreAbout
    /\ AppliedOnce
    /\ CallsAreSound
    /\ ClosedByItsOperation

-----------------------------------------------------------------------------
(***************************************************************************)
(* Small facts                                                             *)
(***************************************************************************)

\* A non-empty set of log positions has a last one.
LEMMA LastExists ==
    ASSUME NEW n \in Nat, NEW S \in SUBSET (1..n), S # {}
    PROVE  \E i \in S : \A j \in S : j <= i
  <1> DEFINE T == {n - i : i \in S}
  <1>1. T \subseteq Nat /\ T # {}
    <2>1. \A i \in S : i \in Nat /\ i <= n
      OBVIOUS
    <2>2. \A i \in S : n - i \in Nat
      BY <2>1
    <2>3. PICK k \in S : TRUE
      OBVIOUS
    <2> QED  BY <2>2, <2>3
  <1> DEFINE R == OpToRel(<, Nat)
  <1>2. IsWellFoundedOn(R, Nat)
    BY NatLessThanWellFounded
  <1> HIDE DEF T, R
  <1>3. PICK t \in T : \A u \in T : ~(<<u, t>> \in R)
    BY <1>1, <1>2, WFMin
  <1>4. \A u \in T : ~(u < t)
    BY <1>1, <1>3 DEF R, OpToRel
  <1>5. PICK i \in S : t = n - i
    BY DEF T
  <1>6. \A j \in S : n - j \in T
    BY DEF T
  <1>7. \A j \in S : j <= i
    BY <1>4, <1>5, <1>6
  <1> QED  BY <1>7

\* Partial cells are functions from some of the rows to contents.
LEMMA PartialCellsAre ==
    ASSUME NEW S \in SUBSET Positions, NEW f \in [S -> Contents]
    PROVE  f \in PartialCells
  BY DEF PartialCells

\* The contents of partial cells.
LEMMA PartialCellsAt ==
    ASSUME NEW f \in PartialCells
    PROVE  /\ DOMAIN f \subseteq Positions
           /\ f \in [DOMAIN f -> Contents]
           /\ \A r \in DOMAIN f : f[r] \in Contents
  BY DEF PartialCells

\* No cells at all are partial cells.
LEMMA NoCellsArePartial == NoCells \in PartialCells
  <1>1. NoCells \in [{} -> Contents]
    BY DEF NoCells
  <1> QED  BY <1>1, PartialCellsAre

\* The fields of a request.
LEMMA RequestFields ==
    ASSUME NEW m \in Requests
    PROVE  /\ m.type \in {"write", "undo", "structure"} \cup Resolutions
           /\ m.client \in Clients /\ m.key \in Keys /\ m.base \in Nat
           /\ m.writes \in PartialCells /\ m.expected \in PartialCells
           /\ m.checked \in BOOLEAN
           /\ m.change \in Mutations \cup {NoChange} /\ m.about \in ConflictIds
  BY DEF Requests

\* The fields of a log entry.
LEMMA EntryFields ==
    ASSUME NEW e \in Entries
    PROVE  /\ e.req \in Requests /\ e.before \in PartialCells /\ e.after \in PartialCells
           /\ e.layout \in Axes(RowIds)
  BY DEF Entries, Axes

\* What the writes of a request become is again partial cells.
LEMMA RebasedType ==
    ASSUME NEW m \in Requests
    PROVE  Rebased(m) \in PartialCells
  <1> DEFINE S == {q \in Positions : \E p \in DOMAIN m.writes : Rebase(p, m.base) = q}
             pick(r) == CHOOSE p \in DOMAIN m.writes : Rebase(p, m.base) = r
  <1>1. m.writes \in PartialCells
    BY RequestFields
  <1>2. \A r \in S : pick(r) \in DOMAIN m.writes
    OBVIOUS
  <1>3. \A r \in S : m.writes[pick(r)] \in Contents
    BY <1>1, <1>2, PartialCellsAt
  <1>4. Rebased(m) \in [S -> Contents]
    BY <1>3 DEF Rebased
  <1> QED  BY <1>4, PartialCellsAre

\* The value a conflict offers is a cell content.
LEMMA ConflictingType ==
    ASSUME TypeOK, NEW m \in Requests, NEW r \in Positions
    PROVE  Conflicting(r, m) \in Contents
  <1> DEFINE writers == WritersOf(r, m)
             last    == CHOOSE i \in writers : \A j \in writers : j <= i
  <1>1. cells[r] \in Contents
    BY DEF TypeOK
  <1>2. log \in Seq(Entries) /\ Len(log) \in Nat /\ DOMAIN log = 1..Len(log)
    BY DEF TypeOK
  <1>3. writers \subseteq 1..Len(log)
    BY <1>2 DEF WritersOf, ForeignSince
  <1>4. CASE writers = {}
    BY <1>1, <1>4 DEF Conflicting
  <1>5. CASE writers # {}
    <2>1. last \in writers
      <3> HIDE DEF writers
      <3>1. \E i \in writers : \A j \in writers : j <= i
        BY <1>2, <1>3, <1>5, LastExists
      <3> QED  BY <3>1
    <2>2. last \in DOMAIN log /\ r \in DOMAIN log[last].after
      BY <2>1, <1>2, <1>3 DEF WritersOf
    <2> HIDE DEF last
    <2>3. log[last] \in Entries
      BY <2>2, <1>2
    <2>4. log[last].after \in PartialCells
      BY <2>3, EntryFields
    <2>5. log[last].after[r] \in Contents
      BY <2>2, <2>4, PartialCellsAt
    <2> QED  BY <1>1, <2>5 DEF Conflicting, last
  <1> QED  BY <1>4, <1>5

\* The ghost layout names a row at every position.
LEMMA LayoutType ==
    ASSUME TypeOK, LogMakesVersions
    PROVE  Layout(version) \in Axes(RowIds)
  <1>1. log \in Seq(Entries) /\ version \in Nat
    BY VersionAssumption DEF TypeOK
  <1>2. CASE version = 1
    <2>1. \A r \in Positions : <<1, r>> \in RowIds
      BY LimitAssumption DEF RowIds, Positions
    <2> QED  BY <1>2, <2>1 DEF Layout, InitialLayout, Axes
  <1>3. CASE version # 1
    <2>1. version - 1 \in DOMAIN log
      BY <1>1, <1>3 DEF LogMakesVersions, TypeOK
    <2>2. log[version - 1] \in Entries
      BY <1>1, <2>1
    <2> QED  BY <1>3, <2>2, EntryFields DEF Layout
  <1> QED  BY <1>2, <1>3

-----------------------------------------------------------------------------
(***************************************************************************)
(* Appending to the log                                                    *)
(***************************************************************************)

\* What an operation under an unused key does to the log.
LEMMA AppendKeepsLog ==
    ASSUME Inv, NEW e \in Entries, ~Duplicate(e.req),
           e.req.about # NoConflict => e.req.type \in Resolutions,
           log' = Append(log, e), version' = version + 1
    PROVE  /\ log' \in Seq(Entries)
           /\ \A i \in DOMAIN log : i \in DOMAIN log' /\ log'[i] = log[i]
           /\ version \in DOMAIN log' /\ log'[version] = e
           /\ DOMAIN log' = DOMAIN log \cup {version}
           /\ LogMakesVersions' /\ OnlyResolutionsAreAbout' /\ AppliedOnce'
  <1>1. log \in Seq(Entries) /\ version = Len(log) + 1 /\ DOMAIN log = 1..Len(log)
    BY DEF Inv, TypeOK, LogMakesVersions
  <1>2. /\ log' \in Seq(Entries) /\ Len(log') = Len(log) + 1
        /\ DOMAIN log' = 1..Len(log) + 1
    BY <1>1
  <1>3. \A i \in DOMAIN log : i \in DOMAIN log' /\ log'[i] = log[i]
    BY <1>1, <1>2
  <1>4. version \in DOMAIN log' /\ log'[version] = e
    BY <1>1, <1>2
  <1>5. DOMAIN log' = DOMAIN log \cup {version}
    BY <1>1, <1>2
  <1>6. LogMakesVersions'
    BY <1>1, <1>2 DEF LogMakesVersions
  <1>7. OnlyResolutionsAreAbout'
    BY <1>3, <1>4, <1>5 DEF OnlyResolutionsAreAbout, Inv
  <1>8. AppliedOnce'
    <2>1. \A i \in DOMAIN log :
            ~(ActorOf[log[i].req.client] = ActorOf[e.req.client] /\ log[i].req.key = e.req.key)
      BY DEF Duplicate
    <2> QED  BY <1>3, <1>4, <1>5, <2>1 DEF AppliedOnce, Inv
  <1> QED  BY <1>2, <1>3, <1>4, <1>5, <1>6, <1>7, <1>8

\* The transaction of ApplyCells.
LEMMA CommitCellsKeeps ==
    ASSUME Inv, NEW m \in Requests, ~Duplicate(m), CommitCells(m),
           m.about # NoConflict => m.type \in Resolutions
    PROVE  /\ version' \in 1..MaxVersion
           /\ cells' \in [Positions -> Contents]
           /\ conflicts' \subseteq Conflicts
           /\ \E e \in Entries : e.req = m /\ log' = Append(log, e)
           /\ version' = version + 1
  <1> DEFINE target  == Rebased(m)
             skipped == Skipped(m, target)
             written == [r \in DOMAIN target \ skipped |-> target[r]]
             before  == [r \in DOMAIN written |-> cells[r]]
  <1>1. /\ version \in 1..MaxVersion /\ cells \in [Positions -> Contents]
        /\ conflicts \subseteq Conflicts /\ version < MaxVersion /\ MaxVersion \in Nat
    BY VersionAssumption DEF Inv, TypeOK, CommitCells
  <1>2. target \in PartialCells
    BY RebasedType
  <1>3. DOMAIN target \subseteq Positions /\ \A r \in DOMAIN target : target[r] \in Contents
    BY <1>2, PartialCellsAt
  <1>4. skipped \subseteq DOMAIN target
    BY DEF Skipped
  <1>5. /\ cells' = [r \in Positions |-> IF r \in DOMAIN written THEN written[r] ELSE cells[r]]
        /\ version' = version + 1
        /\ log' = Append(log, [req |-> m, before |-> before, after |-> written,
                               layout |-> Layout(version)])
        /\ conflicts' = conflicts \cup FoundConflicts(m, target, skipped)
    BY DEF CommitCells
  <1> HIDE DEF target, skipped
  <1>6. written \in PartialCells
    <2>1. written \in [DOMAIN target \ skipped -> Contents]
      BY <1>3
    <2> QED  BY <1>3, <2>1, PartialCellsAre
  <1>7. before \in PartialCells
    <2>1. before \in [DOMAIN target \ skipped -> Contents]
      BY <1>1, <1>3
    <2> QED  BY <1>3, <2>1, PartialCellsAre
  <1>8. cells' \in [Positions -> Contents]
    BY <1>1, <1>3, <1>5
  <1>9. FoundConflicts(m, target, skipped) \subseteq Conflicts
    <2>1. ConflictRows(m, target) \subseteq DOMAIN target
      BY DEF ConflictRows
    <2>2. \A r \in DOMAIN target : Conflicting(r, m) \in Contents
      BY <1>3, ConflictingType DEF Inv
    <2>3. version + 1 \in Nat
      BY <1>1
    <2> QED  BY <1>1, <1>3, <1>4, <2>1, <2>2, <2>3 DEF FoundConflicts, Conflicts
  <1>10. Layout(version) \in [Positions -> RowIds]
    BY LayoutType DEF Inv, Axes
  <1> DEFINE e == [req |-> m, before |-> before, after |-> written, layout |-> Layout(version)]
  <1>11. e \in Entries
    <2> HIDE DEF before, written
    <2> QED  BY <1>6, <1>7, <1>10 DEF Entries
  <1>12. e.req = m /\ log' = Append(log, e)
    BY <1>5
  <1>13. version' \in 1..MaxVersion /\ conflicts' \subseteq Conflicts
    BY <1>1, <1>5, <1>9
  <1> HIDE DEF e
  <1> QED  BY <1>5, <1>8, <1>11, <1>12, <1>13

\* The transaction of ApplyStructure.
LEMMA CommitStructureKeeps ==
    ASSUME Inv, NEW m \in Requests, m.change \in Mutations, CommitStructure(m)
    PROVE  /\ version' \in 1..MaxVersion
           /\ cells' \in [Positions -> Contents]
           /\ \E e \in Entries : e.req = m /\ log' = Append(log, e)
           /\ version' = version + 1
  <1> DEFINE c == m.change
             fresh == [k \in 1..c.count |-> <<version + 1, k>>]
             layout == Rearranged(Layout(version), c, fresh)
             e == [req |-> m, before |-> NoCells, after |-> NoCells, layout |-> layout]
  <1>1. /\ version \in 1..MaxVersion /\ cells \in [Positions -> Contents]
        /\ version < MaxVersion /\ MaxVersion \in Nat
    BY VersionAssumption DEF Inv, TypeOK, CommitStructure
  <1>2. cells' \in [Positions -> Contents]
    <2> DEFINE from(q) == CHOOSE r \in Positions : TransformPosition(r, c) = q
    <2>1. cells' = [q \in Positions |->
                     IF \E r \in Positions : TransformPosition(r, c) = q
                     THEN cells[from(q)] ELSE Empty]
      BY DEF CommitStructure
    <2>2. \A q \in Positions : (\E r \in Positions : TransformPosition(r, c) = q) =>
             from(q) \in Positions
      OBVIOUS
    <2> HIDE DEF from
    <2> QED  BY <1>1, <2>1, <2>2 DEF Contents
  <1>3. version' = version + 1 /\ log' = Append(log, e)
    BY DEF CommitStructure
  <1>4. fresh \in Bands(RowIds, c)
    <2>1. c.count \in Int
      BY MutationFields
    <2>2. \A k \in 1..c.count : <<version + 1, k>> \in RowIds
      BY <1>1, <2>1 DEF RowIds
    <2> QED  BY <2>2 DEF Bands
  <1>5. layout \in Axes(RowIds)
    <2>1. Layout(version) \in Axes(RowIds)
      BY LayoutType DEF Inv
    <2> HIDE DEF fresh
    <2> QED  BY <1>4, <2>1, RearrangedType
  <1>6. e \in Entries
    <2> HIDE DEF layout
    <2> QED  BY <1>5, NoCellsArePartial DEF Entries, Axes
  <1>7. e.req = m /\ version' \in 1..MaxVersion
    BY <1>1, <1>3
  <1> HIDE DEF e
  <1> QED  BY <1>2, <1>3, <1>6, <1>7

-----------------------------------------------------------------------------
(***************************************************************************)
(* The operations                                                          *)
(***************************************************************************)

\* The calls and resolutions recorded so far stay sound when the log grows.
LEMMA GrowthKeepsCalls ==
    ASSUME Inv, UNCHANGED <<resolutions, resolving>>,
           \A i \in DOMAIN log : i \in DOMAIN log' /\ log'[i] = log[i]
    PROVE  CallsAreSound' /\ ClosedByItsOperation'
  <1>1. CallsAreSound'
    BY DEF Inv, CallsAreSound, Open, ConflictId
  <1>2. ClosedByItsOperation'
    BY DEF Inv, ClosedByItsOperation, ConflictId
  <1> QED  BY <1>1, <1>2

\* A step that changes nothing keeps the invariant.
LEMMA StutteringKeepsInv ==
    ASSUME Inv, UNCHANGED vars
    PROVE  Inv'
  BY DEF Inv, vars, TypeOK, LogMakesVersions, OnlyResolutionsAreAbout, AppliedOnce,
         CallsAreSound, ClosedByItsOperation, Open, ConflictId

\* A write or an undo, delivered for the first time or again.
LEMMA ApplyCellsKeepsInv ==
    ASSUME Inv, NEW m \in Requests, m.about = NoConflict, ApplyCells(m)
    PROVE  Inv'
  <1>1. CASE Duplicate(m) /\ UNCHANGED vars
    BY <1>1, StutteringKeepsInv
  <1>2. CASE ~Duplicate(m) /\ CommitCells(m) /\ UNCHANGED <<resolutions, resolving>>
    <2>1. /\ version' \in 1..MaxVersion /\ cells' \in [Positions -> Contents]
          /\ conflicts' \subseteq Conflicts /\ version' = version + 1
          /\ \E e \in Entries : e.req = m /\ log' = Append(log, e)
      BY <1>2, CommitCellsKeeps
    <2>2. PICK e \in Entries : e.req = m /\ log' = Append(log, e)
      BY <2>1
    <2>3. /\ log' \in Seq(Entries)
          /\ \A i \in DOMAIN log : i \in DOMAIN log' /\ log'[i] = log[i]
          /\ LogMakesVersions' /\ OnlyResolutionsAreAbout' /\ AppliedOnce'
      BY <1>2, <2>1, <2>2, AppendKeepsLog
    <2>4. CallsAreSound' /\ ClosedByItsOperation'
      BY <1>2, <2>3, GrowthKeepsCalls
    <2>5. TypeOK'
      BY <1>2, <2>1, <2>3 DEF Inv, TypeOK
    <2> QED  BY <2>3, <2>4, <2>5 DEF Inv
  <1> QED  BY <1>1, <1>2 DEF ApplyCells

\* A structural change, delivered for the first time or again.
LEMMA ApplyStructureKeepsInv ==
    ASSUME Inv, NEW m \in Requests, m.about = NoConflict, m.change \in Mutations,
           ApplyStructure(m)
    PROVE  Inv'
  <1>1. CASE Duplicate(m) /\ UNCHANGED vars
    BY <1>1, StutteringKeepsInv
  <1>2. CASE /\ ~Duplicate(m) /\ CommitStructure(m)
             /\ UNCHANGED <<conflicts, resolutions, resolving>>
    <2>1. /\ version' \in 1..MaxVersion /\ cells' \in [Positions -> Contents]
          /\ version' = version + 1
          /\ \E e \in Entries : e.req = m /\ log' = Append(log, e)
      BY <1>2, CommitStructureKeeps
    <2>2. PICK e \in Entries : e.req = m /\ log' = Append(log, e)
      BY <2>1
    <2>3. /\ log' \in Seq(Entries)
          /\ \A i \in DOMAIN log : i \in DOMAIN log' /\ log'[i] = log[i]
          /\ LogMakesVersions' /\ OnlyResolutionsAreAbout' /\ AppliedOnce'
      BY <1>2, <2>1, <2>2, AppendKeepsLog
    <2>4. CallsAreSound' /\ ClosedByItsOperation'
      BY <1>2, <2>3, GrowthKeepsCalls
    <2>5. TypeOK'
      BY <1>2, <2>1, <2>3 DEF Inv, TypeOK
    <2> QED  BY <2>3, <2>4, <2>5 DEF Inv
  <1> QED  BY <1>1, <1>2 DEF ApplyStructure

\* The keys and the placeholders of a request have their types.
LEMMA Placeholders ==
    ASSUME Inv
    PROVE  /\ FreshKey \in Keys /\ version \in Nat
           /\ NoConflict \in ConflictIds
           /\ \A n \in Nat : <<"undo", n>> \in Keys
  <1>1. version \in Nat
    BY VersionAssumption DEF Inv, TypeOK
  <1> QED  BY <1>1 DEF FreshKey, Keys, NoConflict, ConflictIds

\* The request of a write.
LEMMA WriteRequest ==
    ASSUME Inv, NEW client \in Clients, NEW base \in Bases, NEW rows \in Batches,
           NEW writes \in [rows -> Contents], WriteCells(client, base, writes)
    PROVE  \E m \in Requests : m.about = NoConflict /\ ApplyCells(m)
  <1> DEFINE m == [type |-> "write", client |-> client, key |-> FreshKey, base |-> base,
                   writes |-> writes, checked |-> FALSE, expected |-> NoCells,
                   change |-> NoChange, about |-> NoConflict]
  <1>1. writes \in PartialCells
    BY BatchAssumption, PartialCellsAre
  <1>2. base \in Nat
    BY Placeholders DEF Bases
  <1>3. m \in Requests
    BY <1>1, <1>2, Placeholders, NoCellsArePartial DEF Requests
  <1>4. m.about = NoConflict /\ ApplyCells(m)
    BY DEF WriteCells
  <1> HIDE DEF m
  <1> QED  BY <1>3, <1>4

\* The request of an undo.
LEMMA UndoRequest ==
    ASSUME Inv, NEW client \in Clients, NEW i \in DOMAIN log, UndoOperation(client, i)
    PROVE  \E m \in Requests : m.about = NoConflict /\ ApplyCells(m)
  <1> DEFINE m == [type |-> "undo", client |-> client, key |-> <<"undo", i + 1>>,
                   base |-> i + 1, writes |-> log[i].before, checked |-> TRUE,
                   expected |-> log[i].after, change |-> NoChange, about |-> NoConflict]
  <1>1. log[i] \in Entries /\ i + 1 \in Nat
    BY DEF Inv, TypeOK
  <1>2. log[i].before \in PartialCells /\ log[i].after \in PartialCells
    BY <1>1, EntryFields
  <1>3. m \in Requests
    BY <1>1, <1>2, Placeholders DEF Requests
  <1>4. m.about = NoConflict /\ ApplyCells(m)
    BY DEF UndoOperation
  <1> HIDE DEF m
  <1> QED  BY <1>3, <1>4

\* The request of a structural change.
LEMMA StructureRequest ==
    ASSUME Inv, NEW client \in Clients, NEW c \in Changes, ChangeStructure(client, c)
    PROVE  \E m \in Requests :
              m.about = NoConflict /\ m.change \in Mutations /\ ApplyStructure(m)
  <1> DEFINE m == [type |-> "structure", client |-> client, key |-> FreshKey,
                   base |-> version, writes |-> NoCells, checked |-> FALSE,
                   expected |-> NoCells, change |-> c, about |-> NoConflict]
  <1>1. c \in Mutations
    BY ChangeAssumption
  <1>2. m \in Requests
    BY <1>1, Placeholders, NoCellsArePartial DEF Requests
  <1>3. m.about = NoConflict /\ m.change \in Mutations /\ ApplyStructure(m)
    BY <1>1 DEF ChangeStructure
  <1> HIDE DEF m
  <1> QED  BY <1>2, <1>3

\* What is delivered again is found in the log and changes nothing.
LEMMA RedeliverChangesNothing ==
    ASSUME Inv, NEW i \in DOMAIN log, Redeliver(i)
    PROVE  UNCHANGED vars
  <1>1. Duplicate(log[i].req)
    BY DEF Duplicate
  <1> QED  BY <1>1 DEF Redeliver, ApplyCells, ApplyStructure

-----------------------------------------------------------------------------
(***************************************************************************)
(* ResolveCellConflict                                                     *)
(***************************************************************************)

\* The fields of a call of ResolveCellConflict.
LEMMA ResolverFields ==
    ASSUME NEW x \in Resolvers
    PROVE  /\ x.conflict \in Conflicts /\ x.client \in Clients
           /\ x.resolution \in Resolutions /\ x.phase \in {"read", "ready", "applied"}
           /\ x.seen \in Contents /\ x.base \in Nat
  BY DEF Resolvers

\* The fields of a conflict; its id is never the placeholder.
LEMMA ConflictFields ==
    ASSUME NEW k \in Conflicts
    PROVE  /\ k.op \in Nat /\ k.row \in Positions
           /\ k.conflicting \in Contents /\ k.applied \in Contents
           /\ ConflictId(k) \in ConflictIds /\ ConflictId(k) # NoConflict
  <1>1. /\ k.op \in Nat /\ k.row \in Positions
        /\ k.conflicting \in Contents /\ k.applied \in Contents
    BY DEF Conflicts
  <1>2. k.row \in Nat /\ k.row # 0
    BY <1>1, LimitAssumption DEF Positions
  <1>3. ConflictId(k) \in ConflictIds
    BY <1>1, <1>2 DEF ConflictId, ConflictIds
  <1>4. ConflictId(k) # NoConflict
    BY <1>2 DEF ConflictId, NoConflict
  <1> QED  BY <1>1, <1>3, <1>4

\* Locking a conflict and reading its cell keeps the invariant.
LEMMA ResolveBeginKeepsInv ==
    ASSUME Inv, NEW k \in conflicts, NEW client \in Clients, NEW resolution \in Resolutions,
           ResolveBegin(k, client, resolution)
    PROVE  Inv'
  <1> DEFINE x == [conflict |-> k, client |-> client, resolution |-> resolution,
                   phase |-> "read", seen |-> cells[k.row], base |-> 0]
  <1>1. /\ resolving' = resolving \cup {x} /\ Open(k) /\ ~Locked(k)
        /\ UNCHANGED <<version, cells, log, conflicts, resolutions>>
    BY DEF ResolveBegin
  <1>2. x \in Resolvers
    <2>1. k \in Conflicts
      BY DEF Inv, TypeOK
    <2>2. cells[k.row] \in Contents
      BY <2>1, ConflictFields DEF Inv, TypeOK
    <2> QED  BY <2>1, <2>2 DEF Resolvers
  <1>3. x.conflict = k /\ x.phase # "applied"
    OBVIOUS
  <1> HIDE DEF x
  <1>4. TypeOK'
    BY <1>1, <1>2 DEF Inv, TypeOK
  <1>5. CallsAreSound'
    BY <1>1, <1>3 DEF Inv, CallsAreSound, Open, Locked, ConflictId
  <1>6. LogMakesVersions' /\ OnlyResolutionsAreAbout' /\ AppliedOnce' /\ ClosedByItsOperation'
    BY <1>1 DEF Inv, LogMakesVersions, OnlyResolutionsAreAbout, AppliedOnce,
                ClosedByItsOperation, ConflictId
  <1> QED  BY <1>4, <1>5, <1>6 DEF Inv

\* Closing a conflict with an operation of the log that was made for it.
LEMMA ClosingKeepsInv ==
    ASSUME Inv, NEW k \in Conflicts, NEW kind \in Resolutions, NEW i \in DOMAIN log,
           Open(k), log[i].req.about = ConflictId(k), log[i].req.type = kind,
           resolutions' = resolutions \cup
              {[conflict |-> k, resolution |-> kind, op |-> i + 1]},
           resolving' \subseteq resolving, \A x \in resolving' : x.conflict # k,
           UNCHANGED <<version, cells, log, conflicts>>
    PROVE  Inv'
  <1> DEFINE s == [conflict |-> k, resolution |-> kind, op |-> i + 1]
  <1>1. i \in Nat /\ i + 1 - 1 = i
    BY DEF Inv, TypeOK
  <1>2. s \in [conflict : Conflicts, resolution : Resolutions, op : Nat]
    BY <1>1
  <1>3. s.conflict = k /\ s.resolution = kind /\ s.op - 1 = i
    BY <1>1
  <1>4. resolutions' = resolutions \cup {s}
    OBVIOUS
  <1> HIDE DEF s
  <1>5. TypeOK'
    BY <1>2, <1>4 DEF Inv, TypeOK
  <1>6. CallsAreSound'
    BY <1>3, <1>4 DEF Inv, CallsAreSound, Open, ConflictId
  <1>7. ClosedByItsOperation'
    BY <1>3, <1>4 DEF Inv, ClosedByItsOperation, ConflictId, Open
  <1>8. LogMakesVersions' /\ OnlyResolutionsAreAbout' /\ AppliedOnce'
    BY DEF Inv, LogMakesVersions, OnlyResolutionsAreAbout, AppliedOnce
  <1> QED  BY <1>5, <1>6, <1>7, <1>8 DEF Inv

\* So does closing a conflict with an operation committed by an earlier call,
LEMMA ResolveReplayKeepsInv ==
    ASSUME Inv, NEW k \in conflicts, NEW i \in DOMAIN log, ResolveReplay(k, i)
    PROVE  Inv'
  <1>1. k \in Conflicts
    BY DEF Inv, TypeOK
  <1>2. log[i].req.about = ConflictId(k) /\ Open(k) /\ ~Locked(k)
    BY DEF ResolveReplay
  <1>3. log[i].req.type \in Resolutions
    BY <1>1, <1>2, ConflictFields DEF Inv, OnlyResolutionsAreAbout
  <1>4. \A x \in resolving : x.conflict # k
    BY <1>2 DEF Locked
  <1> QED  BY <1>1, <1>2, <1>3, <1>4, ClosingKeepsInv DEF ResolveReplay

\* reading the version,
LEMMA ResolveReadVersionKeepsInv ==
    ASSUME Inv, NEW x \in resolving, ResolveReadVersion(x)
    PROVE  Inv'
  <1> DEFINE y == [x EXCEPT !.phase = "ready", !.base = version]
  <1>1. /\ resolving' = (resolving \ {x}) \cup {y}
        /\ UNCHANGED <<version, cells, log, conflicts, resolutions>>
    BY DEF ResolveReadVersion
  <1>2. x \in Resolvers /\ version \in Nat
    BY VersionAssumption DEF Inv, TypeOK
  <1>3. y \in Resolvers /\ y.conflict = x.conflict /\ y.phase = "ready"
    BY <1>2 DEF Resolvers
  <1> HIDE DEF y
  <1>4. TypeOK'
    BY <1>1, <1>3 DEF Inv, TypeOK
  <1>5. CallsAreSound'
    BY <1>1, <1>3 DEF Inv, CallsAreSound, Open, ConflictId
  <1>6. LogMakesVersions' /\ OnlyResolutionsAreAbout' /\ AppliedOnce' /\ ClosedByItsOperation'
    BY <1>1 DEF Inv, LogMakesVersions, OnlyResolutionsAreAbout, AppliedOnce,
                ClosedByItsOperation, ConflictId
  <1> QED  BY <1>4, <1>5, <1>6 DEF Inv

\* The request that ResolveCellConflict sends is well-formed.
LEMMA ResolutionType ==
    ASSUME Inv, NEW x \in resolving
    PROVE  /\ Resolution(x) \in Requests
           /\ Resolution(x).type = x.resolution
           /\ Resolution(x).about = ConflictId(x.conflict)
  <1>1. x \in Resolvers
    BY DEF Inv, TypeOK
  <1>2. /\ x.conflict \in Conflicts /\ x.client \in Clients /\ x.resolution \in Resolutions
        /\ x.seen \in Contents /\ x.base \in Nat
    BY <1>1, ResolverFields
  <1>3. /\ x.conflict.row \in Positions /\ x.conflict.conflicting \in Contents
        /\ ConflictId(x.conflict) \in ConflictIds
    BY <1>2, ConflictFields
  <1> DEFINE value == IF x.resolution = "keep_current" THEN x.seen ELSE x.conflict.conflicting
             writes == OneCell(x.conflict.row, value)
             expected == OneCell(x.conflict.row, x.seen)
  <1>4. writes \in PartialCells
    <2>1. writes \in [{x.conflict.row} -> Contents]
      BY <1>2, <1>3 DEF OneCell
    <2> QED  BY <1>3, <2>1, PartialCellsAre
  <1>5. expected \in PartialCells
    <2>1. expected \in [{x.conflict.row} -> Contents]
      BY <1>2, <1>3 DEF OneCell
    <2> QED  BY <1>3, <2>1, PartialCellsAre
  <1> HIDE DEF writes, expected
  <1>6. Resolution(x) = [type |-> x.resolution, client |-> x.client, key |-> FreshKey,
                         base |-> x.base, writes |-> writes, checked |-> TRUE,
                         expected |-> expected, change |-> NoChange,
                         about |-> ConflictId(x.conflict)]
    BY DEF Resolution, writes, expected
  <1> QED  BY <1>2, <1>3, <1>4, <1>5, <1>6, Placeholders DEF Requests

\* Committing the resolving operation keeps the invariant,
LEMMA ResolveApplyKeepsInv ==
    ASSUME Inv, NEW x \in resolving, ResolveApply(x)
    PROVE  Inv'
  <1> DEFINE m == Resolution(x)
             y == [x EXCEPT !.phase = "applied", !.base = version + 1]
  <1>1. /\ resolving' = (resolving \ {x}) \cup {y} /\ UNCHANGED resolutions
        /\ CommitCells(m) /\ ~Duplicate(m)
    BY DEF ResolveApply
  <1>2. m \in Requests /\ m.type = x.resolution /\ m.about = ConflictId(x.conflict)
    BY ResolutionType
  <1>3. x \in Resolvers /\ version \in Nat
    BY VersionAssumption DEF Inv, TypeOK
  <1>4. /\ y \in Resolvers /\ y.conflict = x.conflict /\ y.resolution = x.resolution
        /\ y.base - 1 = version
    <2> HIDE DEF m
    <2> DEFINE next == version + 1
    <2>1. next \in Nat /\ next - 1 = version
      BY <1>3
    <2> HIDE DEF next
    <2>2. [x EXCEPT !.phase = "applied", !.base = next] \in Resolvers
      BY <1>3, <2>1 DEF Resolvers
    <2>3. /\ [x EXCEPT !.phase = "applied", !.base = next].conflict = x.conflict
          /\ [x EXCEPT !.phase = "applied", !.base = next].resolution = x.resolution
          /\ [x EXCEPT !.phase = "applied", !.base = next].base = next
      BY <1>3 DEF Resolvers
    <2> QED  BY <2>1, <2>2, <2>3 DEF next
  <1>5. m.about # NoConflict => m.type \in Resolutions
    BY <1>2, <1>3, ResolverFields
  <1> HIDE DEF m, y
  <1>6. /\ version' \in 1..MaxVersion /\ cells' \in [Positions -> Contents]
        /\ conflicts' \subseteq Conflicts /\ version' = version + 1
        /\ \E e \in Entries : e.req = m /\ log' = Append(log, e)
    BY <1>1, <1>2, <1>5, CommitCellsKeeps
  <1>7. PICK e \in Entries : e.req = m /\ log' = Append(log, e)
    BY <1>6
  <1>8. /\ log' \in Seq(Entries)
        /\ \A i \in DOMAIN log : i \in DOMAIN log' /\ log'[i] = log[i]
        /\ version \in DOMAIN log' /\ log'[version] = e
        /\ LogMakesVersions' /\ OnlyResolutionsAreAbout' /\ AppliedOnce'
    BY <1>1, <1>5, <1>6, <1>7, AppendKeepsLog
  <1>9. TypeOK'
    BY <1>1, <1>4, <1>6, <1>8 DEF Inv, TypeOK
  <1>10. ClosedByItsOperation'
    BY <1>1, <1>8 DEF Inv, ClosedByItsOperation, ConflictId
  <1>11. CallsAreSound'
    <2>1. \A z \in resolving' : z # y => z \in resolving /\ z # x
      BY <1>1
    <2>2. \A z \in resolving' : Open(z.conflict)'
      BY <1>1, <1>4, <2>1 DEF Inv, CallsAreSound, Open
    <2>3. \A z, w \in resolving' : z.conflict = w.conflict => z = w
      BY <1>1, <1>4, <2>1 DEF Inv, CallsAreSound
    <2>4. \A z \in resolving' : z.phase = "applied" =>
             /\ z.base - 1 \in DOMAIN log'
             /\ log'[z.base - 1].req.about = ConflictId(z.conflict)
             /\ log'[z.base - 1].req.type = z.resolution
      <3>1. /\ y.base - 1 \in DOMAIN log'
            /\ log'[y.base - 1].req.about = ConflictId(y.conflict)
            /\ log'[y.base - 1].req.type = y.resolution
        BY <1>2, <1>4, <1>7, <1>8
      <3> QED  BY <1>8, <2>1, <3>1 DEF Inv, CallsAreSound
    <2> QED  BY <2>2, <2>3, <2>4 DEF CallsAreSound, ConflictId
  <1> QED  BY <1>8, <1>9, <1>10, <1>11 DEF Inv

\* so does closing the conflict,
LEMMA ResolveFinishKeepsInv ==
    ASSUME Inv, NEW x \in resolving, ResolveFinish(x)
    PROVE  Inv'
  <1>1. x \in Resolvers
    BY DEF Inv, TypeOK
  <1>2. x.conflict \in Conflicts /\ x.resolution \in Resolutions /\ x.base \in Nat
    BY <1>1, ResolverFields
  <1>3. /\ x.base - 1 \in DOMAIN log /\ Open(x.conflict)
        /\ log[x.base - 1].req.about = ConflictId(x.conflict)
        /\ log[x.base - 1].req.type = x.resolution
    BY DEF ResolveFinish, Inv, CallsAreSound
  <1>4. \A y \in resolving' : y.conflict # x.conflict
    BY DEF ResolveFinish, Inv, CallsAreSound
  <1>5. /\ resolutions' = resolutions \cup
              {[conflict |-> x.conflict, resolution |-> x.resolution, op |-> x.base]}
        /\ resolving' \subseteq resolving
        /\ UNCHANGED <<version, cells, log, conflicts>>
    BY DEF ResolveFinish
  <1>6. (x.base - 1) + 1 = x.base
    BY <1>2
  <1>7. resolutions' = resolutions \cup
           {[conflict |-> x.conflict, resolution |-> x.resolution, op |-> (x.base - 1) + 1]}
    BY <1>5, <1>6
  <1> QED  BY <1>2, <1>3, <1>4, <1>5, <1>7, ClosingKeepsInv

\* and so does giving up at any moment.
LEMMA ResolveFailKeepsInv ==
    ASSUME Inv, NEW x \in resolving, ResolveFail(x)
    PROVE  Inv'
  <1>1. resolving' \subseteq resolving /\ UNCHANGED <<version, cells, log, conflicts, resolutions>>
    BY DEF ResolveFail
  <1> QED  BY <1>1 DEF Inv, TypeOK, LogMakesVersions, OnlyResolutionsAreAbout, AppliedOnce,
                       CallsAreSound, ClosedByItsOperation, Open, ConflictId

-----------------------------------------------------------------------------
(***************************************************************************)
(* The theorems                                                            *)
(***************************************************************************)

\* An untouched workbook satisfies the invariant.
LEMMA InitEstablishesInv == Init => Inv
  <1> SUFFICES ASSUME Init PROVE Inv
    OBVIOUS
  <1>1. TypeOK
    BY VersionAssumption DEF Init, TypeOK, Contents
  <1>2. LogMakesVersions /\ OnlyResolutionsAreAbout /\ AppliedOnce
    BY DEF Init, LogMakesVersions, OnlyResolutionsAreAbout, AppliedOnce
  <1>3. CallsAreSound /\ ClosedByItsOperation
    BY DEF Init, CallsAreSound, ClosedByItsOperation
  <1> QED  BY <1>1, <1>2, <1>3 DEF Inv

\* Every step of the write path keeps it.
LEMMA NextKeepsInv ==
    ASSUME Inv, [Next]_vars
    PROVE  Inv'
  <1>1. CASE UNCHANGED vars
    BY <1>1, StutteringKeepsInv
  <1>2. ASSUME NEW client \in Clients, NEW base \in Bases, NEW rows \in Batches,
               NEW writes \in [rows -> Contents], WriteCells(client, base, writes)
        PROVE  Inv'
    BY <1>2, WriteRequest, ApplyCellsKeepsInv
  <1>3. ASSUME NEW client \in Clients, NEW c \in Changes, ChangeStructure(client, c)
        PROVE  Inv'
    BY <1>3, StructureRequest, ApplyStructureKeepsInv
  <1>4. ASSUME NEW client \in Clients, NEW i \in DOMAIN log, UndoOperation(client, i)
        PROVE  Inv'
    BY <1>4, UndoRequest, ApplyCellsKeepsInv
  <1>5. ASSUME NEW i \in DOMAIN log, Redeliver(i)
        PROVE  Inv'
    BY <1>5, RedeliverChangesNothing, StutteringKeepsInv
  <1>6. ASSUME NEW k \in conflicts, NEW client \in Clients, NEW resolution \in Resolutions,
               ResolveBegin(k, client, resolution)
        PROVE  Inv'
    BY <1>6, ResolveBeginKeepsInv
  <1>7. ASSUME NEW k \in conflicts, NEW i \in DOMAIN log, ResolveReplay(k, i)
        PROVE  Inv'
    BY <1>7, ResolveReplayKeepsInv
  <1>8. ASSUME NEW x \in resolving,
               ResolveReadVersion(x) \/ ResolveApply(x) \/ ResolveFinish(x) \/ ResolveFail(x)
        PROVE  Inv'
    BY <1>8, ResolveReadVersionKeepsInv, ResolveApplyKeepsInv, ResolveFinishKeepsInv,
       ResolveFailKeepsInv
  <1> QED  BY <1>1, <1>2, <1>3, <1>4, <1>5, <1>6, <1>7, <1>8 DEF Next

\* The inductive invariant holds in every behaviour.
LEMMA InvAlways == Spec => []Inv
  <1>1. Init => Inv
    BY InitEstablishesInv
  <1>2. Inv /\ [Next]_vars => Inv'
    BY NextKeepsInv
  <1> QED  BY <1>1, <1>2, PTL DEF Spec

\* Every variable of the write path keeps its type: no operation is recorded with
\* a row outside the sheet, and no conflict without a value to offer.
THEOREM TypeOKAlways == Spec => []TypeOK
  <1>1. Inv => TypeOK
    BY DEF Inv
  <1> QED  BY <1>1, InvAlways, PTL

\* However calls of ResolveCellConflict interleave, fail and are repeated, a
\* conflict is closed once and by the operation that was committed for it.
THEOREM ConflictsAreClosedByTheirOperation == Spec => []ClosedByItsOperation
  <1>1. Inv => ClosedByItsOperation
    BY DEF Inv
  <1> QED  BY <1>1, InvAlways, PTL

-----------------------------------------------------------------------------
(***************************************************************************)
(* The log implements OperationLog                                         *)
(***************************************************************************)

\* A new operation with an unused key is the last entry of the log.
Appends ==
    \E e \in Entries :
        ~Duplicate(e.req) /\ log' = Append(log, e) /\ version' = version + 1

\* ApplyCells appends one operation or changes nothing.
LEMMA ApplyCellsAppends ==
    ASSUME Inv, NEW m \in Requests, m.about = NoConflict, ApplyCells(m)
    PROVE  Appends \/ UNCHANGED <<log, version>>
  BY CommitCellsKeeps DEF ApplyCells, Appends, vars

\* So does ApplyStructure,
LEMMA ApplyStructureAppends ==
    ASSUME Inv, NEW m \in Requests, m.change \in Mutations, ApplyStructure(m)
    PROVE  Appends \/ UNCHANGED <<log, version>>
  BY CommitStructureKeeps DEF ApplyStructure, Appends, vars

\* and so does every step.
LEMMA StepAppends ==
    ASSUME Inv, [Next]_vars
    PROVE  Appends \/ UNCHANGED <<log, version>>
  <1>1. CASE UNCHANGED vars
    BY <1>1 DEF vars
  <1>2. ASSUME NEW client \in Clients, NEW base \in Bases, NEW rows \in Batches,
               NEW writes \in [rows -> Contents], WriteCells(client, base, writes)
        PROVE  Appends \/ UNCHANGED <<log, version>>
    BY <1>2, WriteRequest, ApplyCellsAppends
  <1>3. ASSUME NEW client \in Clients, NEW c \in Changes, ChangeStructure(client, c)
        PROVE  Appends \/ UNCHANGED <<log, version>>
    BY <1>3, StructureRequest, ApplyStructureAppends
  <1>4. ASSUME NEW client \in Clients, NEW i \in DOMAIN log, UndoOperation(client, i)
        PROVE  Appends \/ UNCHANGED <<log, version>>
    BY <1>4, UndoRequest, ApplyCellsAppends
  <1>5. ASSUME NEW i \in DOMAIN log, Redeliver(i)
        PROVE  Appends \/ UNCHANGED <<log, version>>
    BY <1>5, RedeliverChangesNothing DEF vars
  <1>6. ASSUME NEW k \in conflicts, NEW client \in Clients, NEW resolution \in Resolutions,
               ResolveBegin(k, client, resolution)
        PROVE  Appends \/ UNCHANGED <<log, version>>
    BY <1>6 DEF ResolveBegin
  <1>7. ASSUME NEW k \in conflicts, NEW i \in DOMAIN log, ResolveReplay(k, i)
        PROVE  Appends \/ UNCHANGED <<log, version>>
    BY <1>7 DEF ResolveReplay
  <1>8. ASSUME NEW x \in resolving, ResolveApply(x)
        PROVE  Appends
    <2>1. Resolution(x) \in Requests /\ Resolution(x).type \in Resolutions
      BY ResolutionType, ResolverFields DEF Inv, TypeOK
    <2>2. CommitCells(Resolution(x)) /\ ~Duplicate(Resolution(x))
      BY <1>8 DEF ResolveApply
    <2> QED  BY <2>1, <2>2, CommitCellsKeeps DEF Appends
  <1>9. ASSUME NEW x \in resolving,
               ResolveReadVersion(x) \/ ResolveFinish(x) \/ ResolveFail(x)
        PROVE  Appends \/ UNCHANGED <<log, version>>
    BY <1>9 DEF ResolveReadVersion, ResolveFinish, ResolveFail
  <1> QED  BY <1>1, <1>2, <1>3, <1>4, <1>5, <1>6, <1>7, <1>8, <1>9 DEF Next

\* Appending under an unused key is a step of OperationLog.
LEMMA AppendIsAbstractStep ==
    ASSUME Inv, Appends
    PROVE  Abstract!Next
  <1>1. PICK e \in Entries :
          ~Duplicate(e.req) /\ log' = Append(log, e) /\ version' = version + 1
    BY DEF Appends
  <1>2. log \in Seq(Entries) /\ Len(log) \in Nat /\ DOMAIN log = 1..Len(log)
    BY DEF Inv, TypeOK
  <1>3. /\ log' \in Seq(Entries) /\ DOMAIN log' = 1..Len(log) + 1
        /\ log'[Len(log) + 1] = e
        /\ \A i \in 1..Len(log) : log'[i] = log[i]
    BY <1>1, <1>2
  <1> DEFINE op(x) == [actor |-> ActorOf[x.req.client], key |-> x.req.key, content |-> x]
             n == Len(log)
  <1>4. Ops = [i \in 1..n |-> op(log[i])]
    BY <1>2 DEF Ops
  <1>5. Ops' = [i \in 1..n + 1 |-> op(log'[i])]
    BY <1>3 DEF Ops
  <1>6. \A i \in 1..n : op(log[i]).actor # op(e).actor \/ op(log[i]).key # op(e).key
    BY <1>1, <1>2 DEF Duplicate
  <1> HIDE DEF op
  <1> DEFINE old == Ops
             new == Ops'
             All == {op(x) : x \in Entries}
  <1>7. old \in Seq(All) /\ Len(old) = n
    <2>1. \A i \in 1..n : op(log[i]) \in All
      BY <1>2
    <2> HIDE DEF All
    <2> QED  BY <1>2, <1>4, <2>1, SeqDef
  <1>8. new \in Seq(All) /\ Len(new) = n + 1
    <2>1. \A i \in 1..n + 1 : op(log'[i]) \in All
      BY <1>3
    <2> HIDE DEF All
    <2> QED  BY <1>2, <1>5, <2>1, SeqDef
  <1>9. /\ \A i \in 1..n : new[i] = op(log[i]) /\ old[i] = op(log[i])
        /\ new[n + 1] = op(e)
    BY <1>2, <1>3, <1>4, <1>5
  <1> HIDE DEF All, old, new
  <1>10. n + 1 - 1 = n /\ n \in Nat
    BY <1>2
  <1>11. SubSeq(new, 1, n) = old
    <2>1. /\ SubSeq(new, 1, n) \in Seq(All) /\ Len(SubSeq(new, 1, n)) = n
          /\ \A i \in 1..n : SubSeq(new, 1, n)[i] = new[i]
      BY <1>8, <1>10
    <2> QED  BY <1>7, <1>9, <2>1, SeqEqual
  <1>12. new # <<>>
    BY <1>8, <1>10
  <1> QED  BY <1>1, <1>6, <1>8, <1>9, <1>10, <1>11, <1>12 DEF Abstract!Next, old, new

\* The write path implements the abstract operation log: whatever is delivered
\* late, twice or in any order, each request of an actor makes at most one version,
\* versions have no gaps and nothing recorded is changed (findDuplicate and the
\* version counter of ApplyCells and ApplyStructure).
THEOREM LogIsAnOperationLog == Spec => ImplementsOperationLog
  <1>1. Init => Abstract!Init
    BY DEF Init, Abstract!Init, Ops
  <1>2. Inv /\ [Next]_vars => [Abstract!Next]_<<Ops, version>>
    <2> SUFFICES ASSUME Inv, [Next]_vars
                 PROVE  Abstract!Next \/ UNCHANGED <<Ops, version>>
      OBVIOUS
    <2>1. CASE Appends
      BY <2>1, AppendIsAbstractStep
    <2>2. CASE UNCHANGED <<log, version>>
      BY <2>2 DEF Ops
    <2> QED  BY <2>1, <2>2, StepAppends
  <1> QED  BY <1>1, <1>2, InvAlways, PTL DEF Spec, ImplementsOperationLog, Abstract!Spec

-----------------------------------------------------------------------------
(***************************************************************************)
(* Following a row through the log                                         *)
(***************************************************************************)

\* Every entry records how its operation arranged the rows.
LayoutsFollow ==
    \A i \in DOMAIN log :
        IF Structural(log[i])
        THEN /\ log[i].req.change \in Mutations
             /\ log[i].layout = Rearranged(Layout(i), log[i].req.change,
                                   [k \in 1..log[i].req.change.count |-> <<i + 1, k>>])
        ELSE log[i].layout = Layout(i)

\* No row stands at two addresses, and rows that were brought in later are new.
RowsAreDistinct ==
    \A v \in 1..version :
        /\ \A p, q \in Positions : Layout(v)[p] = Layout(v)[q] => p = q
        /\ \A p \in Positions : Layout(v)[p][1] \in 1..v

\* What holds at the first version and is passed on holds at all of them.
LEMMA AlongTheLog ==
    ASSUME NEW a \in Nat, NEW b \in Nat, NEW S, a \in S,
           \A v \in a + 1..b : v - 1 \in S => v \in S
    PROVE  \A v \in a..b : v \in S
  <1> SUFFICES ASSUME NEW w \in a..b, w \notin S PROVE FALSE
    OBVIOUS
  <1> DEFINE T == {v \in a..b : v \notin S}
             R == OpToRel(<, Nat)
  <1>1. T \subseteq Nat /\ T # {}
    OBVIOUS
  <1>2. IsWellFoundedOn(R, Nat)
    BY NatLessThanWellFounded
  <1> HIDE DEF T, R
  <1>3. PICK t \in T : \A u \in T : ~(<<u, t>> \in R)
    BY <1>1, <1>2, WFMin
  <1>4. \A u \in T : ~(u < t)
    BY <1>1, <1>3 DEF R, OpToRel
  <1>5. t \in a..b /\ t \notin S /\ t # a
    BY DEF T
  <1>6. t - 1 \in a..b /\ t \in a + 1..b
    BY <1>5
  <1>7. t - 1 \in S
    <2> SUFFICES ASSUME t - 1 \notin S PROVE FALSE
      OBVIOUS
    <2>1. t - 1 \in T
      BY <1>6 DEF T
    <2> QED  BY <1>4, <1>5, <2>1
  <1> QED  BY <1>5, <1>6, <1>7

\* One step of rebasePosition, from version v - 1 to version v.
Moved(q, v) ==
    IF q = Gone \/ ~Structural(log[v - 1]) THEN q
    ELSE TransformPosition(q, log[v - 1].req.change)

\* The entries and versions of the log.
LEMMA LogEntries ==
    ASSUME TypeOK, LogMakesVersions
    PROVE  /\ version \in Nat \ {0} /\ Len(log) = version - 1 /\ Len(log) \in Nat
           /\ DOMAIN log = 1..version - 1
           /\ \A i \in 1..version - 1 : log[i] \in Entries
           /\ \A v \in 2..version : v - 1 \in DOMAIN log /\ v - 1 \in 1..version
  <1>1. version \in Nat \ {0}
    BY VersionAssumption DEF TypeOK
  <1>2. log \in Seq(Entries) /\ Len(log) \in Nat /\ DOMAIN log = 1..Len(log)
    BY DEF TypeOK
  <1>3. Len(log) = version - 1
    BY <1>1, <1>2 DEF LogMakesVersions
  <1> QED  BY <1>1, <1>2, <1>3

\* A step of rebasePosition keeps to the axis.
LEMMA MovedType ==
    ASSUME TypeOK, LogMakesVersions, LayoutsFollow,
           NEW v \in 2..version, NEW q \in Positions \cup {Gone}
    PROVE  Moved(q, v) \in Positions \cup {Gone}
  <1>1. v - 1 \in DOMAIN log
    BY LogEntries
  <1>2. Structural(log[v - 1]) => log[v - 1].req.change \in Mutations
    BY <1>1 DEF LayoutsFollow
  <1> QED  BY <1>2, TransformPositionStaysOnAxis DEF Moved

\* The recursion of Rebase has a solution: the address at every version between.
LEMMA RebaseIs ==
    ASSUME TypeOK, LogMakesVersions, LayoutsFollow,
           NEW base \in 1..version, NEW r \in Positions
    PROVE  \E at \in [base..version -> Positions \cup {Gone}] :
              /\ Rebase(r, base) = at[version]
              /\ at[base] = r
              /\ \A v \in base + 1..version : at[v] = Moved(at[v - 1], v)
  <1> DEFINE P == Positions \cup {Gone}
             Solves(f, n) == /\ f[base] = r
                             /\ \A v \in base + 1..n : f[v] = Moved(f[v - 1], v)
             S == {n \in base..version : \E f \in [base..n -> P] : Solves(f, n)}
  <1>1. base \in Nat /\ version \in Nat /\ 1 <= base /\ base <= version
    BY LogEntries
  <1>2. base \in S
    <2> DEFINE f == [v \in base..base |-> r]
    <2>1. f \in [base..base -> P] /\ Solves(f, base)
      BY <1>1
    <2>2. base \in base..version
      BY <1>1
    <2> QED  BY <2>1, <2>2
  <1>3. ASSUME NEW n \in base + 1..version, n - 1 \in S
        PROVE  n \in S
    <2>1. PICK f \in [base..n - 1 -> P] : Solves(f, n - 1)
      BY <1>3
    <2> DEFINE g == [v \in base..n |-> IF v = n THEN Moved(f[n - 1], n) ELSE f[v]]
    <2>2. n - 1 \in base..n - 1 /\ n \in base..version /\ n \in 2..version
      BY <1>1
    <2>3. Moved(f[n - 1], n) \in P
      BY <2>1, <2>2, MovedType
    <2>4. g \in [base..n -> P]
      BY <2>1, <2>3
    <2>5. Solves(g, n)
      <3>1. g[base] = r
        BY <1>1, <2>1, <2>2
      <3>2. ASSUME NEW v \in base + 1..n
            PROVE  g[v] = Moved(g[v - 1], v)
        <4>1. v - 1 \in base..n /\ v - 1 # n /\ v \in base..n
          BY <1>1, <3>2, <2>2
        <4>2. g[v - 1] = f[v - 1]
          BY <4>1
        <4>3. CASE v = n
          BY <4>1, <4>2, <4>3
        <4>4. CASE v # n
          <5>1. v \in base + 1..n - 1
            BY <1>1, <3>2, <2>2, <4>4
          <5>2. g[v] = f[v]
            BY <4>1, <4>4
          <5> QED  BY <2>1, <4>2, <5>1, <5>2
        <4> QED  BY <4>3, <4>4
      <3> QED  BY <3>1, <3>2
    <2> QED  BY <2>2, <2>4, <2>5
  <1>4. version \in S
    <2> HIDE DEF S
    <2>1. \A v \in base..version : v \in S
      BY <1>1, <1>2, <1>3, AlongTheLog
    <2> QED  BY <1>1, <2>1
  <1>5. PICK f \in [base..version -> P] : Solves(f, version)
    BY <1>4
  <1> DEFINE E(at) == [v \in base..version |->
                         IF v = base THEN r
                         ELSE IF at[v - 1] = Gone \/ ~Structural(log[v - 1]) THEN at[v - 1]
                         ELSE TransformPosition(at[v - 1], log[v - 1].req.change)]
             at == CHOOSE at : at = E(at)
  <1>6. f = E(f)
    <2>1. \A v \in base..version : v = base \/ v \in base + 1..version
      BY <1>1
    <2>2. \A v \in base..version : f[v] = E(f)[v]
      BY <1>5, <2>1 DEF Moved
    <2> QED  BY <1>5, <2>2
  <1>7. at = E(at)
    <2> HIDE DEF E
    <2> QED  BY <1>6
  <1>8. Rebase(r, base) = at[version]
    BY <1>1 DEF Rebase
  <1> HIDE DEF at
  <1>9. at[base] = r
    BY <1>1, <1>7
  <1>10. ASSUME NEW v \in base + 1..version
         PROVE  at[v] = Moved(at[v - 1], v)
    <2>1. v \in base..version /\ v # base
      BY <1>1, <1>10
    <2>2. at[v] = E(at)[v]
      BY <1>7
    <2> HIDE DEF Moved
    <2> QED  BY <2>1, <2>2 DEF Moved
  <1>11. at \in [base..version -> P]
    <2> DEFINE Q == {v \in base..version : at[v] \in P}
    <2>1. base \in Q
      BY <1>1, <1>9
    <2>2. ASSUME NEW v \in base + 1..version, v - 1 \in Q
          PROVE  v \in Q
      <3>1. v \in 2..version /\ v \in base..version
        BY <1>1, <2>2
      <3>2. Moved(at[v - 1], v) \in P
        BY <2>2, <3>1, MovedType
      <3> QED  BY <1>10, <3>1, <3>2
    <2>3. \A v \in base..version : v \in Q
      <3> HIDE DEF Q
      <3> QED  BY <1>1, <2>1, <2>2, AlongTheLog
    <2>4. \A v \in base..version : at[v] \in P
      BY <2>3
    <2> HIDE DEF P
    <2> QED  BY <1>7, <2>4
  <1> QED  BY <1>8, <1>9, <1>10, <1>11

\* The rows of a version, and what the next operation makes of them.
LEMMA LayoutsAre ==
    ASSUME TypeOK, LogMakesVersions, NEW v \in 1..version
    PROVE  Layout(v) \in Axes(RowIds)
  <1>1. version \in Nat
    BY LogEntries
  <1>2. CASE v = 1
    <2>1. \A r \in Positions : <<1, r>> \in RowIds
      BY LimitAssumption DEF RowIds, Positions
    <2> QED  BY <1>2, <2>1 DEF Layout, InitialLayout, Axes
  <1>3. CASE v # 1
    <2>1. v - 1 \in 1..version - 1
      BY <1>1, <1>3
    <2> QED  BY <1>3, <2>1, LogEntries, EntryFields DEF Layout
  <1> QED  BY <1>2, <1>3

\* The rows that a structural change brings in have ids of its version.
LEMMA FreshRows ==
    ASSUME NEW v \in Nat, NEW c \in Mutations
    PROVE  [k \in 1..c.count |-> <<v, k>>] \in Bands(RowIds, c)
  <1>1. c.count \in Int
    BY MutationFields
  <1>2. \A k \in 1..c.count : <<v, k>> \in RowIds
    BY <1>1 DEF RowIds
  <1> QED  BY <1>2 DEF Bands

\* From one version to the next an address follows its row: to where the row now
\* stands, or to Gone when no address holds the row any more.
LEMMA MovedFollows ==
    ASSUME TypeOK, LogMakesVersions, LayoutsFollow, RowsAreDistinct,
           NEW v \in 2..version, NEW q \in Positions \cup {Gone}, NEW row \in RowIds,
           row[1] < v,
           q # Gone => Layout(v - 1)[q] = row,
           q = Gone => \A s \in Positions : Layout(v - 1)[s] # row
    PROVE  /\ Moved(q, v) # Gone => Layout(v)[Moved(q, v)] = row
           /\ Moved(q, v) = Gone => \A s \in Positions : Layout(v)[s] # row
  <1> DEFINE e == log[v - 1]
             c == e.req.change
             rows == Layout(v - 1)
             fresh == [k \in 1..c.count |-> <<v, k>>]
  <1>1. /\ v \in Nat /\ v - 1 \in DOMAIN log /\ v - 1 \in 1..version /\ v # 1
        /\ (v - 1) + 1 = v /\ version \in Nat
    BY LogEntries
  <1>2. Layout(v) = e.layout
    BY <1>1 DEF Layout
  <1>3. CASE ~Structural(e)
    <2>1. Layout(v) = rows
      BY <1>1, <1>2, <1>3 DEF LayoutsFollow
    <2>2. Moved(q, v) = q
      BY <1>3 DEF Moved
    <2> QED  BY <2>1, <2>2
  <1>4. CASE Structural(e)
    <2>1. c \in Mutations /\ Layout(v) = Rearranged(rows, c, fresh)
      BY <1>1, <1>2, <1>4 DEF LayoutsFollow
    <2>2. rows \in Axes(RowIds) /\ fresh \in Bands(RowIds, c)
      BY <1>1, <2>1, LayoutsAre, FreshRows
    <2>3. \A j \in 1..c.count : fresh[j] # row
      BY <1>1
    <2> HIDE DEF fresh, rows, c, e
    <2>4. ASSUME NEW s \in Positions, Layout(v)[s] = row
          PROVE  \E p \in Positions : TransformPosition(p, c) = s /\ rows[p] = row
      <3>1. \/ \E p \in Positions : TransformPosition(p, c) = s /\ Layout(v)[s] = rows[p]
            \/ \E j \in 1..c.count : Layout(v)[s] = fresh[j]
        BY <2>1, <2>2, RearrangedEntry
      <3> QED  BY <2>3, <2>4, <3>1
    <2>5. CASE q = Gone
      <3>1. Moved(q, v) = Gone
        BY <2>5 DEF Moved
      <3>2. \A s \in Positions : Layout(v)[s] # row
        BY <2>4, <2>5 DEF rows
      <3> QED  BY <3>1, <3>2
    <2>6. CASE q # Gone
      <3>1. q \in Positions /\ rows[q] = row
        BY <2>6 DEF rows
      <3>2. Moved(q, v) = TransformPosition(q, c)
        BY <1>4, <2>6 DEF Moved, c, e
      <3>3. TransformPosition(q, c) # Gone => Layout(v)[TransformPosition(q, c)] = row
        BY <2>1, <2>2, <3>1, PositionsFollowRows
      <3>4. ASSUME TransformPosition(q, c) = Gone, NEW s \in Positions, Layout(v)[s] = row
            PROVE  FALSE
        <4>1. PICK p \in Positions : TransformPosition(p, c) = s /\ rows[p] = row
          BY <2>4, <3>4
        <4>2. p = q
          BY <1>1, <3>1, <4>1 DEF RowsAreDistinct, rows
        <4>3. s # Gone
          BY LimitAssumption DEF Positions, Gone
        <4> QED  BY <3>4, <4>1, <4>2, <4>3
      <3> QED  BY <3>2, <3>3, <3>4
    <2> QED  BY <2>5, <2>6
  <1> QED  BY <1>3, <1>4

\* Rebase follows a row from the base of a request to the present.
LEMMA RebaseFollows ==
    ASSUME TypeOK, LogMakesVersions, LayoutsFollow, RowsAreDistinct,
           NEW base \in 1..version, NEW r \in Positions
    PROVE  LET q == Rebase(r, base)
           IN  /\ q \in Positions \cup {Gone}
               /\ q # Gone => Layout(version)[q] = Layout(base)[r]
               /\ q = Gone => \A s \in Positions : Layout(version)[s] # Layout(base)[r]
  <1>1. /\ base \in Nat /\ version \in Nat /\ 1 <= base /\ base <= version
        /\ Layout(base) \in Axes(RowIds)
    BY LogEntries, LayoutsAre
  <1> DEFINE row == Layout(base)[r]
  <1>2. row \in RowIds /\ row[1] \in 1..base
    BY <1>1 DEF Axes, RowsAreDistinct
  <1>3. PICK at \in [base..version -> Positions \cup {Gone}] :
           /\ Rebase(r, base) = at[version] /\ at[base] = r
           /\ \A v \in base + 1..version : at[v] = Moved(at[v - 1], v)
    BY RebaseIs
  <1> DEFINE S == {v \in base..version :
                     /\ at[v] # Gone => Layout(v)[at[v]] = row
                     /\ at[v] = Gone => \A s \in Positions : Layout(v)[s] # row}
  <1>4. base \in S
    <2>1. r # Gone
      BY LimitAssumption DEF Positions, Gone
    <2> QED  BY <1>1, <1>3, <2>1
  <1>5. ASSUME NEW v \in base + 1..version, v - 1 \in S
        PROVE  v \in S
    <2>1. v \in 2..version /\ v \in base..version /\ v - 1 \in base..version
      BY <1>1, <1>5
    <2>2. at[v - 1] \in Positions \cup {Gone} /\ row[1] < v
      BY <1>1, <1>2, <1>3, <2>1
    <2>3. /\ at[v - 1] # Gone => Layout(v - 1)[at[v - 1]] = row
          /\ at[v - 1] = Gone => \A s \in Positions : Layout(v - 1)[s] # row
      BY <1>5
    <2> HIDE DEF row
    <2>4. /\ Moved(at[v - 1], v) # Gone => Layout(v)[Moved(at[v - 1], v)] = row
          /\ Moved(at[v - 1], v) = Gone => \A s \in Positions : Layout(v)[s] # row
      BY <1>2, <2>1, <2>2, <2>3, MovedFollows
    <2>5. at[v] = Moved(at[v - 1], v)
      BY <1>3
    <2> QED  BY <2>1, <2>4, <2>5
  <1>6. \A v \in base..version : v \in S
    <2> HIDE DEF S
    <2> QED  BY <1>1, <1>4, <1>5, AlongTheLog
  <1>7. version \in S /\ version \in base..version
    BY <1>1, <1>6
  <1> QED  BY <1>3, <1>7

\* While the structure is unchanged addresses stay what they are,
LEMMA RebaseStays ==
    ASSUME TypeOK, LogMakesVersions, LayoutsFollow,
           NEW base \in 1..version, NEW r \in Positions, ~StructureBetween(base, version)
    PROVE  Rebase(r, base) = r
  <1>1. base \in Nat /\ version \in Nat /\ 1 <= base /\ base <= version
    BY LogEntries
  <1>2. PICK at \in [base..version -> Positions \cup {Gone}] :
           /\ Rebase(r, base) = at[version] /\ at[base] = r
           /\ \A v \in base + 1..version : at[v] = Moved(at[v - 1], v)
    BY RebaseIs
  <1> DEFINE S == {v \in base..version : at[v] = r}
  <1>3. base \in S
    BY <1>1, <1>2
  <1>4. ASSUME NEW v \in base + 1..version, v - 1 \in S
        PROVE  v \in S
    <2>1. v - 1 \in base..version - 1 /\ v \in base..version
      BY <1>1, <1>4
    <2>2. ~Structural(log[v - 1])
      BY <2>1 DEF StructureBetween
    <2> QED  BY <1>2, <1>4, <2>1, <2>2 DEF Moved
  <1>5. \A v \in base..version : v \in S
    <2> HIDE DEF S
    <2> QED  BY <1>1, <1>3, <1>4, AlongTheLog
  <1> QED  BY <1>1, <1>2, <1>5

\* and so do the rows.
LEMMA LayoutStays ==
    ASSUME TypeOK, LogMakesVersions, LayoutsFollow,
           NEW base \in 1..version, NEW to \in base..version, ~StructureBetween(base, version)
    PROVE  Layout(to) = Layout(base)
  <1>1. base \in Nat /\ version \in Nat /\ 1 <= base /\ base <= version
    BY LogEntries
  <1> DEFINE S == {v \in base..version : Layout(v) = Layout(base)}
  <1>2. base \in S
    BY <1>1
  <1>3. ASSUME NEW v \in base + 1..version, v - 1 \in S
        PROVE  v \in S
    <2>1. v - 1 \in base..version - 1 /\ v \in base..version /\ v # 1 /\ v \in 2..version
      BY <1>1, <1>3
    <2>2. ~Structural(log[v - 1]) /\ v - 1 \in DOMAIN log
      BY <2>1, LogEntries DEF StructureBetween
    <2>3. Layout(v) = Layout(v - 1)
      BY <2>1, <2>2 DEF LayoutsFollow, Layout
    <2> QED  BY <1>3, <2>1, <2>3
  <1>4. \A v \in base..version : v \in S
    <2> HIDE DEF S
    <2> QED  BY <1>1, <1>2, <1>3, AlongTheLog
  <1> QED  BY <1>4

\* A structural change lets no row stand at two addresses.
LEMMA RearrangedDistinct ==
    ASSUME NEW S, NEW rows \in Axes(S), NEW c \in Mutations, NEW fresh \in Bands(S, c),
           \A p, q \in Positions : rows[p] = rows[q] => p = q,
           \A j, k \in 1..c.count : fresh[j] = fresh[k] => j = k,
           \A p \in Positions, k \in 1..c.count : rows[p] # fresh[k],
           NEW s \in Positions, NEW t \in Positions,
           Rearranged(rows, c, fresh)[s] = Rearranged(rows, c, fresh)[t]
    PROVE  s = t
  <1> DEFINE new == Rearranged(rows, c, fresh)
  <1>1. /\ c.index \in Int /\ 1 <= c.index /\ c.count \in Int /\ 1 <= c.count /\ Limit \in Int
        /\ c.index + c.count - 1 <= Limit /\ c.action \in {"insert", "delete", "move"}
        /\ s \in 1..Limit /\ t \in 1..Limit
    BY MutationFields DEF Positions
  <1>2. CASE c.action = "insert"
    <2>1. \A i \in Positions : new[i] = IF i < c.index THEN rows[i]
                        ELSE IF i < c.index + c.count THEN fresh[i - (c.index - 1)]
                        ELSE rows[i - c.count]
      BY <1>2, InsertedRows
    <2> HIDE DEF new
    <2>2. new[s] = new[t]
      BY DEF new
    <2>3. ASSUME NEW i \in Positions
          PROVE  /\ i < c.index => i \in Positions
                 /\ i >= c.index /\ i < c.index + c.count => i - (c.index - 1) \in 1..c.count
                 /\ i >= c.index + c.count => i - c.count \in Positions /\ i - c.count >= c.index
      BY <1>1 DEF Positions
    <2> QED  BY <1>1, <2>1, <2>2, <2>3
  <1>3. CASE c.action = "delete"
    <2>1. \A i \in Positions : new[i] = IF i < c.index THEN rows[i]
                        ELSE IF i <= Limit - c.count THEN rows[i + c.count]
                        ELSE fresh[i - (Limit - c.count)]
      BY <1>3, DeletedRows
    <2> HIDE DEF new
    <2>2. new[s] = new[t]
      BY DEF new
    <2>3. ASSUME NEW i \in Positions
          PROVE  /\ i >= c.index /\ i <= Limit - c.count => i + c.count \in Positions
                 /\ i > Limit - c.count => i - (Limit - c.count) \in 1..c.count
      BY <1>1 DEF Positions
    <2> QED  BY <1>1, <2>1, <2>2, <2>3
  <1>4. CASE c.action = "move"
    <2> DEFINE k == RowsBeforeLanding(c)
               from(i) == IF i <= k THEN (IF i < c.index THEN i ELSE i + c.count)
                          ELSE IF i <= k + c.count THEN c.index + (i - k) - 1
                          ELSE (IF i - c.count < c.index THEN i - c.count ELSE i)
    <2>1. /\ k \in 0..Limit - c.count
          /\ \A i \in Positions : new[i] = rows[from(i)]
      BY <1>4, MovedRows
    <2> HIDE DEF new, k
    <2>2. from(s) \in Positions /\ from(t) \in Positions
      BY <1>1, <2>1 DEF Positions
    <2>3. from(s) = from(t)
      BY <2>1, <2>2 DEF new
    <2> QED  BY <1>1, <2>1, <2>3
  <1> QED  BY <1>1, <1>2, <1>3, <1>4

-----------------------------------------------------------------------------
(***************************************************************************)
(* What the entries, conflicts and calls know of each other                *)
(***************************************************************************)

\* A request speaks of versions and conflicts that exist when it is logged; an undo
\* names an operation.
RequestsLookBack ==
    \A i \in DOMAIN log :
        /\ log[i].req.base <= i /\ log[i].req.about[1] <= i
        /\ log[i].req.type = "undo" => log[i].req.base >= 2

\* Version and row tell the conflicts apart.
ConflictsAreDistinct ==
    /\ \A k \in conflicts : 2 <= k.op /\ k.op <= version
    /\ \A k, l \in conflicts : ConflictId(k) = ConflictId(l) => k = l

\* A call resolves a recorded conflict, restores only what its conflicting write has
\* left in the cell, and reads a version that is not older than the conflict.
CallsHoldTheirConflict ==
    \A x \in resolving :
        /\ x.conflict \in conflicts
        /\ x.resolution = "restore_previous" => x.seen = x.conflict.applied
        /\ x.phase = "ready" => x.conflict.op <= x.base /\ x.base <= version

History ==
    /\ LayoutsFollow
    /\ RowsAreDistinct
    /\ RequestsLookBack
    /\ ConflictsAreDistinct
    /\ CallsHoldTheirConflict

\* The rows that the writes of a request are rebased to.
LEMMA RebasedAt ==
    ASSUME NEW m \in Requests
    PROVE  /\ \A r \in DOMAIN Rebased(m) : r \in Positions /\
                \E p \in DOMAIN m.writes : Rebase(p, m.base) = r /\ Rebased(m)[r] = m.writes[p]
           /\ \A p \in DOMAIN m.writes :
                Rebase(p, m.base) \in Positions => Rebase(p, m.base) \in DOMAIN Rebased(m)
  <1> DEFINE S == {q \in Positions : \E p \in DOMAIN m.writes : Rebase(p, m.base) = q}
             pick(r) == CHOOSE p \in DOMAIN m.writes : Rebase(p, m.base) = r
  <1>1. Rebased(m) = [r \in S |-> m.writes[pick(r)]]
    BY DEF Rebased
  <1>2. \A r \in S : pick(r) \in DOMAIN m.writes /\ Rebase(pick(r), m.base) = r
    OBVIOUS
  <1>3. DOMAIN Rebased(m) = S
    BY <1>1
  <1> HIDE DEF pick
  <1>4. \A r \in S : Rebased(m)[r] = m.writes[pick(r)]
    BY <1>1
  <1> QED  BY <1>2, <1>3, <1>4

\* The transaction of ApplyCells, field by field.
LEMMA CommittedCells ==
    ASSUME Inv, NEW m \in Requests, CommitCells(m)
    PROVE  LET target  == Rebased(m)
               skipped == Skipped(m, target)
               e == log'[version]
           IN  /\ version' = version + 1 /\ m.base <= version
               /\ DOMAIN log' = 1..version /\ \A i \in 1..version - 1 : log'[i] = log[i]
               /\ e.req = m /\ e.layout = Layout(version)
               /\ DOMAIN e.after = DOMAIN target \ skipped
               /\ \A r \in DOMAIN target \ skipped :
                     e.after[r] = target[r] /\ e.before[r] = cells[r]
               /\ conflicts' = conflicts \cup FoundConflicts(m, target, skipped)
  <1> DEFINE target  == Rebased(m)
             skipped == Skipped(m, target)
             written == [r \in DOMAIN target \ skipped |-> target[r]]
             before  == [r \in DOMAIN written |-> cells[r]]
             e == [req |-> m, before |-> before, after |-> written, layout |-> Layout(version)]
  <1>1. /\ log \in Seq(Entries) /\ version \in Nat \ {0} /\ Len(log) = version - 1
        /\ DOMAIN log = 1..version - 1
    BY LogEntries DEF Inv, TypeOK
  <1>2. /\ log' = Append(log, e) /\ version' = version + 1 /\ m.base <= version
        /\ conflicts' = conflicts \cup FoundConflicts(m, target, skipped)
    BY DEF CommitCells
  <1>3. /\ e.req = m /\ e.layout = Layout(version) /\ DOMAIN e.after = DOMAIN target \ skipped
        /\ \A r \in DOMAIN target \ skipped : e.after[r] = target[r] /\ e.before[r] = cells[r]
    OBVIOUS
  <1> HIDE DEF e, target, skipped
  <1>4. /\ DOMAIN log' = 1..version /\ log'[version] = e
        /\ \A i \in 1..version - 1 : log'[i] = log[i]
    BY <1>1, <1>2
  <1> QED  BY <1>2, <1>3, <1>4 DEF target, skipped

\* The transaction of ApplyStructure, field by field.
LEMMA CommittedStructure ==
    ASSUME Inv, NEW m \in Requests, CommitStructure(m)
    PROVE  LET e == log'[version]
           IN  /\ version' = version + 1 /\ m.base = version
               /\ DOMAIN log' = 1..version /\ \A i \in 1..version - 1 : log'[i] = log[i]
               /\ e.req = m /\ DOMAIN e.after = {}
               /\ e.layout = Rearranged(Layout(version), m.change,
                                [k \in 1..m.change.count |-> <<version + 1, k>>])
  <1> DEFINE layout == Rearranged(Layout(version), m.change,
                                [k \in 1..m.change.count |-> <<version + 1, k>>])
             e == [req |-> m, before |-> NoCells, after |-> NoCells, layout |-> layout]
  <1>1. /\ log \in Seq(Entries) /\ version \in Nat \ {0} /\ Len(log) = version - 1
        /\ DOMAIN log = 1..version - 1
    BY LogEntries DEF Inv, TypeOK
  <1>2. /\ log' = Append(log, e) /\ version' = version + 1 /\ m.base = version
    BY DEF CommitStructure
  <1>3. e.req = m /\ e.layout = layout /\ DOMAIN e.after = {}
    BY DEF NoCells
  <1> HIDE DEF e, layout
  <1>4. /\ DOMAIN log' = 1..version /\ log'[version] = e
        /\ \A i \in 1..version - 1 : log'[i] = log[i]
    BY <1>1, <1>2
  <1> QED  BY <1>2, <1>3, <1>4 DEF layout

\* The log grows by one entry; conflicts are kept.
Grows ==
    /\ version' = version + 1
    /\ DOMAIN log' = 1..version /\ \A i \in 1..version - 1 : log'[i] = log[i]
    /\ conflicts \subseteq conflicts'

\* The earlier versions keep their rows.
LEMMA LayoutsAreKept ==
    ASSUME Inv, Grows
    PROVE  /\ \A v \in 1..version : Layout(v)' = Layout(v)
           /\ \A v : v = version + 1 => Layout(v)' = log'[version].layout
           /\ version \in Nat \ {0} /\ DOMAIN log = 1..version - 1
  <1>1. version \in Nat \ {0} /\ DOMAIN log = 1..version - 1
    BY LogEntries DEF Inv
  <1>2. \A v \in 1..version : v # 1 => v - 1 \in 1..version - 1
    BY <1>1
  <1>3. \A v \in 1..version : Layout(v)' = Layout(v)
    BY <1>2 DEF Layout, Grows, InitialLayout
  <1>4. \A v : v = version + 1 => Layout(v)' = log'[version].layout
    BY <1>1 DEF Layout
  <1> QED  BY <1>1, <1>3, <1>4

\* A new entry that records how it arranged the rows keeps them distinct.
LEMMA GrowthKeepsLayouts ==
    ASSUME Inv, History, Grows, log'[version].req \in Requests,
           LET e == log'[version]
           IN  \/ ~Structural(e) /\ e.layout = Layout(version)
               \/ /\ Structural(e) /\ e.req.change \in Mutations
                  /\ e.layout = Rearranged(Layout(version), e.req.change,
                                   [k \in 1..e.req.change.count |-> <<version + 1, k>>])
    PROVE  LayoutsFollow' /\ RowsAreDistinct'
  <1> DEFINE e == log'[version]
             c == e.req.change
             fresh == [k \in 1..c.count |-> <<version + 1, k>>]
             rows == Layout(version)
  <1>1. /\ \A v \in 1..version : Layout(v)' = Layout(v)
        /\ \A v : v = version + 1 => Layout(v)' = e.layout
        /\ version \in Nat \ {0} /\ DOMAIN log = 1..version - 1
    BY LayoutsAreKept
  <1>2. LayoutsFollow'
    <2>1. ASSUME NEW i \in 1..version - 1
          PROVE  log'[i] = log[i] /\ i \in DOMAIN log /\ Layout(i)' = Layout(i)
      BY <1>1 DEF Grows
    <2>2. \A i \in DOMAIN log' : i = version \/ i \in 1..version - 1
      BY <1>1 DEF Grows
    <2>3. \A i : i = version => Layout(i)' = Layout(version)
      BY <1>1
    <2>4. ASSUME NEW i \in 1..version - 1
          PROVE  IF Structural(log'[i])
                 THEN /\ log'[i].req.change \in Mutations
                      /\ log'[i].layout = Rearranged(Layout(i)', log'[i].req.change,
                                   [k \in 1..log'[i].req.change.count |-> <<i + 1, k>>])
                 ELSE log'[i].layout = Layout(i)'
      BY <2>1 DEF LayoutsFollow, History, Structural
    <2> QED  BY <2>2, <2>3, <2>4 DEF LayoutsFollow, Structural
  <1>3. /\ rows \in Axes(RowIds)
        /\ \A p, q \in Positions : rows[p] = rows[q] => p = q
        /\ \A p \in Positions : rows[p][1] \in 1..version
    BY <1>1, LayoutsAre DEF History, RowsAreDistinct, Inv
  <1>4. /\ \A p, q \in Positions : e.layout[p] = e.layout[q] => p = q
        /\ \A p \in Positions : e.layout[p][1] \in 1..version + 1
    <2>1. CASE ~Structural(e) /\ e.layout = rows
      BY <1>1, <1>3, <2>1
    <2>2. CASE /\ c \in Mutations
               /\ e.layout = Rearranged(rows, c, fresh)
      <3>1. fresh \in Bands(RowIds, c)
        <4>1. version + 1 \in Nat
          BY <1>1
        <4> HIDE DEF c
        <4> QED  BY <2>2, <4>1, FreshRows
      <3>2. /\ \A j, k \in 1..c.count : fresh[j] = fresh[k] => j = k
            /\ \A k \in 1..c.count : fresh[k][1] = version + 1
        OBVIOUS
      <3> HIDE DEF fresh, rows, c, e
      <3>3. \A p \in Positions, k \in 1..c.count : rows[p] # fresh[k]
        BY <1>1, <1>3, <3>2
      <3>4. \A p, q \in Positions : e.layout[p] = e.layout[q] => p = q
        BY <1>3, <2>2, <3>1, <3>2, <3>3, RearrangedDistinct
      <3>5. ASSUME NEW s \in Positions
            PROVE  e.layout[s][1] \in 1..version + 1
        <4>1. \/ \E p \in Positions : e.layout[s] = rows[p]
              \/ \E j \in 1..c.count : e.layout[s] = fresh[j]
          BY <1>3, <2>2, <3>1, RearrangedEntry
        <4> QED  BY <1>1, <1>3, <3>2, <4>1
      <3> QED  BY <3>4, <3>5
    <2> QED  BY <2>1, <2>2
  <1>5. RowsAreDistinct'
    <2>1. \A v \in 1..version' : v = version + 1 \/ v \in 1..version
      BY <1>1 DEF Grows
    <2> HIDE DEF e
    <2>2. ASSUME NEW v \in 1..version
          PROVE  /\ \A p, q \in Positions : Layout(v)'[p] = Layout(v)'[q] => p = q
                 /\ \A p \in Positions : Layout(v)'[p][1] \in 1..v
      BY <1>1 DEF RowsAreDistinct, History
    <2>3. ASSUME NEW v, v = version + 1
          PROVE  /\ \A p, q \in Positions : Layout(v)'[p] = Layout(v)'[q] => p = q
                 /\ \A p \in Positions : Layout(v)'[p][1] \in 1..v
      BY <1>1, <1>4, <2>3
    <2> QED  BY <2>1, <2>2, <2>3 DEF RowsAreDistinct
  <1> QED  BY <1>2, <1>5

-----------------------------------------------------------------------------
(***************************************************************************)
(* The properties, entry by entry                                          *)
(***************************************************************************)

\* LandsWhereMeant for entry i,
LandsAt(i) ==
    LET m == log[i].req
    IN  m.type \in {"write", "undo"} /\ m.base >= 1 =>
          /\ \A r \in DOMAIN log[i].after : \E p \in DOMAIN m.writes :
                RowAt(m.base, p) = RowAt(i, r) /\ log[i].after[r] = m.writes[p]
          /\ \A p \in DOMAIN m.writes, r \in Positions :
                RowAt(m.base, p) = RowAt(i, r) => r \in DOMAIN log[i].after \/ Reported(i, r)

\* OverwriteIsReported,
ReportsAt(i) ==
    \A r \in DOMAIN log[i].after : Overwrites(i, r) /\ ~OwnStructureSince(i) => Reported(i, r)

\* UndoIsExact,
UndoesAt(i) ==
    LET t == log[i].req.base - 1
    IN  log[i].req.type = "undo" /\ ~StructureBetween(t + 1, i) =>
          \A r \in DOMAIN log[i].after :
             log[i].before[r] = log[t].after[r] /\ log[i].after[r] = log[t].before[r]

\* and RestoreReplacesTheConflictingWrite.
RestoresAt(i) ==
    \A k \in conflicts :
        /\ log[i].req.type = "restore_previous"
        /\ log[i].req.about = ConflictId(k)
        /\ ~StructureBetween(k.op, i)
        => log[i].before[k.row] = k.applied /\ log[i].after[k.row] = k.conflicting

Kept(i) == LandsAt(i) /\ ReportsAt(i) /\ UndoesAt(i) /\ RestoresAt(i)

\* The requests in the log and their bases.
LEMMA LoggedRequests ==
    ASSUME Inv, History, NEW i \in 1..version - 1
    PROVE  /\ i \in DOMAIN log /\ log[i] \in Entries /\ log[i].req \in Requests
           /\ i \in Nat /\ version \in Nat /\ log[i].req.base \in Nat
           /\ log[i].req.base <= i /\ log[i].req.about[1] <= i
           /\ log[i].req.type = "undo" => log[i].req.base >= 2
           /\ DOMAIN log[i].after \subseteq Positions /\ DOMAIN log[i].before \subseteq Positions
           /\ DOMAIN log[i].req.writes \subseteq Positions
  <1>1. i \in DOMAIN log /\ log[i] \in Entries /\ i \in Nat /\ version \in Nat
    BY LogEntries DEF Inv
  <1>2. log[i].req \in Requests /\ log[i].after \in PartialCells /\ log[i].before \in PartialCells
    BY <1>1, EntryFields
  <1>3. log[i].req.base \in Nat /\ log[i].req.writes \in PartialCells
    BY <1>2, RequestFields
  <1>4. /\ log[i].req.base <= i /\ log[i].req.about[1] <= i
        /\ log[i].req.type = "undo" => log[i].req.base >= 2
    BY <1>1 DEF History, RequestsLookBack
  <1> QED  BY <1>1, <1>2, <1>3, <1>4, PartialCellsAt

\* What holds of an entry holds of it for ever.
LEMMA GrowthKeepsEntries ==
    ASSUME Inv, History, Grows, NEW i \in 1..version - 1, Kept(i),
           \A k \in conflicts' \ conflicts : k.op = version + 1
    PROVE  Kept(i)'
  <1> DEFINE m == log[i].req
  <1>1. /\ \A v \in 1..version : Layout(v)' = Layout(v)
        /\ version \in Nat \ {0} /\ DOMAIN log = 1..version - 1
    BY LayoutsAreKept
  <1>2. /\ i \in Nat /\ m.base \in Nat /\ m.base <= i /\ m.about[1] <= i
        /\ m.type = "undo" => m.base >= 2
    BY LoggedRequests
  <1>3. log'[i] = log[i] /\ conflicts \subseteq conflicts'
    BY DEF Grows
  <1>4. \A r : Reported(i, r) => Reported(i, r)'
    BY <1>3 DEF Reported
  <1>5. \A j \in 1..i : j \in 1..version - 1 /\ log'[j] = log[j]
    BY <1>1, <1>2 DEF Grows
  <1>6. \A v \in 1..i : \A r : RowAt(v, r)' = RowAt(v, r)
    <2>1. \A v \in 1..i : v \in 1..version
      BY <1>1, <1>2
    <2> QED  BY <1>1, <2>1 DEF RowAt
  <1>7. i \in 1..i /\ (m.base >= 1 => m.base \in 1..i)
    BY <1>1, <1>2
  <1> HIDE DEF m
  <1>8. LandsAt(i)'
    <2>1. LandsAt(i)
      BY DEF Kept
    <2> SUFFICES ASSUME m.type \in {"write", "undo"}, m.base >= 1
                 PROVE  /\ \A r \in DOMAIN log[i].after : \E p \in DOMAIN m.writes :
                              RowAt(m.base, p) = RowAt(i, r) /\ log[i].after[r] = m.writes[p]
                        /\ \A p \in DOMAIN m.writes, r \in Positions :
                              RowAt(m.base, p) = RowAt(i, r) =>
                                 r \in DOMAIN log[i].after \/ Reported(i, r)'
      <3>1. \A v : v = m.base /\ m.base >= 1 => \A p : RowAt(v, p)' = RowAt(v, p)
        BY <1>6, <1>7
      <3>2. \A p : RowAt(i, p)' = RowAt(i, p)
        BY <1>6, <1>7
      <3> QED  BY <1>3, <3>1, <3>2 DEF LandsAt, m
    <2> QED  BY <1>4, <2>1 DEF LandsAt, m
  <1>9. ReportsAt(i)'
    <2> SUFFICES ASSUME NEW r \in DOMAIN log[i].after, Overwrites(i, r)', ~OwnStructureSince(i)'
                 PROVE  Reported(i, r)
      BY <1>3, <1>4 DEF ReportsAt
    <2>1. m.type = "write" /\ m.base >= 1
      BY <1>3 DEF Overwrites, m
    <2>2. \A j \in m.base..i - 1 : /\ j \in 1..i /\ j + 1 \in 1..i /\ log'[j] = log[j]
      BY <1>2, <1>5, <2>1
    <2>3. Overwrites(i, r)
      <3>1. PICK j \in m.base..i - 1 :
               /\ log'[j].req.client # m.client
               /\ \E p \in DOMAIN log'[j].after : RowAt(j + 1, p)' = RowAt(i, r)'
        BY <1>3 DEF Overwrites, m
      <3>2. /\ log[j].req.client # m.client
            /\ \E p \in DOMAIN log[j].after : RowAt(j + 1, p) = RowAt(i, r)
        BY <1>6, <1>7, <2>2, <3>1
      <3> QED  BY <2>1, <3>2 DEF Overwrites, m
    <2>4. ~OwnStructureSince(i)
      BY <1>3, <2>2 DEF OwnStructureSince, Structural, m
    <2> QED  BY <2>3, <2>4 DEF Kept, ReportsAt
  <1>10. UndoesAt(i)'
    <2> SUFFICES ASSUME m.type = "undo", ~StructureBetween(m.base - 1 + 1, i)',
                        NEW r \in DOMAIN log[i].after
                 PROVE  /\ log[i].before[r] = log'[m.base - 1].after[r]
                        /\ log[i].after[r] = log'[m.base - 1].before[r]
      BY <1>3 DEF UndoesAt, m
    <2>1. m.base - 1 \in 1..i /\ m.base - 1 + 1 = m.base
      BY <1>2
    <2>2. \A j \in m.base - 1 + 1..i - 1 : log'[j] = log[j]
      BY <1>2, <1>5
    <2>3. ~StructureBetween(m.base - 1 + 1, i)
      BY <1>3, <2>2 DEF StructureBetween, Structural, m
    <2> QED  BY <1>5, <2>1, <2>3 DEF Kept, UndoesAt, m
  <1>11. RestoresAt(i)'
    <2> SUFFICES ASSUME NEW k \in conflicts', m.type = "restore_previous",
                        m.about = ConflictId(k), ~StructureBetween(k.op, i)'
                 PROVE  log[i].before[k.row] = k.applied /\ log[i].after[k.row] = k.conflicting
      BY <1>3 DEF RestoresAt, m, ConflictId
    <2>1. k.op <= i
      BY <1>2 DEF ConflictId
    <2>2. k \in conflicts
      BY <1>1, <1>2, <2>1
    <2>3. k.op \in Nat /\ 2 <= k.op
      BY <2>2, ConflictFields DEF History, ConflictsAreDistinct, Inv, TypeOK
    <2>4. \A j \in k.op..i - 1 : log'[j] = log[j]
      BY <1>2, <1>5, <2>3
    <2>5. ~StructureBetween(k.op, i)
      BY <2>4 DEF StructureBetween, Structural
    <2> QED  BY <2>2, <2>5 DEF Kept, RestoresAt, m
  <1> QED  BY <1>8, <1>9, <1>10, <1>11 DEF Kept

\* A conflict found by an operation is reported under the operation's version.
LEMMA FoundIsReported ==
    ASSUME Inv, NEW m \in Requests, CommitCells(m), NEW n, n = version,
           NEW r \in IF m.checked THEN Skipped(m, Rebased(m)) ELSE ConflictRows(m, Rebased(m))
    PROVE  Reported(n, r)'
  <1> DEFINE skipped == Skipped(m, Rebased(m))
             k == [op |-> version + 1, row |-> r, applied |-> Rebased(m)[r],
                   conflicting |-> IF m.checked THEN cells[r] ELSE Conflicting(r, m)]
  <1>1. k \in FoundConflicts(m, Rebased(m), skipped)
    BY DEF FoundConflicts
  <1>2. k.op = n + 1 /\ k.row = r
    OBVIOUS
  <1> HIDE DEF k
  <1>3. k \in conflicts'
    BY <1>1, CommittedCells
  <1> QED  BY <1>2, <1>3 DEF Reported

\* What an operation leaves behind in the log.
LEMMA NewEntryGrows ==
    ASSUME Inv, NEW m \in Requests, CommitCells(m)
    PROVE  Grows /\ \A k \in conflicts' \ conflicts : k.op = version + 1
  <1>1. conflicts' = conflicts \cup FoundConflicts(m, Rebased(m), Skipped(m, Rebased(m)))
    BY CommittedCells
  <1>2. \A k \in FoundConflicts(m, Rebased(m), Skipped(m, Rebased(m))) : k.op = version + 1
    BY DEF FoundConflicts
  <1> QED  BY <1>1, <1>2, CommittedCells DEF Grows

\* A new operation lands where it was meant to.
LEMMA NewEntryLands ==
    ASSUME Inv, History, NEW m \in Requests, CommitCells(m), NEW n, n = version
    PROVE  LandsAt(n)'
  <1> DEFINE target  == Rebased(m)
             skipped == Skipped(m, target)
             after   == log'[n].after
  <1>1. /\ log'[n].req = m /\ m.base <= version
        /\ DOMAIN after = DOMAIN target \ skipped
        /\ \A r \in DOMAIN target \ skipped : after[r] = target[r]
    BY CommittedCells
  <1>2. \A v \in 1..version : Layout(v)' = Layout(v)
    BY NewEntryGrows, LayoutsAreKept
  <1>3. version \in Nat \ {0} /\ m.base \in Nat /\ DOMAIN m.writes \subseteq Positions
    BY LogEntries, RequestFields, PartialCellsAt DEF Inv
  <1> SUFFICES ASSUME m.base >= 1
               PROVE  /\ \A r \in DOMAIN after : \E p \in DOMAIN m.writes :
                            Layout(m.base)[p] = Layout(n)[r] /\ after[r] = m.writes[p]
                      /\ \A p \in DOMAIN m.writes, r \in Positions :
                            Layout(m.base)[p] = Layout(n)[r] => r \in DOMAIN after \/ Reported(n, r)'
    <2>1. \A v : v = m.base /\ m.base >= 1 => Layout(v)' = Layout(v)
      BY <1>1, <1>2, <1>3
    <2>2. Layout(n)' = Layout(n)
      BY <1>2, <1>3
    <2> HIDE DEF after
    <2> QED  BY <1>1, <2>1, <2>2 DEF LandsAt, RowAt, after
  <1>4. m.base \in 1..version
    BY <1>1, <1>3
  <1>5. ASSUME NEW p \in DOMAIN m.writes
        PROVE  LET q == Rebase(p, m.base)
               IN  /\ q \in Positions \cup {Gone}
                   /\ q # Gone => Layout(n)[q] = Layout(m.base)[p]
                   /\ q = Gone => \A s \in Positions : Layout(n)[s] # Layout(m.base)[p]
    BY <1>3, <1>4, RebaseFollows DEF Inv, History
  <1>6. \A r \in Positions : r # Gone
    BY LimitAssumption DEF Positions, Gone
  <1>7. ASSUME NEW r \in DOMAIN after
        PROVE  \E p \in DOMAIN m.writes :
                  Layout(m.base)[p] = Layout(n)[r] /\ after[r] = m.writes[p]
    <2>1. r \in DOMAIN target /\ after[r] = target[r]
      BY <1>1, <1>7
    <2>2. PICK p \in DOMAIN m.writes : Rebase(p, m.base) = r /\ target[r] = m.writes[p]
      BY <2>1, RebasedAt
    <2>3. r \in Positions
      BY <2>1, RebasedAt
    <2> QED  BY <1>5, <1>6, <2>1, <2>2, <2>3
  <1>8. ASSUME NEW p \in DOMAIN m.writes, NEW r \in Positions,
               Layout(m.base)[p] = Layout(n)[r], r \notin DOMAIN after
        PROVE  Reported(n, r)'
    <2> DEFINE q == Rebase(p, m.base)
    <2>1. q # Gone /\ q \in Positions /\ Layout(n)[q] = Layout(n)[r]
      BY <1>5, <1>8
    <2>2. q = r
      BY <1>3, <2>1 DEF History, RowsAreDistinct
    <2>3. r \in DOMAIN target
      BY <2>1, <2>2, RebasedAt
    <2>4. r \in skipped
      BY <1>1, <1>8, <2>3
    <2>5. m.checked
      BY <2>4 DEF Skipped
    <2> QED  BY <2>4, <2>5, FoundIsReported
  <1> QED  BY <1>7, <1>8

\* A new write reports what it overwrites.
LEMMA NewEntryReports ==
    ASSUME Inv, History, NEW m \in Requests, CommitCells(m), NEW n, n = version,
           m.type = "write" => ~m.checked
    PROVE  ReportsAt(n)'
  <1> DEFINE target  == Rebased(m)
             skipped == Skipped(m, target)
             after   == log'[n].after
  <1>1. /\ log'[n].req = m /\ m.base <= version
        /\ DOMAIN after = DOMAIN target \ skipped
        /\ \A i \in 1..version - 1 : log'[i] = log[i]
    BY CommittedCells
  <1>2. \A v \in 1..version : Layout(v)' = Layout(v)
    BY NewEntryGrows, LayoutsAreKept
  <1>3. version \in Nat \ {0} /\ m.base \in Nat /\ DOMAIN log = 1..version - 1
    BY LogEntries, RequestFields DEF Inv
  <1> SUFFICES ASSUME NEW r \in DOMAIN after, Overwrites(n, r)', ~OwnStructureSince(n)'
               PROVE  Reported(n, r)'
    BY DEF ReportsAt
  <1>4. m.type = "write" /\ m.base >= 1 /\ m.base \in 1..version /\ ~m.checked
    BY <1>1, <1>3 DEF Overwrites
  <1>5. r \in DOMAIN target /\ r \in Positions
    BY <1>1, RebasedAt
  <1>6. \A j \in m.base..n - 1 : /\ j \in 1..version - 1 /\ log'[j] = log[j]
                                 /\ j + 1 \in 1..version /\ j \in DOMAIN log
                                 /\ j >= m.base
    BY <1>1, <1>3, <1>4
  <1>7. PICK j \in m.base..n - 1 :
           /\ log[j].req.client # m.client
           /\ \E p \in DOMAIN log[j].after : Layout(j + 1)[p] = Layout(n)[r]
    <2>1. PICK j \in m.base..n - 1 :
             /\ log'[j].req.client # m.client
             /\ \E p \in DOMAIN log'[j].after : Layout(j + 1)'[p] = Layout(n)'[r]
      BY <1>1 DEF Overwrites, RowAt
    <2>2. Layout(j + 1)' = Layout(j + 1)
      BY <1>2, <1>6
    <2>3. Layout(n)' = Layout(n)
      BY <1>2, <1>3
    <2> QED  BY <1>6, <2>1, <2>2, <2>3
  <1>8. r \in ConflictRows(m, target)
    <2>1. CASE StructureBetween(m.base, version)
      <3>1. PICK s \in m.base..version - 1 : Structural(log[s])
        BY <2>1 DEF StructureBetween
      <3>2. s \in m.base..n - 1
        OBVIOUS
      <3>3. log[s].req.client # m.client
        BY <1>1, <1>6, <3>1, <3>2 DEF OwnStructureSince, Structural
      <3>4. s \in ForeignSince(m)
        BY <1>4, <1>6, <3>2, <3>3 DEF ForeignSince, Foreign
      <3> QED  BY <1>5, <3>1, <3>4 DEF ConflictRows
    <2>2. CASE ~StructureBetween(m.base, version)
      <3>1. ~Structural(log[j])
        BY <2>2 DEF StructureBetween
      <3>2. j \in ForeignSince(m)
        BY <1>4, <1>6, <1>7 DEF ForeignSince, Foreign
      <3>3. j + 1 \in m.base..version /\ version \in m.base..version
        BY <1>3, <1>4
      <3>4. Layout(j + 1) = Layout(version)
        <4>1. Layout(j + 1) = Layout(m.base)
          BY <1>4, <2>2, <3>3, LayoutStays DEF Inv, History
        <4>2. Layout(version) = Layout(m.base)
          BY <1>4, <2>2, <3>3, LayoutStays DEF Inv, History
        <4> QED  BY <4>1, <4>2
      <3>5. PICK p \in DOMAIN log[j].after : Layout(version)[p] = Layout(version)[r]
        BY <1>7, <3>4
      <3>6. p \in Positions
        BY <1>6, LoggedRequests
      <3>7. p = r
        BY <1>3, <1>5, <3>5, <3>6 DEF History, RowsAreDistinct
      <3>8. j \in WritersOf(r, m)
        BY <3>1, <3>2, <3>5, <3>7 DEF WritersOf
      <3> QED  BY <1>5, <3>8 DEF ConflictRows
    <2> QED  BY <2>1, <2>2
  <1> QED  BY <1>4, <1>8, FoundIsReported

\* The request of an undo repeats what its operation found and what it wrote.
UndoNames(m) ==
    LET t == m.base - 1
    IN  /\ m.checked /\ t \in DOMAIN log
        /\ m.writes = log[t].before /\ m.expected = log[t].after

\* A new undo puts back what its operation replaced.
LEMMA NewEntryUndoes ==
    ASSUME Inv, History, NEW m \in Requests, CommitCells(m), NEW n, n = version,
           m.type = "undo" => UndoNames(m)
    PROVE  UndoesAt(n)'
  <1> DEFINE target  == Rebased(m)
             skipped == Skipped(m, target)
             e == log'[n]
             t == m.base - 1
  <1>1. /\ e.req = m /\ m.base <= version
        /\ DOMAIN e.after = DOMAIN target \ skipped
        /\ \A r \in DOMAIN target \ skipped : e.after[r] = target[r] /\ e.before[r] = cells[r]
        /\ \A i \in 1..version - 1 : log'[i] = log[i]
    BY CommittedCells
  <1>2. version \in Nat \ {0} /\ m.base \in Nat /\ DOMAIN log = 1..version - 1
    BY LogEntries, RequestFields DEF Inv
  <1> HIDE DEF e
  <1> SUFFICES ASSUME m.type = "undo", ~StructureBetween(t + 1, n)', NEW r \in DOMAIN e.after
               PROVE  e.before[r] = log'[t].after[r] /\ e.after[r] = log'[t].before[r]
    BY <1>1 DEF UndoesAt, e
  <1>3. /\ m.checked /\ t \in 1..version - 1 /\ m.writes = log[t].before
        /\ m.expected = log[t].after /\ t + 1 = m.base /\ m.base \in 1..version
    BY <1>2 DEF UndoNames
  <1>4. log'[t] = log[t]
    BY <1>1, <1>3
  <1>5. ~StructureBetween(m.base, version)
    <2>1. \A j \in m.base..version - 1 : log'[j] = log[j] /\ j \in t + 1..n - 1
      BY <1>1, <1>2, <1>3
    <2> QED  BY <2>1 DEF StructureBetween, Structural
  <1>6. r \in DOMAIN target /\ r \notin skipped /\ r \in Positions
    BY <1>1, RebasedAt
  <1>7. PICK p \in DOMAIN m.writes : Rebase(p, m.base) = r /\ target[r] = m.writes[p]
    BY <1>6, RebasedAt
  <1>8. p = r
    <2>1. p \in Positions
      BY RequestFields, PartialCellsAt
    <2> QED  BY <1>3, <1>5, <1>7, <2>1, RebaseStays DEF Inv, History
  <1>9. cells[r] = m.expected[r]
    BY <1>3, <1>6 DEF Skipped
  <1> QED  BY <1>1, <1>3, <1>4, <1>6, <1>7, <1>8, <1>9

\* A new restoration replaces what the conflicting write had put there.
LEMMA NewEntryRestores ==
    ASSUME Inv, History, NEW m \in Requests, CommitCells(m), NEW n, n = version,
           m.type = "restore_previous" =>
              \E x \in resolving : x.phase = "ready" /\ m = Resolution(x)
    PROVE  RestoresAt(n)'
  <1> DEFINE target  == Rebased(m)
             skipped == Skipped(m, target)
             e == log'[n]
  <1>1. /\ e.req = m /\ m.base <= version
        /\ DOMAIN e.after = DOMAIN target \ skipped
        /\ \A r \in DOMAIN target \ skipped : e.after[r] = target[r] /\ e.before[r] = cells[r]
        /\ \A i \in 1..version - 1 : log'[i] = log[i]
    BY CommittedCells
  <1>2. version \in Nat \ {0} /\ m.base \in Nat
    BY LogEntries, RequestFields DEF Inv
  <1> HIDE DEF e
  <1> SUFFICES ASSUME NEW k \in conflicts', m.type = "restore_previous",
                      m.about = ConflictId(k), ~StructureBetween(k.op, n)'
               PROVE  e.before[k.row] = k.applied /\ e.after[k.row] = k.conflicting
    BY <1>1 DEF RestoresAt, e, ConflictId
  <1>3. PICK x \in resolving : x.phase = "ready" /\ m = Resolution(x)
    OBVIOUS
  <1>4. /\ x.conflict \in conflicts /\ x.conflict \in Conflicts
        /\ x.conflict.op \in Nat /\ x.conflict.row \in Positions
    BY ConflictFields DEF History, CallsHoldTheirConflict, Inv, TypeOK
  <1>5. /\ x.resolution = "restore_previous" /\ x.seen = x.conflict.applied
        /\ m.base = x.base /\ m.checked /\ m.about = ConflictId(x.conflict)
        /\ m.writes = OneCell(x.conflict.row, x.conflict.conflicting)
        /\ m.expected = OneCell(x.conflict.row, x.seen)
        /\ x.conflict.op <= x.base /\ 2 <= x.conflict.op /\ x.conflict.op <= version
    BY <1>3, <1>4 DEF Resolution, History, CallsHoldTheirConflict, ConflictsAreDistinct
  <1>6. k = x.conflict
    <2>1. k.op = x.conflict.op
      BY <1>5 DEF ConflictId
    <2>2. k \in conflicts
      BY <1>2, <1>4, <1>5, <2>1, NewEntryGrows
    <2> QED  BY <1>4, <1>5, <2>2 DEF History, ConflictsAreDistinct
  <1> DEFINE row == x.conflict.row
  <1>7. DOMAIN m.writes = {row} /\ m.writes[row] = k.conflicting /\ m.expected[row] = k.applied
    BY <1>5, <1>6 DEF OneCell
  <1>8. ~StructureBetween(m.base, version) /\ m.base \in 1..version
    <2>1. \A j \in m.base..version - 1 : log'[j] = log[j] /\ j \in k.op..n - 1
      BY <1>1, <1>2, <1>4, <1>5, <1>6
    <2>2. m.base \in 1..version
      BY <1>1, <1>2, <1>4, <1>5
    <2> QED  BY <2>1, <2>2 DEF StructureBetween, Structural
  <1>9. Rebase(row, m.base) = row
    BY <1>4, <1>8, RebaseStays DEF Inv, History
  <1>10. row \in DOMAIN target /\ target[row] = k.conflicting
    <2>1. row \in DOMAIN target
      BY <1>4, <1>7, <1>9, RebasedAt
    <2>2. PICK p \in DOMAIN m.writes : Rebase(p, m.base) = row /\ target[row] = m.writes[p]
      BY <2>1, RebasedAt
    <2> QED  BY <1>7, <2>1, <2>2
  <1>11. skipped = {}
    BY <1>3 DEF CommitCells, Resolutions
  <1>12. cells[row] = k.applied
    BY <1>5, <1>7, <1>10, <1>11 DEF Skipped
  <1> QED  BY <1>1, <1>6, <1>10, <1>11, <1>12

-----------------------------------------------------------------------------
(***************************************************************************)
(* Every step keeps the history                                            *)
(***************************************************************************)

\* The parts of the history that an operation may disturb.
Kinds(m) ==
    /\ m.type # "structure"
    /\ m.about[1] <= version
    /\ m.type = "write" => ~m.checked
    /\ m.type = "undo" => m.base >= 2 /\ UndoNames(m)
    /\ m.type = "restore_previous" => \E x \in resolving : x.phase = "ready" /\ m = Resolution(x)

AllKept == \A i \in DOMAIN log : Kept(i)

\* An entry that looks back, and conflicts of its own version, keep the rest.
LEMMA GrowthKeepsHistory ==
    ASSUME Inv, History, AllKept, Grows,
           LET m == log'[version].req
           IN  /\ m.base <= version /\ m.about[1] <= version
               /\ m.type = "undo" => m.base >= 2,
           \A k \in conflicts' \ conflicts : k.op = version + 1,
           \A k, l \in conflicts' \ conflicts : k.row = l.row => k = l
    PROVE  /\ RequestsLookBack' /\ ConflictsAreDistinct'
           /\ \A i \in 1..version - 1 : Kept(i)'
           /\ UNCHANGED resolving => CallsHoldTheirConflict'
  <1>1. version \in Nat \ {0} /\ DOMAIN log = 1..version - 1
    BY LogEntries DEF Inv
  <1>2. RequestsLookBack'
    <2>1. \A i \in DOMAIN log' : i = version \/ i \in 1..version - 1
      BY <1>1 DEF Grows
    <2> QED  BY <1>1, <2>1 DEF RequestsLookBack, History, Grows
  <1>3. ConflictsAreDistinct'
    <2>1. \A k \in conflicts : k.op \in Nat /\ 2 <= k.op /\ k.op <= version
      BY ConflictFields DEF Inv, TypeOK, History, ConflictsAreDistinct
    <2>2. \A k \in conflicts' : 2 <= k.op /\ k.op <= version'
      BY <1>1, <2>1 DEF Grows
    <2>3. ASSUME NEW k \in conflicts', NEW l \in conflicts', ConflictId(k) = ConflictId(l)
          PROVE  k = l
      <3>1. k.op = l.op /\ k.row = l.row
        BY <2>3 DEF ConflictId
      <3>2. CASE k \in conflicts /\ l \in conflicts
        BY <2>3, <3>2 DEF History, ConflictsAreDistinct
      <3>3. CASE k \notin conflicts /\ l \notin conflicts
        BY <3>1, <3>3
      <3>4. CASE (k \in conflicts) # (l \in conflicts)
        BY <1>1, <2>1, <3>1, <3>4
      <3> QED  BY <3>2, <3>3, <3>4
    <2> QED  BY <2>2, <2>3 DEF ConflictsAreDistinct, ConflictId
  <1>4. \A i \in 1..version - 1 : Kept(i)'
    BY <1>1, GrowthKeepsEntries DEF AllKept
  <1>5. ASSUME UNCHANGED resolving
        PROVE  CallsHoldTheirConflict'
    <2>1. \A x \in resolving : x.base \in Nat
      BY ResolverFields DEF Inv, TypeOK
    <2> QED  BY <1>1, <1>5, <2>1 DEF CallsHoldTheirConflict, History, Grows
  <1> QED  BY <1>2, <1>3, <1>4, <1>5

\* The transaction of ApplyCells.
LEMMA CommitCellsKeepsHistory ==
    ASSUME Inv, History, AllKept, NEW m \in Requests, CommitCells(m), Kinds(m)
    PROVE  /\ LayoutsFollow' /\ RowsAreDistinct' /\ RequestsLookBack'
           /\ ConflictsAreDistinct' /\ AllKept'
           /\ UNCHANGED resolving => CallsHoldTheirConflict'
           /\ conflicts \subseteq conflicts'
  <1>1. Grows /\ \A k \in conflicts' \ conflicts : k.op = version + 1
    BY NewEntryGrows
  <1>2. log'[version].req = m /\ log'[version].layout = Layout(version) /\ m.base <= version
    BY CommittedCells
  <1>3. \A k, l \in conflicts' \ conflicts : k.row = l.row => k = l
    <2>1. conflicts' = conflicts \cup FoundConflicts(m, Rebased(m), Skipped(m, Rebased(m)))
      BY CommittedCells
    <2> QED  BY <2>1 DEF FoundConflicts
  <1>4. LayoutsFollow' /\ RowsAreDistinct'
    BY <1>1, <1>2, GrowthKeepsLayouts DEF Kinds, Structural
  <1>5. /\ RequestsLookBack' /\ ConflictsAreDistinct'
        /\ \A i \in 1..version - 1 : Kept(i)'
        /\ UNCHANGED resolving => CallsHoldTheirConflict'
    BY <1>1, <1>2, <1>3, GrowthKeepsHistory DEF Kinds
  <1>6. \A n : n = version => Kept(n)'
    BY NewEntryLands, NewEntryReports, NewEntryUndoes, NewEntryRestores DEF Kinds, Kept
  <1>7. AllKept'
    <2>1. \A i \in DOMAIN log' : i = version \/ i \in 1..version - 1
      BY <1>1, LogEntries DEF Grows, Inv
    <2> QED  BY <1>5, <1>6, <2>1 DEF AllKept
  <1> QED  BY <1>1, <1>4, <1>5, <1>7 DEF Grows

\* The transaction of ApplyStructure.
LEMMA CommitStructureKeepsHistory ==
    ASSUME Inv, History, AllKept, NEW m \in Requests, CommitStructure(m),
           m.type = "structure", m.change \in Mutations, m.about = NoConflict,
           UNCHANGED <<conflicts, resolving>>
    PROVE  History' /\ AllKept'
  <1> DEFINE layout == Rearranged(Layout(version), m.change,
                                  [k \in 1..m.change.count |-> <<version + 1, k>>])
  <1>1. /\ version' = version + 1 /\ m.base = version
        /\ DOMAIN log' = 1..version /\ \A i \in 1..version - 1 : log'[i] = log[i]
        /\ log'[version].req = m /\ DOMAIN log'[version].after = {}
        /\ log'[version].layout = layout
    BY CommittedStructure
  <1>2. Grows /\ version \in Nat
    BY <1>1, LogEntries DEF Grows, Inv
  <1>3. LayoutsFollow' /\ RowsAreDistinct'
    BY <1>1, <1>2, GrowthKeepsLayouts DEF Structural
  <1>4. /\ RequestsLookBack' /\ ConflictsAreDistinct'
        /\ \A i \in 1..version - 1 : Kept(i)'
        /\ CallsHoldTheirConflict'
    BY <1>1, <1>2, GrowthKeepsHistory DEF NoConflict
  <1>5. \A n : n = version => Kept(n)'
    BY <1>1 DEF Kept, LandsAt, ReportsAt, UndoesAt, RestoresAt
  <1>6. AllKept'
    <2>1. \A i \in DOMAIN log' : i = version \/ i \in 1..version - 1
      BY <1>1, <1>2
    <2> QED  BY <1>4, <1>5, <2>1 DEF AllKept
  <1> QED  BY <1>3, <1>4, <1>6 DEF History

\* A step that leaves log, cells and conflicts alone and whose calls hold their
\* conflicts keeps the history.
LEMMA CallsKeepHistory ==
    ASSUME History, AllKept, UNCHANGED <<version, log, conflicts>>, CallsHoldTheirConflict'
    PROVE  History' /\ AllKept'
  <1>1. \A v : Layout(v)' = Layout(v)
    BY DEF Layout, InitialLayout
  <1>2. LayoutsFollow' /\ RowsAreDistinct'
    BY <1>1 DEF History, LayoutsFollow, RowsAreDistinct, Structural
  <1>3. RequestsLookBack' /\ ConflictsAreDistinct'
    BY DEF History, RequestsLookBack, ConflictsAreDistinct, ConflictId
  <1>4. ASSUME NEW i \in DOMAIN log PROVE Kept(i)'
    <2>1. Kept(i)
      BY DEF AllKept
    <2> DEFINE m == log[i].req
    <2>2. /\ \A v, r : RowAt(v, r)' = RowAt(v, r)
          /\ \A r : Reported(i, r)' <=> Reported(i, r)
      BY <1>1 DEF RowAt, Reported
    <2>3. LandsAt(i)'
      <3> SUFFICES ASSUME m.type \in {"write", "undo"}, m.base >= 1
                   PROVE  /\ \A r \in DOMAIN log[i].after : \E p \in DOMAIN m.writes :
                                RowAt(m.base, p) = RowAt(i, r) /\ log[i].after[r] = m.writes[p]
                          /\ \A p \in DOMAIN m.writes, r \in Positions :
                                RowAt(m.base, p) = RowAt(i, r) =>
                                   r \in DOMAIN log[i].after \/ Reported(i, r)
        BY <2>2 DEF LandsAt
      <3> QED  BY <2>1 DEF Kept, LandsAt
    <2>4. ReportsAt(i)'
      <3>1. \A r : Overwrites(i, r)' <=> Overwrites(i, r)
        BY <2>2 DEF Overwrites
      <3>2. OwnStructureSince(i)' <=> OwnStructureSince(i)
        BY DEF OwnStructureSince, Structural
      <3> QED  BY <2>1, <2>2, <3>1, <3>2 DEF Kept, ReportsAt
    <2>5. UndoesAt(i)'
      BY <2>1 DEF Kept, UndoesAt, StructureBetween, Structural
    <2>6. RestoresAt(i)'
      BY <2>1 DEF Kept, RestoresAt, StructureBetween, Structural, ConflictId
    <2> QED  BY <2>3, <2>4, <2>5, <2>6 DEF Kept
  <1>5. AllKept'
    BY <1>4 DEF AllKept
  <1> QED  BY <1>2, <1>3, <1>5 DEF History

\* A write,
LEMMA WriteKeepsHistory ==
    ASSUME Inv, History, AllKept, NEW client \in Clients, NEW base \in Bases, NEW rows \in Batches,
           NEW writes \in [rows -> Contents], WriteCells(client, base, writes)
    PROVE  History' /\ AllKept'
  <1> DEFINE m == [type |-> "write", client |-> client, key |-> FreshKey, base |-> base,
                   writes |-> writes, checked |-> FALSE, expected |-> NoCells,
                   change |-> NoChange, about |-> NoConflict]
  <1>1. writes \in PartialCells
    BY BatchAssumption, PartialCellsAre
  <1>2. base \in Nat /\ version \in Nat
    BY Placeholders DEF Bases
  <1>3. m \in Requests
    BY <1>1, <1>2, Placeholders, NoCellsArePartial DEF Requests
  <1>4. ApplyCells(m)
    BY DEF WriteCells
  <1>5. Kinds(m)
    BY <1>2 DEF Kinds, NoConflict
  <1> HIDE DEF m
  <1>6. CASE UNCHANGED vars
    BY <1>6, CallsKeepHistory DEF vars, History, CallsHoldTheirConflict
  <1>7. CASE CommitCells(m) /\ UNCHANGED resolving
    BY <1>3, <1>5, <1>7, CommitCellsKeepsHistory DEF History
  <1> QED  BY <1>4, <1>6, <1>7 DEF ApplyCells

\* an undo,
LEMMA UndoKeepsHistory ==
    ASSUME Inv, History, AllKept, NEW client \in Clients, NEW i \in DOMAIN log,
           UndoOperation(client, i)
    PROVE  History' /\ AllKept'
  <1> DEFINE m == [type |-> "undo", client |-> client, key |-> <<"undo", i + 1>>,
                   base |-> i + 1, writes |-> log[i].before, checked |-> TRUE,
                   expected |-> log[i].after, change |-> NoChange, about |-> NoConflict]
  <1>1. /\ log[i] \in Entries /\ i \in Nat /\ i >= 1 /\ i + 1 \in Nat /\ i + 1 - 1 = i
        /\ version \in Nat
    BY LogEntries DEF Inv
  <1>2. log[i].before \in PartialCells /\ log[i].after \in PartialCells
    BY <1>1, EntryFields
  <1>3. m \in Requests
    BY <1>1, <1>2, Placeholders DEF Requests
  <1>4. ApplyCells(m)
    BY DEF UndoOperation
  <1>5. Kinds(m)
    <2>1. m.base - 1 = i /\ m.base >= 2
      BY <1>1
    <2>2. UndoNames(m)
      BY <2>1 DEF UndoNames
    <2> QED  BY <1>1, <2>1, <2>2 DEF Kinds, NoConflict
  <1> HIDE DEF m
  <1>6. CASE UNCHANGED vars
    BY <1>6, CallsKeepHistory DEF vars, History, CallsHoldTheirConflict
  <1>7. CASE CommitCells(m) /\ UNCHANGED resolving
    BY <1>3, <1>5, <1>7, CommitCellsKeepsHistory DEF History
  <1> QED  BY <1>4, <1>6, <1>7 DEF ApplyCells

\* a structural change
LEMMA StructureKeepsHistory ==
    ASSUME Inv, History, AllKept, NEW client \in Clients, NEW c \in Changes,
           ChangeStructure(client, c)
    PROVE  History' /\ AllKept'
  <1> DEFINE m == [type |-> "structure", client |-> client, key |-> FreshKey,
                   base |-> version, writes |-> NoCells, checked |-> FALSE,
                   expected |-> NoCells, change |-> c, about |-> NoConflict]
  <1>1. c \in Mutations
    BY ChangeAssumption
  <1>2. m \in Requests
    BY <1>1, Placeholders, NoCellsArePartial DEF Requests
  <1>3. /\ m.about = NoConflict /\ m.change \in Mutations /\ m.type = "structure"
        /\ ApplyStructure(m)
    BY <1>1 DEF ChangeStructure
  <1> HIDE DEF m
  <1>4. CASE UNCHANGED vars
    BY <1>4, CallsKeepHistory DEF vars, History, CallsHoldTheirConflict
  <1>5. CASE CommitStructure(m) /\ UNCHANGED <<conflicts, resolutions, resolving>>
    BY <1>2, <1>3, <1>5, CommitStructureKeepsHistory
  <1> QED  BY <1>3, <1>4, <1>5 DEF ApplyStructure

\* and the operation of a resolution keep the history,
LEMMA ResolveApplyKeepsHistory ==
    ASSUME Inv, History, AllKept, NEW x \in resolving, ResolveApply(x)
    PROVE  History' /\ AllKept'
  <1> DEFINE m == Resolution(x)
             y == [x EXCEPT !.phase = "applied", !.base = version + 1]
  <1>1. /\ resolving' = (resolving \ {x}) \cup {y} /\ CommitCells(m) /\ x.phase = "ready"
    BY DEF ResolveApply
  <1>2. m \in Requests /\ m.type = x.resolution /\ m.about = ConflictId(x.conflict)
    BY ResolutionType
  <1>3. x \in Resolvers /\ x.resolution \in Resolutions
    BY ResolverFields DEF Inv, TypeOK
  <1>4. /\ y.phase = "applied" /\ y.conflict = x.conflict /\ y.seen = x.seen
        /\ y.resolution = x.resolution
    BY <1>3 DEF Resolvers
  <1>5. Kinds(m)
    <2>1. m.about[1] <= version
      BY <1>2 DEF History, CallsHoldTheirConflict, ConflictsAreDistinct, ConflictId
    <2>2. m.type \in {"keep_current", "restore_previous"}
      BY <1>2, <1>3 DEF Resolutions
    <2> QED  BY <1>1, <2>1, <2>2 DEF Kinds
  <1> HIDE DEF m, y
  <1>6. /\ LayoutsFollow' /\ RowsAreDistinct' /\ RequestsLookBack'
        /\ ConflictsAreDistinct' /\ AllKept' /\ conflicts \subseteq conflicts'
    BY <1>1, <1>2, <1>5, CommitCellsKeepsHistory
  <1>7. CallsHoldTheirConflict'
    <2>1. version \in Nat /\ version' = version + 1 /\ \A z \in resolving : z.base \in Nat
      BY <1>1, <1>2, LogEntries, CommittedCells, ResolverFields DEF Inv, TypeOK
    <2> QED  BY <1>1, <1>4, <1>6, <2>1 DEF History, CallsHoldTheirConflict
  <1> QED  BY <1>6, <1>7 DEF History

\* and so do the other steps of ResolveCellConflict.
LEMMA ResolveKeepsHistory ==
    ASSUME Inv, History, AllKept,
           \/ \E k \in conflicts, client \in Clients, resolution \in Resolutions :
                 ResolveBegin(k, client, resolution)
           \/ \E k \in conflicts, i \in DOMAIN log : ResolveReplay(k, i)
           \/ \E x \in resolving : ResolveReadVersion(x) \/ ResolveFinish(x) \/ ResolveFail(x)
    PROVE  History' /\ AllKept'
  <1>1. ASSUME NEW k \in conflicts, NEW client \in Clients, NEW resolution \in Resolutions,
               ResolveBegin(k, client, resolution)
        PROVE  CallsHoldTheirConflict' /\ UNCHANGED <<version, log, conflicts>>
    BY <1>1 DEF ResolveBegin, History, CallsHoldTheirConflict
  <1>2. ASSUME NEW k \in conflicts, NEW i \in DOMAIN log, ResolveReplay(k, i)
        PROVE  CallsHoldTheirConflict' /\ UNCHANGED <<version, log, conflicts>>
    BY <1>2 DEF ResolveReplay, History, CallsHoldTheirConflict
  <1>3. ASSUME NEW x \in resolving, ResolveReadVersion(x)
        PROVE  CallsHoldTheirConflict' /\ UNCHANGED <<version, log, conflicts>>
    <2> DEFINE y == [x EXCEPT !.phase = "ready", !.base = version]
    <2>1. /\ resolving' = (resolving \ {x}) \cup {y} /\ UNCHANGED <<version, log, conflicts>>
      BY <1>3 DEF ResolveReadVersion
    <2>2. x \in Resolvers /\ version \in Nat
      BY LogEntries DEF Inv, TypeOK
    <2>3. /\ y.base = version /\ y.conflict = x.conflict /\ y.seen = x.seen
          /\ y.resolution = x.resolution
      BY <2>2 DEF Resolvers
    <2>4. x.conflict.op <= version
      BY DEF History, CallsHoldTheirConflict, ConflictsAreDistinct
    <2> HIDE DEF y
    <2> QED  BY <2>1, <2>2, <2>3, <2>4 DEF History, CallsHoldTheirConflict
  <1>4. ASSUME NEW x \in resolving, ResolveFinish(x) \/ ResolveFail(x)
        PROVE  CallsHoldTheirConflict' /\ UNCHANGED <<version, log, conflicts>>
    BY <1>4 DEF ResolveFinish, ResolveFail, History, CallsHoldTheirConflict
  <1>5. CallsHoldTheirConflict' /\ UNCHANGED <<version, log, conflicts>>
    BY <1>1, <1>2, <1>3, <1>4
  <1> QED  BY <1>5, CallsKeepHistory

\* The history holds in every behaviour, and with it what it says of every entry.
LEMMA HistoryAlways == Spec => [](Inv /\ History /\ AllKept)
  <1>1. Init => History /\ AllKept
    <2> SUFFICES ASSUME Init PROVE History /\ AllKept
      OBVIOUS
    <2>1. RowsAreDistinct
      <3>1. \A v \in 1..version : v = 1 /\ Layout(v) = InitialLayout
        BY DEF Init, Layout
      <3>2. \A p \in Positions : InitialLayout[p] = <<1, p>>
        BY DEF InitialLayout
      <3> QED  BY <3>1, <3>2 DEF RowsAreDistinct
    <2> QED  BY <2>1 DEF Init, History, AllKept, LayoutsFollow, RequestsLookBack,
                         ConflictsAreDistinct, CallsHoldTheirConflict
  <1>2. Inv /\ History /\ AllKept /\ [Next]_vars => History' /\ AllKept'
    <2> SUFFICES ASSUME Inv, History, AllKept, [Next]_vars PROVE History' /\ AllKept'
      OBVIOUS
    <2>1. CASE UNCHANGED vars
      BY <2>1, CallsKeepHistory DEF vars, History, CallsHoldTheirConflict
    <2>2. CASE \E client \in Clients, base \in Bases, rows \in Batches :
                  \E writes \in [rows -> Contents] : WriteCells(client, base, writes)
      BY <2>2, WriteKeepsHistory
    <2>3. CASE \E client \in Clients, c \in Changes : ChangeStructure(client, c)
      BY <2>3, StructureKeepsHistory
    <2>4. CASE \E client \in Clients, i \in DOMAIN log : UndoOperation(client, i)
      BY <2>4, UndoKeepsHistory
    <2>5. CASE \E i \in DOMAIN log : Redeliver(i)
      BY <2>1, <2>5, RedeliverChangesNothing
    <2>6. CASE \E x \in resolving : ResolveApply(x)
      BY <2>6, ResolveApplyKeepsHistory
    <2> QED  BY <2>1, <2>2, <2>3, <2>4, <2>5, <2>6, ResolveKeepsHistory DEF Next
  <1> QED  BY <1>1, <1>2, InvAlways, PTL DEF Spec

\* However late a write or an undo arrives and whatever moved the rows meanwhile, it
\* lands in the rows its author meant, and a row that still exists is written or
\* reported (structuralChangesSince, rebasePosition, rebaseCellInputs).
THEOREM WritesLandWhereMeant == Spec => []LandsWhereMeant
  <1>1. AllKept => LandsWhereMeant
    BY DEF AllKept, Kept, LandsAt, LandsWhereMeant
  <1> QED  BY <1>1, HistoryAlways, PTL

\* Replacing what another client wrote since the base is reported as a conflict, as long
\* as the writer's own client has not changed the structure since (findConflicts).
THEOREM OverwritesAreReported == Spec => []OverwriteIsReported
  <1>1. AllKept => OverwriteIsReported
    BY DEF AllKept, Kept, ReportsAt, OverwriteIsReported
  <1> QED  BY <1>1, HistoryAlways, PTL

\* An undo puts back exactly what its operation replaced, where the cells still hold what
\* it wrote (UndoOperation and the Expected check of ApplyCells).
THEOREM UndoPutsBackWhatWasReplaced == Spec => []UndoIsExact
  <1>1. AllKept => UndoIsExact
    BY DEF AllKept, Kept, UndoesAt, UndoIsExact
  <1> QED  BY <1>1, HistoryAlways, PTL

\* Restoring a conflict replaces exactly what the conflicting write had put there, although
\* ResolveCellConflict reads cell and version outside the transaction that writes.
THEOREM RestoresReplaceTheirConflict == Spec => []RestoreReplacesTheConflictingWrite
  <1>1. AllKept => RestoreReplacesTheConflictingWrite
    BY DEF AllKept, Kept, RestoresAt, RestoreReplacesTheConflictingWrite
  <1> QED  BY <1>1, HistoryAlways, PTL

=============================================================================
