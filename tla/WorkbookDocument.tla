--------------------------- MODULE WorkbookDocument ----------------------------
(***************************************************************************)
(* A workbook as a document: its sheets and what hangs on them, copies of  *)
(* sheets and workbooks, stored versions and going back to one, and the    *)
(* trash (internal/workbook/postgres_repository.go, postgres_management.go *)
(* and the tables of migrations/).                                         *)
(*                                                                         *)
(* Every operation but those on filter views is a transaction that holds   *)
(* the row of its workbook, or, for CreateVersion, reads one snapshot of   *)
(* the database, so it is one step.  An operation that stores a version    *)
(* before it deletes takes two, TakeBackup and the change, since filter    *)
(* views are written without the row in between.                           *)
(*                                                                         *)
(* Of the cells of a sheet one formula is kept, which may name a sheet.    *)
(* The many kinds of things that hang on a sheet are told apart only by    *)
(* what takes them along, and whether it keeps them whole:                 *)
(*   "validation"  a copied sheet, a copied workbook and a version         *)
(*                 (conditional formats too);                              *)
(*   "dropdown"    the same, without the range its list is drawn from,     *)
(*                 which makes it "sourceless";                            *)
(*   "protection"  a copied workbook and a version (named ranges, tables   *)
(*                 and scenarios too);                                     *)
(*   "image"       nothing (comments and watch rules too);                 *)
(*   charts        all three, with the sheet they draw from (pivots too);  *)
(*   views         a copied workbook and a version, with their owner       *)
(*                 (filter views).                                         *)
(***************************************************************************)
EXTENDS Integers, FiniteSets, FiniteSetsExt, Functions, TLC

CONSTANTS
    Names,          \* names of sheets, different in more than case
    Titles,         \* titles of workbooks
    Actors,
    OldSchemas,     \* schemas of versions stored by earlier releases
    NoName,
    MaxBooks, MaxSheets, MaxVersions, MaxParts, MaxOperations      \* bounds

ASSUME BoundsAssumption ==
    /\ MaxBooks \in Nat \ {0} /\ MaxSheets \in Nat \ {0} /\ MaxVersions \in Nat \ {0}
    /\ MaxParts \in Nat /\ MaxOperations \in Nat
ASSUME NamesAssumption == NoName \notin Names
ASSUME SchemasAssumption == OldSchemas \subseteq 2..8

SheetIds == 1..MaxSheets
BookIds == 1..MaxBooks

\* A formula that names a sheet, and the sheet that had this name when it was written
\* (history: the code keeps only the name).
NoSheet == 0
Formulas == [names : Names \cup {NoName}, meant : {NoSheet} \cup SheetIds]
NoFormula == [names |-> NoName, meant |-> NoSheet]

Sheets == [book : BookIds, name : Names, position : Nat, hidden : BOOLEAN, formula : Formulas]

Validations == {"validation", "dropdown", "sourceless"}
Kinds == Validations \cup {"protection", "image"}
Rules == [kind : Kinds, sheet : SheetIds]

\* source_range is '#REF!' once the source is gone; a foreign key that was set to NULL
\* while the range was kept would be Dangling.
Ref == -1
Dangling == -2
\* A source fits while it is not larger than normalizeChart and normalizePivot allow.
Charts == [sheet : SheetIds, source : SheetIds \cup {Ref, Dangling}, fit : BOOLEAN]
Views == [sheet : SheetIds, owner : Actors, active : BOOLEAN]

CurrentSchema == 9

VARIABLES
    books,          \* workbooks: the title and whether it is out of the trash
    sheets,         \* table sheets
    rules, charts, views,       \* the tables of what hangs on a sheet
    used,           \* ids given to sheets so far
    versions,       \* table workbook_versions
    backups,        \* by workbook, the operation between its backup and its change: the
                    \* snapshot, the document of that moment and the views written since
                    \* (history), and the filter views it has read to write them back
    done            \* operations so far, to bound them

vars == <<books, sheets, rules, charts, views, used, versions, backups, done>>

parts == <<rules, charts, views>>

\* A row with its id, and rows put into a table.
Row(id, row) == [x \in {id} |-> row]
Put(rows, table) == [x \in DOMAIN rows \cup DOMAIN table |-> IF x \in DOMAIN rows THEN rows[x] ELSE table[x]]

SheetsOf(b) == {s \in DOMAIN sheets : sheets[s].book = b}

On(table, S) == {p \in table : p.sheet \in S}
OffSheets(table, S) == {p \in table : p.sheet \notin S}

Live(b) == b \in DOMAIN books /\ books[b].live

\* SELECT FROM workbooks WHERE deleted_at IS NULL FOR UPDATE: the row is there for one.
Free(b) == b \notin DOMAIN backups
Locks(b) == Live(b) /\ Free(b)

NamesIn(b) == {sheets[s].name : s \in SheetsOf(b)}

\* Bound: users add a part only while there are few; copies come on top.
RoomForPart == Cardinality(rules) + Cardinality(charts) + Cardinality(views) < MaxParts

\* One more operation, within the bound.
Operation == done < MaxOperations /\ done' = done + 1

-----------------------------------------------------------------------------
\* Workbooks

\* The workbooks row and its first sheet.
NewBook(b, title) == Put(Row(b, [title |-> title, live |-> TRUE]), books)

FirstSheet(b, name) ==
    [book |-> b, name |-> name, position |-> 0, hidden |-> FALSE, formula |-> NoFormula]

CreateWorkbook(title, name) ==
    LET b == Cardinality(DOMAIN books) + 1
    IN  /\ b \in BookIds \ DOMAIN books
        /\ used < MaxSheets
        /\ books' = NewBook(b, title)
        /\ used' = used + 1
        /\ sheets' = Put(Row(used', FirstSheet(b, name)), sheets)
        /\ UNCHANGED <<parts, versions, backups>>

UpdateWorkbook(b, title) ==
    /\ Locks(b)
    /\ title # books[b].title
    /\ books' = [books EXCEPT ![b].title = title]
    /\ UNCHANGED <<sheets, parts, used, versions, backups>>

DeleteWorkbook(b) ==
    /\ Locks(b)
    /\ books' = [books EXCEPT ![b].live = FALSE]
    /\ UNCHANGED <<sheets, parts, used, versions, backups>>

\* Out of the trash.
RestoreWorkbook(b) ==
    /\ b \in DOMAIN books /\ ~ books[b].live
    /\ books' = [books EXCEPT ![b].live = TRUE]
    /\ UNCHANGED <<sheets, parts, used, versions, backups>>

\* For good: the foreign keys delete everything of the workbook with it.
PurgeWorkbook(b) ==
    LET gone == SheetsOf(b)
    IN  /\ b \in DOMAIN books /\ ~ books[b].live
        /\ books' = Restrict(books, DOMAIN books \ {b})
        /\ sheets' = Restrict(sheets, DOMAIN sheets \ gone)
        /\ rules' = OffSheets(rules, gone)
        /\ charts' = OffSheets(charts, gone)
        /\ views' = OffSheets(views, gone)
        /\ versions' = Restrict(versions, {i \in DOMAIN versions : versions[i].book # b})
        /\ UNCHANGED <<used, backups>>

\* The id each sheet of the workbook gets in a copy (map sheetIDs).
CopiedIds(b) == [s \in SheetsOf(b) |-> used + Cardinality({t \in SheetsOf(b) : t <= s})]

\* A formula is copied as it stands; in the copy it names a sheet of the copy.
CopiedFormula(f, ids) ==
    [f EXCEPT !.meant = IF @ \in DOMAIN ids THEN ids[@] ELSE NoSheet]

CopiedSheets(b, copy, ids) ==
    [t \in Range(ids) |->
        LET s == CHOOSE s \in DOMAIN ids : ids[s] = t
        IN  [sheets[s] EXCEPT !.book = copy, !.formula = CopiedFormula(@, ids)]]

\* insertDataValidationTx writes every column but source_range.
Inserted(kind) == IF kind = "dropdown" THEN "sourceless" ELSE kind
Reinserted(table) == {[r EXCEPT !.kind = Inserted(@)] : r \in table}

\* Mutant: protections stay behind.
CopiedValidations(ids) ==
    {[r EXCEPT !.sheet = ids[@]] :
        r \in Reinserted({r \in On(rules, DOMAIN ids) : r.kind \in Validations})}

CopiedRules(ids) ==
    {[r EXCEPT !.sheet = ids[@]] :
        r \in Reinserted({r \in On(rules, DOMAIN ids) : r.kind # "image"})}

CopiedCharts(ids) ==
    {[c EXCEPT !.sheet = ids[@], !.source = IF @ = Ref THEN Ref ELSE ids[@]] :
        c \in On(charts, DOMAIN ids)}

\* Every view of the copy belongs to its owner.
CopiedViews(ids, owner) ==
    {[v EXCEPT !.sheet = ids[@], !.owner = owner] : v \in On(views, DOMAIN ids)}

\* filter_views_one_active_per_actor and filter_views_actor_name_unique: two views of a sheet
\* that end up with one owner are refused when both are active (or have one name).
ViewsClash(b) ==
    \E v, w \in On(views, SheetsOf(b)) : v # w /\ v.sheet = w.sheet /\ v.active /\ w.active

DuplicateWorkbook(b, title, owner) ==
    LET copy == Cardinality(DOMAIN books) + 1
        ids == CopiedIds(b)
    IN  /\ Locks(b)
        /\ copy \in BookIds \ DOMAIN books
        /\ used + Cardinality(DOMAIN ids) <= MaxSheets
        /\ \A c \in On(charts, DOMAIN ids) : c.source \in DOMAIN ids \cup {Ref}
        /\ ~ ViewsClash(b)
        /\ books' = NewBook(copy, title)
        /\ sheets' = Put(CopiedSheets(b, copy, ids), sheets)
        /\ rules' = rules \cup CopiedRules(ids)
        /\ charts' = charts \cup CopiedCharts(ids)
        /\ views' = views \cup CopiedViews(ids, owner)
        /\ used' = used + Cardinality(DOMAIN ids)
        /\ UNCHANGED <<versions, backups>>

-----------------------------------------------------------------------------
\* Sheets

CreateSheet(b, name) ==
    /\ Locks(b)
    /\ name \notin NamesIn(b)
    /\ used < MaxSheets
    /\ used' = used + 1
    /\ sheets' = Put(Row(used', [FirstSheet(b, name) EXCEPT
                         !.position = Max({sheets[s].position : s \in SheetsOf(b)} \cup {-1}) + 1]), sheets)
    /\ UNCHANGED <<books, parts, versions, backups>>

\* UPDATE sheets SET position=position+by for the sheets of the workbook at these positions.
Shifted(b, at, by) ==
    [s \in DOMAIN sheets |->
        IF sheets[s].book = b /\ sheets[s].position \in at
        THEN [sheets[s] EXCEPT !.position = @ + by] ELSE sheets[s]]

\* The copy stands right of its source and is hidden when the source is; a chart that draws
\* from the source draws from the copy.
DuplicateSheet(s, name) ==
    LET b == sheets[s].book
        copy == used + 1
    IN  /\ Locks(b)
        /\ name \notin NamesIn(b)
        /\ copy \in SheetIds
        /\ sheets' = Put(Row(copy, [sheets[s] EXCEPT !.name = name, !.position = @ + 1]),
                         Shifted(b, (sheets[s].position + 1)..MaxSheets, 1))
        /\ rules' = rules \cup {[r EXCEPT !.sheet = copy] :
                r \in Reinserted({r \in On(rules, {s}) : r.kind \in Validations})}
        /\ charts' = charts \cup {[c EXCEPT !.sheet = copy, !.source = IF @ = s THEN copy ELSE @] :
                                      c \in On(charts, {s})}
        /\ used' = copy
        /\ UNCHANGED <<books, views, versions, backups>>

\* The copy is the last sheet of the other workbook and is never hidden.  The workbook it
\* comes from may be in the trash, and nothing that hangs on the sheet goes with it.  In
\* another workbook its formula names whatever sheet has that name there.
CopySheetToWorkbook(s, b, name) ==
    /\ Locks(b)
    /\ name \notin NamesIn(b)
    /\ used < MaxSheets
    /\ used' = used + 1
    /\ sheets' = Put(Row(used', [sheets[s] EXCEPT !.book = b, !.name = name, !.hidden = FALSE,
                                   !.position = Cardinality(SheetsOf(b)),
                                   !.formula.meant = IF sheets[s].book = b THEN @ ELSE NoSheet]), sheets)
    /\ UNCHANGED <<books, parts, versions, backups>>

\* The sheets of the workbook between two positions make room for the moved one.
Moved(s, position) ==
    LET from == sheets[s].position
        b == sheets[s].book
    IN  IF from < position THEN Shifted(b, (from + 1)..position, -1)
                           ELSE Shifted(b, position..(from - 1), 1)

\* Mutant: the formulas of the workbook are not looked at.
RenamedAlone(table, b, old, new) == table

\* RenameSheetReferences over every cell of the workbook.
Renamed(table, b, old, new) ==
    [t \in DOMAIN table |->
        IF table[t].book = b /\ table[t].formula.names = old
        THEN [table[t] EXCEPT !.formula.names = new] ELSE table[t]]

\* The last visible sheet cannot be hidden.
MayHide(s, hidden) ==
    (hidden /\ ~ sheets[s].hidden) =>
        \E t \in SheetsOf(sheets[s].book) \ {s} : ~ sheets[t].hidden

UpdateSheet(s, name, position, hidden) ==
    LET b == sheets[s].book
        old == sheets[s]
        new == [old EXCEPT !.name = name, !.position = position, !.hidden = hidden]
    IN  /\ Locks(b)
        /\ name \notin {sheets[t].name : t \in SheetsOf(b) \ {s}}
        /\ position \in 0..(Cardinality(SheetsOf(b)) - 1)
        /\ MayHide(s, hidden)
        /\ new # old
        /\ sheets' = Renamed([Moved(s, position) EXCEPT ![s] = new], b, old.name, name)
        /\ UNCHANGED <<books, parts, used, versions, backups>>

-----------------------------------------------------------------------------
\* Versions

\* The document as the tables hold it: what a version and a copy are meant to keep.  Rules
\* of kind "image" stay outside.
Document(b) ==
    [title |-> books[b].title, sheets |-> Restrict(sheets, SheetsOf(b)),
     rules |-> {r \in On(rules, SheetsOf(b)) : r.kind # "image"},
     charts |-> On(charts, SheetsOf(b)), views |-> On(views, SheetsOf(b))]

buildSnapshot(b) ==
    [title |-> books[b].title,
     sheets |-> Restrict(sheets, SheetsOf(b)),
     rules |-> {r \in On(rules, SheetsOf(b)) : r.kind \in Validations \cup {"protection"}},
     charts |-> On(charts, SheetsOf(b)),
     views |-> On(views, SheetsOf(b))]

\* A row of workbook_versions; of is history, the document of that moment.
insertSnapshot(b, snapshot, document) ==
    LET id == Max(DOMAIN versions \cup {0}) + 1
    IN  /\ id <= MaxVersions
        /\ versions' = Put(Row(id, [book |-> b, schema |-> CurrentSchema,
                                    snapshot |-> snapshot, of |-> document]), versions)

CreateVersion(b) ==
    /\ Live(b)
    /\ insertSnapshot(b, buildSnapshot(b), Document(b))
    /\ UNCHANGED <<books, sheets, parts, used, backups>>

\* DeleteSheet, RestoreVersion and ApplyStructure lock the row and store a version before they
\* change anything; others see the version when they have ended (Saved).
TakeBackup(b) ==
    /\ Locks(b)
    /\ backups' = Put(Row(b, [snapshot |-> buildSnapshot(b), of |-> Document(b),
                              seen |-> On(views, SheetsOf(b)), since |-> {}]), backups)
    /\ UNCHANGED <<books, sheets, parts, used, versions>>

Ended(b) == backups' = Restrict(backups, DOMAIN backups \ {b})

Saved(b) ==
    /\ ~ Free(b)
    /\ insertSnapshot(b, backups[b].snapshot, backups[b].of)
    /\ Ended(b)

\* Refused or cut off: nothing of it stays.
Rollback(b) ==
    /\ ~ Free(b)
    /\ Ended(b)
    /\ UNCHANGED <<books, sheets, parts, used, versions>>

\* The source is gone; '#REF!' has no size.
WithoutSource(c) == [c EXCEPT !.source = Ref, !.fit = TRUE]

\* Mutant: the foreign key is left to clear the source.
StillSourced(s) == charts

\* The charts of other sheets that drew from the sheet now draw from '#REF!'.
Unsourced(s) ==
    {IF c.source = s /\ c.sheet # s THEN WithoutSource(c) ELSE c : c \in charts}

\* DELETE FROM sheets: the foreign keys delete what hangs on the sheet and set
\* source_sheet_id to NULL.
DroppedSheet(s, table) ==
    {[c EXCEPT !.source = IF @ = s THEN Dangling ELSE @] : c \in OffSheets(table, {s})}

\* Mutants: the sheets on the right stay where they are; no version is stored.
DeleteSheetLeavingGap(s) ==
    LET b == sheets[s].book
    IN  /\ Saved(b)
        /\ Cardinality(SheetsOf(b)) > 1
        /\ charts' = DroppedSheet(s, Unsourced(s))
        /\ rules' = OffSheets(rules, {s})
        /\ views' = OffSheets(views, {s})
        /\ sheets' = Restrict(sheets, DOMAIN sheets \ {s})
        /\ UNCHANGED <<books, used>>

DeleteSheetUnsaved(s) ==
    LET b == sheets[s].book
        right == (sheets[s].position + 1)..MaxSheets
    IN  /\ ~ Free(b) /\ Ended(b)
        /\ Cardinality(SheetsOf(b)) > 1
        /\ charts' = DroppedSheet(s, Unsourced(s))
        /\ rules' = OffSheets(rules, {s})
        /\ views' = OffSheets(views, {s})
        /\ sheets' = Restrict(Shifted(b, right, -1), DOMAIN sheets \ {s})
        /\ UNCHANGED <<books, used, versions>>

DeleteSheet(s) ==
    LET b == sheets[s].book
        right == (sheets[s].position + 1)..MaxSheets
    IN  /\ Saved(b)
        /\ Cardinality(SheetsOf(b)) > 1
        /\ charts' = DroppedSheet(s, Unsourced(s))
        /\ rules' = OffSheets(rules, {s})
        /\ views' = OffSheets(views, {s})
        /\ sheets' = Restrict(Shifted(b, right, -1), DOMAIN sheets \ {s})
        /\ UNCHANGED <<books, used>>

\* The schema a kind of rule is recorded from, and the schema from which restoring a version
\* deletes the rules of the present: validations always, whatever the version recorded.
RecordedFrom(kind) == CASE kind \in Validations -> 3 [] kind = "protection" -> 9
                        [] kind = "image" -> CurrentSchema + 1

\* Mutant: protections are deleted even when the version holds none.
DeletedAlways(kind) == IF kind = "image" THEN CurrentSchema + 1 ELSE 0

DeletedFrom(kind) == IF kind \in Validations THEN 0 ELSE RecordedFrom(kind)

\* NormalizeDataValidation refuses a list without values and range, normalizeChart and
\* normalizePivot a source above the limits.
Normal(snapshot) ==
    /\ \A r \in snapshot.rules : r.kind # "sourceless"
    /\ \A c \in snapshot.charts : c.fit

\* What RestoreVersion checks of a snapshot before it inserts: no sheet belongs to another
\* workbook, everything hangs on a sheet of the snapshot, and so does every source, and what
\* hangs there could be written anew.
Restorable(version) ==
    LET desired == DOMAIN version.snapshot.sheets
    IN  /\ desired # {}
        /\ Normal(version.snapshot)
        /\ \A s \in desired \cap DOMAIN sheets : sheets[s].book = version.book
        /\ \A r \in version.snapshot.rules : r.sheet \in desired
        /\ \A v \in version.snapshot.views : v.sheet \in desired
        /\ \A c \in version.snapshot.charts :
               c.sheet \in desired /\ c.source \in desired \cup {Ref}

\* The rules of the workbook that stay: of a kind that restoring leaves alone, on a sheet
\* that stays.
KeptRules(b, version) ==
    {r \in On(rules, SheetsOf(b) \cap DOMAIN version.snapshot.sheets) :
        version.schema < DeletedFrom(r.kind)}

\* Filter views are recorded from schema 5 on; before, those of the present stay.
RestoredViews(b, version) ==
    IF version.schema >= 5 THEN version.snapshot.views
    ELSE On(views, SheetsOf(b) \cap DOMAIN version.snapshot.sheets)

RestoreVersion(i) ==
    LET version == versions[i]
        snapshot == version.snapshot
        b == version.book
        own == SheetsOf(b)
    IN  /\ Saved(b)
        /\ Restorable(version)
        /\ sheets' = Put(snapshot.sheets, Restrict(sheets, DOMAIN sheets \ own))
        /\ rules' = OffSheets(rules, own) \cup KeptRules(b, version) \cup Reinserted(snapshot.rules)
        /\ charts' = OffSheets(charts, own) \cup snapshot.charts
        /\ views' = OffSheets(views, own) \cup RestoredViews(b, version)
        /\ books' = [books EXCEPT ![b].title = snapshot.title]
        /\ UNCHANGED used

-----------------------------------------------------------------------------
\* Rows and columns

\* The filter views of a sheet are read some time after the backup, to be written back.
ReadFilterViews(b) ==
    /\ ~ Free(b)
    /\ backups' = [backups EXCEPT ![b].seen = On(views, SheetsOf(b))]
    /\ UNCHANGED <<books, sheets, parts, used, versions>>

\* ApplyStructure inserts, deletes or moves rows or columns of a sheet.  Rules whose ranges
\* do not remain are gone, the other validations are deleted and inserted anew, and a list
\* without its range is dropped on the way; a source on the sheet is lost or has another size,
\* which nothing checks; the filter views of the sheet become those read before, or what is
\* left of them; and formulas on the sheet and about it may break.
ChangeStructure(s, gone, lost, fitting, left, broken) ==
    LET b == sheets[s].book
        stay == {r \in On(rules, {s}) \ gone : r.kind # "sourceless"}
        drawn == {c \in charts : c.source = s}
    IN  /\ Saved(b)
        /\ left \subseteq On(backups[b].seen, {s})
        /\ \A t \in broken : sheets[t].book = b /\ (t = s \/ sheets[t].formula.names = sheets[s].name)
        /\ rules' = OffSheets(rules, {s}) \cup Reinserted(stay)
        /\ charts' = (charts \ drawn) \cup {WithoutSource(c) : c \in lost \cap drawn}
                          \cup {[c EXCEPT !.fit = c \in fitting] : c \in drawn \ lost}
        /\ views' = OffSheets(views, {s}) \cup left
        /\ sheets' = [t \in DOMAIN sheets |->
                         IF t \in broken THEN [sheets[t] EXCEPT !.formula = NoFormula] ELSE sheets[t]]
        /\ UNCHANGED <<books, used>>

-----------------------------------------------------------------------------
\* What hangs on the sheets, and the formulas

\* Somebody writes a formula that names a sheet of the workbook, or clears it (ApplyCells, the
\* subject of CellOperations).
WriteFormula(s, formula) ==
    LET b == sheets[s].book
    IN  /\ Locks(b)
        /\ formula \in {NoFormula} \cup {[names |-> sheets[t].name, meant |-> t] : t \in SheetsOf(b)}
        /\ formula # sheets[s].formula
        /\ sheets' = [sheets EXCEPT ![s].formula = formula]
        /\ UNCHANGED <<books, parts, used, versions, backups>>

\* CreateDataValidation, CreateProtectedRange, CreateImage: a list has its range.
CreateRule(s, kind) ==
    LET rule == [kind |-> kind, sheet |-> s]
    IN  /\ Locks(sheets[s].book)
        /\ rule \notin rules /\ kind # "sourceless"
        /\ RoomForPart
        /\ rules' = rules \cup {rule}
        /\ UNCHANGED <<books, sheets, charts, views, used, versions, backups>>

\* UpdateDataValidation may give a list its range back.  It does not ask whether the workbook
\* has gone to the trash since the request was let in.
UpdateDataValidation(rule, kind) ==
    /\ Free(sheets[rule.sheet].book)
    /\ rule.kind \in Validations /\ kind \in {"validation", "dropdown"} \ {rule.kind}
    /\ rules' = (rules \ {rule}) \cup {[rule EXCEPT !.kind = kind]}
    /\ UNCHANGED <<books, sheets, charts, views, used, versions, backups>>

\* DeleteDataValidation, DeleteProtectedRange, DeleteImage: only the last asks whether the
\* workbook is in the trash.
DeleteRule(rule) ==
    LET b == sheets[rule.sheet].book
    IN  /\ Free(b)
        /\ Live(b) \/ rule.kind # "image"
        /\ rules' = rules \ {rule}
        /\ UNCHANGED <<books, sheets, charts, views, used, versions, backups>>

\* Chart and source belong to the workbook (validatePostgresChartSheets).
CreateChart(s, source) ==
    LET chart == [sheet |-> s, source |-> source, fit |-> TRUE]
    IN  /\ Locks(sheets[s].book)
        /\ sheets[source].book = sheets[s].book
        /\ chart \notin charts
        /\ RoomForPart
        /\ charts' = charts \cup {chart}
        /\ UNCHANGED <<books, sheets, rules, views, used, versions, backups>>

\* The way back from '#REF!', or to another sheet.
UpdateChart(chart, s, source) ==
    LET b == sheets[chart.sheet].book
    IN  /\ Locks(b)
        /\ {sheets[s].book, sheets[source].book} = {b}
        /\ charts' = (charts \ {chart}) \cup {[sheet |-> s, source |-> source, fit |-> TRUE]}
        /\ UNCHANGED <<books, sheets, rules, views, used, versions, backups>>

DeleteChart(chart) ==
    /\ Locks(sheets[chart.sheet].book)
    /\ charts' = charts \ {chart}
    /\ UNCHANGED <<books, sheets, rules, views, used, versions, backups>>

\* The other views of the owner are not active any more.
Inactive(s, owner) ==
    {[v EXCEPT !.active = @ /\ ~ (v.sheet = s /\ v.owner = owner)] : v \in views}

\* The workbook is neither locked nor counted up, and may be in the trash: an operation that
\* has taken its backup does not know of it.
WriteViews(s, table) ==
    /\ views' = table
    /\ backups' = [b \in DOMAIN backups |->
                      IF b = sheets[s].book
                      THEN [backups[b] EXCEPT !.since = @ \cup (table \ views)] ELSE backups[b]]
    /\ UNCHANGED <<books, sheets, rules, charts, used, versions>>

CreateFilterView(s, owner, active) ==
    LET view == [sheet |-> s, owner |-> owner, active |-> active]
    IN  /\ RoomForPart
        /\ WriteViews(s, (IF active THEN Inactive(s, owner) ELSE views) \cup {view})

UpdateFilterView(view, active) ==
    LET others == IF active THEN Inactive(view.sheet, view.owner) ELSE views
    IN  /\ active # view.active
        /\ WriteViews(view.sheet, (others \ {view}) \cup {[view EXCEPT !.active = active]})

DeleteFilterView(view) == WriteViews(view.sheet, views \ {view})

-----------------------------------------------------------------------------
\* A workbook as CreateWorkbook left it, which may have a version from an earlier release.
Init ==
    \E title \in Titles, name \in Names :
        LET first == Row(1, FirstSheet(1, name))
            document == [title |-> title, sheets |-> first, rules |-> {}, charts |-> {}, views |-> {}]
        IN  /\ books = Row(1, [title |-> title, live |-> TRUE])
            /\ sheets = first
            /\ rules = {} /\ charts = {} /\ views = {}
            /\ used = 1 /\ done = 0 /\ backups = [b \in {} |-> document]
            /\ \/ versions = [i \in {} |-> document]
               \/ \E old \in OldSchemas :
                    versions = Row(1, [book |-> 1, schema |-> old, snapshot |-> document, of |-> document])

OnSheets ==
    \E s \in DOMAIN sheets :
        \/ \E name \in Names : DuplicateSheet(s, name)
        \/ \E b \in DOMAIN books, name \in Names : CopySheetToWorkbook(s, b, name)
        \/ \E name \in Names, position \in 0..(MaxSheets - 1), hidden \in BOOLEAN :
                UpdateSheet(s, name, position, hidden)
        \/ DeleteSheet(s)
        \/ /\ ~ Free(sheets[s].book)
           /\ \E gone \in SUBSET On(rules, {s}), lost, fitting \in SUBSET charts,
                 left \in SUBSET On(backups[sheets[s].book].seen, {s}),
                 broken \in SUBSET SheetsOf(sheets[s].book) :
                    ChangeStructure(s, gone, lost, fitting, left, broken)
        \/ \E formula \in Formulas : WriteFormula(s, formula)
        \/ \E kind \in Kinds : CreateRule(s, kind)
        \/ \E source \in DOMAIN sheets : CreateChart(s, source)
        \/ \E owner \in Actors, active \in BOOLEAN : CreateFilterView(s, owner, active)

Operations ==
    \/ OnSheets
    \/ \E title \in Titles, name \in Names : CreateWorkbook(title, name)
    \/ \E b \in DOMAIN books :
          \/ \E title \in Titles : UpdateWorkbook(b, title)
          \/ DeleteWorkbook(b) \/ RestoreWorkbook(b) \/ PurgeWorkbook(b)
          \/ \E title \in Titles, owner \in Actors : DuplicateWorkbook(b, title, owner)
          \/ \E name \in Names : CreateSheet(b, name)
          \/ CreateVersion(b)
    \/ \E i \in DOMAIN versions : RestoreVersion(i)
    \/ \E rule \in rules : DeleteRule(rule) \/ \E kind \in Kinds : UpdateDataValidation(rule, kind)
    \/ \E chart \in charts, s, source \in DOMAIN sheets : UpdateChart(chart, s, source)
    \/ \E chart \in charts : DeleteChart(chart)
    \/ \E view \in views :
          DeleteFilterView(view) \/ \E active \in BOOLEAN : UpdateFilterView(view, active)

\* What happens within an operation.
Within ==
    \E b \in DOMAIN books :
        \/ done < MaxOperations /\ TakeBackup(b)
        \/ ReadFilterViews(b) \/ Rollback(b)

Next == (Operation /\ Operations) \/ (UNCHANGED done /\ Within)

Spec == Init /\ [][Next]_vars

Symmetry == Permutations(Names) \cup Permutations(Titles)

-----------------------------------------------------------------------------
\* The tables hold what the migrations admit: positions are natural numbers, and what hangs on
\* a sheet, the sheet of a workbook and the version of a workbook refer to a row that exists.
TypeOK ==
    /\ DOMAIN books \subseteq BookIds
    /\ \A b \in DOMAIN books : books[b] \in [title : Titles, live : BOOLEAN]
    /\ DOMAIN sheets \subseteq 1..used /\ used \in SheetIds
    /\ \A s \in DOMAIN sheets : sheets[s] \in Sheets /\ sheets[s].book \in DOMAIN books
    /\ done \in 0..MaxOperations
    /\ rules \subseteq Rules /\ charts \subseteq Charts /\ views \subseteq Views
    /\ \A p \in rules \cup charts \cup views : p.sheet \in DOMAIN sheets
    /\ \A i \in DOMAIN versions : versions[i].book \in DOMAIN books

\* The positions of the sheets of a workbook are 0, 1, ... without a gap or a double, whatever
\* was moved, copied, deleted or restored: UpdateSheet checks a new position against the
\* count, and CopySheetToWorkbook takes the count as the next free one.
SheetsAreInOrder ==
    \A b \in DOMAIN books :
        {sheets[s].position : s \in SheetsOf(b)} = 0..(Cardinality(SheetsOf(b)) - 1)

\* Restoring never fails on where things hang or draw from: RestoreVersion refuses a snapshot
\* with a chart whose source is missing, and such a version is then the lost only way back.
\* What a version holds is refused for two reasons only (Normal): a list that was inserted
\* without its range, and a source that a structural change made too large.
EveryVersionIsRestorable ==
    \A i \in DOMAIN versions : Normal(versions[i].snapshot) => Restorable(versions[i])

\* A formula goes on naming the sheet it was written for as long as this sheet is in the
\* workbook, through renaming, copies and restoring.
FormulasFollowTheirSheet ==
    \A s \in DOMAIN sheets :
        LET f == sheets[s].formula
        IN  (f.meant \in DOMAIN sheets /\ sheets[f.meant].book = sheets[s].book)
                => sheets[f.meant].name = f.names

\* Restoring a version gives back the document it was made of, but for the ranges of lists,
\* whatever happened to the workbook since, and leaves alone what it did not record on the
\* sheets that stay: images always, and for a version of an earlier release protections and
\* filter views too ("무엇이 있었는지 알 길이 없는데 지우는 것은 되돌리는 것이 아니라 잃는 것이다").
RestoreIsExact ==
    [][\A i \in DOMAIN versions : RestoreVersion(i) =>
          LET of == versions[i].of
              b == versions[i].book
              schema == versions[i].schema
              stay == SheetsOf(b) \cap DOMAIN of.sheets
              Left(kind) == {r \in On(rules, stay) : r.kind = kind}
              restored == Document(b)'
          IN  /\ restored.title = of.title /\ restored.sheets = of.sheets
              /\ schema = CurrentSchema => restored = [of EXCEPT !.rules = Reinserted(@)]
              /\ schema < 9 => {r \in restored.rules : r.kind = "protection"} = Left("protection")
              /\ schema < 5 => restored.views = On(views, stay)
              /\ {r \in On(rules', DOMAIN of.sheets) : r.kind = "image"} = Left("image")]_vars

\* Whenever a sheet leaves a workbook, a new version of the workbook holds the document
\* as it was: the sheet and everything recorded with it can be brought back ("the snapshot
\* taken here is the only way back"), except for filter views written while the operation
\* was between its backup and its change.
DeletionIsBackedUp ==
    [][\A b \in DOMAIN books \cap DOMAIN books' :
          SheetsOf(b) \subseteq SheetsOf(b)' \/
              \E i \in DOMAIN versions' \ DOMAIN versions :
                  LET backup == versions'[i].snapshot
                  IN  /\ versions'[i].book = b /\ b \in DOMAIN backups
                      /\ backup = [Document(b) EXCEPT !.views = backup.views]
                      /\ Document(b).views \subseteq backup.views \cup backups[b].since]_vars

\* A document without its ids: sheets stand for themselves by name.
Shape(b) ==
    LET NameOf(s) == IF s \in SheetsOf(b) THEN sheets[s].name ELSE NoName
        Tab(sheet) == [name |-> sheet.name, position |-> sheet.position, hidden |-> sheet.hidden,
                       formula |-> sheet.formula.names]
    IN  [sheets |-> {Tab(sheets[s]) : s \in SheetsOf(b)},
         rules |-> {<<r.kind, NameOf(r.sheet)>> : r \in Document(b).rules},
         charts |-> {<<NameOf(c.sheet), c.source = Ref, NameOf(c.source), c.fit>> : c \in Document(b).charts},
         views |-> {<<NameOf(v.sheet), v.active>> : v \in Document(b).views}]

\* A copied workbook looks like the original ("사본은 원본과 같아 보여야 한다"): the same sheets
\* with the same formulas, and everything that travels, drawing from the sheets of the copy
\* and not from the original; only lists lose their ranges.
CopyIsComplete ==
    [][\A b \in DOMAIN books, title \in Titles, owner \in Actors :
          DuplicateWorkbook(b, title, owner) =>
              \A copy \in DOMAIN books' \ DOMAIN books :
                  Shape(copy)' = [Shape(b) EXCEPT !.rules = {<<Inserted(r[1]), r[2]>> : r \in @}]]_vars
================================================================================
