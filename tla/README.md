# Kanpic: TLA+ specifications

Kanpic is a collaborative spreadsheet server (Go, PostgreSQL, WebSocket) with a
browser client (TypeScript). This directory specifies the part of it in which
several people, several tabs and unreliable connections meet: how rows are
renumbered, how late and repeated writes are applied, how conflicts are found
and resolved, how the browser's queue of unsaved edits is sent, how screens
learn of changes, how a change reaches the formulas, how sheets, versions and
copies make up a document, and how automations and the AI agent write into it.
The models are checked with TLC on small instances, and the central properties
are proved with TLAPS for instances of every size.

Paths below are relative to the repository.

## 1. Inventory

| Component | State | Operations | What is hard | What makes it correct |
|---|---|---|---|---|
| Structural changes (`internal/formula/structure.go`, `internal/workbook/structure.go`, `postgres_structure.go`) | cells, named ranges, rules, charts, comments, protections of a sheet, all stored by address | `ApplyStructure`: insert, delete, move rows or columns | four segments of a move, torn ranges, the end of the sheet, many kinds of stored address | everything stays with its row |
| Cell operations (`postgres_repository.go`, `rebase.go`) | cell blocks, workbook version, operation log | `ApplyCells`, `UndoOperation` | writes composed against old versions, delivered late or twice | a write lands where it was meant, once |
| Recalculation (`recalculation.go`, `internal/formula/graph.go`) | values of formulas, the cells arrays have filled, with their anchor | `recalculateCellInputs` inside every write, structural change and change of a name | arrays that fill and empty the cells others read, pass after pass; cycles; room that comes and goes | a formula shows what it comes to on the sheet as shown |
| Conflicts (`conflicts.go`, `postgres_conflicts.go`) | open and resolved conflicts | detection in `ApplyCells`, `ResolveCellConflict` | reads in several transactions, stopping half way | overwriting is reported, restoring is exact |
| Browser outbox (`web/src/lib/outbox*.ts`) | IndexedDB queue shared by all tabs | enqueue, flush, retry, discard | overlapping flushes, lost answers, closed tabs | nothing lost, order kept, comes to rest |
| Browser editor (`web/src/state`, `EditorPage.tsx`, `CanvasGrid.tsx`) | cached cells, version, selection, draft | edits, events of the hub, reloads | stale version or cache used for the next edit | an edit names the version it was made on |
| Collaboration hub (`internal/collaboration/hub.go`) | rooms, peers, presence, a channel of 64 events per peer | register, broadcast, cancel, cursor, submit | events between registration and snapshot, overflow, reconnection | no screen misses a version, all reach the last one |
| Automations (`internal/automation`) | automations, runs, schedules | create, run, trigger, webhook, schedule, undo | stops between insert, write and record; retries; rate limit; a write computed from an older version | a cause writes once, on what was read; the row tells the truth; no due time is lost |
| AI agent (`internal/ai`) | conversations, runs, plans, change sets | send, approve, cancel, roll back | tools executed one by one, racing approvals and cancellations, cut requests | nothing without approval, nothing on another state than the reviewed one, nothing left by a failed or undone run |
| Document (`postgres_repository.go`, `postgres_management.go`) | workbooks, sheets, what hangs on them, versions | create, copy, rename, move, delete, save and restore versions, trash | renumbering of tabs, objects that name other sheets, versions of older releases | a version is restored as it was, copies are complete, formulas name their sheet |
| Sharing and directory (`sharing.go`, `postgres_sharing.go`) | owner, shares, departments, access requests | share, transfer, decide | nested departments, concurrent decisions | a role is never higher than granted |
| Handoff (`internal/handoff`) | one-time tickets, receipts | issue, redeem, fetch | ticket redeemed twice | at most one redemption |
| Comments, settings, sessions, API keys | rows with a revision or an expiry | create, update, delete | lost updates | revision check |
| The function library, charts, pivots, filters, import and export, HTTP routing, mail, presentation, observability | none or derived | pure computation, input and output | - | covered by table tests |

The parts interact as follows. The browser composes an edit against the version
it has seen and puts it into the outbox; a flush sends it to the HTTP API, which
calls the repository. The repository serialises the writes of a workbook on the
workbook's row (`SELECT ... FOR UPDATE`), except those of filter views, which lock
nothing (`postgres_filter.go:17`, `100`, `158`). It logs each write of cells and each
structural change as an operation with its before and after images, and the API
then publishes the operation through the hub. Other browsers take the new version from the event and reload what they
show. Automations and the agent write through the same `ApplyCells`.

`PROJECT.json` lists the components with their status and, under `hazards`, what
is hard to test in this code, each at its line with the properties that watch it.

## 2. Modules

| Module | Models |
|---|---|
| `StructuralChange` | `TransformPosition` and `TransformInterval`: the arithmetic of insert, delete and move on one axis |
| `RowOrder` | the reference for it: rows as a sequence that is cut and pasted (no counterpart in the code) |
| `SheetStructure` | one axis of a sheet with cells, a named range, a rule and a protection's exceptions under `ApplyStructure` |
| `OperationLog` | abstract: an append-only log, one version per operation, a key at most once |
| `CellOperations` | the write path: `ApplyCells`, `ApplyStructure`, `UndoOperation`, `ResolveCellConflict` |
| `SpilledArrays` | `recalculateCellInputs`, whatever formulas come to: the submitted cells, the passes, arrays, undo over arrays |
| `Recalculation` | `SpilledArrays` with what formulas come to: one pass over the dependency graph, cycles and errors |
| `EditDelivery` | abstract: what is composed arrives once, in the order of its sheet, or is dropped with the user's knowledge |
| `Outbox` | the browser's queue and its flushes |
| `Collaboration` | the hub, the handlers that publish to it and the version, workbook and cells a browser shows |
| `AutomationRuns` | the runs of automations: requests, triggers and the scheduler, step by step |
| `AgentRuns` | one run of the agent: approval, tools, compensation, cancellation, rollback |
| `WorkbookDocument` | sheets, rules, charts and views of workbooks, copies, versions and the trash |
| `MCCellOperations`, `MCOutbox` | instances for TLC |
| `StructuralChangeProofs`, `SheetStructureProofs`, `CellOperationsProofs`, `BrowserProofs` (of `Outbox` and `Collaboration`), `AutomationRunsProofs`, `AgentRunsProofs`, `WorkbookDocumentProofs`, `SpilledArraysProofs` | lemmas, theorems and proofs |

`SheetStructure` and `CellOperations` both extend `RowOrder`, which extends
`StructuralChange`: cells, ranges and late writes go through the same operators,
as in the code. `CellOperations` implements `OperationLog` (`Abstract ==
INSTANCE OperationLog WITH ops <- Ops`, the version is the same variable).
`Outbox` relies on what `OperationLog` promises, that an operation is applied at
most once, and uses the server only through that (`ServerApplies`). It implements
`EditDelivery` (`Delivery == INSTANCE EditDelivery WITH composed <- created,
delivered <- applied`): queue, lists, flushes and stray requests are gone there,
and what is left is how edits reach the server.
`AutomationRuns` and `AgentRuns` rely on the same promise, and on
`RequireExactVersion`: a write that asks for it is refused at any other version.

### State and actions against the code

`StructuralChange`. A position is a number from 1, `Gone` (0) is the code's
`false`. `Mutations` is what `normalizeStructuralMutation` lets through, a
destination inside the moved band included. `Cover` is the closure of
`movedInterval`.

`SheetStructure`. `cells` are the cell blocks of one column (or row); a cell is
empty, a value or a formula, with or without a note. `named` stands for what
keeps `#REF!` when its last row is deleted (named ranges, comments, charts,
pivots), `rule` for what disappears with it (validation, conditional formats,
filters, tables, watch rules, protections). The action `ApplyStructure` is the
whole transaction: overflow checks, all transformations, and the recalculation
at its end, which rebuilds formula cells (`Recalculated`). `rows` and `torn` are
ghosts: the rows as users see them.

`CellOperations`. `log[v - 1]` is the row of `cell_operations` with server
version `v`. `WriteCells` composes a write against any version (0: none) within
`MaxLag` of the present one, so a write may be arbitrarily late up to that
bound; `Redeliver` sends any logged request again. `ApplyCells` is one step, as
it holds the workbook's row from its first statement to the commit.
`ResolveCellConflict` is four steps (`ResolveBegin`, `ResolveReadVersion`,
`ResolveApply`, `ResolveFinish`): it holds only the conflict's row and reads the
cell and the version in transactions of their own; `ResolveFail` stops it after
any of them, and `ResolveReplay` is the repeated call. A refusal (permission,
protection, validation) is a write that does not happen.

`SpilledArrays` and `Recalculation`. An operation is one step, as it holds the
workbook's row; the state is the sheet it leaves. `Recalculate` is one pass over the
graph (`Evaluator.Recalculate`), `Store` what the loop does with one result,
`Stabilize` the loop of at most eight passes, `Submit` the loop over the submitted
cells. `SpilledArrays` leaves open what a pass calculates: `Evaluated` is a constant
that takes the cells, the anchors without room and the affected formulas, and gives
a value of each. `Recalculation` has the depth-first `Calculate` of the code, and
its cfg gives `Evaluated` the operator `ValuesAfter`: what is proved about
`SpilledArrays` for any `Evaluated` holds of `Recalculation`, and would of a larger
library of functions. Formulas are of five kinds, one for each way the
code treats them; an array is a column of numbers, and the last row stands for the
boundary of the sheet. The forced spill errors live only inside an operation, as
in the code. `log` holds before and after images for `UndoOperation`; `partial` is
a history variable: an undo has left out cells that were changed since. What a
formula shows is determined by the sheet only for `PlainFormulas`. The others feed
themselves, take in the cell of an array formula (`TakeAnchors`), lacked room in
an earlier pass (`LateSpills`), or follow a reference computed at run time
(`LateReferences`, `Influenced`); section 5 says what happens to these.

`Outbox`. `queue` is the object store, `list[f]` what flush `f` has still to
send, `phase[f]` what it knows about the request for its first item. Operations
are numbered in `createdAt` order. `stray` are requests whose fetch failed in
the browser and which the server may still see.

`Collaboration`. A handler commits (`Commit`), then publishes
(`PublishOperation`, `PublishVersion`, `PublishStructure`,
`ReadCurrentVersion`), then answers: publications of several handlers interleave,
and `Restart` loses those not yet made. `peer` is the hub's side of a connection,
from the version read in `ServeHTTP` before `register` to the bounded queue;
`enqueue` cancels a connection whose queue is full. `browser` is the editor: the
version, the fetched workbook, the cells shown and the requests under way. Of the
contents only the version is kept. `PublishOther` stands for the events without a
version, which only fill the queues.

`AutomationRuns`. A call is a record with a phase, one phase per transaction of
`Run`, `executeRun`, `TriggerCellChange`, `RunDueSchedules`, the webhook handler
(action `InvokeWebhook`) and `Undo` (action `UndoRun`): list, read the automation, read the range, insert the run, write the
cells, record the outcome, advance the schedule. `Crash` ends a call after any of
them, `Unavailable` makes one fail. `runs` and `auto` are the two tables, `log`
the operations of the workbook. `preview`, `read` and `admitted` are history
variables. There are two clocks: a run is stamped (`started`) by that of its server
before the transaction that inserts it, which counts the runs of the last hour by
that of the database (`admitted`), at most `Skew` ticks ahead or behind. A scheduler
whose call failed looks its run up (`FindFailedRun`); every error of this lookup is
taken for the absence of the run (`Blind`), the insertion of the failed row then
meets the row that is there, and the schedule is advanced (`PassedBlindly`).

`AgentRuns`. The module starts with the plan stored and shown. `action` is the row
of `ai_actions`, `state` and `applied` the columns of `agent_runs` and
`change_sets`, `book` what the run can touch of the workbook: the cells of the
plan, a sorted range, a chart, and the things its tools make, with their
revisions. `req` is what each request is doing, one phase per transaction; a
request may be cut off in any (`CutOff`). Others may overwrite what the run wrote
(`OthersWrite`), edit what it made (`OthersEdit`), or move its rows
(`OthersRestructure`): cells and a sorted range are then `"displaced"`, and an undo
puts them back or skips them (`PutBack`), as it looks its expected values up at the
wrong addresses. The workbook may refuse an undo (`UndoRefused`: protection,
validation, a missing cell). `unusual` records which of five situations has
occurred in which the code promises less: two approvals at once, an undo through
the endpoint that knows of cells only, an undo of an object that is stuck because
somebody had edited it, an undo of the cells that the workbook refused, and a
request cut off. The two invariants about what is left behind say which of them
they are stated without.

`WorkbookDocument`. Operations are single transactions that hold the workbook's row,
and one step each, with two exceptions. Filter views are written without the row
(`WriteViews`). The operations that store a version before they delete
(`DeleteSheet`, `RestoreVersion`, `ApplyStructure`) are therefore two steps:
`TakeBackup` reads the snapshot into `backups` and keeps the row (`Free`), and the
change stores it (`Saved`) and lets go, or `Rollback` leaves everything as it was;
views written in between are in `since`. `ChangeStructure` is what an insertion,
deletion or move of rows or columns does to the things that hang on a sheet, with
what becomes of their ranges left open (`SheetStructure` has that); it writes back
the filter views it has read before (`ReadFilterViews`). A list drawn from a range
is a `"dropdown"`; `insertDataValidationTx` leaves its range out, so wherever rules
are inserted again (restores, both copies, structural changes) it becomes
`"sourceless"` (`Inserted`). `Normal` is what `RestoreVersion` lets through when it
normalises the objects of a snapshot: no list without its range, no source of a
chart grown beyond the limit. What hangs on a sheet is otherwise told apart only by
what takes it along (the header of the module lists the kinds). `versions` is the table, by id; a
version holds its workbook, a snapshot, the schema it was written with and, as
history (`of`), the document of that moment;
`OldSchemas` are versions that earlier releases have left behind. A formula keeps
the name it contains and, as history, the sheet that was meant.

## 3. Runs

| Run | Result | Shows |
|---|---|---|
| `SheetStructure` | pass | after any sequence of edits and structural changes cells, notes of values and ranges are with their rows; nothing typed is pushed off the sheet |
| `SheetNotes` | violation | a formula cell loses its note at the next structural change (`applyRecalculatedInputs`) |
| `SheetProtection` | violation | the exceptions of a sheet protection stay where they were (the PostgreSQL repository does not store them) |
| `CellOperations` | pass | late writes land where they were meant, overwriting is reported, undo is exact, the log is an `OperationLog` |
| `ConflictResolution` | pass | restoring replaces exactly what the conflicting write had put there; a conflict is closed once, by its own operation |
| `CellOverwrite` | violation | after the writer's own structural change another user's edit can be replaced without a conflict |
| `Recalculation` | pass | whatever is typed, cleared and undone in whatever order, plain formulas and arrays show what they come to, no filled cell outlives its formula and no array is left half stored unless an undo was partial, a full recalculation is never refused and changes nothing, and results never overwrite what was typed |
| `Outbox` | pass | no edit is lost, edits are delivered as `EditDelivery` promises (once each, those of a sheet in order), the queue comes to rest |
| `Collaboration` | pass | a screen that is behind will be told (`NoChangeIsMissed`), and reaches the last version (`ScreensConverge`) |
| `AutomationRuns` | pass | a run writes on the version it read, once per cause; its row says whether it did; the limit per hour holds whatever the two clocks say; a due time is not stuck, and is left only with its run finished, or on record if the lookup of the run had failed |
| `AgentRuns` | pass | nothing without approval, nothing on another state than the reviewed one, undo takes only its own, failed and undone runs leave nothing but what others have moved or the workbook refuses to put back |
| `WorkbookDocument` | pass | tabs are numbered without gaps, every version without a list that has lost its range (or a source grown too large) can be restored, restoring is exact and copies are complete but for the ranges of lists, formulas follow a renamed sheet, deleted sheets are backed up but for filter views written meanwhile |

The three violations are disagreements between the code and the user guide or a
comment of the program; the findings in `PROJECT.json` quote both. `OverwriteIsReported` states what does
hold: without a structural change of the writer's own client in between, every
overwrite is reported, two tabs of one user included.

### Bounds

* `SheetStructure`: four rows, changes of up to two rows, four steps. A band of
  two rows with rows before, behind and between it and its destination fits, and
  so do ranges that begin, end or lie inside it; four steps combine a range, a
  cell and two changes. The proofs cover every size.
* `CellOperations`: three rows, three operations after the first version, two
  users, one with two tabs, one insertion, one deletion and one move. Three
  operations are what the hard cases need: another user's write, a structural
  change, and a late write or undo. The two tabs are symmetric: no definition
  tells them apart, and the run has no liveness property.
* `ConflictResolution`: one row is written, four operations, lag one, one client
  without `client_id`; the interest is in the interleaving of two resolutions
  with writes and failures. Structural changes are left out here because the
  property is about an unchanged structure.
* `Recalculation`: two columns of two rows, one number, all five kinds of formula,
  three operations; an operation writes one cell or clears up to two, and the last
  two can be undone, in any order. Two arrays in one column or in two, each
  reading what the other fills, with a number or a formula in their way, need
  three. At most three of the eight passes occur. On two columns of three rows,
  without undo, up to four do, and the properties hold too. A chain of more
  arrays than fit here is not reached.
* `Outbox`: two operations of one sheet, two overlapping flushes, two attempts
  instead of five, one retry or closed tab. Two attempts give a failed, a
  blocked and a stale count. Operations of several sheets are covered by the
  proofs, for safety.
* `Collaboration`: one browser, three versions, one fault, a queue of one event.
  Other users are the author `Nobody`; browsers meet only in the room's events,
  and those are in the model as `PublishOther` and the publications, so a second
  browser adds presence events and nothing new. A queue of one is full after the
  first event that is not delivered at once.
* `AutomationRuns`: one automation, created with a schedule or a webhook, which an
  update may turn into a scheduled one or one triggered by cells, one scheduler, one
  caller, two due times, one run per hour, clocks up to one tick apart, an hour of
  one tick, one fault. A write, a run and a stop fit, which is what a recovery
  needs; at base version 3 the rules of the workbook (protection, validation)
  refuse the write (`Refused`). With `Hour = 1` and `Skew = 1` in three ticks a run
  is stamped before, in or after the hour it is counted in. Two schedulers have too many states
  for a run (see section 5).
* `AgentRuns`: two requests under way and two in all, two keys, plans of up to two
  tools of the four kinds with or without cells, two disturbances. Two requests
  are what every race here needs. With three requests in all (one tool and two
  disturbances, or two tools and one) the properties hold too; these take longer
  than a run should. The proofs cover any number.
* `WorkbookDocument`: four operations, two workbooks, four sheets, three names, two
  versions, two things added by users (copies come on top), a version of schema 4;
  backups, reading views again and rollbacks are not counted. Adding a sheet,
  writing a formula that names it or a list on it, and copying, deleting or
  restoring take four, and so does a list that loses its range in a structural
  change before a version is stored.

Requests and keys of `AgentRuns`, names and titles of `WorkbookDocument` are
symmetric: no definition tells them apart, and those runs have no liveness
property.

`TypeOK` of `AutomationRuns`, `Collaboration`, `WorkbookDocument` and
`SpilledArrays` documents the types of their variables; the runs of these modules
spend their time on the other properties.

`CHECK_DEADLOCK FALSE` is set where a bound ends the behaviour (steps,
versions, requests); `Outbox` and `AutomationRuns` check for deadlock.

### Fairness

For `EventuallySettled` of `Outbox` are assumed: some flush starts again and
again while the browser is online and there is something to send (the timers of
the editor and of the list of workbooks), every fetch ends in an answer or an
error, and a flush that has its answer goes on (promises are resolved). Nothing
is assumed of the user, of the connection (the property is conditional on
`<>[]online`) or of what the server answers.

`ScreensConverge` of `Collaboration` assumes that handlers, queues and
registrations go on (goroutines of a running server), that a socket that was
closed is opened again (the timer in `onclose`), and that requests are answered
or fail. Faults are bounded, changes too: the property speaks of the time after.

`NoDueStalls` of `AutomationRuns` assumes that a call runs on until it ends or is
stopped, and strongly that the scheduler takes up a due automation: `RunScheduler`
polls for ever and lists every automation that is due, so one that is due again
and again is called. Faults are bounded by one.

## 4. Proofs

Every theorem holds for all values of the constants that satisfy the named
assumptions: sizes are positive naturals, `ActorOf` and `SheetOf` are functions
of their types, `Empty` is not a value, the batches and changes clients make are
well formed, requests and schedulers are different processes
(`WorkersAssumption`), and versions of earlier releases have an earlier schema.
TLC evaluates these assumptions in the runs.

* `StructuralChangeProofs`: lemmas on the arithmetic. Where a position goes,
  that no two go to one place, and that `Rearranged` puts at each position the
  row the arithmetic sends there; likewise for intervals.
* `SheetStructureProofs`: `TypeOKAlways`, `CellsAlwaysFollow`,
  `NotesOnValuesAlwaysFollow`, `SpansAlwaysKeepTheirRows`, `SpansAlwaysExact`, and
  the action property `NothingTypedIsEverPushedOff`: a change that is no deletion is
  an injection from the typed cells before it to those after it.
  The step of `ApplyStructure` reduces to the lemmas above. Exactness without
  moves needs one more fact, that the marks of a span form a block, which follows
  from the property itself before the step.
* `CellOperationsProofs`: `TypeOKAlways`, `LogIsAnOperationLog` (refinement),
  `ConflictsAreClosedByTheirOperation`, `WritesLandWhereMeant`,
  `OverwritesAreReported`, `UndoPutsBackWhatWasReplaced` and
  `RestoresReplaceTheirConflict`. The invariant behind the first three adds that
  versions and log agree in length, that a key occurs once per actor, that only
  resolutions are about a conflict, and what each phase of a resolution has
  established. The phases are needed because a conflict's closing happens steps
  after the operation it names. The others rest on a second invariant about the
  past (`History`): the layout of every version follows from the one before by the
  logged change, a logged request looks back to a version that existed, and the
  conflicts of an operation are about different cells. That a rebased position is
  the place of the meant row is an induction over the versions since the base;
  as the prover cannot instantiate the library's induction theorem, it is a
  least-counterexample argument over the recursive function in `Rebase`.
* `AutomationRunsProofs`: `HistoryIsTrue`, `RunsWriteOnWhatTheyRead`,
  `CausesAreServedOnce`, `TheRateIsKept` and `DueTimesAreKept`, for any number of
  automations, callers, schedulers and faults. The invariant is the type
  invariant, what the two tables and the log say of each other (`Tables`: causes of
  counted runs differ, an operation of the log has its run, an outcome is true of
  the log: a run recorded as failed can never write any more, `Spent`), and what
  each phase of a call has read and found out about its run (`CallsAreSound`).
  Every transaction of a call can be the last, so each fact is stated of the
  tables and not of the call that will use it. `TheRateIsKept` is about whoever is
  admitted last of the runs stamped at `t` or later and admitted by `t + Hour`: its
  count was over the hour before its own admission and saw all the others, however
  the clocks differ. `DueTimesAreKept` has a hypothesis,
  one scheduler process, because with two the property is false: one that fails
  before its insert may find the running row of the other and advance the schedule
  (`automation/service.go:736`, section 5). The run has one scheduler as well.
* `AgentRunsProofs`: `TypeOKAlways`, `NothingEverWithoutApproval` and
  `AlwaysAppliedToWhatWasReviewed`, for any number of requests, keys, tools and
  disturbances. The invariant adds that the revision of the row follows from its
  status, that a request past its claim has a row that is claimed
  (`AheadIsEngaged`: such a row can no longer be cancelled, and every change of
  the workbook by a request is past a claim), and that a workbook at the version
  of the plan is as planned (`VersionTells`: every write of anybody counts the
  version up).
  `UndoneRunsLeaveNothing`, `FailedRunsLeaveNothing` and the action property
  `UndoesTakeOnlyTheirOwn` rest on a second invariant (`Known`) that follows the
  tools one by one. It says what each phase of a request has established of the row
  (`RequestsAreSound`), that each outcome, stored or still in memory, is true of the
  workbook (`RecordsAreSound`: an id names a thing of that tool, a chart at the stored
  revision is nobody else's), and that the cells are there by the approval and not
  after an undo (`CellsAreSound`). Unless something unusual has happened it also says
  who knows of everything the run has left: the one request that holds the claim, in
  memory while the tools run (`HolderKnows`), then the row (`SavedKnows`,
  `RowKnows`), then the rollback (`RollbackKnows`), and nobody, because there is
  nothing, once the tools are undone (`UndoIsClean`, `EndIsClean`). All steps but
  that of a tool only take from what is left (`Shrinks`), which spares each of them
  a proof of its own. Displaced cells and rows are not among what
  has to be known: no undo is sure to find them. The hypothesis on
  `unusual` is that of the properties; what becomes of runs it excludes is in
  section 5 and among the hazards.
* `BrowserProofs`, about `Outbox`: `OutboxTypeCorrect`, `NothingIsEverLost`,
  `SheetOrderIsAlwaysKept` and the refinement `EditsAreDeliveredInOrder`: every step
  of the queue is a step of `EditDelivery` or changes nothing of it (`StepsDeliver`).
  A flush works on a stale copy of the queue; the invariant says what it may rely
  on all the same: what precedes a listed operation on its sheet is in the same
  list or accounted for (`ListsAreClosed`), what precedes a stray request is
  accounted for (`StraysAreNext`), and a success seen is one of the server
  (`OkMeansApplied`).
* `BrowserProofs`, about `Collaboration`: `ChangesAreNotMissed`, for any number of browsers, changes
  and faults and any size of the queue. The invariant says of every version that is
  neither still to be published nor given up that everybody is told of it: each
  connection has it in its queue, or will find it in its snapshot, or its browser
  knows a later one, is reading, or has no connection and will read when it gets
  one. It needs that nothing comes from the future (events, snapshots and answers
  under way carry versions that have been committed) and that an editor holds no
  workbook newer than its version and has cells of its version or reads them.
* `WorkbookDocumentProofs`: `TypeCorrect`, `TabsAreInOrder`,
  `VersionsAreRestorable`, `FormulasFollow`, and the action properties
  `DeletionsAreBackedUp`, `RestoresAreExact` and `CopiesAreComplete`. A workbook is
  sound (`IsWorkbook`) when it has a sheet, its sheets are numbered without a gap,
  their names differ and their formulas name what they mean; the numbering is a
  bijection, of which cardinality is derived (`NumberedIs`). The invariant says
  that every workbook is sound, that what hangs on a sheet hangs on one that exists
  and draws from one of the same workbook, and that every version holds a sound
  workbook whose snapshot is what `of` remembers. Of an operation that has taken its
  backup it says that nothing but filter views has changed since, and that these are
  in `since` (`BackupsAreSound`): whoever else writes needs the row. One fact is not visible in the
  tables: a sheet id never changes its workbook, even while only versions hold it
  (`Homes`). Without it a restore could take a sheet of another workbook, which is
  what `RestoreVersion` checks for and refuses.
* `SpilledArraysProofs`: `TypeCorrect`, `FilledCellsAlwaysHaveAFormula`,
  `FilledCellsAlwaysFormBlocks` and the action property `TypedAlwaysStays`, for any
  size of the sheet, any formulas on it, any batches, and any `Evaluated`. For all
  but `FilledCellsAlwaysFormBlocks` not even its results need to be values. The
  argument goes down an operation: the submitted cells, the passes, the results of
  a pass in their order. What storing results may do is `Follows`: what was typed
  stays, but for the value a formula shows, and filled cells name a formula if they
  did before. It holds of every `Store` (of `materializeSpill` because it clears its
  own cells before it looks at the others) and composes. Each loop is a recursive
  function, of which it is shown first that it solves its equation (`StoreAllIs`,
  `StabilizeIs`, `SubmitAllIs`, `UnchangedIs`), then by a least counterexample that
  what holds at its beginning and is passed on holds at its end (`AlongTheWay`).
  That an undo leaves no filled cell behind needs a fact about the log: an entry
  that held a filled cell before also held its anchor (`IsCompleteEntry`), as a
  filled cell can only be overwritten together with its anchor. An undo that leaves
  out cells puts back less than the entry, and the hypothesis `partial` is needed.

  `FilledCellsAlwaysFormBlocks` says that no array is left half stored or half
  emptied. It is not an invariant of the passes: a result that does not fit keeps
  what it filled before, an anchor that loses its room fills nothing, and both are
  put right later. What the passes keep is `Blocks(cells, S)`: every formula outside
  `S` fills a block right below it and shows a number when the block is more than
  its own cell. The submitted cells leave it for `S` the changed cells
  (`SubmitAllBlocks`, which needs that a filled cell is overwritten or put back only
  with its anchor); during a pass `S` is what is still to be stored and what goes to
  the next pass (`PassBlocks`, `StoreBlocks`); when nothing is left to calculate, `S`
  is empty. The step from one pass to the next rests on `ReachedContains` and
  `InOrderReaches`: what is to be calculated again is among the affected formulas,
  and every one of them has its turn. The theorem has one hypothesis,
  `EvaluatesToResults`: on a sheet of values a formula comes to a value or to a
  column of at least one number. `Minus`, `Sum`, `Sequence` and a reference do, by
  their definitions; that `ValuesAfter`, which is recursive, hands nothing else on
  is not proved. How many passes it takes does not matter, for an operation that
  needs more than eight is refused.

Only model-checked:

* `ShowsItsResult` (but for its conjuncts `FilledCellsHaveAFormula` and
  `FilledCellsFormBlocks`) and
  `FullRecalculationAgrees` of `Recalculation`: what formulas come to is a recursive
  operator, and whether eight passes are enough depends on the formulas;
* `EventuallySettled`, `ScreensConverge` and `NoDueStalls`: liveness, which this
  prover does not do.

## 5. What the models leave out

* The text of formulas: how references inside a formula are rewritten. The
  positions they contain go through the same operators.
* Recalculation inside `ApplyCells` of `CellOperations`, where contents are
  opaque; it is the subject of `SpilledArrays` and `Recalculation`. There, one sheet and columns of
  numbers: no matrices, merged cells, tables, names or other sheets.
* Formats, merges, layout, images, and what validation and protection check
  (that they may refuse a write is in `AutomationRuns` and `AgentRuns`).
* Changes of the workbook that advance its version without touching cells.
* What a formula, a chart, a pivot, an automation's action or a language model
  computes: values are opaque.
* The planning of an agent run, its conversation and the gateway to the language
  model; the creation of automations and their dry run.
* Cursors and presence, except that they take places in the queues of the hub.
* The in-memory repository, which tests use: the models follow PostgreSQL.
* Everything listed as `not_modelled` in `PROJECT.json`, with the reason there.

### Known limits of the code that no property covers

`PROJECT.json` lists the hazards that matter most; these were met as well.

* Undo looks up its expected cells at the rebased addresses but keeps them under
  the original ones (`postgres_repository.go:1684`): after a structural change it
  is mostly refused. `UndoIsExact` is stated for an unchanged structure.
* An open conflict keeps its coordinates through structural changes
  (`postgres_conflicts.go:53`).
* The browser's undo uses one key per operation (`EditorPage.tsx:376`): an undo
  that met conflicts in all its cells cannot be repeated.
* A blocked edit may be applied after it was discarded, when another flush had
  already sent it (`outbox.ts:105`); a formula is evaluated before it is queued
  and may overtake a later value (`CanvasGrid.tsx:471`); the browser's own
  `movedPosition` treats a destination inside the band differently
  (`structureTransform.ts:26`).
* A structural event that clears the cells of a screen whose version is already
  the new one leaves them unread (`EditorPage.tsx:184`), which is why the
  properties of `Collaboration` except a screen that shows nothing.
* The cells an automation wrote before a stop are recorded by the recovery but not
  published (`httpapi/automations.go:269`). With two scheduler processes one can fail before
  its insert, find the running row of the other and advance the schedule
  (`automation/service.go:736`): the row stays running if the other stops then.
* With one scheduler the same happens when its lookup of the run fails
  (`automation/service.go:637`): any error is taken for the absence of the run, the
  failed row is not inserted beside the running one (`:741`), and `advanceSchedule`
  (`:654`) leaves the due time of a run that nobody will finish, although the
  comment at `:639` wants it to remain recoverable. `DueIsKept` names the exception
  (`PassedBlindly`).
* The stored `started_at` may crowd an hour: it is stamped before the transaction
  (`automation/service.go:362`) that counts the last hour by the database's `now()`
  (`:446`) under the lock of the workbook (`:437`). A run that was stamped, waited,
  and was counted when the hour of the others was over shows the hour's stamps plus
  its own. `RateIsKept` therefore speaks of stamp and admission.
* `publishCurrentVersion` gives up when it cannot read the version
  (`httpapi/server.go:987`): nobody is told of the change until the next one. The
  model has it (`GiveUpPublishing`), and the properties leave such a version out.
* The snapshot of a conflict has no note (`conflicts.go:18`), so resolving it
  compares cells with notes as different; an edit in the browser sends no note
  (`CanvasGrid.tsx:460`), and the server stores the cell without it. The value a
  conflict offers may be the one another row had (`postgres_repository.go:2751`).
* `insertDataValidationTx` (`postgres_validation.go:248`) does not write
  `source_range`. A list drawn from a range loses it when its sheet or workbook is
  copied (`postgres_repository.go:709`, `:1128`), its workbook is restored (`:2369`),
  or rows or columns of its sheet are inserted, deleted or moved. Such a list
  refuses what is written to its cells (`validation.go:422`), disappears at the next
  structural change (`structure.go:204`), and a version that holds it is refused
  when it is restored (`validation.go:196`, `postgres_repository.go:2351`). The
  source of a list does not follow a renamed sheet either.
* A structural change may make the source of a chart or pivot larger than
  `normalizeChart` and `normalizePivot` accept; a version stored then is refused
  when it is restored (`postgres_repository.go:2538`, `:2571`).
* A filter view written while a sheet is deleted, a version restored or a structural
  change made may be deleted by it (`postgres_repository.go:2268`) and be in no
  version, as the backup was taken before and filter views take no lock
  (`postgres_filter.go:17-66`, `100-167`).
* Restoring a version of a release that did not record validations, formats, names,
  charts or pivots deletes the present ones all the same
  (`postgres_repository.go:2235`); later kinds of objects are left alone (2252).
* An undo that leaves out the cell of an array formula because it was changed since
  can put back a cell the array had filled: it belongs to no formula and cannot be
  edited (`postgres_repository.go:1688`, `recalculation.go:89`).
* Within a pass a formula that names the cell of an array formula is given the whole
  array (`graph.go:206`), in a later pass its first entry.
* A formula on two intertwined cycles may show a number instead of `#CIRC!`
  (`graph.go:171`; `docs/USER_GUIDE.md:1093`), as with `A1=SUM(A1:A3)`, `A2=3-A1`
  and `A3=IFERROR(A2,0)`.
* `INDIRECT` has no edge in the graph (`recalculation.go:140`): it may show the old
  value of a formula calculated after it.
* An array that found no room in one pass keeps `#SPILL!` until the next operation,
  though a later pass makes room (`recalculation.go:206`).
* Copying a workbook fails when two owners each have an active filter view on one
  sheet (`postgres_repository.go:778`; `ViewsClash`); the last visible sheet can be
  deleted (`postgres_repository.go:1389`); a restore gives objects new create keys,
  so a repeated create makes a second one (`postgres_repository.go:2355`).
* When the workbook refuses to put back the cells of an agent run whose tools have
  failed (somebody has protected the range or added a validation meanwhile,
  `postgres_repository.go:1804`, `:1850`, or a cell is missing, `:1687`), the action
  is marked failed (`service.go:421`) with its cells in place, and a rollback is no
  longer possible (`agent_service.go:1475`).
* Cells and sorted rows that somebody has moved since are skipped by the undo of an
  agent run, which succeeds all the same (`postgres_repository.go:1684`): the row
  says undone, and they stay.
* The keys of an agent's sort survive its compensation (`agent_service.go:885`), a
  rollback is accepted while the tools still run (`:1475`), and the older undo
  endpoint takes back the cells of an agent run and not its tools
  (`httpapi/ai.go:159`).

## 6. Plan

In this order:

1. `Sharing` and `Handoff`: roles through nested departments; one-time tickets.
2. The connection pool under `ResolveCellConflict`, and two schedulers in
   `AutomationRuns`.
