--------------------------- MODULE CellOperations ---------------------------
(***************************************************************************)
(* The write path of one sheet: cell writes, structural changes, undo and  *)
(* the resolution of edit conflicts, as PostgresRepository runs them       *)
(* (internal/workbook/postgres_repository.go, postgres_structure.go,       *)
(* postgres_conflicts.go).  Every write runs in a transaction that holds   *)
(* the workbook's row, so ApplyCells and ApplyStructure are single steps;  *)
(* resolving a conflict is a sequence of steps that holds only the         *)
(* conflict's row.                                                         *)
(*                                                                         *)
(* Other changes of the workbook (names, rules, comments) also advance its *)
(* version; they leave the cells and the log alone and are left out.       *)
(* A sheet is one column of Limit rows.  A client composes a write against *)
(* a version it has seen (base); the write may arrive late, and any write  *)
(* may be delivered again.  The ghost field layout of a log entry records  *)
(* which row is which, so that properties can follow a row through moves.  *)
(***************************************************************************)
EXTENDS RowOrder

CONSTANTS
    Clients,        \* browser tabs and API clients (client_id)
    Actors,         \* users (actor_id)
    ActorOf,        \* the user behind a client
    Anonymous,      \* clients that send no client_id
    Values, Empty,  \* cell contents
    Batches,        \* the sets of rows one write may name
    Changes,        \* the structural changes clients make
    MaxVersion,     \* bound: workbook version
    MaxLag          \* bound: versions a client may be behind

ASSUME ActorAssumption == ActorOf \in [Clients -> Actors] /\ Anonymous \subseteq Clients
ASSUME EmptyAssumption == Empty \notin Values
ASSUME BatchAssumption == Batches \subseteq (SUBSET Positions) \ {{}}
ASSUME ChangeAssumption == Changes \subseteq Mutations
ASSUME VersionAssumption == MaxVersion \in Nat \ {0} /\ MaxLag \in Nat

Contents == Values \cup {Empty}

\* The before and after images of an operation: contents of some of the rows.
PartialCells == UNION {[S -> Contents] : S \in SUBSET Positions}

NoCells == [r \in {} |-> Empty]

OneCell(r, v) == [q \in {r} |-> v]

NoChange == [action |-> "none", index |-> 0, count |-> 0, destination |-> 0]

\* Idempotency keys: a fresh key per request, and the web client's undo:<id>.
Keys == {"new", "undo"} \X Nat

\* A conflict is known by the version of the operation that met it and its row.
ConflictIds == Nat \X Nat

NoConflict == <<0, 0>>

Resolutions == {"keep_current", "restore_previous"}

\* CellMutation and StructuralMutation.  checked: Expected is given.
Requests ==
    [type : {"write", "undo", "structure"} \cup Resolutions, client : Clients, key : Keys,
     base : Nat, writes : PartialCells, checked : BOOLEAN, expected : PartialCells,
     change : Mutations \cup {NoChange}, about : ConflictIds]

RowIds == Nat \X Nat

\* A row of cell_operations; layout is ghost.
Entries ==
    [req : Requests, before : PartialCells, after : PartialCells, layout : [Positions -> RowIds]]

Conflicts == [op : Nat, row : Positions, conflicting : Contents, applied : Contents]

Resolvers ==
    [conflict : Conflicts, client : Clients, resolution : Resolutions,
     phase : {"read", "ready", "applied"}, seen : Contents, base : Nat]

VARIABLES
    version,      \* workbooks.version
    cells,        \* cell_blocks
    log,          \* cell_operations: log[v - 1] is the operation that made version v
    conflicts,    \* cell_conflicts
    resolutions,  \* the resolved ones: conflict, resolution, operation
    resolving     \* calls of ResolveCellConflict under way

vars == <<version, cells, log, conflicts, resolutions, resolving>>

TypeOK ==
    /\ version \in 1..MaxVersion
    /\ cells \in [Positions -> Contents]
    /\ log \in Seq(Entries)
    /\ conflicts \subseteq Conflicts
    /\ resolutions \subseteq [conflict : Conflicts, resolution : Resolutions, op : Nat]
    /\ resolving \subseteq Resolvers

Init ==
    /\ version = 1
    /\ cells = [r \in Positions |-> Empty]
    /\ log = <<>>
    /\ conflicts = {}
    /\ resolutions = {}
    /\ resolving = {}

-----------------------------------------------------------------------------
(***************************************************************************)
(* Reading the log                                                         *)
(***************************************************************************)

\* Mutant: a key is forgotten once another operation has been logged.
DuplicateOfLastOnly(m) ==
    \E i \in DOMAIN log :
        i = Len(log) /\ ActorOf[log[i].req.client] = ActorOf[m.client] /\ log[i].req.key = m.key

\* findDuplicate: the actor has an operation under this key.
Duplicate(m) ==
    \E i \in DOMAIN log :
        ActorOf[log[i].req.client] = ActorOf[m.client] /\ log[i].req.key = m.key

\* Mutant: the operations of the actor's other tabs do not count as foreign.
ForeignByActor(other, m) == ActorOf[other.client] # ActorOf[m.client]

\* The WHERE clause of findConflicts: another actor, another client, or no
\* client_id to tell by.
Foreign(other, m) ==
    \/ m.client \in Anonymous
    \/ ActorOf[other.client] # ActorOf[m.client]
    \/ other.client # m.client

Structural(e) == e.req.type = "structure"

\* Mutant: a late write goes to the address it names.
RebaseNowhere(r, base) == IF base < 0 THEN Gone ELSE r

\* structuralChangesSince and rebasePosition: an address of version base, moved
\* through every structural change recorded since.
Rebase(r, base) ==
    IF base < 1 THEN r
    ELSE LET at[v \in base..version] ==
               IF v = base THEN r
               ELSE IF at[v - 1] = Gone \/ ~Structural(log[v - 1]) THEN at[v - 1]
               ELSE TransformPosition(at[v - 1], log[v - 1].req.change)
         IN  at[version]

\* rebaseCellInputs: the writes at their present addresses, dropped ones left out.
Rebased(m) ==
    [r \in {q \in Positions : \E p \in DOMAIN m.writes : Rebase(p, m.base) = q} |->
        m.writes[CHOOSE p \in DOMAIN m.writes : Rebase(p, m.base) = r]]

-----------------------------------------------------------------------------
(***************************************************************************)
(* Conflicts                                                               *)
(***************************************************************************)

\* The foreign operations since base; none for a write that claims no base.
ForeignSince(m) ==
    { i \in DOMAIN log : m.base >= 1 /\ i >= m.base /\ Foreign(log[i].req, m) }

WritersOf(r, m) ==
    { i \in ForeignSince(m) : ~Structural(log[i]) /\ r \in DOMAIN log[i].after }

\* findConflicts compares the rebased addresses with the addresses the other
\* operations were recorded at; a foreign structural change touches every cell.
ConflictRows(m, target) ==
    { r \in DOMAIN target :
        WritersOf(r, m) # {} \/ \E i \in ForeignSince(m) : Structural(log[i]) }

\* Mutant: a conflict with a structural change only names no value.
ConflictingUnset(r, m) ==
    LET writers == WritersOf(r, m)
    IN  IF writers = {} THEN NoCells
        ELSE log[CHOOSE i \in writers : \A j \in writers : j <= i].after[r]

\* The value that will be offered for restoring: the last foreign one recorded
\* at this address, or the present cell when there is none or it is empty.
Conflicting(r, m) ==
    LET writers == WritersOf(r, m)
        last    == CHOOSE i \in writers : \A j \in writers : j <= i
    IN  IF writers = {} THEN cells[r]
        ELSE IF log[last].after[r] = Empty THEN cells[r]
        ELSE log[last].after[r]

\* The conflict records of operation m.  With Expected the cells that differ
\* from it are skipped and reported; without, findConflicts decides.
FoundConflicts(m, target, skipped) ==
    { [op |-> version + 1, row |-> r, applied |-> target[r],
       conflicting |-> IF m.checked THEN cells[r] ELSE Conflicting(r, m)] :
        r \in IF m.checked THEN skipped ELSE ConflictRows(m, target) }

-----------------------------------------------------------------------------
(***************************************************************************)
(* ApplyCells                                                              *)
(***************************************************************************)

InitialLayout == [r \in Positions |-> <<1, r>>]

\* Ghost: which row stands where at version v.
Layout(v) == IF v = 1 THEN InitialLayout ELSE log[v - 1].layout

\* Mutant: the cells that no longer hold what was expected are written too.
SkippedNone(m, target) == { r \in DOMAIN target : m.checked /\ r = Gone }

\* The cells left alone because they do not hold what the caller expected.
Skipped(m, target) == { r \in DOMAIN target : m.checked /\ cells[r] # m.expected[r] }

\* The transaction of ApplyCells from the rebase to the commit.
CommitCells(m) ==
    LET target  == Rebased(m)
        skipped == Skipped(m, target)
        written == [r \in DOMAIN target \ skipped |-> target[r]]
    IN  /\ version < MaxVersion
        /\ m.base <= version
        /\ DOMAIN target # {}
        /\ m.checked => DOMAIN target \subseteq DOMAIN m.expected
        /\ m.type \in Resolutions => skipped = {}
        /\ cells' = [r \in Positions |-> IF r \in DOMAIN written THEN written[r] ELSE cells[r]]
        /\ version' = version + 1
        /\ log' = Append(log, [req |-> m, before |-> [r \in DOMAIN written |-> cells[r]],
                               after |-> written, layout |-> Layout(version)])
        /\ conflicts' = conflicts \cup FoundConflicts(m, target, skipped)

\* A request that is already in the log gets its recorded answer.
ApplyCells(m) ==
    \/ Duplicate(m) /\ UNCHANGED vars
    \/ ~Duplicate(m) /\ CommitCells(m) /\ UNCHANGED <<resolutions, resolving>>

FreshKey == <<"new", version>>

\* The versions a client may have last seen; 0 claims none.
Bases == { b \in 0..version : b = 0 \/ version - b <= MaxLag }

\* A user or API client edits some rows, having last seen version base.
WriteCells(client, base, writes) ==
    ApplyCells([type |-> "write", client |-> client, key |-> FreshKey, base |-> base,
                writes |-> writes, checked |-> FALSE, expected |-> NoCells,
                change |-> NoChange, about |-> NoConflict])

\* UndoOperation: the before images of one of the actor's own operations, each
\* guarded by its after image, both under the addresses of that time.
UndoOperation(client, i) ==
    /\ ActorOf[log[i].req.client] = ActorOf[client]
    /\ ~Structural(log[i]) /\ DOMAIN log[i].after # {}
    /\ ApplyCells([type |-> "undo", client |-> client, key |-> <<"undo", i + 1>>, base |-> i + 1,
                   writes |-> log[i].before, checked |-> TRUE, expected |-> log[i].after,
                   change |-> NoChange, about |-> NoConflict])

-----------------------------------------------------------------------------
(***************************************************************************)
(* ApplyStructure                                                          *)
(***************************************************************************)

\* A structural change needs the current version: it is never rebased.
CommitStructure(m) ==
    LET c == m.change
    IN  /\ version < MaxVersion
        /\ m.base = version
        /\ \A r \in Positions :
              cells[r] # Empty /\ c.action = "insert" => InsertedPosition(r, c) # Gone
        /\ cells' = [q \in Positions |->
                       IF \E r \in Positions : TransformPosition(r, c) = q
                       THEN cells[CHOOSE r \in Positions : TransformPosition(r, c) = q]
                       ELSE Empty]
        /\ version' = version + 1
        /\ log' = Append(log, [req |-> m, before |-> NoCells, after |-> NoCells,
                               layout |-> Rearranged(Layout(version), c,
                                             [k \in 1..c.count |-> <<version + 1, k>>])])

ApplyStructure(m) ==
    \/ Duplicate(m) /\ UNCHANGED vars
    \/ /\ ~Duplicate(m) /\ CommitStructure(m)
       /\ UNCHANGED <<conflicts, resolutions, resolving>>

ChangeStructure(client, c) ==
    ApplyStructure([type |-> "structure", client |-> client, key |-> FreshKey, base |-> version,
                    writes |-> NoCells, checked |-> FALSE, expected |-> NoCells,
                    change |-> c, about |-> NoConflict])

\* A request whose answer was lost is sent again, unchanged.
Redeliver(i) ==
    \/ log[i].req.type = "structure" /\ ApplyStructure(log[i].req)
    \/ log[i].req.type \in {"write", "undo"} /\ ApplyCells(log[i].req)

-----------------------------------------------------------------------------
(***************************************************************************)
(* ResolveCellConflict                                                     *)
(***************************************************************************)

ConflictId(k) == <<k.op, k.row>>

\* The conflict's row is locked (SELECT ... FOR UPDATE) for the whole call.
Locked(k) == \E x \in resolving : x.conflict = k

Open(k) == \A s \in resolutions : s.conflict # k

\* Lock the conflict, then read its cell outside the transaction.  Restoring is
\* refused when the cell no longer holds what the conflicting write put there.
ResolveBegin(k, client, resolution) ==
    /\ version < MaxVersion
    /\ Open(k) /\ ~Locked(k)
    /\ resolution = "restore_previous" => cells[k.row] = k.applied
    /\ resolving' = resolving \cup
          {[conflict |-> k, client |-> client, resolution |-> resolution,
            phase |-> "read", seen |-> cells[k.row], base |-> 0]}
    /\ UNCHANGED <<version, cells, log, conflicts, resolutions>>

\* The same call again after its operation was committed but the conflict was
\* not closed: the recorded operation closes it.
ResolveReplay(k, i) ==
    /\ Open(k) /\ ~Locked(k)
    /\ log[i].req.about = ConflictId(k)
    /\ resolutions' = resolutions \cup
          {[conflict |-> k, resolution |-> log[i].req.type, op |-> i + 1]}
    /\ UNCHANGED <<version, cells, log, conflicts, resolving>>

\* GetWorkbook: the version is read after the cell, again outside the transaction.
ResolveReadVersion(x) ==
    /\ x.phase = "read"
    /\ resolving' = (resolving \ {x}) \cup {[x EXCEPT !.phase = "ready", !.base = version]}
    /\ UNCHANGED <<version, cells, log, conflicts, resolutions>>

\* Mutant: the version that ApplyCells is given is the present one.
ResolutionOfNow(x) ==
    [type |-> x.resolution, client |-> x.client, key |-> FreshKey, base |-> version,
     writes |-> OneCell(x.conflict.row, IF x.resolution = "keep_current" THEN x.seen
                                        ELSE x.conflict.conflicting),
     checked |-> FALSE, expected |-> NoCells,
     change |-> NoChange, about |-> ConflictId(x.conflict)]

\* The CellMutation of a resolution: rewrite what was read, or write the
\* conflicting value, guarded by what was read.
Resolution(x) ==
    [type |-> x.resolution, client |-> x.client, key |-> FreshKey, base |-> x.base,
     writes |-> OneCell(x.conflict.row, IF x.resolution = "keep_current" THEN x.seen
                                        ELSE x.conflict.conflicting),
     checked |-> TRUE, expected |-> OneCell(x.conflict.row, x.seen),
     change |-> NoChange, about |-> ConflictId(x.conflict)]

ResolveApply(x) ==
    /\ x.phase = "ready"
    /\ ~Duplicate(Resolution(x))
    /\ CommitCells(Resolution(x))
    /\ resolving' = (resolving \ {x}) \cup {[x EXCEPT !.phase = "applied", !.base = version + 1]}
    /\ UNCHANGED resolutions

\* Mutant: the conflict is closed whether or not the operation was applied.
ResolveFinishEarly(x) ==
    /\ resolutions' = resolutions \cup
          {[conflict |-> x.conflict, resolution |-> x.resolution, op |-> x.base]}
    /\ resolving' = resolving \ {x}
    /\ UNCHANGED <<version, cells, log, conflicts>>

\* finishPostgresConflictResolution and the commit that releases the lock.
ResolveFinish(x) ==
    /\ x.phase = "applied"
    /\ resolutions' = resolutions \cup
          {[conflict |-> x.conflict, resolution |-> x.resolution, op |-> x.base]}
    /\ resolving' = resolving \ {x}
    /\ UNCHANGED <<version, cells, log, conflicts>>

\* The call ends early: ApplyCells refused, the client went away, the server
\* stopped.  What ApplyCells committed stays; the lock is released.
ResolveFail(x) ==
    /\ resolving' = resolving \ {x}
    /\ UNCHANGED <<version, cells, log, conflicts, resolutions>>

-----------------------------------------------------------------------------

Next ==
    \/ \E client \in Clients, base \in Bases, rows \in Batches :
          \E writes \in [rows -> Contents] : WriteCells(client, base, writes)
    \/ \E client \in Clients, c \in Changes : ChangeStructure(client, c)
    \/ \E client \in Clients, i \in DOMAIN log : UndoOperation(client, i)
    \/ \E i \in DOMAIN log : Redeliver(i)
    \/ \E k \in conflicts, client \in Clients, resolution \in Resolutions :
          ResolveBegin(k, client, resolution)
    \/ \E k \in conflicts, i \in DOMAIN log : ResolveReplay(k, i)
    \/ \E x \in resolving :
          ResolveReadVersion(x) \/ ResolveApply(x) \/ ResolveFinish(x) \/ ResolveFail(x)

Spec == Init /\ [][Next]_vars

-----------------------------------------------------------------------------
(***************************************************************************)
(* Properties                                                              *)
(***************************************************************************)

\* The row at address r of version v.
RowAt(v, r) == Layout(v)[r]

Reported(i, r) == \E k \in conflicts : k.op = i + 1 /\ k.row = r

\* The log is an OperationLog: versions without gaps, each request applied at
\* most once although it may be delivered again at any time, entries never
\* rewritten (findDuplicate, the unique index on actor and key).
Ops ==
    [i \in DOMAIN log |->
        [actor |-> ActorOf[log[i].req.client], key |-> log[i].req.key, content |-> log[i]]]

Abstract == INSTANCE OperationLog WITH ops <- Ops

ImplementsOperationLog == Abstract!Spec

\* A late write or undo lands in the rows its author meant, wherever they stand
\* by then, and a row that still exists is written or reported (rebase.go: "a
\* write to A5 lands on what used to be A6" must not happen).
LandsWhereMeant ==
    \A i \in DOMAIN log :
        LET m == log[i].req
        IN  m.type \in {"write", "undo"} /\ m.base >= 1 =>
              /\ \A r \in DOMAIN log[i].after : \E p \in DOMAIN m.writes :
                    RowAt(m.base, p) = RowAt(i, r) /\ log[i].after[r] = m.writes[p]
              /\ \A p \in DOMAIN m.writes, r \in Positions :
                    RowAt(m.base, p) = RowAt(i, r) => r \in DOMAIN log[i].after \/ Reported(i, r)

\* Write i replaced what someone else had put into the row after its base.
Overwrites(i, r) ==
    LET m == log[i].req
    IN  /\ m.type = "write" /\ m.base >= 1 /\ r \in DOMAIN log[i].after
        /\ \E j \in m.base..i - 1 :
              /\ log[j].req.client # m.client
              /\ \E p \in DOMAIN log[j].after : RowAt(j + 1, p) = RowAt(i, r)

\* A structural change of the writer's own client since the base of write i.
OwnStructureSince(i) ==
    \E j \in log[i].req.base..i - 1 :
        Structural(log[j]) /\ log[j].req.client = log[i].req.client

\* Replacing what another client wrote since the base - another user, or another
\* tab of the same user - is always reported as a conflict, unless the writer's
\* own client changed the structure in between.
OverwriteIsReported ==
    \A i \in DOMAIN log : \A r \in DOMAIN log[i].after :
        Overwrites(i, r) /\ ~OwnStructureSince(i) => Reported(i, r)

\* Documented in docs/USER_GUIDE.md:1494: an edit of the same cell never makes an
\* earlier one disappear silently.
NoSilentOverwrite ==
    \A i \in DOMAIN log : \A r \in DOMAIN log[i].after : Overwrites(i, r) => Reported(i, r)

StructureBetween(from, to) == \E j \in from..to - 1 : Structural(log[j])

\* Undo puts back what its operation replaced, in cells that still hold what the
\* operation wrote and in no other, whatever was written in between (as long as
\* the structure is unchanged: the expected cells are not rebased).
UndoIsExact ==
    \A i \in DOMAIN log :
        LET t == log[i].req.base - 1
        IN  log[i].req.type = "undo" /\ ~StructureBetween(t + 1, i) =>
              \A r \in DOMAIN log[i].after :
                 log[i].before[r] = log[t].after[r] /\ log[i].after[r] = log[t].before[r]

\* A restored conflict replaces exactly what the conflicting write had put there,
\* although the cell and the version are read at different moments before the
\* write (docs/USER_GUIDE.md:1502; again while the structure is unchanged).
RestoreReplacesTheConflictingWrite ==
    \A i \in DOMAIN log : \A k \in conflicts :
        /\ log[i].req.type = "restore_previous"
        /\ log[i].req.about = ConflictId(k)
        /\ ~StructureBetween(k.op, i)
        => log[i].before[k.row] = k.applied /\ log[i].after[k.row] = k.conflicting

\* A conflict is closed once, by an operation that is in the log, was made for
\* this conflict and is of the recorded kind - also when the server stopped
\* between the operation and the closing, and the call is repeated.
ClosedByItsOperation ==
    /\ \A s \in resolutions :
          /\ s.op - 1 \in DOMAIN log
          /\ log[s.op - 1].req.about = ConflictId(s.conflict)
          /\ log[s.op - 1].req.type = s.resolution
    /\ \A s, t \in resolutions : s.conflict = t.conflict => s = t

=============================================================================
