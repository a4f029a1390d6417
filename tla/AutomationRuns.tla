---------------------------- MODULE AutomationRuns ----------------------------
(***************************************************************************)
(* Automations of one workbook (internal/automation/service.go): stored    *)
(* actions that rewrite a range of cells when a user asks for it, when a   *)
(* cell changes, when a schedule is due or when a webhook is called.       *)
(*                                                                         *)
(* A run is a row of automation_runs, and a call of Run goes through       *)
(* several transactions: find an earlier run of the same cause, read the   *)
(* definition and the workbook, read the range, insert the row, apply the  *)
(* cells, record the outcome.  Calls of several requests and of the        *)
(* schedulers of several servers interleave between these, users write     *)
(* cells and change definitions meanwhile, and a server may stop anywhere. *)
(*                                                                         *)
(* Each clock tick is a time the rate limit and the schedules tell apart.  *)
(* Whether an action would change anything is the one thing kept of the    *)
(* cells.  automation.enabled is on; workbooks are not deleted.            *)
(***************************************************************************)
EXTENDS Integers, Sequences, FiniteSets, FiniteSetsExt

CONSTANTS
    Automations,
    Created,        \* the triggers automations are created with
    Updated,        \* the triggers an update may give them
    Schedulers,     \* one goroutine RunScheduler per server
    Callers,        \* HTTP requests that may be under way at the same time
    ClientKeys,     \* idempotency keys chosen by clients, numbers
    Slots,          \* the times every schedule of the model names
    RunsPerHour,    \* automation.max_runs_per_hour
    Hour,           \* ticks in an hour
    Skew,           \* ticks the clock of the database may be ahead of a server's or behind it
    Refused,        \* base versions at which the rules of the workbook (protection,
                    \* validation) refuse the write; each change of a rule is a version
    MaxTime, MaxVersion, MaxRevision, MaxFaults     \* bounds

ASSUME SlotsAssumption == Slots \subseteq Nat \ {0} /\ IsFiniteSet(Slots) /\ MaxTime + 1 \in Slots
ASSUME NumbersAssumption ==
    /\ RunsPerHour \in Nat \ {0} /\ Hour \in Nat \ {0} /\ Skew \in Nat
    /\ MaxTime \in Nat /\ MaxVersion \in Nat /\ MaxRevision \in Nat \ {0} /\ MaxFaults \in Nat
    /\ ClientKeys \subseteq Nat

ASSUME CreatedAssumption == Created \cup Updated \subseteq {"manual", "cell_change", "schedule", "webhook"}
ASSUME WorkersAssumption == Schedulers \cap Callers = {}

None == 0

Workers == Schedulers \cup Callers

Triggers == {"manual", "cell_change", "schedule", "webhook"}

Statuses == {"running", "succeeded", "skipped", "failed", "undoing", "undone"}

\* The idempotency keys: which of the prefixes of the code, and what follows it.
Key(use, n) == [use |-> use, n |-> n]

Keys == [use : {"client", "schedule", "trigger", "trigger-failed", "trigger-rate"}, n : Nat]

\* A row of automations.  next is next_run_at.
Definitions == [trigger : Triggers, enabled : BOOLEAN, deleted : BOOLEAN,
                revision : 1..MaxRevision, next : Slots \cup {None}]

\* A row of automation_runs; started is the time of the server that ran it, for a row that
\* the rate limit counts (0 for the others).  preview is the version the user reviewed, read
\* the version the range was read at, admitted the time of the database when insertRun
\* counted: these three are not stored, the properties speak of them.
Runs == [auto : Automations, kind : Triggers, key : Keys, op : Nat, due : Slots \cup {None},
         status : Statuses, base : Nat, started : 0..MaxTime, admitted : 0..MaxTime, counts : BOOLEAN,
         undoKey : ClientKeys \cup {None}, preview : Nat, read : Nat]

\* An entry of the workbook's operation log; its place is the version.
Entries == [by : {"user", "run", "undo"}, run : Nat]

Phases == {"list", "read", "range", "insert", "execute", "record", "refused",
           "error", "ok", "undoing", "undone", "notundone", "unrecorded"}

Calls == [phase : Phases, kind : Triggers \cup {"undo"}, auto : Automations, key : Keys,
          rev : 0..MaxRevision, base : Nat, due : Slots \cup {None}, op : Nat, run : Nat,
          at : 0..MaxTime, stamp : 0..MaxTime, skip : BOOLEAN,
          why : {"", "quiet", "rate", "other", "blind"}, preview : Nat, read : Nat]

Idle == [phase |-> "idle"]

VARIABLES
    auto,       \* the table automations
    runs,       \* the table automation_runs
    log,        \* the operations of the workbook, in version order
    settled,    \* the automations whose action would change nothing
    present,    \* the sheet the actions write to exists
    now,
    call,       \* what each worker is doing
    faults      \* bound counter

vars == <<auto, runs, log, settled, present, now, call, faults>>

\* The tables, the log of the workbook and the calls hold what the schema and the Go types
\* admit; a next_run_at is a slot of the schedule (migration 015, Automation, Run).
TypeOK ==
    /\ auto \in [Automations -> Definitions]
    /\ runs \in Seq(Runs)
    /\ log \in Seq(Entries)
    /\ settled \subseteq Automations
    /\ present \in BOOLEAN
    /\ now \in 0..MaxTime
    /\ call \in [Workers -> Calls \cup {Idle}]
    /\ faults \in 0..MaxFaults

version == Len(log)

\* schedule.Next
NextSlot(t) == Min({s \in Slots : s > t})

\* nextScheduleTime, and NULL for a disabled automation
NextRun(trigger, enabled) ==
    IF trigger = "schedule" /\ enabled THEN NextSlot(now) ELSE None

Init ==
    /\ auto \in [Automations -> {[trigger |-> t, enabled |-> TRUE, deleted |-> FALSE, revision |-> 1,
                                  next |-> IF t = "schedule" THEN NextSlot(0) ELSE None] : t \in Created}]
    /\ runs = <<>>
    /\ log = <<[by |-> "user", run |-> None]>>     \* CreateWorkbook: version 1
    /\ settled = {}
    /\ present = TRUE
    /\ now = 0
    /\ call = [w \in Workers |-> Idle]
    /\ faults = 0

-----------------------------------------------------------------------------
(***************************************************************************)
(* Definitions, other users, time                                          *)
(***************************************************************************)

\* Update, with the revision the user saw.
Update(a, trigger, enabled) ==
    /\ ~auto[a].deleted /\ auto[a].revision < MaxRevision
    /\ auto' = [auto EXCEPT ![a] =
                  [trigger |-> trigger, enabled |-> enabled, deleted |-> FALSE,
                   revision |-> @.revision + 1, next |-> NextRun(trigger, enabled)]]
    /\ settled' \in {settled, settled \ {a}}
    /\ UNCHANGED <<runs, log, present, now, call, faults>>

\* Delete keeps the row, next_run_at included.
Delete(a) ==
    /\ ~auto[a].deleted /\ auto[a].revision < MaxRevision
    /\ auto' = [auto EXCEPT ![a].deleted = TRUE, ![a].enabled = FALSE, ![a].revision = @ + 1]
    /\ UNCHANGED <<runs, log, settled, present, now, call, faults>>

\* A user deletes the sheet the actions write to; this is a version too.
DeleteSheet ==
    /\ present /\ version < MaxVersion
    /\ present' = FALSE
    /\ log' = Append(log, [by |-> "user", run |-> None])
    /\ UNCHANGED <<auto, runs, settled, now, call, faults>>

Tick ==
    /\ now < MaxTime
    /\ now' = now + 1
    /\ UNCHANGED <<auto, runs, log, settled, present, call, faults>>

-----------------------------------------------------------------------------
(***************************************************************************)
(* Calls of Run                                                            *)
(***************************************************************************)

\* The rows the unique indexes keep apart: key, scheduled_for, trigger_operation_id.
SameKey(c) == {i \in DOMAIN runs : runs[i].auto = c.auto /\ runs[i].key = c.key}

SameDue(c) == {i \in DOMAIN runs : runs[i].auto = c.auto /\ c.due # None /\ runs[i].due = c.due}

SameOp(c) == {i \in DOMAIN runs : runs[i].auto = c.auto /\ c.op # 0 /\ runs[i].op = c.op}

SameCause(c) == SameKey(c) \cup SameDue(c) \cup SameOp(c)

\* Run returns.  A request is answered; a scheduler, and the handler of a write
\* whose trigger failed, have something left to do.
Succeeded(c) == IF c.kind = "schedule" THEN [c EXCEPT !.phase = "ok"] ELSE Idle

FailedCall(c, why) ==
    IF c.kind = "schedule" \/ (c.kind = "cell_change" /\ why # "quiet")
    THEN [c EXCEPT !.phase = "error", !.why = why, !.base = 0, !.preview = 0, !.read = 0,
                   !.stamp = 0, !.skip = FALSE]
    ELSE Idle

Executing(c, i) ==
    [c EXCEPT !.phase = "execute", !.run = i, !.base = 0, !.preview = 0, !.read = 0, !.stamp = 0]

\* The run a call has found: it goes on with one that is running, and repeats the
\* answer of one that is finished (replayRun).
Resumed(c, i) ==
    CASE runs[i].status = "running" -> Executing(c, i)
      [] runs[i].status = "failed"  -> FailedCall(c, "other")
      [] OTHER                      -> Succeeded(c)

\* getRunBySchedule, getRunByKey, getRunByTrigger
LookedUp(c) ==
    IF SameCause(c) = {} THEN c
    ELSE LET i == CHOOSE i \in SameCause(c) : TRUE
         IN IF runs[i].kind = c.kind THEN Resumed(c, i) ELSE FailedCall(c, "other")

NewCall(phase, kind, a, key, rev, base, due, op, at) ==
    [phase |-> phase, kind |-> kind, auto |-> a, key |-> key, rev |-> rev, base |-> base,
     due |-> due, op |-> op, at |-> at, stamp |-> 0, run |-> 0, skip |-> FALSE, why |-> "",
     preview |-> base, read |-> 0]

Begin(w, c) ==
    /\ call[w] = Idle
    /\ call' = [call EXCEPT ![w] = c]

\* A user previews an automation and asks for the run that was shown.
RunManually(w, a, k) ==
    /\ ~auto[a].deleted
    /\ Begin(w, LookedUp(NewCall("read", "manual", a, Key("client", k), auto[a].revision, version, None, 0, 0)))
    /\ UNCHANGED <<auto, runs, log, settled, present, now, faults>>

InvokeWebhook(w, a, k) ==
    /\ Begin(w, LookedUp(NewCall("read", "webhook", a, Key("client", k), 0, 0, None, 0, 0)))
    /\ UNCHANGED <<auto, runs, log, settled, present, now, faults>>

\* A user writes cells the trigger of a watches; the handler goes on to
\* TriggerCellChange once the write is committed.
WriteCells(w, a) ==
    /\ present /\ version < MaxVersion
    /\ log' = Append(log, [by |-> "user", run |-> None])
    /\ settled' \in {settled, settled \ {a}}
    /\ Begin(w, NewCall("list", "cell_change", a, Key("trigger", version + 1), 0, 0, None, version + 1, 0))
    /\ UNCHANGED <<auto, runs, present, now, faults>>

At(w, phase) == call[w] # Idle /\ call[w].phase = phase

Become(w, c) == call' = [call EXCEPT ![w] = c]

Goto(w, phase) == call' = [call EXCEPT ![w].phase = phase]

Fail(w, why) == Become(w, FailedCall(call[w], why))

\* TriggerCellChange lists the enabled automations with this trigger.
TriggerCellChange(w) ==
    /\ At(w, "list")
    /\ LET d == auto[call[w].auto]
       IN Become(w, IF d.enabled /\ ~d.deleted /\ d.trigger = "cell_change"
                    THEN LookedUp([call[w] EXCEPT !.phase = "read", !.rev = d.revision]) ELSE Idle)
    /\ UNCHANGED <<auto, runs, log, settled, present, now, faults>>

\* RunDueSchedules reads the due automations and calls Run for one of them.
RunDueSchedules(w, a) ==
    /\ auto[a].enabled /\ ~auto[a].deleted
    /\ auto[a].trigger = "schedule" /\ auto[a].next # None /\ auto[a].next <= now
    /\ Begin(w, LookedUp(NewCall("read", "schedule", a, Key("schedule", auto[a].next), auto[a].revision,
                                 0, auto[a].next, 0, now)))
    /\ UNCHANGED <<auto, runs, log, settled, present, now, faults>>

\* The definition, and the version of the workbook.
ReadDefinition(w) ==
    /\ At(w, "read")
    /\ LET c == call[w]  d == auto[call[w].auto]
       IN \/ d.deleted /\ Fail(w, "quiet")
          \/ ~d.deleted /\ c.rev # 0 /\ c.rev # d.revision /\ Fail(w, "other")
          \/ ~d.deleted /\ c.rev \in {0, d.revision} /\ ~d.enabled /\ Fail(w, "quiet")
          \/ /\ ~d.deleted /\ c.rev \in {0, d.revision} /\ d.enabled
             /\ IF \/ c.kind # "manual" /\ c.kind # d.trigger
                   \/ c.kind = "manual" /\ c.base # version
                THEN Fail(w, "other")
                ELSE call' = [call EXCEPT ![w].phase = "range", ![w].rev = d.revision, ![w].base = version]
    /\ UNCHANGED <<auto, runs, log, settled, present, now, faults>>

\* ReadRange, the changes the action would make, and the time the run is stamped with.
ReadRange(w) ==
    /\ At(w, "range")
    /\ LET nothing == call[w].auto \in settled
       IN \/ ~present /\ Fail(w, "other")
          \/ present /\ nothing /\ call[w].kind = "manual" /\ Fail(w, "quiet")
          \/ /\ present /\ ~(nothing /\ call[w].kind = "manual")
             /\ call' = [call EXCEPT ![w].phase = "insert", ![w].skip = nothing, ![w].read = version,
                                     ![w].stamp = now]
    /\ UNCHANGED <<auto, runs, log, settled, present, now, faults>>

\* What now() of a transaction may be: the clock of the database is not that of a server,
\* and the transaction begins before it has its turn.
DatabaseTimes == {t \in 0..MaxTime : t >= now - Skew /\ t <= now + Skew}

\* The runs of the last hour before t, as insertRun counts them.
Recent(t) == {i \in DOMAIN runs : runs[i].counts /\ runs[i].started >= t - Hour}

Row(c, status, key, op, counts, t) ==
    [auto |-> c.auto, kind |-> c.kind, key |-> key, op |-> op, due |-> c.due, status |-> status,
     base |-> c.base, started |-> c.stamp, admitted |-> t, counts |-> counts, undoKey |-> None,
     preview |-> c.preview, read |-> c.read]

\* Mutant: one run too many.
RefusedByRateLate(c, t) == SameKey(c) = {} /\ Cardinality(Recent(t)) > RunsPerHour

RefusedByRate(c, t) == SameKey(c) = {} /\ Cardinality(Recent(t)) >= RunsPerHour

\* insertRun: one transaction that looks at the definition and the rate again.
InsertRun(w) ==
    /\ At(w, "insert")
    /\ LET c == call[w]  d == auto[call[w].auto]
       IN \/ d.deleted /\ Fail(w, "quiet") /\ UNCHANGED runs
          \/ ~d.deleted /\ d.revision # c.rev /\ Fail(w, "other") /\ UNCHANGED runs
          \/ ~d.deleted /\ d.revision = c.rev /\ ~d.enabled /\ Fail(w, "quiet") /\ UNCHANGED runs
          \/ /\ ~d.deleted /\ d.revision = c.rev /\ d.enabled
             /\ \E t \in DatabaseTimes :
                \/ RefusedByRate(c, t) /\ Fail(w, "rate") /\ UNCHANGED runs
                \/ ~RefusedByRate(c, t) /\ UNCHANGED runs /\ \E i \in SameCause(c) : Become(w, Resumed(c, i))
                \/ /\ ~RefusedByRate(c, t) /\ SameCause(c) = {}
                   /\ runs' = Append(runs, Row(c, IF c.skip THEN "skipped" ELSE "running", c.key, c.op, TRUE, t))
                   /\ Become(w, IF c.skip THEN Succeeded(c) ELSE Executing(c, Len(runs) + 1))
    /\ UNCHANGED <<auto, log, settled, present, now, faults>>

\* The keys automation-run:ID and automation-undo:ID: was this one applied?
Logged(by, i) == \E v \in DOMAIN log : log[v] = [by |-> by, run |-> i]

\* Mutant: the version is compared before the operation is looked up.
ApplyCellsVersionFirst(w) ==
    /\ At(w, "execute")
    /\ LET i == call[w].run
       IN IF runs[i].base # version \/ ~present \/ version \in Refused
          THEN Goto(w, "refused") /\ UNCHANGED <<log, settled>>
          ELSE /\ Goto(w, "record")
               /\ log' = Append(log, [by |-> "run", run |-> i])
               /\ settled' = settled \cup {runs[i].auto}
    /\ UNCHANGED <<auto, runs, present, now, faults>>

\* Mutant: the run is rebased like any other write.
ApplyCellsRebased(w) ==
    /\ At(w, "execute")
    /\ LET i == call[w].run
       IN \/ present /\ Logged("run", i) /\ Goto(w, "record") /\ UNCHANGED <<log, settled>>
          \/ /\ present /\ ~Logged("run", i) /\ runs[i].base <= version
             /\ Goto(w, "record")
             /\ log' = Append(log, [by |-> "run", run |-> i])
             /\ settled' = settled \cup {runs[i].auto}
    /\ UNCHANGED <<auto, runs, present, now, faults>>

\* ApplyCells with RequireExactVersion, as executeRun calls it.
ApplyCells(w) ==
    /\ At(w, "execute")
    /\ LET i == call[w].run
           exact == runs[i].base = version /\ version \notin Refused
       IN \/ ~present /\ Goto(w, "refused") /\ UNCHANGED <<log, settled>>
          \/ present /\ Logged("run", i) /\ Goto(w, "record") /\ UNCHANGED <<log, settled>>
          \/ present /\ ~Logged("run", i) /\ ~exact /\ Goto(w, "refused") /\ UNCHANGED <<log, settled>>
          \/ /\ present /\ ~Logged("run", i) /\ exact
             /\ Goto(w, "record")
             /\ log' = Append(log, [by |-> "run", run |-> i])
             /\ settled' = settled \cup {runs[i].auto}
    /\ UNCHANGED <<auto, runs, present, now, faults>>

SetStatus(i, status) == runs' = [runs EXCEPT ![i].status = status]

\* The end of executeRun.  Somebody else may have recorded the run meanwhile.
RecordSuccess(w) ==
    /\ At(w, "record")
    /\ LET i == call[w].run
       IN \/ runs[i].status = "running" /\ SetStatus(i, "succeeded") /\ Become(w, Succeeded(call[w]))
          \/ runs[i].status = "succeeded" /\ UNCHANGED runs /\ Become(w, Succeeded(call[w]))
          \/ runs[i].status \notin {"running", "succeeded"} /\ UNCHANGED runs /\ Fail(w, "other")
    /\ UNCHANGED <<auto, log, settled, present, now, faults>>

MarkRunFailed(w) ==
    /\ At(w, "refused")
    /\ LET i == call[w].run
       IN IF runs[i].status = "running" THEN SetStatus(i, "failed") ELSE UNCHANGED runs
    /\ Fail(w, "other")
    /\ UNCHANGED <<auto, log, settled, present, now, faults>>

-----------------------------------------------------------------------------
(***************************************************************************)
(* After Run                                                               *)
(***************************************************************************)

\* recordTriggerFailure: refusals of the rate limit share one row per hour.
RecordTriggerFailure(w) ==
    /\ w \in Callers /\ At(w, "error")
    /\ LET rate == call[w].why = "rate"
           c == [call[w] EXCEPT !.key = IF rate THEN Key("trigger-rate", now \div Hour)
                                                ELSE Key("trigger-failed", @.n),
                                !.op = IF rate THEN 0 ELSE @,
                                !.base = call[w].op, !.preview = 0, !.read = 0]
       IN runs' = IF SameCause(c) = {} THEN Append(runs, Row(c, "failed", c.key, c.op, FALSE, 0)) ELSE runs
    /\ Become(w, Idle)
    /\ UNCHANGED <<auto, log, settled, present, now, faults>>

\* Mutant: any run of the due time will do.
FindAnyRun(w) ==
    /\ w \in Schedulers /\ At(w, "error")
    /\ Goto(w, IF SameDue(call[w]) = {} THEN "unrecorded" ELSE "ok")
    /\ UNCHANGED <<auto, runs, log, settled, present, now, faults>>

\* RunDueSchedules after an error: the run is left for the next tick, or it is
\* finished, or there is none and a failed one takes its place.  (Unavailable has the
\* case that getRunBySchedule fails, which the code takes for the last one.)
FindFailedRun(w) ==
    /\ w \in Schedulers /\ At(w, "error")
    /\ LET found == SameDue(call[w])
       IN \/ (\E i \in found : runs[i].status = "running") /\ Become(w, Idle)
          \/ (\E i \in found : runs[i].status # "running") /\ Become(w, Succeeded(call[w]))
          \/ found = {} /\ Goto(w, "unrecorded")
    /\ UNCHANGED <<auto, runs, log, settled, present, now, faults>>

\* recordScheduledFailure: where there is a row already, it is read and taken for the
\* outcome, whatever its status.
RecordScheduledFailure(w) ==
    /\ At(w, "unrecorded")
    /\ LET c == [call[w] EXCEPT !.base = version, !.read = 0]
       IN runs' = IF SameCause(c) = {} THEN Append(runs, Row(c, "failed", c.key, 0, FALSE, 0)) ELSE runs
    /\ Become(w, Succeeded(call[w]))
    /\ UNCHANGED <<auto, log, settled, present, now, faults>>

\* Mutant: the slot that was due is found again.
AdvanceToTheSameSlot(w) ==
    /\ w \in Schedulers /\ At(w, "ok")
    /\ LET c == call[w]  d == auto[call[w].auto]
       IN auto' = IF d.revision = c.rev /\ d.next = c.due /\ ~d.deleted
                  THEN [auto EXCEPT ![c.auto].next = NextSlot(c.due - 1)] ELSE auto
    /\ Become(w, Idle)
    /\ UNCHANGED <<runs, log, settled, present, now, faults>>

\* advanceSchedule: to the first slot after the tick that found the automation due.
AdvanceSchedule(w) ==
    /\ w \in Schedulers /\ At(w, "ok")
    /\ LET c == call[w]  d == auto[call[w].auto]
       IN auto' = IF d.revision = c.rev /\ d.next = c.due /\ ~d.deleted
                  THEN [auto EXCEPT ![c.auto].next = NextSlot(Max({c.at, c.due}))] ELSE auto
    /\ Become(w, Idle)
    /\ UNCHANGED <<runs, log, settled, present, now, faults>>

-----------------------------------------------------------------------------
(***************************************************************************)
(* Undo                                                                    *)
(***************************************************************************)

\* Undo takes a succeeded run, or one that this key has begun to undo; any other
\* call is answered at once and changes nothing.
UndoRun(w, i, k) ==
    /\ \/ runs[i].status = "succeeded"
       \/ runs[i].status = "undoing" /\ runs[i].undoKey = k
    /\ runs' = [runs EXCEPT ![i].status = "undoing", ![i].undoKey = k]
    /\ Begin(w, [NewCall("undoing", "undo", runs[i].auto, Key("client", k), 0, 0, None, 0, 0) EXCEPT !.run = i])
    /\ UNCHANGED <<auto, log, settled, present, now, faults>>

\* Mutant: an undo that was applied before is not recognised.
UndoOperationAgain(w) ==
    /\ At(w, "undoing")
    /\ LET i == call[w].run
       IN \/ ~present /\ Goto(w, "notundone") /\ UNCHANGED <<log, settled>>
          \/ /\ present /\ Goto(w, "undone")
             /\ log' = Append(log, [by |-> "undo", run |-> i])
             /\ settled' = settled \ {runs[i].auto}
    /\ UNCHANGED <<auto, runs, present, now, faults>>

\* UndoOperation, once for all keys of the users.
UndoOperation(w) ==
    /\ At(w, "undoing")
    /\ LET i == call[w].run
       IN \/ ~present /\ Goto(w, "notundone") /\ UNCHANGED <<log, settled>>
          \/ present /\ Logged("undo", i) /\ Goto(w, "undone") /\ UNCHANGED <<log, settled>>
          \/ /\ present /\ ~Logged("undo", i) /\ Goto(w, "undone")
             /\ log' = Append(log, [by |-> "undo", run |-> i])
             /\ settled' = settled \ {runs[i].auto}
    /\ UNCHANGED <<auto, runs, present, now, faults>>

ResetUndo(w) ==
    /\ At(w, "notundone")
    /\ LET i == call[w].run
       IN IF runs[i].status = "undoing" THEN SetStatus(i, "succeeded") ELSE UNCHANGED runs
    /\ Fail(w, "other")
    /\ UNCHANGED <<auto, log, settled, present, now, faults>>

RecordUndo(w) ==
    /\ At(w, "undone")
    /\ LET i == call[w].run
       IN IF runs[i].status = "undoing" /\ runs[i].undoKey = call[w].key.n
          THEN SetStatus(i, "undone") /\ Become(w, Succeeded(call[w]))
          ELSE UNCHANGED runs /\ Fail(w, "other")
    /\ UNCHANGED <<auto, log, settled, present, now, faults>>

-----------------------------------------------------------------------------
(***************************************************************************)
(* Faults                                                                  *)
(***************************************************************************)

\* The server stops; its requests are gone and its scheduler starts again.
Crash(w) ==
    /\ faults < MaxFaults /\ call[w] # Idle
    /\ faults' = faults + 1
    /\ Become(w, Idle)
    /\ UNCHANGED <<auto, runs, log, settled, present, now>>

\* A scheduler that could not look for its failed run goes on as if there were none.
Blind(c) == [c EXCEPT !.phase = "unrecorded", !.why = "blind"]

\* The database cannot be reached for the next step of a call: the call fails with an
\* error that is not terminal (markRunRetryable), or the undo is reset.  It may last
\* until the scheduler has looked for the failed run, or begin there.
Unavailable(w) ==
    /\ faults < MaxFaults /\ call[w] # Idle
    /\ faults' = faults + 1
    /\ \/ call[w].phase \in {"read", "range", "insert", "execute", "record", "refused", "undone"}
          /\ Fail(w, "other")
       \/ call[w].phase \in {"read", "range", "insert", "execute", "record", "refused"}
          /\ w \in Schedulers /\ Become(w, Blind(FailedCall(call[w], "other")))
       \/ call[w].phase = "undoing" /\ Goto(w, "notundone")
       \/ call[w].phase = "error" /\ w \in Schedulers /\ Become(w, Blind(call[w]))
       \/ call[w].phase = "error" /\ w \in Callers /\ Become(w, Idle)
       \/ call[w].phase \in {"unrecorded", "list"} /\ Become(w, Idle)
       \/ call[w].phase = "ok" /\ w \in Schedulers /\ Become(w, Idle)
    /\ UNCHANGED <<auto, runs, log, settled, present, now>>

-----------------------------------------------------------------------------

\* A call under way takes its next step.
Step(w) ==
    \/ TriggerCellChange(w) \/ ReadDefinition(w) \/ ReadRange(w) \/ InsertRun(w)
    \/ ApplyCells(w) \/ RecordSuccess(w) \/ MarkRunFailed(w)
    \/ RecordTriggerFailure(w) \/ FindFailedRun(w) \/ RecordScheduledFailure(w) \/ AdvanceSchedule(w)
    \/ UndoOperation(w) \/ ResetUndo(w) \/ RecordUndo(w)

Request(w) ==
    \E a \in Automations :
        \/ WriteCells(w, a)
        \/ \E k \in ClientKeys :
             \/ RunManually(w, a, k)
             \/ InvokeWebhook(w, a, k)
             \/ \E i \in DOMAIN runs : UndoRun(w, i, k)

Next ==
    \/ \E a \in Automations, t \in Updated, e \in BOOLEAN : Update(a, t, e)
    \/ \E a \in Automations : Delete(a)
    \/ DeleteSheet
    \/ Tick
    \/ \E w \in Callers : Request(w)
    \/ \E w \in Schedulers, a \in Automations : RunDueSchedules(w, a)
    \/ \E w \in Workers : Step(w) \/ Crash(w) \/ Unavailable(w)

\* Calls run to their end; a tick of a scheduler calls Run for every automation due.
Fairness ==
    /\ \A w \in Workers : WF_vars(Step(w))
    /\ \A w \in Schedulers, a \in Automations : SF_vars(RunDueSchedules(w, a))

Spec == Init /\ [][Next]_vars /\ Fairness

-----------------------------------------------------------------------------
(***************************************************************************)
(* Properties                                                              *)
(***************************************************************************)

\* The history of runs tells the truth about the cells, whoever finished a run and
\* whatever failed in between: a run shown as succeeded (or as undone later) has
\* written, one shown as failed or as without changes has not (unless its sheet is
\* gone), and one shown as undone has been undone.
StatusTellsTheTruth ==
    \A i \in DOMAIN runs :
        /\ runs[i].status \in {"succeeded", "undoing", "undone"} => Logged("run", i)
        /\ runs[i].status \in {"failed", "skipped"} /\ present => ~Logged("run", i)
        /\ runs[i].status = "undone" => Logged("undo", i)

\* A run writes only on the version its changes were computed from, and a manual run
\* only on the version its user reviewed: nothing that happened between the preview,
\* the two reads of buildExecution and the write is overwritten.
AppliedToWhatItRead ==
    \A v \in DOMAIN log : log[v].by = "run" =>
        LET r == runs[log[v].run]
        IN r.read = v - 1 /\ (r.kind = "manual" => r.preview = v - 1)

\* What causes a run (a due time, an operation, a request with its key) causes one
\* write at most, and a run is undone at most once, however many schedulers, retries
\* and recoveries meet.
OncePerCause ==
    \A v, u \in DOMAIN log : v < u /\ log[v].by = log[u].by /\ log[v].by # "user" =>
        LET r == runs[log[v].run]  s == runs[log[u].run]
        IN /\ log[v].run # log[u].run
           /\ r.auto = s.auto => r.key # s.key /\ (r.due # s.due \/ r.due = None)
                                                /\ (r.op # s.op \/ r.op = 0)

\* From any time t, no more runs than the limit allows are stamped at t or later and
\* admitted within the hour after t, by whatever clock each is told: who is admitted last
\* has counted the others.  Refusals that are put on record do not use up the limit.
\* (The times that are stored may crowd an hour more: a call can be stamped, wait, and be
\* admitted when the hour of the others is over.)
RateIsKept ==
    \A t \in 0..MaxTime :
        Cardinality({i \in DOMAIN runs : /\ runs[i].counts
                                         /\ runs[i].started >= t /\ runs[i].admitted <= t + Hour})
            <= RunsPerHour

Recorded(a, due) == \E i \in DOMAIN runs : runs[i].auto = a /\ runs[i].due = due

Finished(a, due) ==
    \E i \in DOMAIN runs : runs[i].auto = a /\ runs[i].due = due /\ runs[i].status # "running"

\* A scheduler is about to pass the due time of a without having seen its run.
PassedBlindly(a) ==
    \E w \in Schedulers :
        At(w, "ok") /\ call[w].why = "blind" /\ call[w].auto = a /\ call[w].due = auto[a].next

\* A due time is given up only when its run is finished: as long as the run may be
\* recovered, next_run_at stays where it is (unless a user changes the definition).  Only
\* a scheduler whose lookup of the run failed may leave one that is still running, and it
\* never leaves a due time without a run on record.
DueIsKept ==
    [][\A a \in Automations :
          \/ auto[a].next \in {None, auto'[a].next}
          \/ auto'[a].revision # auto[a].revision
          \/ Finished(a, auto[a].next)
          \/ PassedBlindly(a) /\ Recorded(a, auto[a].next)]_vars

Overdue(a) == auto[a].enabled /\ auto[a].next # None /\ auto[a].next <= now

\* A schedule never gets stuck: whatever fails, a due time is dealt with and the
\* automation moves on, or a user has disabled or deleted it.
NoDueStalls == \A a \in Automations : Overdue(a) ~> ~Overdue(a)

=============================================================================
