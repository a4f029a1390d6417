------------------------------ MODULE AgentRuns ------------------------------
(***************************************************************************)
(* One run of the workbook agent (internal/ai): a language model proposed  *)
(* cell changes and tool calls, the user reviews them, and ApproveRun      *)
(* carries them out; CancelRun and RollbackChangeSet are the other answers *)
(* of the user, Approve and Undo of an AI action the older endpoints for   *)
(* the same row.                                                           *)
(*                                                                         *)
(* The run is spread over rows of ai_actions, agent_runs and change_sets   *)
(* and its effects over the workbook, and an approval touches each of them *)
(* in transactions of its own: requests interleave between any two, other  *)
(* users change the workbook meanwhile, a tool may be refused half-way,    *)
(* and a request may be cut off anywhere (the server stops, or the browser *)
(* goes away and cancels the context every later call needs).              *)
(*                                                                         *)
(* The module starts when the plan is stored and shown to the user.        *)
(***************************************************************************)
EXTENDS Integers, Sequences, FiniteSets, FiniteSetsExt, TLC

CONSTANTS
    Requests,       \* requests that may be under way at the same time
    Keys,           \* idempotency keys the clients choose
    Kinds,          \* the tools a plan may use
    MaxTools,       \* tool calls of a plan
    MaxRequests,    \* requests made in all
    MaxDisturbances \* writes of others, refusals of the workbook and cut requests together

ASSUME NumbersAssumption ==
    MaxTools \in Nat /\ MaxRequests \in Nat /\ MaxDisturbances \in Nat

\* "object": create_chart, create_pivot, create_data_validation,
\* create_conditional_format; "report": create_report_sheet, and like it
\* create_table and create_filter_view, whose undo names no revision.
ASSUME KindsAssumption == Kinds \subseteq {"object", "report", "sort", "update"}

\* The version the plan was made at, and the revision of the chart it read.
BaseVersion == 1

Plans == { p \in [cells : BOOLEAN, tools : UNION { [1..n -> Kinds] : n \in 0..MaxTools }] :
             p.cells \/ p.tools # <<>> }

\* What became of a tool call: whether it completed, and the thing and the
\* revision its stored result names.
Pending == [done |-> FALSE, id |-> 0, rev |-> 0]

Completed(id, rev) == [done |-> TRUE, id |-> id, rev |-> rev]

NoKey == <<>>

VARIABLES
    plan,       \* changes and tool calls of the run; never rewritten
    action,     \* the row of ai_actions
    state,      \* agent_runs.state
    applied,    \* change_sets.applied_version
    book,       \* the workbook, as far as the run touches it
    req,        \* what each request is doing
    made,       \* requests made so far
    disturbed,  \* disturbances so far
    unusual     \* which unusual things have happened; only properties read it

vars == <<plan, action, state, applied, book, req, made, disturbed, unusual>>

Idle == [at |-> "idle"]

Busy == { r \in Requests : req[r] # Idle }

Init ==
    /\ plan \in Plans
    /\ action = [status |-> "planned", revision |-> 1, key |-> NoKey, undoKey |-> NoKey,
                 operation |-> FALSE, tools |-> [i \in DOMAIN plan.tools |-> Pending]]
    /\ state = "waiting_approval"
    /\ applied = 0
    /\ book = [version |-> BaseVersion, cells |-> "before", range |-> "plain",
               chart |-> [rev |-> 1, by |-> "before"], things |-> {}, ops |-> {}, ids |-> 0]
    /\ req = [r \in Requests |-> Idle]
    /\ made = 0 /\ disturbed = 0 /\ unusual = {}

-----------------------------------------------------------------------------
(***************************************************************************)
(* Requests                                                                *)
(***************************************************************************)

\* A request goes to its next phase.
Goes(r, phase) == req' = [req EXCEPT ![r].at = phase]

Leaves(r) == req' = [req EXCEPT ![r] = Idle]

\* A request returns an error.  ApproveRun sets the state of the run first, the
\* other requests leave it.
Fails(r) ==
    /\ state' = IF req[r].kind = "approve" THEN "failed" ELSE state
    /\ Leaves(r)

\* markFailed
MarkFailed == action' = [action EXCEPT !.status = IF @ \in {"applying", "undoing"} THEN "failed" ELSE @]

\* The undo key of a rollback or an undo is the request's own; the compensation
\* of ApproveRun adds a suffix to it.
UndoKey(r) == <<req[r].key, IF req[r].kind = "approve" THEN "compensate" ELSE "undo">>

\* What the properties keep apart: two approvals under one key at the same time,
\* an undo while an approval is still running its tools, and an undo of an agent
\* run through the endpoint that knows of its cells only.
Approving(k) == \E r \in Busy : req[r].kind \in {"approve", "approveCells"} /\ req[r].key \in k

Unusual(kind, k) ==
    unusual \cup (IF Approving(IF kind \in {"approve", "approveCells"} THEN {k} ELSE Keys)
                  THEN {"overlap"} ELSE {})
            \cup (IF kind = "undoCells" /\ plan.tools # <<>> THEN {"cellsOnly"} ELSE {})

Arrives(r, kind, k, revision, phase) ==
    /\ req[r] = Idle /\ made < MaxRequests
    /\ made' = made + 1
    /\ unusual' = Unusual(kind, k)
    /\ req' = [req EXCEPT ![r] =
                 [at |-> phase, kind |-> kind, key |-> k, rev |-> revision,
                  tools |-> action.tools, operation |-> action.operation, version |-> applied]]
    /\ UNCHANGED <<plan, action, applied, book, disturbed>>

\* ApproveRun: read the row; a repeated approval of an applied run only answers
\* (no step); otherwise the run is executing.  A run without cell changes whose
\* approval under this key was begun before resumes with its tools.
ApproveRun(r, k, revision) ==
    /\ ~(action.status = "applied" /\ action.key = k)
    /\ state' = "executing"
    /\ Arrives(r, "approve", k, revision,
               CASE plan.cells -> "approve"
                 [] ~plan.cells /\ action.status = "applying" /\ action.key = k -> "tools"
                 [] OTHER -> "version")

\* RollbackChangeSet: read the change set and the row; only an applied run of the
\* expected revision is undone.  The tools are those the row records.
RollbackChangeSet(r, k, revision) ==
    /\ action.status = "applied" /\ action.revision = revision
    /\ Arrives(r, "rollback", k, revision, "check")
    /\ UNCHANGED state

\* The older endpoints call Approve and Undo on any action of the user.
ApproveAction(r, k, revision) ==
    /\ plan.cells
    /\ Arrives(r, "approveCells", k, revision, "approve")
    /\ UNCHANGED state

UndoAction(r, k, revision) ==
    /\ Arrives(r, "undoCells", k, revision, "undo")
    /\ UNCHANGED state

\* A plausible bug: a run is cancelled whatever its status.
CancelRunAlways(revision) ==
    /\ action.revision = revision /\ action.revision < 3
    /\ action' = [action EXCEPT !.status = "cancelled", !.revision = @ + 1]
    /\ state' = "cancelled"
    /\ UNCHANGED <<plan, applied, book, req, made, disturbed, unusual>>

\* CancelRun: only a planned run of the expected revision.
CancelRun(revision) ==
    /\ action.status = "planned" /\ action.revision = revision
    /\ action' = [action EXCEPT !.status = "cancelled", !.revision = @ + 1]
    /\ state' = "cancelled"
    /\ UNCHANGED <<plan, applied, book, req, made, disturbed, unusual>>

\* A later message of the conversation cancels the runs still waiting.
supersedePendingAgentRuns ==
    /\ action.status = "planned"
    /\ CancelRun(action.revision)

-----------------------------------------------------------------------------
(***************************************************************************)
(* Approve: the cells of the plan                                          *)
(***************************************************************************)

\* The row as Approve reads it, and the version of the workbook.
ReadForApproval(r) ==
    LET q == req[r]
        again == action.status = "applied" /\ action.key = q.key /\ action.operation
        resumes == action.status = "applying" /\ action.key = q.key
        fresh == action.status = "planned" /\ action.revision = q.rev /\ book.version = BaseVersion
    IN  /\ q.at = "approve"
        /\ \/ again /\ q.kind = "approve" /\ UNCHANGED state
              /\ req' = [req EXCEPT ![r].at = "tools", ![r].tools = action.tools, ![r].operation = TRUE]
           \/ again /\ q.kind = "approveCells" /\ Leaves(r) /\ UNCHANGED state
           \/ resumes /\ Goes(r, "apply") /\ UNCHANGED state
           \/ fresh /\ Goes(r, "claim") /\ UNCHANGED state
           \/ ~again /\ ~resumes /\ ~fresh /\ Fails(r)
        /\ UNCHANGED <<plan, action, applied, book, made, disturbed, unusual>>

\* A run without cell changes: the version is compared before the claim.
ReadVersion(r) ==
    /\ req[r].at = "version"
    /\ \/ book.version = BaseVersion /\ Goes(r, "claim") /\ UNCHANGED state
       \/ book.version # BaseVersion /\ Fails(r)
    /\ UNCHANGED <<plan, action, applied, book, made, disturbed, unusual>>

\* The claim of Approve and of claimToolOnlyApproval: one UPDATE that needs the
\* planned status and the expected revision.  Approve reads again when it has
\* lost, claimToolOnlyApproval gives up.
Claim(r) ==
    LET q == req[r]
        wins == action.status = "planned" /\ action.revision = q.rev
    IN  /\ q.at = "claim"
        /\ \/ /\ wins
              /\ action' = [action EXCEPT !.status = "applying", !.revision = @ + 1, !.key = q.key]
              /\ Goes(r, IF plan.cells THEN "apply" ELSE "tools")
              /\ UNCHANGED state
           \/ ~wins /\ plan.cells /\ Goes(r, "approve") /\ UNCHANGED <<action, state>>
           \/ ~wins /\ ~plan.cells /\ Fails(r) /\ UNCHANGED action
        /\ UNCHANGED <<plan, applied, book, made, disturbed, unusual>>

\* A plausible bug: the cells are applied to whatever version the workbook is at.
ApplyApprovedAtAnyVersion(r) ==
    LET key == <<"approve", req[r].key>>
    IN  /\ req[r].at = "apply"
        /\ book' = IF key \in book.ops THEN book
                   ELSE [book EXCEPT !.version = @ + 1, !.ops = @ \cup {key},
                                     !.cells = IF @ = "before" THEN "agent" ELSE @]
        /\ Goes(r, "record")
        /\ UNCHANGED <<plan, action, state, applied, made, disturbed, unusual>>

\* ApplyCells of the approval: a repeated key answers as before, otherwise the
\* version must still be the one of the plan and the cells what the user saw.
ApplyApproved(r) ==
    LET key == <<"approve", req[r].key>>
    IN  /\ req[r].at = "apply"
        /\ \/ key \in book.ops /\ Goes(r, "record") /\ UNCHANGED <<action, state, book>>
           \/ /\ key \notin book.ops /\ book.version = BaseVersion
              /\ book' = [book EXCEPT !.version = @ + 1, !.ops = @ \cup {key},
                                      !.cells = IF @ = "before" THEN "agent" ELSE @]
              /\ Goes(r, "record") /\ UNCHANGED <<action, state>>
           \/ key \notin book.ops /\ book.version # BaseVersion /\ MarkFailed /\ Fails(r) /\ UNCHANGED book
        /\ UNCHANGED <<plan, applied, made, disturbed, unusual>>

\* ApplyCells refuses for another reason: protection, validation, no such sheet.
ApplyRefused(r) ==
    /\ req[r].at = "apply" /\ <<"approve", req[r].key>> \notin book.ops
    /\ disturbed < MaxDisturbances /\ disturbed' = disturbed + 1
    /\ MarkFailed /\ Fails(r)
    /\ UNCHANGED <<plan, applied, book, made, unusual>>

\* completeApproval: recorded only by the request whose claim still stands.
completeApproval(r) ==
    LET q == req[r]
        stands == action.status = "applying" /\ action.key = q.key
    IN  /\ q.at = "record"
        /\ \/ /\ stands
              /\ action' = [action EXCEPT !.status = "applied", !.operation = TRUE]
              /\ \/ q.kind = "approve"
                    /\ req' = [req EXCEPT ![r].at = "tools", ![r].tools = action.tools, ![r].operation = TRUE]
                 \/ q.kind = "approveCells" /\ Leaves(r)
              /\ UNCHANGED state
           \/ ~stands /\ Fails(r) /\ UNCHANGED action
        /\ UNCHANGED <<plan, applied, book, made, disturbed, unusual>>

-----------------------------------------------------------------------------
(***************************************************************************)
(* Undo: the cells of the run                                              *)
(***************************************************************************)

\* Undo has ended well: ApproveRun reports the failed tool, RollbackChangeSet goes on.
Undone(r) ==
    IF req[r].kind = "rollback" THEN Goes(r, "finish") /\ UNCHANGED state ELSE Fails(r)

ReadForUndo(r) ==
    LET again == action.status = "undone" /\ action.undoKey = UndoKey(r) /\ action.operation
        resumes == action.status = "undoing" /\ action.undoKey = UndoKey(r)
        fresh == action.status = "applied" /\ action.revision = req[r].rev
    IN  /\ req[r].at = "undo"
        /\ \/ again /\ Undone(r)
           \/ resumes /\ Goes(r, "undoApply") /\ UNCHANGED state
           \/ fresh /\ Goes(r, "undoClaim") /\ UNCHANGED state
           \/ ~again /\ ~resumes /\ ~fresh /\ Fails(r)
        /\ UNCHANGED <<plan, action, applied, book, made, disturbed, unusual>>

\* A plausible bug: the claim of an undo does not ask for the applied status.
ClaimUndoAlways(r) ==
    /\ req[r].at = "undoClaim"
    /\ action' = [action EXCEPT !.status = "undoing", !.revision = @ + 1, !.undoKey = UndoKey(r)]
    /\ Goes(r, "undoApply")
    /\ UNCHANGED <<plan, state, applied, book, made, disturbed, unusual>>

ClaimUndo(r) ==
    LET wins == action.status = "applied" /\ action.revision = req[r].rev
    IN  /\ req[r].at = "undoClaim"
        /\ \/ /\ wins
              /\ action' = [action EXCEPT !.status = "undoing", !.revision = @ + 1, !.undoKey = UndoKey(r)]
              /\ Goes(r, "undoApply")
           \/ ~wins /\ Goes(r, "undo") /\ UNCHANGED action
        /\ UNCHANGED <<plan, state, applied, book, made, disturbed, unusual>>

\* What UndoOperation puts back: it leaves alone what somebody has written since.  The
\* expected values of cells that were moved are looked up at the wrong addresses, so some of
\* them count as written by others.
PutBack(value, run, before) ==
    CASE value = run -> {before}
      [] value = "displaced" -> {before, "displaced"}
      [] OTHER -> {value}

\* UndoOperation puts back what the approval replaced.  A run without cell changes has no
\* operation to undo.
ApplyUndo(r) ==
    LET key == <<"undo", UndoKey(r)>>
    IN  /\ req[r].at = "undoApply"
        /\ \/ action.operation /\ key \in book.ops /\ Goes(r, "undoRecord") /\ UNCHANGED <<action, state, book>>
           \/ /\ action.operation /\ key \notin book.ops
              /\ \E cells \in PutBack(book.cells, "agent", "before") :
                    book' = [book EXCEPT !.version = @ + 1, !.ops = @ \cup {key}, !.cells = cells]
              /\ Goes(r, "undoRecord") /\ UNCHANGED <<action, state>>
           \/ ~action.operation /\ MarkFailed /\ Fails(r) /\ UNCHANGED book
        /\ UNCHANGED <<plan, applied, made, disturbed, unusual>>

\* ApplyCells refuses the undo: protection, validation, no such sheet, or a moved cell without
\* an expected value.
UndoRefused(r) ==
    /\ req[r].at = "undoApply" /\ action.operation /\ <<"undo", UndoKey(r)>> \notin book.ops
    /\ \/ book.cells = "displaced" /\ UNCHANGED disturbed
       \/ disturbed < MaxDisturbances /\ disturbed' = disturbed + 1
    /\ MarkFailed /\ Fails(r)
    /\ unusual' = unusual \cup {"refused"}
    /\ UNCHANGED <<plan, applied, book, made>>

completeUndo(r) ==
    LET stands == action.status = "undoing" /\ action.undoKey = UndoKey(r)
    IN  /\ req[r].at = "undoRecord"
        /\ \/ stands /\ action' = [action EXCEPT !.status = "undone"] /\ Undone(r)
           \/ ~stands /\ Fails(r) /\ UNCHANGED action
        /\ UNCHANGED <<plan, applied, book, made, disturbed, unusual>>

-----------------------------------------------------------------------------
(***************************************************************************)
(* The tools                                                               *)
(***************************************************************************)

Open(r) == { i \in DOMAIN plan.tools : ~req[r].tools[i].done }

ThingsOf(i) == { t \in book.things : t.tool = i }

\* The workbook and the outcome after tool i has run.  An object found under the
\* tool's key is returned as it is now; a sort found under its key is answered
\* and not repeated; a report sheet has no key.
Made(i) ==
    LET new == [tool |-> i, id |-> book.ids + 1, rev |-> 1]
    IN  [book |-> [book EXCEPT !.version = @ + 1, !.ids = @ + 1, !.things = @ \cup {new}],
         outcome |-> Completed(new.id, new.rev)]

CreateObject(i) ==
    IF ThingsOf(i) = {} THEN Made(i)
    ELSE LET found == CHOOSE t \in ThingsOf(i) : TRUE
         IN  [book |-> book, outcome |-> Completed(found.id, found.rev)]

SortRange(i) ==
    [book |-> IF <<"sort", i>> \in book.ops THEN book
              ELSE [book EXCEPT !.version = @ + 1, !.ops = @ \cup {<<"sort", i>>},
                                     !.range = IF @ = "displaced" THEN @ ELSE "sorted"],
     outcome |-> Completed(0, 0)]

UpdateChart(i) ==
    [book |-> [book EXCEPT !.version = @ + 1, !.chart = [rev |-> @.rev + 1, by |-> "agent"]],
     outcome |-> Completed(0, book.chart.rev + 1)]

RanTool(i) ==
    CASE plan.tools[i] = "object" -> CreateObject(i)
      [] plan.tools[i] = "report" -> Made(i)
      [] plan.tools[i] = "sort" -> SortRange(i)
      [] plan.tools[i] = "update" -> UpdateChart(i)

\* update_chart needs the revision the plan was made with.
MayRun(i) == plan.tools[i] = "update" => book.chart.rev = 1

RunTool(r) ==
    /\ req[r].at = "tools" /\ Open(r) # {}
    /\ LET i == Min(Open(r))
       IN  /\ MayRun(i)
           /\ book' = RanTool(i).book
           /\ req' = [req EXCEPT ![r].tools[i] = RanTool(i).outcome]
    /\ UNCHANGED <<plan, action, state, applied, made, disturbed, unusual>>

\* A plausible bug: the tools that completed before the failure are not undone.
ToolFailsAsIs(r) ==
    /\ req[r].at = "tools" /\ Open(r) # {}
    /\ disturbed < MaxDisturbances /\ disturbed' = disturbed + 1
    /\ Fails(r)
    /\ UNCHANGED <<plan, action, applied, book, made, unusual>>

\* A tool that may not run, or is refused by the workbook; executeAgentTools
\* then undoes the ones before it.
ToolFails(r) ==
    /\ req[r].at = "tools" /\ Open(r) # {}
    /\ \/ ~MayRun(Min(Open(r))) /\ UNCHANGED disturbed
       \/ MayRun(Min(Open(r))) /\ disturbed < MaxDisturbances /\ disturbed' = disturbed + 1
    /\ Goes(r, "undoTools")
    /\ UNCHANGED <<plan, action, state, applied, book, made, unusual>>

\* A plausible bug: the outcomes of the tools stay in memory.
SaveNothing(r) ==
    /\ req[r].at = "tools" /\ Open(r) = {}
    /\ Goes(r, IF plan.cells THEN "validate" ELSE "complete")
    /\ UNCHANGED <<plan, action, state, applied, book, made, disturbed, unusual>>

\* Only when all tools have run does the row learn of them.
SaveToolCalls(r) ==
    /\ req[r].at = "tools" /\ Open(r) = {}
    /\ action' = [action EXCEPT !.tools = req[r].tools]
    /\ Goes(r, IF plan.cells THEN "validate" ELSE "complete")
    /\ UNCHANGED <<plan, state, applied, book, made, disturbed, unusual>>

completeToolOnlyApproval(r) ==
    /\ req[r].at = "complete"
    /\ action' = IF action.status \in {"applying", "applied"} /\ action.key = req[r].key
                 THEN [action EXCEPT !.status = "applied"] ELSE action
    /\ Goes(r, "validate")
    /\ UNCHANGED <<plan, state, applied, book, made, disturbed, unusual>>

\* completeAgentValidation reads the version of the workbook, then records it.
ValidateExecution(r) ==
    /\ req[r].at = "validate"
    /\ state' = "validating"
    /\ req' = [req EXCEPT ![r].at = "validated", ![r].version = book.version]
    /\ UNCHANGED <<plan, action, applied, book, made, disturbed, unusual>>

\* A formula that evaluates to an error is the one check that can fail here.
MayFailValidation == plan.cells \/ \E i \in DOMAIN plan.tools : plan.tools[i] = "report"

completeAgentValidation(r) ==
    /\ req[r].at = "validated"
    /\ state' \in {"completed"} \cup (IF MayFailValidation THEN {"failed"} ELSE {})
    /\ applied' = req[r].version
    /\ Leaves(r)
    /\ UNCHANGED <<plan, action, book, made, disturbed, unusual>>

-----------------------------------------------------------------------------
(***************************************************************************)
(* undoCompletedTools, for a failed approval and for a rollback            *)
(***************************************************************************)

\* RollbackChangeSet: nobody may have written since the run was validated.  A
\* run that was never validated has no version to compare.
CheckVersion(r) ==
    /\ req[r].at = "check"
    /\ \/ req[r].version \in {0, book.version} /\ Goes(r, "undoTools")
       \/ req[r].version \notin {0, book.version} /\ Leaves(r)
    /\ UNCHANGED <<plan, action, state, applied, book, made, disturbed, unusual>>

ToUndo(r) == { i \in DOMAIN plan.tools : req[r].tools[i].done }

\* The thing a stored result names, if it is still there.
ThingOf(outcome) == { t \in book.things : t.id = outcome.id }

\* A plausible bug: things are deleted and restored without their revision.
MayUndoAny(i, outcome) == TRUE

\* A thing with a revision is deleted at the stored revision only.
MayUndo(i, outcome) ==
    CASE plan.tools[i] = "object" -> \A t \in ThingOf(outcome) : t.rev = outcome.rev
      [] plan.tools[i] = "update" -> book.chart.rev = outcome.rev
      [] OTHER -> TRUE

DeleteThing(outcome) ==
    IF ThingOf(outcome) = {} THEN book
    ELSE [book EXCEPT !.version = @ + 1, !.things = @ \ ThingOf(outcome)]

UnsortRange(i) ==
    IF <<"sort-undo", i>> \in book.ops THEN {book}
    ELSE { [book EXCEPT !.version = @ + 1, !.ops = @ \cup {<<"sort-undo", i>>}, !.range = range] :
             range \in PutBack(book.range, "sorted", "plain") }

RestoreChart ==
    [book EXCEPT !.version = @ + 1, !.chart = [rev |-> @.rev + 1, by |-> "before"]]

UndoneTool(i, outcome) ==
    CASE plan.tools[i] \in {"object", "report"} -> {DeleteThing(outcome)}
      [] plan.tools[i] = "sort" -> UnsortRange(i)
      [] plan.tools[i] = "update" -> {RestoreChart}

\* The last completed tool first.
UndoTool(r) ==
    /\ req[r].at = "undoTools" /\ ToUndo(r) # {}
    /\ LET i == Max(ToUndo(r))
       IN  /\ MayUndo(i, req[r].tools[i])
           /\ book' \in UndoneTool(i, req[r].tools[i])
           /\ req' = [req EXCEPT ![r].tools[i] = Pending]
    /\ UNCHANGED <<plan, action, state, applied, made, disturbed, unusual>>

\* After the tools, the cells: ApproveRun undoes what it applied at the revision
\* it reads now, RollbackChangeSet at the one the user gave.
UndoCells(r) ==
    LET q == req[r]
    IN  req' = [req EXCEPT ![r].at = "undo", ![r].rev = IF q.kind = "approve" THEN action.revision ELSE @]

\* An undo that is refused ends there: for its revision, or by the workbook.  A rollback
\* returns; ApproveRun still undoes its cells.
UndoToolFails(r) ==
    /\ req[r].at = "undoTools" /\ ToUndo(r) # {}
    /\ \/ ~MayUndo(Max(ToUndo(r)), req[r].tools[Max(ToUndo(r))]) /\ UNCHANGED disturbed
       \/ disturbed < MaxDisturbances /\ disturbed' = disturbed + 1
    /\ \/ req[r].kind = "rollback" /\ Fails(r) /\ UNCHANGED unusual
       \/ /\ req[r].kind = "approve" /\ unusual' = unusual \cup {"stuck"}
          /\ IF req[r].operation THEN UndoCells(r) /\ UNCHANGED state ELSE Fails(r)
    /\ UNCHANGED <<plan, action, applied, book, made>>

ToolsUndone(r) ==
    /\ req[r].at = "undoTools" /\ ToUndo(r) = {}
    /\ \/ req[r].operation /\ UndoCells(r) /\ UNCHANGED state
       \/ ~req[r].operation /\ req[r].kind = "rollback" /\ Goes(r, "close") /\ UNCHANGED state
       \/ ~req[r].operation /\ req[r].kind = "approve" /\ Fails(r)
    /\ UNCHANGED <<plan, action, applied, book, made, disturbed, unusual>>

\* The row of a run without cell changes.
CloseRun(r) ==
    LET stands == action.status = "applied" /\ action.revision = req[r].rev
    IN  /\ req[r].at = "close"
        /\ \/ /\ stands /\ Goes(r, "finish") /\ UNCHANGED state
              /\ action' = [action EXCEPT !.status = "undone", !.revision = @ + 1, !.undoKey = UndoKey(r)]
           \/ ~stands /\ Fails(r) /\ UNCHANGED action
        /\ UNCHANGED <<plan, applied, book, made, disturbed, unusual>>

FinishRollback(r) ==
    /\ req[r].at = "finish"
    /\ state' = "completed"
    /\ Leaves(r)
    /\ UNCHANGED <<plan, action, applied, book, made, disturbed, unusual>>

-----------------------------------------------------------------------------
(***************************************************************************)
(* What else happens                                                       *)
(***************************************************************************)

Disturbance ==
    /\ disturbed < MaxDisturbances /\ disturbed' = disturbed + 1
    /\ UNCHANGED <<plan, action, state, applied, made>>

\* Another user writes the cells of the plan, the range it sorts, or elsewhere.
OthersWrite ==
    /\ Disturbance
    /\ book' \in { [book EXCEPT !.version = @ + 1, !.cells = "other"],
                   [book EXCEPT !.version = @ + 1, !.range = "theirs"],
                   [book EXCEPT !.version = @ + 1] }
    /\ UNCHANGED <<req, unusual>>

\* Another user edits or deletes something the run has made, or the chart.
OthersEdit ==
    /\ Disturbance
    /\ \/ \E t \in book.things :
            book' \in { [book EXCEPT !.version = @ + 1, !.things = (@ \ {t}) \cup {[t EXCEPT !.rev = @ + 1]}],
                        [book EXCEPT !.version = @ + 1, !.things = @ \ {t}] }
       \/ book' = [book EXCEPT !.version = @ + 1, !.chart = [rev |-> @.rev + 1, by |-> "other"]]
    /\ UNCHANGED <<req, unusual>>

\* Another user inserts, deletes or moves rows or columns among those the run has written or
\* sorted.
OthersRestructure ==
    /\ Disturbance
    /\ \/ book.cells = "agent" /\ book' = [book EXCEPT !.version = @ + 1, !.cells = "displaced"]
       \/ book.range = "sorted" /\ book' = [book EXCEPT !.version = @ + 1, !.range = "displaced"]
    /\ UNCHANGED <<req, unusual>>

\* The server stops, or the browser goes away and with it the request's context.
CutOff(r) ==
    /\ Disturbance
    /\ req[r] # Idle
    /\ Leaves(r)
    /\ unusual' = unusual \cup {"cut"}
    /\ UNCHANGED book

Step(r) ==
    \/ ReadForApproval(r) \/ ReadVersion(r) \/ Claim(r)
    \/ ApplyApproved(r) \/ ApplyRefused(r) \/ completeApproval(r)
    \/ ReadForUndo(r) \/ ClaimUndo(r) \/ ApplyUndo(r) \/ UndoRefused(r) \/ completeUndo(r)
    \/ RunTool(r) \/ ToolFails(r) \/ SaveToolCalls(r) \/ completeToolOnlyApproval(r)
    \/ ValidateExecution(r) \/ completeAgentValidation(r)
    \/ CheckVersion(r) \/ UndoTool(r) \/ UndoToolFails(r) \/ ToolsUndone(r)
    \/ CloseRun(r) \/ FinishRollback(r)

Next ==
    \/ \E r \in Requests, k \in Keys, revision \in 1..action.revision :
          \/ ApproveRun(r, k, revision) \/ RollbackChangeSet(r, k, revision)
          \/ ApproveAction(r, k, revision) \/ UndoAction(r, k, revision)
    \/ \E revision \in 1..action.revision : CancelRun(revision)
    \/ supersedePendingAgentRuns
    \/ \E r \in Requests : Step(r) \/ CutOff(r)
    \/ OthersWrite \/ OthersEdit \/ OthersRestructure

Spec == Init /\ [][Next]_vars

-----------------------------------------------------------------------------
(***************************************************************************)
(* Properties                                                              *)
(***************************************************************************)

\* Requests and keys are interchangeable.
Symmetry == Permutations(Requests) \cup Permutations(Keys)

Outcomes == [done : BOOLEAN, id : 0..book.ids, rev : Nat]

ToolRecords == [DOMAIN plan.tools -> Outcomes]

Phases == {"approve", "version", "claim", "apply", "record", "tools", "complete", "validate",
           "validated", "check", "undoTools", "close", "finish", "undo", "undoClaim",
           "undoApply", "undoRecord"}

\* The rows and the requests hold what the tables and the Go types admit: a row
\* whose result names a thing names one that was made, an approval key is there
\* from the claim on (migrations 012, 053; Action, AgentRun).
TypeOK ==
    /\ plan \in Plans
    /\ action \in [status : {"planned", "applying", "applied", "undoing", "undone", "failed", "cancelled"},
                   revision : 1..3, key : Keys \cup {NoKey},
                   undoKey : (Keys \X {"compensate", "undo"}) \cup {NoKey},
                   operation : BOOLEAN, tools : ToolRecords]
    /\ state \in {"waiting_approval", "executing", "validating", "completed", "failed", "cancelled"}
    /\ applied \in 0..book.version
    /\ book.version \in Nat /\ book.cells \in {"before", "agent", "displaced", "other"}
    /\ book.range \in {"plain", "sorted", "displaced", "theirs"}
    /\ book.chart \in [rev : Nat \ {0}, by : {"before", "agent", "other"}]
    /\ book.things \subseteq [tool : DOMAIN plan.tools, id : 1..book.ids, rev : Nat \ {0}]
    /\ \A r \in Requests : req[r] # Idle =>
          req[r] \in [at : Phases, kind : {"approve", "rollback", "approveCells", "undoCells"},
                     key : Keys, rev : 1..action.revision, tools : ToolRecords,
                     operation : BOOLEAN, version : 0..book.version]
    /\ made \in 0..MaxRequests /\ disturbed \in 0..MaxDisturbances
    /\ unusual \subseteq {"overlap", "cellsOnly", "stuck", "refused", "cut"}

\* Something the run did is in the workbook: as the run left it, or moved since.
ToolsLeft == book.range = "sorted" \/ book.chart.by = "agent" \/ book.things # {}

Left == book.cells \in {"agent", "displaced"} \/ book.range = "displaced" \/ ToolsLeft

\* Nothing the model proposed reaches the workbook before the user approves, and
\* nothing of it ever does once the run was cancelled or superseded, however
\* approvals, cancellations and cut requests interleave (CancelRun,
\* supersedePendingAgentRuns, the claims of Approve and claimToolOnlyApproval).
NothingWithoutApproval == action.status \in {"planned", "cancelled"} => ~Left

\* The proposed cells are written into the workbook the user reviewed: when they
\* land, nobody has changed anything since the plan was made, also when the
\* approval is retried after being cut off (Approve, RequireExactVersion).
AsPlanned ==
    book.cells = "before" /\ book.range = "plain" /\ book.chart.rev = 1 /\ book.things = {}

AppliedToWhatWasReviewed ==
    [][book'.cells = "agent" /\ book.cells # "agent" => AsPlanned]_vars

\* Undoing a run, because a tool failed or because the user asked, takes back what
\* the run did and never what somebody else has made of it since: an edited
\* object or chart is left alone, and so are overwritten cells
\* (undoCompletedTools: the stored revisions; UndoOperation: the expected cells).
\* An object is at its edited revision the run's own again when a second attempt
\* under the same key has found it.
UndoTakesOnlyItsOwn ==
    [][(\E r \in Requests : req[r] # Idle /\ req'[r] # req[r]) =>
          /\ unusual \in SUBSET {"cellsOnly"} =>
               \A t \in book.things \ book'.things : plan.tools[t.tool] = "object" => t.rev = 1
          /\ book.chart.by = "other" => book'.chart.by = "other"
          /\ book.cells = "other" => book'.cells = "other"
          /\ book.range = "theirs" => book'.range # "plain"]_vars

\* A run whose row says undone has left nothing behind that it could find again: its cells,
\* and every tool it had completed (RollbackChangeSet, the compensation of ApproveRun).  Cells
\* and sorted rows that another user moved since may stay: UndoOperation skips those whose
\* expected values it looks up at the wrong addresses, and succeeds.
UndoneLeavesNothing ==
    action.status = "undone" /\ unusual = {} => book.cells # "agent" /\ ~ToolsLeft

\* A run that ended as failed has left nothing of its tools behind but rows that were moved, or
\* is applied and can be rolled back (executeAgentTools, the comment above
\* undoCompletedTools).  Its cells stay only when they were moved, or when the workbook refused
\* to put them back; the row is then failed and there is no other way to undo it.
FailedLeavesNothing ==
    state = "failed" /\ Busy = {} /\ unusual \subseteq {"refused"} /\ action.status # "applied" =>
        ~ToolsLeft /\ (book.cells = "agent" => "refused" \in unusual)

=============================================================================
