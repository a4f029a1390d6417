------------------------------- MODULE Outbox -------------------------------
(***************************************************************************)
(* The browser's queue of unsaved edits (web/src/lib/outbox.ts and         *)
(* outboxQueue.ts).  It lives in IndexedDB, so it outlives the tab and all *)
(* tabs share it.  flushOutbox sends it, and nothing keeps two flushes     *)
(* apart: every edit, a timer (three seconds in the editor, five in the    *)
(* list of workbooks) and every open tab start one.  A flush works on the  *)
(* list it read at its beginning.                                          *)
(*                                                                         *)
(* An operation is known by its place in createdAt order.  The server      *)
(* (CellOperations) applies an operation at most once; a request whose     *)
(* fetch failed may still reach it later.                                  *)
(*                                                                         *)
(* OutboxInit, OutboxNext, ... are so called because BrowserProofs reads   *)
(* this module together with Collaboration.                                *)
(***************************************************************************)
EXTENDS Integers, Sequences

CONSTANTS
    MaxOps,             \* bound: operations queued in one behaviour
    Sheets, SheetOf,    \* the sheet of an operation
    Flushes,            \* calls of flushOutbox that may run at the same time
    MaxAttempts,        \* MAX_ATTEMPTS
    MaxInterruptions    \* bound: closed tabs and retries by the user

ASSUME MaxOpsAssumption == MaxOps \in Nat
ASSUME AttemptsAssumption == MaxAttempts \in Nat \ {0}
ASSUME InterruptionsAssumption == MaxInterruptions \in Nat
ASSUME SheetAssumption == SheetOf \in [1..MaxOps -> Sheets]

Ids == 1..MaxOps

Absent == -1

\* The contents of the store, or the list a flush works on: attempts by operation.
Lists == [Ids -> {Absent} \cup 0..MaxAttempts]

NoItems == [i \in Ids |-> Absent]

VARIABLES
    created,        \* operations composed so far
    queue,          \* the object store "outbox"
    list,           \* per flush: the items it has still to send
    phase,          \* per flush: what is known of the request for its next item
    stray,          \* requests given up by the browser that may reach the server yet
    applied,        \* the server's operations, in version order
    dropped,        \* operations taken out with the user's knowledge: the rejection
                    \* was shown (kanpic:outbox-rejected), or the user discarded them
    shown,          \* the stalled operations on the screen
    online,         \* navigator.onLine
    interruptions   \* bound counter

outboxVars == <<created, queue, list, phase, stray, applied, dropped, shown,
                online, interruptions>>

Phases == {"idle", "waiting", "ok", "refused", "failed"}

OutboxTypeOK ==
    /\ created \in 0..MaxOps
    /\ queue \in Lists
    /\ list \in [Flushes -> Lists]
    /\ phase \in [Flushes -> Phases]
    /\ stray \subseteq Ids
    /\ applied \in Seq(Ids)
    /\ dropped \subseteq Ids
    /\ shown \subseteq Ids
    /\ online \in BOOLEAN
    /\ interruptions \in 0..MaxInterruptions

OutboxInit ==
    /\ created = 0
    /\ queue = NoItems
    /\ list = [f \in Flushes |-> NoItems]
    /\ phase = [f \in Flushes |-> "idle"]
    /\ stray = {}
    /\ applied = <<>>
    /\ dropped = {}
    /\ shown = {}
    /\ online = TRUE
    /\ interruptions = 0

-----------------------------------------------------------------------------
(***************************************************************************)
(* The queue                                                               *)
(***************************************************************************)

\* Mutant: one attempt too many.
BlockedTooLate(q, i) == q[i] > MaxAttempts

\* isBlocked: the queue has given up on the operation until the user decides.
Blocked(q, i) == q[i] >= MaxAttempts

\* An operation the queue holds back: it, or one before it of its sheet, is blocked.
Held(q, i) == \E h \in 1..i : SheetOf[h] = SheetOf[i] /\ Blocked(q, h)

\* Mutant: only the blocked operation itself is held back.
SendableSkipsBlocked(q) == [i \in Ids |-> IF Blocked(q, i) THEN Absent ELSE q[i]]

Sendable(q) == [i \in Ids |-> IF Held(q, i) THEN Absent ELSE q[i]]

Items(l) == {i \in Ids : l[i] # Absent}

\* The item of a list whose turn it is.
IsNext(l, i) == i \in Items(l) /\ \A h \in Items(l) : i <= h

\* The rest of a list after an item succeeded, and after it did not: the later
\* ones of its sheet are not sent in this flush.
AfterSuccess(l, i) == [l EXCEPT ![i] = Absent]

AfterStall(l, i) == [h \in Ids |-> IF SheetOf[h] = SheetOf[i] THEN Absent ELSE l[h]]

\* queueCells: an edit is stored first, then sent.
Enqueue ==
    /\ created < MaxOps
    /\ created' = created + 1
    /\ queue' = [queue EXCEPT ![created + 1] = 0]
    /\ UNCHANGED <<list, phase, stray, applied, dropped, shown, online, interruptions>>

-----------------------------------------------------------------------------
(***************************************************************************)
(* flushOutbox                                                             *)
(***************************************************************************)

\* The flush goes on with rest, and sends its first item at once.
Continue(f, rest) ==
    /\ list' = [list EXCEPT ![f] = rest]
    /\ phase' = [phase EXCEPT ![f] = IF rest = NoItems THEN "idle" ELSE "waiting"]

BeginFlush(f) ==
    /\ phase[f] = "idle" /\ online
    /\ Sendable(queue) # NoItems
    /\ Continue(f, Sendable(queue))
    /\ UNCHANGED <<created, queue, stray, applied, dropped, shown, online, interruptions>>

\* The server applies what it has not applied yet (findDuplicate).
ServerApplies(i) ==
    applied' = IF \E k \in DOMAIN applied : applied[k] = i THEN applied ELSE Append(applied, i)

RequestEnds(f, outcome) ==
    /\ phase[f] = "waiting"
    /\ phase' = [phase EXCEPT ![f] = outcome]
    /\ UNCHANGED <<created, queue, list, dropped, shown, online, interruptions>>

\* The answer is 2xx, another 4xx than 409 (refused), or 409 and 5xx (failed).
AnswerOk(f, i) == IsNext(list[f], i) /\ ServerApplies(i) /\ RequestEnds(f, "ok") /\ UNCHANGED stray

AnswerRefused(f) == RequestEnds(f, "refused") /\ UNCHANGED <<stray, applied>>

AnswerFailed(f) == RequestEnds(f, "failed") /\ UNCHANGED <<stray, applied>>

\* fetch throws: offline, connection lost, time-out of a proxy.  The request may
\* have been lost on its way, or be on it still.
FetchThrows(f, i) ==
    IsNext(list[f], i) /\ RequestEnds(f, "failed") /\ stray' = stray \cup {i} /\ UNCHANGED applied

StrayArrives(i) ==
    /\ i \in stray
    /\ stray' = stray \ {i}
    /\ ServerApplies(i) \/ UNCHANGED applied
    /\ UNCHANGED <<created, queue, list, phase, dropped, shown, online, interruptions>>

\* Mutant: the failures are not counted.
FailureUncounted(attempts) == attempts

\* recordFailure: the attempts this flush had read, plus one.
Failure(attempts) == attempts + 1

SettleOk(f, i) ==
    /\ phase[f] = "ok" /\ IsNext(list[f], i)
    /\ queue' = [queue EXCEPT ![i] = Absent]
    /\ Continue(f, AfterSuccess(list[f], i))
    /\ UNCHANGED <<created, stray, applied, dropped, shown, online, interruptions>>

SettleRefused(f, i) ==
    /\ phase[f] = "refused" /\ IsNext(list[f], i)
    /\ queue' = [queue EXCEPT ![i] = Absent]
    /\ dropped' = dropped \cup {i}
    /\ Continue(f, AfterStall(list[f], i))
    /\ UNCHANGED <<created, stray, applied, shown, online, interruptions>>

\* Mutant: an operation that failed as often as it may is dropped.
SettleFailedDrops(f, i) ==
    /\ phase[f] = "failed" /\ IsNext(list[f], i)
    /\ queue' = [queue EXCEPT ![i] =
          IF Failure(list[f][i]) = MaxAttempts THEN Absent ELSE Failure(list[f][i])]
    /\ Continue(f, AfterStall(list[f], i))
    /\ UNCHANGED <<created, stray, applied, dropped, shown, online, interruptions>>

\* put: an operation that another flush has removed meanwhile is back again.
SettleFailed(f, i) ==
    /\ phase[f] = "failed" /\ IsNext(list[f], i)
    /\ queue' = [queue EXCEPT ![i] = Failure(list[f][i])]
    /\ Continue(f, AfterStall(list[f], i))
    /\ UNCHANGED <<created, stray, applied, dropped, shown, online, interruptions>>

-----------------------------------------------------------------------------
(***************************************************************************)
(* The user and the browser                                                *)
(***************************************************************************)

\* refreshStalled: the screen shows the blocked operations, and lags behind.
RefreshStalled ==
    /\ shown' = {i \in Ids : Blocked(queue, i)}
    /\ UNCHANGED <<created, queue, list, phase, stray, applied, dropped, online, interruptions>>

\* retryOutbox puts what the screen shows back with no attempts counted.
RetryOutbox(i) ==
    /\ i \in shown /\ interruptions < MaxInterruptions
    /\ queue' = [queue EXCEPT ![i] = 0]
    /\ shown' = shown \ {i}
    /\ interruptions' = interruptions + 1
    /\ UNCHANGED <<created, list, phase, stray, applied, dropped, online>>

DiscardOutbox(i) ==
    /\ i \in shown
    /\ queue' = [queue EXCEPT ![i] = Absent]
    /\ shown' = shown \ {i}
    /\ dropped' = dropped \cup {i}
    /\ UNCHANGED <<created, list, phase, stray, applied, online, interruptions>>

\* The tab is closed or crashes: its flush ends wherever it is.
CloseTab(f) ==
    /\ phase[f] # "idle" /\ interruptions < MaxInterruptions
    /\ interruptions' = interruptions + 1
    /\ stray' = stray \cup {i \in Ids : phase[f] = "waiting" /\ IsNext(list[f], i)}
    /\ list' = [list EXCEPT ![f] = NoItems]
    /\ phase' = [phase EXCEPT ![f] = "idle"]
    /\ UNCHANGED <<created, queue, applied, dropped, shown, online>>

\* navigator.onLine changes.
Reconnect ==
    /\ online' = ~online
    /\ UNCHANGED <<created, queue, list, phase, stray, applied, dropped, shown, interruptions>>

-----------------------------------------------------------------------------

Answer(f) ==
    \/ \E i \in Ids : AnswerOk(f, i) \/ FetchThrows(f, i)
    \/ AnswerRefused(f)
    \/ AnswerFailed(f)

Settle(f) == \E i \in Ids : SettleOk(f, i) \/ SettleRefused(f, i) \/ SettleFailed(f, i)

OutboxNext ==
    \/ Enqueue
    \/ \E f \in Flushes : BeginFlush(f) \/ Answer(f) \/ Settle(f) \/ CloseTab(f)
    \/ \E i \in Ids : StrayArrives(i) \/ RetryOutbox(i) \/ DiscardOutbox(i)
    \/ RefreshStalled
    \/ Reconnect

\* The timer starts flushes, a fetch ends one way or the other, and a flush that
\* has its answer goes on.  Nothing is assumed of the user, the connection, or
\* what the server answers.
OutboxFairness ==
    /\ WF_outboxVars(\E f \in Flushes : BeginFlush(f))
    /\ \A f \in Flushes : WF_outboxVars(Answer(f)) /\ WF_outboxVars(Settle(f))

OutboxSpec == OutboxInit /\ [][OutboxNext]_outboxVars /\ OutboxFairness

-----------------------------------------------------------------------------
(***************************************************************************)
(* Properties                                                              *)
(***************************************************************************)

IsApplied(i) == \E k \in DOMAIN applied : applied[k] = i

\* The queue may forget an operation: it reached the server, its rejection was
\* shown, or the user dropped it.
Accounted(i) == IsApplied(i) \/ i \in dropped

\* An edit that is not in the queue has reached the server or the user knows what
\* became of it, although flushes of several tabs overwrite each other's entries,
\* tabs are closed in the middle of a flush and answers are lost.
NothingIsLost ==
    \A i \in 1..created : queue[i] # Absent \/ Accounted(i)

\* When an operation has been applied, every earlier one of its sheet has been
\* applied before it, or was rejected or dropped.
SheetOrderIsKept ==
    \A k \in DOMAIN applied : \A h \in 1..applied[k] - 1 :
        SheetOf[h] = SheetOf[applied[k]] =>
            \/ \E n \in 1..k - 1 : applied[n] = h
            \/ h \in dropped

\* The queue's order has a meaning (outboxQueue.ts): whichever flushes carry the
\* operations of a sheet, and also when a request reaches the server late or
\* twice, they are applied once each and in their order, and only an operation
\* that was rejected or dropped is passed over.
Delivery == INSTANCE EditDelivery WITH composed <- created, delivered <- applied

ImplementsEditDelivery == Delivery!Spec

\* Once the connection stays up the queue comes to rest: what is not held back by
\* a blocked operation of its own sheet leaves it.  Overlapping flushes write
\* back stale attempt counts, yet the queue does not retry forever.
EventuallySettled ==
    <>[]online => <>[](\A i \in 1..created : queue[i] = Absent \/ Held(queue, i))

=============================================================================
