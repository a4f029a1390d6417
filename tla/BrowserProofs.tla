---------------------------- MODULE BrowserProofs ----------------------------
(***************************************************************************)
(* What a browser may rely on: that its edits reach the server (Outbox),   *)
(* and that it hears of everyone's changes (Collaboration).                *)
(***************************************************************************)
EXTENDS Outbox, Collaboration, TLAPS, WellFoundedInduction

-----------------------------------------------------------------------------
(***************************************************************************)
(* The safety properties of Outbox for any number of operations, sheets,   *)
(* overlapping flushes and attempts.  The invariant says what a flush may  *)
(* rely on although its list is a stale copy of the queue: everything that *)
(* should have gone before an item is in the same list or accounted for.   *)
(***************************************************************************)

\* What is queued, listed, shown, on its way or applied was composed.
OnlyCreated ==
    /\ \A i \in Ids : queue[i] # Absent => i <= created
    /\ \A f \in Flushes, i \in Ids : list[f][i] # Absent => i <= created
    /\ \A i \in shown : i <= created
    /\ \A i \in stray : i <= created

\* A flush never sends an operation that was blocked when it read the queue.
ListsAreFresh == \A f \in Flushes, i \in Ids : list[f][i] < MaxAttempts

\* What precedes a listed operation on its sheet is listed too, or accounted for.
ListsAreClosed ==
    \A f \in Flushes, i \in Ids, h \in Ids :
        list[f][i] # Absent /\ h < i /\ SheetOf[h] = SheetOf[i] =>
            list[f][h] # Absent \/ Accounted(h)

\* What precedes a stray request on its sheet is accounted for.
StraysAreNext ==
    \A i \in stray, h \in Ids : h < i /\ SheetOf[h] = SheetOf[i] => Accounted(h)

\* A flush that has seen a success has seen the success of its next item.
OkMeansApplied ==
    \A f \in Flushes, i \in Ids : phase[f] = "ok" /\ IsNext(list[f], i) => IsApplied(i)

\* The inductive invariant.
OutboxInv ==
    /\ OutboxTypeOK
    /\ NothingIsLost
    /\ SheetOrderIsKept
    /\ OnlyCreated
    /\ ListsAreFresh
    /\ ListsAreClosed
    /\ StraysAreNext
    /\ OkMeansApplied

-----------------------------------------------------------------------------
(***************************************************************************)
(* The lists                                                               *)
(***************************************************************************)

\* A sendable list holds operations of the queue that are not blocked, and with
\* each of them what the queue holds before it on its sheet.
LEMMA SendableFacts ==
    ASSUME NEW q \in Lists
    PROVE  /\ Sendable(q) \in Lists
           /\ \A i \in Ids : Sendable(q)[i] # Absent => q[i] # Absent
           /\ \A i \in Ids : Sendable(q)[i] < MaxAttempts
           /\ \A i \in Ids, h \in Ids :
                 Sendable(q)[i] # Absent /\ h < i /\ SheetOf[h] = SheetOf[i] =>
                     Sendable(q)[h] # Absent \/ q[h] = Absent
  <1>1. Sendable(q) \in Lists
    BY DEF Sendable, Lists, Absent
  <1>2. \A i \in Ids : Sendable(q)[i] # Absent => q[i] # Absent
    BY DEF Sendable
  <1>3. ASSUME NEW i \in Ids PROVE Sendable(q)[i] < MaxAttempts
    <2>1. Blocked(q, i) => Held(q, i)
      BY MaxOpsAssumption DEF Held, Ids
    <2>2. q[i] \in Int /\ MaxAttempts \in Nat \ {0}
      BY AttemptsAssumption DEF Lists, Absent
    <2> QED BY <2>1, <2>2 DEF Sendable, Blocked, Absent
  <1>4. ASSUME NEW i \in Ids, NEW h \in Ids, Sendable(q)[i] # Absent, h < i,
               SheetOf[h] = SheetOf[i], q[h] # Absent
        PROVE  Sendable(q)[h] # Absent
    <2>1. Held(q, h) => Held(q, i)
      BY <1>4, MaxOpsAssumption DEF Held, Ids
    <2>2. ~Held(q, i)
      BY <1>4 DEF Sendable
    <2> QED BY <2>1, <2>2, <1>4 DEF Sendable
  <1> QED BY <1>1, <1>2, <1>3, <1>4

\* The rest of a list is a list, with nothing in it that was not in the list.
LEMMA RestFacts ==
    ASSUME NEW l \in Lists, NEW i \in Ids
    PROVE  /\ AfterSuccess(l, i) \in Lists /\ AfterStall(l, i) \in Lists
           /\ \A h \in Ids : AfterSuccess(l, i)[h] = IF h = i THEN Absent ELSE l[h]
           /\ \A h \in Ids :
                 AfterStall(l, i)[h] = IF SheetOf[h] = SheetOf[i] THEN Absent ELSE l[h]
  BY DEF AfterSuccess, AfterStall, Lists, Absent

\* The next item of a list is unique, and nothing of the list precedes it.
LEMMA NextIsFirst ==
    ASSUME NEW l \in Lists, NEW i \in Ids, IsNext(l, i)
    PROVE  /\ l[i] # Absent
           /\ \A h \in Ids : h < i => l[h] = Absent
           /\ \A h \in Ids : IsNext(l, h) => h = i
  BY MaxOpsAssumption DEF IsNext, Items, Ids

-----------------------------------------------------------------------------
(***************************************************************************)
(* The server                                                              *)
(***************************************************************************)

\* A step leaves the server's operations alone or appends one to them, and never
\* takes back what the user was told.
AppliedStep == applied' = applied \/ \E i \in Ids : applied' = Append(applied, i)

LEMMA ServerSteps ==
    ASSUME NEW i \in Ids, ServerApplies(i), applied \in Seq(Ids)
    PROVE  applied' \in Seq(Ids) /\ AppliedStep /\ IsApplied(i)'
  BY DEF ServerApplies, AppliedStep, IsApplied

\* What was accounted for stays accounted for.
LEMMA AccountedStays ==
    ASSUME applied \in Seq(Ids), AppliedStep, dropped \subseteq dropped', NEW i \in Ids
    PROVE  (IsApplied(i) => IsApplied(i)') /\ (Accounted(i) => Accounted(i)')
  BY DEF AppliedStep, IsApplied, Accounted

\* The server keeps the order of a sheet when everything that precedes an
\* operation is accounted for by the time it is applied.
LEMMA OrderStays ==
    ASSUME OutboxTypeOK, SheetOrderIsKept, dropped \subseteq dropped', NEW i \in Ids,
           ServerApplies(i),
           \A h \in Ids : h < i /\ SheetOf[h] = SheetOf[i] => Accounted(h)
    PROVE  SheetOrderIsKept'
  <1>1. CASE applied' = applied
    BY <1>1 DEF SheetOrderIsKept
  <1>2. CASE applied' = Append(applied, i)
    <2> SUFFICES ASSUME NEW k \in DOMAIN applied', NEW h \in 1..applied'[k] - 1,
                        SheetOf[h] = SheetOf[applied'[k]]
                 PROVE  (\E n \in 1..k - 1 : applied'[n] = h) \/ h \in dropped'
      BY DEF SheetOrderIsKept
    <2>1. applied \in Seq(Ids) /\ Len(applied) \in Nat
      BY DEF OutboxTypeOK
    <2>2. CASE k = Len(applied) + 1
      <3>1. applied'[k] = i
        BY <1>2, <2>1, <2>2
      <3>2. h \in Ids /\ h < i
        BY <3>1, MaxOpsAssumption DEF Ids
      <3>3. Accounted(h)
        BY <3>1, <3>2
      <3>4. CASE IsApplied(h)
        <4>1. PICK n \in DOMAIN applied : applied[n] = h
          BY <3>4 DEF IsApplied
        <4>2. n \in 1..k - 1 /\ applied'[n] = h
          BY <4>1, <2>1, <2>2, <1>2
        <4> QED BY <4>2
      <3> QED BY <3>3, <3>4 DEF Accounted
    <2>3. CASE k \in DOMAIN applied
      <3>1. applied'[k] = applied[k] /\ \A n \in 1..k - 1 : applied'[n] = applied[n]
        BY <1>2, <2>1, <2>3
      <3> QED BY <3>1, <2>3 DEF SheetOrderIsKept
    <2> QED BY <1>2, <2>1, <2>2, <2>3
  <1> QED BY <1>1, <1>2 DEF ServerApplies

-----------------------------------------------------------------------------
(***************************************************************************)
(* The steps                                                               *)
(***************************************************************************)

\* No step takes anything back from the server or from what the user was told.
LEMMA NothingIsTakenBack ==
    ASSUME OutboxTypeOK, [OutboxNext]_outboxVars
    PROVE  AppliedStep /\ dropped \subseteq dropped'
  <1> USE DEF OutboxTypeOK
  <1>1. ASSUME NEW f \in Flushes, Answer(f) PROVE AppliedStep /\ dropped \subseteq dropped'
    <2>1. ASSUME NEW i \in Ids, AnswerOk(f, i) PROVE AppliedStep /\ dropped' = dropped
      BY <2>1, ServerSteps DEF AnswerOk, RequestEnds
    <2>2. ASSUME NEW i \in Ids, FetchThrows(f, i) PROVE applied' = applied /\ dropped' = dropped
      BY <2>2 DEF FetchThrows, RequestEnds
    <2> QED BY <1>1, <2>1, <2>2 DEF Answer, AnswerRefused, AnswerFailed, RequestEnds, AppliedStep
  <1>2. ASSUME NEW f \in Flushes, Settle(f) PROVE AppliedStep /\ dropped \subseteq dropped'
    BY <1>2 DEF Settle, SettleOk, SettleRefused, SettleFailed, AppliedStep
  <1>3. ASSUME NEW i \in Ids, StrayArrives(i) PROVE AppliedStep /\ dropped \subseteq dropped'
    BY <1>3, ServerSteps DEF StrayArrives, AppliedStep
  <1>4. ASSUME NEW f \in Flushes, BeginFlush(f) \/ CloseTab(f)
        PROVE  AppliedStep /\ dropped \subseteq dropped'
    BY <1>4 DEF BeginFlush, CloseTab, AppliedStep
  <1>5. ASSUME NEW i \in Ids, RetryOutbox(i) \/ DiscardOutbox(i)
        PROVE  AppliedStep /\ dropped \subseteq dropped'
    BY <1>5 DEF RetryOutbox, DiscardOutbox, AppliedStep
  <1>6. ASSUME Enqueue \/ RefreshStalled \/ Reconnect \/ UNCHANGED outboxVars
        PROVE  AppliedStep /\ dropped \subseteq dropped'
    BY <1>6 DEF Enqueue, RefreshStalled, Reconnect, outboxVars, AppliedStep
  <1> QED BY <1>1, <1>2, <1>3, <1>4, <1>5, <1>6 DEF OutboxNext

\* enqueue keeps the invariant: a new operation is in the queue and in no list.
LEMMA EnqueueKeeps ==
    ASSUME OutboxInv, Enqueue
    PROVE  OutboxInv'
  <1> USE DEF OutboxInv, Enqueue
  <1>1. created + 1 \in Ids /\ queue' \in Lists /\ created' \in 0..MaxOps
    BY MaxOpsAssumption, AttemptsAssumption DEF OutboxTypeOK, Ids, Lists
  <1>2. \A i \in Ids : queue'[i] = IF i = created + 1 THEN 0 ELSE queue[i]
    BY DEF OutboxTypeOK, Lists
  <1>3. OutboxTypeOK' BY <1>1 DEF OutboxTypeOK
  <1>4. NothingIsLost'
    BY <1>1, <1>2, MaxOpsAssumption DEF NothingIsLost, Accounted, IsApplied, OutboxTypeOK, Ids, Absent
  <1>5. SheetOrderIsKept' BY DEF SheetOrderIsKept
  <1>6. OnlyCreated'
    BY <1>1, <1>2, MaxOpsAssumption DEF OnlyCreated, OutboxTypeOK, Ids
  <1>7. ListsAreFresh' /\ ListsAreClosed' /\ StraysAreNext' /\ OkMeansApplied'
    BY DEF ListsAreFresh, ListsAreClosed, StraysAreNext, OkMeansApplied, Accounted, IsApplied
  <1> QED BY <1>3, <1>4, <1>5, <1>6, <1>7

\* A new list is closed, because what the queue lacks is accounted for.
LEMMA BeginFlushKeeps ==
    ASSUME OutboxInv, NEW f \in Flushes, BeginFlush(f)
    PROVE  OutboxInv'
  <1> USE DEF OutboxInv, BeginFlush
  <1> DEFINE l == Sendable(queue)
  <1>0. queue \in Lists BY DEF OutboxTypeOK
  <1>1. list' = [list EXCEPT ![f] = l] /\ phase' = [phase EXCEPT ![f] = "waiting"]
    BY DEF Continue
  <1>2. /\ l \in Lists
        /\ \A i \in Ids : l[i] # Absent => queue[i] # Absent
        /\ \A i \in Ids : l[i] < MaxAttempts
        /\ \A i \in Ids, h \in Ids :
              l[i] # Absent /\ h < i /\ SheetOf[h] = SheetOf[i] =>
                 l[h] # Absent \/ queue[h] = Absent
    BY <1>0, SendableFacts
  <1> HIDE DEF l
  <1>3. OutboxTypeOK' BY <1>1, <1>2 DEF OutboxTypeOK, Phases
  <1>4. \A g \in Flushes : list'[g] = IF g = f THEN l ELSE list[g]
    BY <1>1 DEF OutboxTypeOK
  <1>5. NothingIsLost' /\ SheetOrderIsKept' /\ StraysAreNext'
    BY DEF NothingIsLost, SheetOrderIsKept, StraysAreNext, Accounted, IsApplied
  <1>6. OnlyCreated' BY <1>4, <1>2 DEF OnlyCreated
  <1>7. ListsAreFresh' BY <1>4, <1>2 DEF ListsAreFresh
  <1>8. ListsAreClosed'
    <2> SUFFICES ASSUME NEW g \in Flushes, NEW i \in Ids, NEW h \in Ids,
                        list'[g][i] # Absent, h < i, SheetOf[h] = SheetOf[i]
                 PROVE  list'[g][h] # Absent \/ Accounted(h)
      BY DEF ListsAreClosed, Accounted, IsApplied
    <2>1. CASE g # f BY <2>1, <1>4 DEF ListsAreClosed
    <2>2. CASE g = f
      <3>1. queue[i] # Absent /\ i <= created BY <2>2, <1>4, <1>2 DEF OnlyCreated
      <3>2. h \in 1..created BY <3>1, MaxOpsAssumption DEF Ids, OutboxTypeOK
      <3>3. queue[h] # Absent \/ Accounted(h) BY <3>2 DEF NothingIsLost
      <3> QED BY <2>2, <3>3, <1>4, <1>2
    <2> QED BY <2>1, <2>2
  <1>9. OkMeansApplied'
    BY <1>1, <1>4 DEF OkMeansApplied, IsApplied, OutboxTypeOK
  <1> QED BY <1>3, <1>5, <1>6, <1>7, <1>8, <1>9

\* An answer keeps the invariant: only the first item of a list is under way, so
\* what precedes it on its sheet is accounted for when the server applies it.
LEMMA AnswerKeeps ==
    ASSUME OutboxInv, NEW f \in Flushes, Answer(f)
    PROVE  OutboxInv'
  <1> USE DEF OutboxInv
  <1>1. ASSUME NEW i \in Ids, AnswerOk(f, i) PROVE OutboxInv'
    <2> USE <1>1 DEF AnswerOk, RequestEnds
    <2>1. list[f] \in Lists BY DEF OutboxTypeOK
    <2>2. applied' \in Seq(Ids) /\ AppliedStep /\ IsApplied(i)'
      BY ServerSteps DEF OutboxTypeOK
    <2>3. \A h \in Ids : (IsApplied(h) => IsApplied(h)') /\ (Accounted(h) => Accounted(h)')
      BY <2>2, AccountedStays DEF OutboxTypeOK
    <2>4. \A h \in Ids : h < i /\ SheetOf[h] = SheetOf[i] => Accounted(h)
      BY <2>1, NextIsFirst DEF ListsAreClosed
    <2>5. SheetOrderIsKept' BY <2>4, OrderStays
    <2>6. OutboxTypeOK' BY <2>2 DEF OutboxTypeOK, Phases
    <2>7. \A h \in 1..created : h \in Ids BY MaxOpsAssumption DEF OutboxTypeOK, Ids
    <2>8. NothingIsLost' BY <2>3, <2>7 DEF NothingIsLost
    <2>9. OnlyCreated' /\ ListsAreFresh' BY DEF OnlyCreated, ListsAreFresh
    <2>10. ListsAreClosed' BY <2>3 DEF ListsAreClosed
    <2>11. StraysAreNext' BY <2>3 DEF StraysAreNext
    <2>12. ASSUME NEW g \in Flushes, NEW h \in Ids, phase'[g] = "ok", IsNext(list[g], h)
           PROVE  IsApplied(h)'
      <3>1. CASE g = f BY <3>1, <2>12, <2>1, <2>2, NextIsFirst
      <3>2. CASE g # f BY <3>2, <2>12, <2>3 DEF OkMeansApplied, OutboxTypeOK
      <3> QED BY <3>1, <3>2
    <2>13. OkMeansApplied' BY <2>12 DEF OkMeansApplied
    <2> QED BY <2>5, <2>6, <2>8, <2>9, <2>10, <2>11, <2>13
  <1>2. ASSUME NEW i \in Ids, FetchThrows(f, i) PROVE OutboxInv'
    <2> USE <1>2 DEF FetchThrows, RequestEnds
    <2>1. list[f] \in Lists BY DEF OutboxTypeOK
    <2>2. \A h \in Ids : h < i /\ SheetOf[h] = SheetOf[i] => Accounted(h)
      BY <2>1, NextIsFirst DEF ListsAreClosed
    <2>3. OutboxTypeOK' BY DEF OutboxTypeOK, Phases
    <2>4. NothingIsLost' /\ SheetOrderIsKept' /\ ListsAreFresh' /\ ListsAreClosed'
      BY DEF NothingIsLost, SheetOrderIsKept, ListsAreFresh, ListsAreClosed, Accounted, IsApplied
    <2>7. OnlyCreated'
      <3>1. i <= created
        BY <2>1, NextIsFirst DEF OnlyCreated
      <3> QED BY <3>1 DEF OnlyCreated
    <2>5. StraysAreNext' BY <2>2 DEF StraysAreNext, Accounted, IsApplied
    <2>6. OkMeansApplied' BY DEF OkMeansApplied, IsApplied, OutboxTypeOK
    <2> QED BY <2>3, <2>4, <2>5, <2>6, <2>7
  <1>3. ASSUME AnswerRefused(f) \/ AnswerFailed(f) PROVE OutboxInv'
    <2> USE <1>3 DEF AnswerRefused, AnswerFailed, RequestEnds
    <2>1. OutboxTypeOK' BY DEF OutboxTypeOK, Phases
    <2>2. NothingIsLost' /\ SheetOrderIsKept' /\ OnlyCreated' /\ ListsAreFresh' /\ ListsAreClosed'
             /\ StraysAreNext'
      BY DEF NothingIsLost, SheetOrderIsKept, OnlyCreated, ListsAreFresh, ListsAreClosed,
             StraysAreNext, Accounted, IsApplied
    <2>3. OkMeansApplied' BY DEF OkMeansApplied, IsApplied, OutboxTypeOK
    <2> QED BY <2>1, <2>2, <2>3
  <1> QED BY <1>1, <1>2, <1>3 DEF Answer

\* A settled item leaves its list accounted for, or takes the rest of its sheet
\* out of the list.
LEMMA SettleKeeps ==
    ASSUME OutboxInv, NEW f \in Flushes, NEW i \in Ids,
           SettleOk(f, i) \/ SettleRefused(f, i) \/ SettleFailed(f, i)
    PROVE  OutboxInv'
  <1> USE DEF OutboxInv
  <1> DEFINE l == list'[f]
  <1>1. list[f] \in Lists /\ IsNext(list[f], i)
    BY DEF OutboxTypeOK, SettleOk, SettleRefused, SettleFailed
  <1>2. /\ l = AfterSuccess(list[f], i) \/ l = AfterStall(list[f], i)
        /\ \A g \in Flushes : g # f => list'[g] = list[g] /\ phase'[g] = phase[g]
        /\ phase'[f] \in {"idle", "waiting"}
    BY DEF OutboxTypeOK, SettleOk, SettleRefused, SettleFailed, Continue
  <1>2a. /\ AfterSuccess(list[f], i) \in Lists /\ AfterStall(list[f], i) \in Lists
         /\ \A h \in Ids :
               AfterSuccess(list[f], i)[h] = IF h = i THEN Absent ELSE list[f][h]
         /\ \A h \in Ids : AfterStall(list[f], i)[h] =
               IF SheetOf[h] = SheetOf[i] THEN Absent ELSE list[f][h]
    <2> HIDE DEF l
    <2> QED BY ONLY <1>1, i \in Ids, RestFacts
  <1>3. l \in Lists /\ \A h \in Ids : l[h] # Absent => l[h] = list[f][h]
    BY <1>2, <1>2a
  <1>4. list' \in [Flushes -> Lists] /\ phase' \in [Flushes -> Phases]
    BY <1>2a DEF OutboxTypeOK, SettleOk, SettleRefused, SettleFailed, Continue, Phases
  <1>5. list[f][i] \in 0..MaxAttempts - 1
    BY <1>1, NextIsFirst, AttemptsAssumption DEF ListsAreFresh, Lists, Absent
  <1>6. /\ queue' \in Lists
        /\ \A h \in Ids : h # i => queue'[h] = queue[h]
        /\ queue'[i] # Absent \/ IsApplied(i) \/ i \in dropped'
    <2>1. CASE SettleOk(f, i)
      BY <2>1, <1>1 DEF SettleOk, OkMeansApplied, OutboxTypeOK, Lists
    <2>2. CASE SettleRefused(f, i)
      BY <2>2 DEF SettleRefused, OutboxTypeOK, Lists
    <2>3. CASE SettleFailed(f, i)
      <3>1. Failure(list[f][i]) \in 0..MaxAttempts /\ Failure(list[f][i]) # Absent
        BY <1>5, AttemptsAssumption DEF Failure, Absent
      <3> QED BY <2>3, <3>1 DEF SettleFailed, OutboxTypeOK, Lists
    <2> QED BY <2>1, <2>2, <2>3
  <1>7. /\ dropped \subseteq dropped' /\ dropped' \subseteq Ids
        /\ UNCHANGED <<created, stray, applied, shown, online, interruptions>>
    BY DEF OutboxTypeOK, SettleOk, SettleRefused, SettleFailed
  <1>8. \A h \in Ids : (IsApplied(h)' <=> IsApplied(h)) /\ (Accounted(h) => Accounted(h)')
    BY <1>7 DEF Accounted, IsApplied
  <1>9. OutboxTypeOK' BY <1>4, <1>6, <1>7 DEF OutboxTypeOK
  <1>10. NothingIsLost'
    <2> SUFFICES ASSUME NEW h \in 1..created PROVE queue'[h] # Absent \/ Accounted(h)'
      BY <1>7 DEF NothingIsLost
    <2>1. h \in Ids BY MaxOpsAssumption DEF OutboxTypeOK, Ids
    <2>2. CASE h = i BY <2>2, <1>6, <1>7, <1>8 DEF Accounted
    <2>3. CASE h # i BY <2>1, <2>3, <1>6, <1>8 DEF NothingIsLost
    <2> QED BY <2>2, <2>3
  <1>11. SheetOrderIsKept' BY <1>7 DEF SheetOrderIsKept
  <1>12. i <= created BY <1>1, NextIsFirst DEF OnlyCreated
  <1>13. OnlyCreated'
    <2>1. \A h \in Ids : queue'[h] # Absent => h <= created
      BY <1>6, <1>12 DEF OnlyCreated
    <2>2. ASSUME NEW g \in Flushes, NEW h \in Ids, list'[g][h] # Absent PROVE h <= created
      BY <2>2, <1>2, <1>3 DEF OnlyCreated
    <2> QED BY <2>1, <2>2, <1>7 DEF OnlyCreated
  <1>14. ListsAreFresh'
    <2> SUFFICES ASSUME NEW g \in Flushes, NEW h \in Ids PROVE list'[g][h] < MaxAttempts
      BY DEF ListsAreFresh
    <2>1. Absent < MaxAttempts BY AttemptsAssumption DEF Absent
    <2> QED BY <2>1, <1>2, <1>3 DEF ListsAreFresh
  <1>15. ListsAreClosed'
    <2> SUFFICES ASSUME NEW g \in Flushes, NEW j \in Ids, NEW h \in Ids,
                        list'[g][j] # Absent, h < j, SheetOf[h] = SheetOf[j]
                 PROVE  list'[g][h] # Absent \/ Accounted(h)'
      BY DEF ListsAreClosed
    <2>1. CASE g # f BY <2>1, <1>2, <1>8 DEF ListsAreClosed
    <2>2. CASE g = f /\ SettleOk(f, i)
      <3>1. l = AfterSuccess(list[f], i) /\ IsApplied(i)
        BY <2>2, <1>1 DEF SettleOk, Continue, OkMeansApplied, OutboxTypeOK
      <3>2. \A k \in Ids : l[k] = IF k = i THEN Absent ELSE list[f][k]
        BY <3>1, <1>2a
      <3>3. list[f][h] # Absent \/ Accounted(h)
        BY <2>2, <3>2 DEF ListsAreClosed
      <3>4. Accounted(i)' BY <3>1, <1>8 DEF Accounted
      <3> QED BY <2>2, <3>2, <3>3, <3>4, <1>8
    <2>3. CASE g = f /\ ~SettleOk(f, i)
      <3>1. l = AfterStall(list[f], i)
        BY <2>3 DEF SettleRefused, SettleFailed, Continue, OutboxTypeOK
      <3>2. \A k \in Ids : l[k] = IF SheetOf[k] = SheetOf[i] THEN Absent ELSE list[f][k]
        BY <3>1, <1>2a
      <3>3. list[f][h] # Absent \/ Accounted(h)
        BY <2>3, <3>2 DEF ListsAreClosed
      <3> QED BY <2>3, <3>2, <3>3, <1>8
    <2> QED BY <2>1, <2>2, <2>3
  <1>16. StraysAreNext' BY <1>7, <1>8 DEF StraysAreNext, OutboxTypeOK
  <1>17. OkMeansApplied'
    BY <1>2, <1>8 DEF OkMeansApplied
  <1> QED BY <1>9, <1>10, <1>11, <1>13, <1>14, <1>15, <1>16, <1>17

\* A request that arrives late finds what precedes it accounted for.
LEMMA StrayKeeps ==
    ASSUME OutboxInv, NEW i \in Ids, StrayArrives(i)
    PROVE  OutboxInv'
  <1> USE DEF OutboxInv, StrayArrives
  <1>1. AppliedStep /\ applied' \in Seq(Ids)
    BY ServerSteps DEF OutboxTypeOK, AppliedStep
  <1>2. \A h \in Ids : (IsApplied(h) => IsApplied(h)') /\ (Accounted(h) => Accounted(h)')
    BY <1>1, AccountedStays DEF OutboxTypeOK
  <1>3. SheetOrderIsKept'
    <2>1. CASE UNCHANGED applied BY <2>1 DEF SheetOrderIsKept
    <2>2. CASE ServerApplies(i) BY <2>2, OrderStays DEF StraysAreNext
    <2> QED BY <2>1, <2>2
  <1>4. OutboxTypeOK' BY <1>1 DEF OutboxTypeOK
  <1>5. \A h \in 1..created : h \in Ids BY MaxOpsAssumption DEF OutboxTypeOK, Ids
  <1>6. NothingIsLost' BY <1>2, <1>5 DEF NothingIsLost
  <1>7. OnlyCreated' /\ ListsAreFresh' BY DEF OnlyCreated, ListsAreFresh
  <1>8. ListsAreClosed' BY <1>2 DEF ListsAreClosed
  <1>9. StraysAreNext' BY <1>2 DEF StraysAreNext, OutboxTypeOK
  <1>10. OkMeansApplied' BY <1>2 DEF OkMeansApplied
  <1> QED BY <1>3, <1>4, <1>6, <1>7, <1>8, <1>9, <1>10

\* A closed tab leaves at most the request for the first item of its list behind.
LEMMA CloseTabKeeps ==
    ASSUME OutboxInv, NEW f \in Flushes, CloseTab(f)
    PROVE  OutboxInv'
  <1> USE DEF OutboxInv, CloseTab
  <1>1. NoItems \in Lists /\ \A h \in Ids : NoItems[h] = Absent
    BY DEF NoItems, Lists
  <1>2. OutboxTypeOK' BY <1>1, InterruptionsAssumption DEF OutboxTypeOK, Phases
  <1>3. \A g \in Flushes : list'[g] = IF g = f THEN NoItems ELSE list[g]
    BY DEF OutboxTypeOK
  <1>4. NothingIsLost' /\ SheetOrderIsKept'
    BY DEF NothingIsLost, SheetOrderIsKept, Accounted, IsApplied
  <1>5. OnlyCreated'
    <2>1. ASSUME NEW i \in Ids, IsNext(list[f], i) PROVE i <= created
      <3>1. list[f] \in Lists BY DEF OutboxTypeOK
      <3> QED BY <2>1, <3>1, NextIsFirst DEF OnlyCreated
    <2>2. \A i \in stray' : i <= created BY <2>1 DEF OnlyCreated
    <2> QED BY <1>1, <1>3, <2>2 DEF OnlyCreated
  <1>6. ListsAreFresh'
    <2>1. Absent < MaxAttempts BY AttemptsAssumption DEF Absent
    <2> QED BY <2>1, <1>1, <1>3 DEF ListsAreFresh
  <1>7. ListsAreClosed'
    BY <1>1, <1>3 DEF ListsAreClosed, Accounted, IsApplied
  <1>8. StraysAreNext'
    <2>1. ASSUME NEW i \in Ids, IsNext(list[f], i), NEW h \in Ids, h < i,
                 SheetOf[h] = SheetOf[i]
          PROVE  Accounted(h)
      <3>1. list[f] \in Lists BY DEF OutboxTypeOK
      <3> QED BY <2>1, <3>1, NextIsFirst DEF ListsAreClosed
    <2> QED BY <2>1 DEF StraysAreNext, Accounted, IsApplied
  <1>9. OkMeansApplied'
    BY <1>3 DEF OkMeansApplied, IsApplied, OutboxTypeOK
  <1> QED BY <1>2, <1>4, <1>5, <1>6, <1>7, <1>8, <1>9

\* The user's choices and the screen keep the invariant, although the screen
\* shows operations that have left the queue.
LEMMA UserKeeps ==
    ASSUME OutboxInv,
           \/ \E i \in Ids : RetryOutbox(i) \/ DiscardOutbox(i)
           \/ RefreshStalled \/ Reconnect \/ UNCHANGED outboxVars
    PROVE  OutboxInv'
  <1> USE DEF OutboxInv
  <1>1. /\ UNCHANGED <<created, list, phase, stray, applied>>
        /\ dropped \subseteq dropped' /\ dropped' \subseteq Ids
    BY DEF RetryOutbox, DiscardOutbox, RefreshStalled, Reconnect, outboxVars, OutboxTypeOK
  <1>2. /\ queue' \in Lists
        /\ \A h \in Ids : queue'[h] = Absent => queue[h] = Absent \/ h \in dropped'
        /\ \A h \in Ids : queue'[h] # Absent => queue[h] # Absent \/ h \in shown
    <2>1. ASSUME NEW i \in Ids, RetryOutbox(i) PROVE <1>2!:
      BY <2>1, AttemptsAssumption DEF RetryOutbox, OutboxTypeOK, Lists, Absent
    <2>2. ASSUME NEW i \in Ids, DiscardOutbox(i) PROVE <1>2!:
      BY <2>2 DEF DiscardOutbox, OutboxTypeOK, Lists
    <2> QED BY <2>1, <2>2 DEF RefreshStalled, Reconnect, outboxVars, OutboxTypeOK
  <1>3. shown' \subseteq Ids /\ \A h \in shown' : h \in shown \/ queue[h] # Absent
    <2>1. \A h \in Ids : Blocked(queue, h) => queue[h] # Absent
      BY AttemptsAssumption DEF Blocked, Absent
    <2> QED BY <2>1 DEF RetryOutbox, DiscardOutbox, RefreshStalled, Reconnect, outboxVars, OutboxTypeOK
  <1>4. interruptions' \in 0..MaxInterruptions /\ online' \in BOOLEAN
    <2>1. interruptions' \in 0..MaxInterruptions
      BY InterruptionsAssumption
         DEF RetryOutbox, DiscardOutbox, RefreshStalled, Reconnect, outboxVars, OutboxTypeOK
    <2>2. online' \in BOOLEAN
      BY Zenon DEF RetryOutbox, DiscardOutbox, RefreshStalled, Reconnect, outboxVars, OutboxTypeOK
    <2> QED BY <2>1, <2>2
  <1>5. OutboxTypeOK' BY <1>1, <1>2, <1>3, <1>4 DEF OutboxTypeOK
  <1>6. \A h \in Ids : (IsApplied(h)' <=> IsApplied(h)) /\ (Accounted(h) => Accounted(h)')
    BY <1>1 DEF Accounted, IsApplied
  <1>7. NothingIsLost'
    <2>1. \A h \in 1..created : h \in Ids BY MaxOpsAssumption DEF OutboxTypeOK, Ids
    <2> QED BY <2>1, <1>1, <1>2, <1>6 DEF NothingIsLost, Accounted
  <1>8. SheetOrderIsKept' BY <1>1 DEF SheetOrderIsKept
  <1>9. OnlyCreated' BY <1>1, <1>2, <1>3 DEF OnlyCreated, OutboxTypeOK
  <1>10. ListsAreFresh' /\ ListsAreClosed' /\ StraysAreNext' /\ OkMeansApplied'
    BY <1>1, <1>6 DEF ListsAreFresh, ListsAreClosed, StraysAreNext, OkMeansApplied, OutboxTypeOK
  <1> QED BY <1>5, <1>7, <1>8, <1>9, <1>10

-----------------------------------------------------------------------------
(***************************************************************************)
(* The theorems                                                            *)
(***************************************************************************)

\* OutboxInit and every step establish the invariant.
LEMMA OutboxInvAlways == OutboxSpec => []OutboxInv
  <1>1. OutboxInit => OutboxInv
    <2> SUFFICES ASSUME OutboxInit PROVE OutboxInv OBVIOUS
    <2> USE DEF OutboxInit
    <2>1. NoItems \in Lists /\ \A h \in Ids : NoItems[h] = Absent
      BY DEF NoItems, Lists
    <2>2. OutboxTypeOK
      BY <2>1, MaxOpsAssumption, InterruptionsAssumption DEF OutboxTypeOK, Phases
    <2>3. NothingIsLost /\ SheetOrderIsKept /\ StraysAreNext
      BY DEF NothingIsLost, SheetOrderIsKept, StraysAreNext
    <2>4. OnlyCreated /\ ListsAreClosed /\ OkMeansApplied
      BY <2>1 DEF OnlyCreated, ListsAreClosed, OkMeansApplied
    <2>5. ListsAreFresh
      <3>1. Absent < MaxAttempts BY AttemptsAssumption DEF Absent
      <3> QED BY <3>1, <2>1 DEF ListsAreFresh
    <2> QED BY <2>2, <2>3, <2>4, <2>5 DEF OutboxInv
  <1>2. OutboxInv /\ [OutboxNext]_outboxVars => OutboxInv'
    BY EnqueueKeeps, BeginFlushKeeps, AnswerKeeps, SettleKeeps, StrayKeeps, CloseTabKeeps,
       UserKeeps DEF OutboxNext, Settle
  <1> QED BY <1>1, <1>2, PTL DEF OutboxSpec

\* The queue, the lists of the flushes and the attempt counts keep their types; an
\* attempt count never passes MAX_ATTEMPTS although flushes write stale counts.
THEOREM OutboxTypeCorrect == OutboxSpec => []OutboxTypeOK
  <1>1. OutboxInv => OutboxTypeOK BY DEF OutboxInv
  <1> QED BY <1>1, OutboxInvAlways, PTL

\* No edit disappears: what is not in the queue has reached the server, or the
\* user was told of its rejection or dropped it (flushOutbox, recordFailure).
THEOREM NothingIsEverLost == OutboxSpec => []NothingIsLost
  <1>1. OutboxInv => NothingIsLost BY DEF OutboxInv
  <1> QED BY <1>1, OutboxInvAlways, PTL

\* The edits of a sheet reach the server in the order they were made, however many
\* flushes carry them and however late a request arrives (sendable, stalled).
THEOREM SheetOrderIsAlwaysKept == OutboxSpec => []SheetOrderIsKept
  <1>1. OutboxInv => SheetOrderIsKept BY DEF OutboxInv
  <1> QED BY <1>1, OutboxInvAlways, PTL

\* What the server does with a request is a delivery, or nothing, when what
\* precedes the operation on its sheet is accounted for.
LEMMA ServerDelivers ==
    ASSUME NEW i \in 1..created, ServerApplies(i), UNCHANGED <<created, dropped>>,
           \A h \in Ids : h < i /\ SheetOf[h] = SheetOf[i] => Accounted(h),
           OutboxTypeOK
    PROVE  Delivery!Next \/ UNCHANGED <<created, applied, dropped>>
  <1>1. CASE IsApplied(i)
    BY <1>1 DEF ServerApplies, IsApplied
  <1>2. CASE ~IsApplied(i)
    <2>1. applied' = Append(applied, i)
      BY <1>2 DEF ServerApplies, IsApplied
    <2>2. ASSUME NEW h \in 1..i - 1, SheetOf[h] = SheetOf[i]
          PROVE  Delivery!IsDelivered(h) \/ h \in dropped
      <3>1. h \in Ids /\ h < i
        BY MaxOpsAssumption DEF Ids, OutboxTypeOK
      <3> QED  BY <2>2, <3>1 DEF Accounted, IsApplied, Delivery!IsDelivered
    <2>3. Delivery!Deliver(i)
      BY <1>2, <2>1, <2>2 DEF Delivery!Deliver, Delivery!IsDelivered, IsApplied
    <2> QED  BY <2>3 DEF Delivery!Next
  <1> QED  BY <1>1, <1>2

\* Every step of the queue is a step of EditDelivery or changes nothing of it.
LEMMA StepsDeliver ==
    ASSUME OutboxInv, [OutboxNext]_outboxVars
    PROVE  Delivery!Next \/ UNCHANGED <<created, applied, dropped>>
  <1> DEFINE Goal == Delivery!Next \/ UNCHANGED <<created, applied, dropped>>
  <1>1. /\ OutboxTypeOK /\ \A f \in Flushes : list[f] \in Lists
        /\ \A i \in Ids : 1 <= i
    BY DEF OutboxInv, OutboxTypeOK, Ids
  <1>2. ASSUME NEW f \in Flushes, NEW i \in Ids, IsNext(list[f], i)
        PROVE  /\ i \in 1..created
               /\ \A h \in Ids : h < i /\ SheetOf[h] = SheetOf[i] => Accounted(h)
    <2>1. /\ list[f][i] # Absent
          /\ \A h \in Ids : h < i => list[f][h] = Absent
      BY <1>1, <1>2, NextIsFirst
    <2>2. i <= created
      BY <2>1 DEF OutboxInv, OnlyCreated
    <2>3. created \in Int /\ i \in Int
      BY <1>1, MaxOpsAssumption DEF OutboxTypeOK, Ids
    <2>4. \A h \in Ids : h < i /\ SheetOf[h] = SheetOf[i] => Accounted(h)
      BY <2>1 DEF OutboxInv, ListsAreClosed
    <2> QED  BY <1>1, <2>2, <2>3, <2>4
  <1>3. ASSUME NEW i \in 1..created, dropped' = dropped \cup {i}, UNCHANGED <<created, applied>>
        PROVE  Goal
    BY <1>3 DEF Delivery!Next, Delivery!Drop
  <1>4. CASE Enqueue
    BY <1>4 DEF Enqueue, Delivery!Next, Delivery!Compose
  <1>5. ASSUME NEW f \in Flushes, Answer(f)
        PROVE  Goal
    <2>1. ASSUME NEW i \in Ids, AnswerOk(f, i)
          PROVE  Goal
      <3>1. IsNext(list[f], i) /\ ServerApplies(i) /\ UNCHANGED <<created, dropped>>
        BY <2>1 DEF AnswerOk, RequestEnds
      <3> QED  BY <1>1, <1>2, <3>1, ServerDelivers
    <2>2. ASSUME NEW i \in Ids, FetchThrows(f, i)
          PROVE  Goal
      BY <2>2 DEF FetchThrows, RequestEnds
    <2>3. CASE AnswerRefused(f) \/ AnswerFailed(f)
      BY <2>3 DEF AnswerRefused, AnswerFailed, RequestEnds
    <2> QED  BY <1>5, <2>1, <2>2, <2>3 DEF Answer
  <1>6. ASSUME NEW f \in Flushes, NEW i \in Ids, SettleRefused(f, i)
        PROVE  Goal
    <2>1. IsNext(list[f], i) /\ dropped' = dropped \cup {i} /\ UNCHANGED <<created, applied>>
      BY <1>6 DEF SettleRefused
    <2>2. i \in 1..created
      BY <1>2, <2>1
    <2> QED  BY <1>3, <2>1, <2>2
  <1>7. ASSUME NEW f \in Flushes, NEW i \in Ids, SettleOk(f, i) \/ SettleFailed(f, i)
        PROVE  Goal
    BY <1>7 DEF SettleOk, SettleFailed
  <1>8. ASSUME NEW f \in Flushes, BeginFlush(f) \/ CloseTab(f)
        PROVE  Goal
    BY <1>8 DEF BeginFlush, CloseTab
  <1>9. ASSUME NEW i \in Ids, i \in stray \cup shown
        PROVE  i \in 1..created
    <2>1. i <= created /\ created \in Int /\ i \in Int
      BY <1>1, <1>9, MaxOpsAssumption DEF OutboxInv, OnlyCreated, OutboxTypeOK, Ids
    <2> QED  BY <1>1, <2>1
  <1>10. ASSUME NEW i \in Ids, StrayArrives(i)
         PROVE  Goal
    <2>1. /\ i \in stray /\ UNCHANGED <<created, dropped>>
          /\ ServerApplies(i) \/ UNCHANGED applied
      BY <1>10 DEF StrayArrives
    <2>2. \A h \in Ids : h < i /\ SheetOf[h] = SheetOf[i] => Accounted(h)
      BY <2>1 DEF OutboxInv, StraysAreNext
    <2>3. CASE UNCHANGED applied
      BY <2>1, <2>3
    <2>4. CASE ServerApplies(i)
      BY <1>1, <1>9, <2>1, <2>2, <2>4, ServerDelivers
    <2> QED  BY <2>1, <2>3, <2>4
  <1>11. ASSUME NEW i \in Ids, DiscardOutbox(i)
         PROVE  Goal
    <2>1. i \in shown /\ dropped' = dropped \cup {i} /\ UNCHANGED <<created, applied>>
      BY <1>11 DEF DiscardOutbox
    <2>2. i \in 1..created
      BY <1>9, <2>1
    <2> QED  BY <1>3, <2>1, <2>2
  <1>12. ASSUME NEW i \in Ids, RetryOutbox(i)
         PROVE  Goal
    BY <1>12 DEF RetryOutbox
  <1>13. CASE RefreshStalled \/ Reconnect \/ UNCHANGED outboxVars
    BY <1>13 DEF RefreshStalled, Reconnect, outboxVars
  <1>14. ASSUME NEW f \in Flushes, Settle(f)
         PROVE  Goal
    BY <1>6, <1>7, <1>14 DEF Settle
  <1>15. ASSUME NEW i \in Ids, StrayArrives(i) \/ RetryOutbox(i) \/ DiscardOutbox(i)
         PROVE  Goal
    BY <1>10, <1>11, <1>12, <1>15
  <1>16. ASSUME NEW f \in Flushes, BeginFlush(f) \/ Answer(f) \/ Settle(f) \/ CloseTab(f)
         PROVE  Goal
    BY <1>5, <1>8, <1>14, <1>16
  <1>17. CASE \E f \in Flushes : BeginFlush(f) \/ Answer(f) \/ Settle(f) \/ CloseTab(f)
    BY <1>16, <1>17
  <1>18. CASE \E i \in Ids : StrayArrives(i) \/ RetryOutbox(i) \/ DiscardOutbox(i)
    BY <1>15, <1>18
  <1>19. \/ Enqueue \/ RefreshStalled \/ Reconnect \/ UNCHANGED outboxVars
         \/ \E f \in Flushes : BeginFlush(f) \/ Answer(f) \/ Settle(f) \/ CloseTab(f)
         \/ \E i \in Ids : StrayArrives(i) \/ RetryOutbox(i) \/ DiscardOutbox(i)
    BY DEF OutboxNext
  <1> QED  BY <1>4, <1>13, <1>17, <1>18, <1>19

\* The queue delivers what EditDelivery promises, for any number of operations,
\* sheets, overlapping flushes and attempts: although flushes work on stale lists,
\* tabs are closed and requests arrive late or twice, the operations of a sheet are
\* applied once each and in their order (flushOutbox, sendable).
THEOREM EditsAreDeliveredInOrder == OutboxSpec => ImplementsEditDelivery
  <1>1. OutboxInit => Delivery!Init
    BY DEF OutboxInit, Delivery!Init
  <1>2. OutboxInv /\ [OutboxNext]_outboxVars => [Delivery!Next]_<<created, applied, dropped>>
    BY StepsDeliver
  <1> QED  BY <1>1, <1>2, OutboxInvAlways, PTL DEF OutboxSpec, ImplementsEditDelivery, Delivery!Spec

-----------------------------------------------------------------------------
(***************************************************************************)
(* For any number of browsers, changes and faults and any size of a queue: *)
(* no browser misses a change, and no queue of the hub outgrows its        *)
(* channel.                                                                *)
(***************************************************************************)

\* The cells on the screen, or those being read, are not older than v.
AtLeast(e, v) ==
    \/ e.read = Sent
    \/ e.read \in Versions /\ e.read >= v
    \/ e.read = NoRequest /\ (e.shown = NoCells \/ e.shown >= v \/ "cells" \in e.gaveUp)

\* An editor knows of nothing that the server does not have yet, holds no workbook that is
\* newer than its version, and has cells of its version or reads them.
EditorIsSound(e) ==
    /\ e.serverVersion <= version /\ e.fetch <= version /\ e.read <= version
    /\ e.data <= e.serverVersion
    /\ e.data = 0 => e.read = NoRequest /\ e.shown = NoCells
    /\ AtLeast(e, e.serverVersion)

\* The connection of a browser still has something to tell it.
Heard(p) ==
    \/ p = Free \/ p.state \in {"accepted", "registered", "cancelled"}
    \/ \E i \in DOMAIN p.queue : p.queue[i].version # 0

\* The editor shows version v or finds out by itself.
Informed(e, v) ==
    \/ e.fetch = Sent
    \/ e.fetch \in Versions /\ e.fetch >= v
    \/ e.data = 0 /\ e.fetch # NoRequest
    \/ AtLeast(e, v)
    \/ e.gaveUp # {}

Told(b, v) == ~browser[b].socket \/ Heard(peer[b]) \/ Informed(browser[b], v)

\* A handler that may still publish v or more, or give up v alone.
Pending(v) == \E u \in unpublished : u.version = v \/ (u.kind # "current" /\ u.version >= v)

\* What is on its way exists.
NothingFromTheFuture ==
    /\ \A u \in unpublished : u.version \in 2..version
    /\ \A u \in answers : u.version <= version /\ u.by \in Browsers
    /\ 1 \notin abandoned
    /\ \A b \in Browsers : peer[b] # Free =>
          /\ peer[b].book <= version
          /\ \A i \in DOMAIN peer[b].queue : peer[b].queue[i].version <= version

EditorsAreSound == \A b \in Browsers : EditorIsSound(browser[b])

\* A version that is neither pending nor given up is one that everybody is told of.
EverybodyIsTold ==
    \A v \in 1..version : v \notin abandoned /\ ~Pending(v) => \A b \in Browsers : Told(b, v)

\* The inductive invariant.
Inv == TypeOK /\ NothingFromTheFuture /\ EditorsAreSound /\ EverybodyIsTold

-----------------------------------------------------------------------------
(***************************************************************************)
(* The hub                                                                 *)
(***************************************************************************)

\* A connection whose queue fits and tells of nothing that does not exist.
PeerIsSound(p) ==
    p # Free => /\ Len(p.queue) <= QueueSize
                /\ p.book <= version
                /\ \A i \in DOMAIN p.queue : p.queue[i].version <= version

Connections == [Browsers -> Peers \cup {Free}]

\* A connection is none of the states of another.
LEMMA PeersAre ==
    /\ \A p \in Peers : /\ p # Free /\ p.queue \in Seq(Events) /\ p.book \in Versions
                        /\ p.state \in {"accepted", "registered", "greeted", "cancelled"}
    /\ Free.state = "free" /\ ~Registered(Free)
  BY DEF Peers, Free, Registered

\* An event reaches the queue, or the connection is cancelled.
LEMMA EnqueueIs ==
    ASSUME version \in Nat, NEW p \in Peers, PeerIsSound(p), NEW event \in Events, event.version <= version
    PROVE  LET q == enqueue(p, event)
           IN  /\ q \in Peers /\ PeerIsSound(q)
               /\ Heard(p) => Heard(q)
               /\ event.version # 0 => Heard(q)
  <1>1. /\ p # Free /\ p.queue \in Seq(Events) /\ p.book \in Versions /\ QueueSize \in Nat
        /\ p.book <= version /\ Len(p.queue) <= QueueSize /\ Len(p.queue) \in Nat
        /\ \A i \in DOMAIN p.queue : p.queue[i].version <= version
    BY PeersAre, SizesAssumption DEF PeerIsSound
  <1>2. CASE Len(p.queue) < QueueSize
    <2> PICK q : q = [p EXCEPT !.queue = Append(p.queue, event)]
      OBVIOUS
    <2> PICK s : s = Append(p.queue, event)
      OBVIOUS
    <2>1. /\ s \in Seq(Events) /\ Len(s) = Len(p.queue) + 1
          /\ DOMAIN s = DOMAIN p.queue \cup {Len(s)} /\ s[Len(s)] = event
          /\ \A i \in DOMAIN p.queue : s[i] = p.queue[i]
      BY <1>1
    <2>2. q \in Peers /\ q.queue = s /\ q.state = p.state /\ q.book = p.book
      BY <2>1 DEF Peers
    <2>3. PeerIsSound(q)
      BY <1>1, <1>2, <2>1, <2>2 DEF PeerIsSound
    <2>4. (Heard(p) => Heard(q)) /\ (event.version # 0 => Heard(q))
      BY <1>1, <2>1, <2>2 DEF Heard
    <2>5. enqueue(p, event) = q
      BY <1>2 DEF enqueue
    <2> QED  BY <2>2, <2>3, <2>4, <2>5
  <1>3. CASE ~(Len(p.queue) < QueueSize)
    <2> PICK q : q = [p EXCEPT !.state = "cancelled"]
      OBVIOUS
    <2>1. q \in Peers /\ q.queue = p.queue /\ q.state = "cancelled" /\ q.book = p.book
      BY DEF Peers
    <2>2. PeerIsSound(q) /\ Heard(q)
      BY <1>1, <2>1 DEF PeerIsSound, Heard
    <2>3. enqueue(p, event) = q
      BY <1>3 DEF enqueue
    <2> QED  BY <2>1, <2>2, <2>3
  <1> QED  BY <1>2, <1>3

\* A broadcast keeps what was to be told; one with a version tells everybody it is for.
LEMMA BroadcastIs ==
    ASSUME version \in Nat, NEW peers \in Connections, \A b \in Browsers : PeerIsSound(peers[b]),
           NEW event \in [Browsers -> Events], \A b \in Browsers : event[b].version <= version,
           NEW x
    PROVE  LET r == broadcast(peers, event, x)
           IN  /\ r \in Connections
               /\ \A b \in Browsers :
                     /\ PeerIsSound(r[b])
                     /\ Heard(peers[b]) => Heard(r[b])
                     /\ b # x /\ event[b].version # 0 => Heard(r[b])
  <1> PICK r : r = broadcast(peers, event, x)
    OBVIOUS
  <1>1. ASSUME NEW b \in Browsers
        PROVE  /\ r[b] \in Peers \cup {Free} /\ PeerIsSound(r[b])
               /\ Heard(peers[b]) => Heard(r[b])
               /\ b # x /\ event[b].version # 0 => Heard(r[b])
    <2>1. peers[b] \in Peers \cup {Free} /\ event[b] \in Events
      BY DEF Connections
    <2>2. CASE Registered(peers[b]) /\ b # x
      <3>1. peers[b] \in Peers /\ PeerIsSound(peers[b]) /\ event[b].version <= version
        BY <2>1, <2>2, PeersAre
      <3>2. r[b] = enqueue(peers[b], event[b])
        BY <2>2 DEF broadcast
      <3> QED  BY <2>1, <3>1, <3>2, EnqueueIs
    <2>3. CASE ~(Registered(peers[b]) /\ b # x)
      <3>1. r[b] = peers[b]
        BY <2>3 DEF broadcast
      <3>2. b # x => Heard(peers[b])
        BY <2>1, <2>3, PeersAre DEF Heard, Registered
      <3> QED  BY <2>1, <3>1, <3>2
    <2> QED  BY <2>2, <2>3
  <1>2. r \in Connections
    <2>1. r = [b \in Browsers |-> r[b]]
      BY DEF broadcast
    <2> QED  BY <1>1, <2>1 DEF Connections
  <1> QED  BY <1>1, <1>2

-----------------------------------------------------------------------------
(***************************************************************************)
(* The editor                                                              *)
(***************************************************************************)

\* What one editor makes of another keeps what it knows.
Better(e, d) == \A v \in 1..version : Informed(e, v) => Informed(d, v)

\* The types of an editor.
LEMMA EditorsAre ==
    ASSUME NEW e \in Editors
    PROVE  /\ e.serverVersion \in Versions /\ e.data \in 0..MaxVersion /\ e.shown \in 0..MaxVersion
           /\ e.fetch \in {-1, 0} \cup Versions /\ e.read \in {-1, 0} \cup Versions
           /\ e.socket \in BOOLEAN /\ e.gaveUp \subseteq {"workbook", "cells"}
           /\ Versions \subseteq Nat \ {0} /\ 0..MaxVersion \subseteq Nat /\ Versions \subseteq 0..MaxVersion
  BY SizesAssumption DEF Editors, Requests, NoRequest, Sent, Versions

\* Cells that are not older than one version are not older than an earlier one.
LEMMA AtLeastIs ==
    ASSUME NEW e \in Editors, NEW v \in Int, NEW w \in Int, w <= v, AtLeast(e, v)
    PROVE  AtLeast(e, w)
  <1>1. e.read \in Int /\ e.shown \in Int
    BY EditorsAre
  <1> QED  BY <1>1 DEF AtLeast

\* Reading the cells again.
LEMMA ReadCellsIs ==
    ASSUME NEW e \in Editors
    PROVE  LET d == ReadCells(e)
           IN  /\ d \in Editors /\ d.socket = e.socket /\ d.serverVersion = e.serverVersion
               /\ d.data = e.data /\ d.fetch = e.fetch /\ d.shown = e.shown
               /\ e.data = 0 => d = e
               /\ e.data # 0 => d.read = Sent
  <1>1. CASE e.data = 0
    BY <1>1 DEF ReadCells
  <1>2. CASE e.data # 0
    <2> PICK d : d = [e EXCEPT !.read = Sent, !.gaveUp = @ \ {"cells"}]
      OBVIOUS
    <2>1. /\ d \in Editors /\ d.socket = e.socket /\ d.serverVersion = e.serverVersion
          /\ d.data = e.data /\ d.fetch = e.fetch /\ d.shown = e.shown /\ d.read = Sent
      BY DEF Editors, Requests
    <2>2. d = ReadCells(e)
      BY <1>2 DEF ReadCells
    <2> QED  BY <1>2, <2>1, <2>2
  <1> QED  BY <1>1, <1>2

\* Another version.
LEMMA SetVersionIs ==
    ASSUME version \in Nat, NEW e \in Editors, NEW v \in Versions, v <= version,
           e.fetch <= version, e.read <= version, e.data <= v,
           e.data = 0 => e.read = NoRequest /\ e.shown = NoCells, AtLeast(e, e.serverVersion)
    PROVE  LET d == SetVersion(e, v)
           IN  /\ d \in Editors /\ EditorIsSound(d) /\ Better(e, d)
               /\ d.socket = e.socket /\ d.data = e.data /\ d.fetch = e.fetch /\ d.serverVersion = v
               /\ AtLeast(d, v)
  <1>1. CASE v = e.serverVersion
    <2>1. SetVersion(e, v) = e
      BY <1>1 DEF SetVersion
    <2>2. EditorIsSound(e) /\ Better(e, e)
      BY <1>1 DEF EditorIsSound, Better
    <2> QED  BY <1>1, <2>1, <2>2
  <1>2. CASE v # e.serverVersion
    <2> PICK f : f = [e EXCEPT !.serverVersion = v]
      OBVIOUS
    <2>1. /\ f \in Editors /\ f.socket = e.socket /\ f.serverVersion = v /\ f.data = e.data
          /\ f.fetch = e.fetch /\ f.shown = e.shown /\ f.read = e.read /\ f.gaveUp = e.gaveUp
      BY DEF Editors
    <2> PICK d : d = ReadCells(f)
      OBVIOUS
    <2>2. /\ d \in Editors /\ d.socket = e.socket /\ d.serverVersion = v
          /\ d.data = e.data /\ d.fetch = e.fetch /\ d.shown = e.shown
          /\ e.data = 0 => d = f
          /\ e.data # 0 => d.read = Sent
      BY <2>1, ReadCellsIs
    <2>3. AtLeast(d, v)
      BY <2>1, <2>2 DEF AtLeast
    <2>4. EditorIsSound(d)
      <3>1. d.read <= version
        <4>1. e.data = 0 => d.read <= version
          BY <2>1, <2>2
        <4>2. d.read = 0 => d.read <= version
          OBVIOUS
        <4> QED  BY <2>2, <4>1, <4>2 DEF Sent
      <3> QED  BY <2>1, <2>2, <2>3, <3>1 DEF EditorIsSound
    <2>5. Better(e, d)
      <3>1. CASE e.data = 0
        BY <2>1, <2>2, <3>1 DEF Better, Informed, AtLeast
      <3>2. CASE e.data # 0
        BY <2>2, <3>2 DEF Better, Informed, AtLeast
      <3> QED  BY <3>1, <3>2
    <2>6. SetVersion(e, v) = d
      BY <1>2 DEF SetVersion
    <2> QED  BY <2>2, <2>3, <2>4, <2>5, <2>6
  <1> QED  BY <1>1, <1>2

\* The newer of two versions.
LEMMA MaxIs ==
    ASSUME NEW a \in Int, NEW b \in Int
    PROVE  Max({a, b}) \in {a, b} /\ a <= Max({a, b}) /\ b <= Max({a, b})
  BY DEF Max

\* A version that has been heard of.
LEMMA UpdateIs ==
    ASSUME version \in Nat, NEW e \in Editors, EditorIsSound(e), NEW v \in Versions, v <= version
    PROVE  LET d == updateVersion(e, v)
           IN  /\ d \in Editors /\ EditorIsSound(d) /\ Better(e, d)
               /\ d.socket = e.socket /\ d.data = e.data /\ d.fetch = e.fetch
  <1> PICK m : m = Max({e.serverVersion, v})
    OBVIOUS
  <1>1. e.serverVersion \in Int /\ v \in Int /\ e.data \in Int /\ e.serverVersion \in Versions
    BY EditorsAre
  <1>2. m \in Versions /\ m <= version /\ e.data <= m
    BY <1>1, MaxIs DEF EditorIsSound
  <1> PICK d : d = SetVersion(e, m)
    OBVIOUS
  <1>3. /\ d \in Editors /\ EditorIsSound(d) /\ Better(e, d)
        /\ d.socket = e.socket /\ d.data = e.data /\ d.fetch = e.fetch
    BY <1>2, SetVersionIs DEF EditorIsSound
  <1> QED  BY <1>3 DEF updateVersion

\* No cells.
LEMMA ClearIs ==
    ASSUME NEW e \in Editors, EditorIsSound(e)
    PROVE  LET d == clearCells(e)
           IN  /\ d \in Editors /\ EditorIsSound(d) /\ Better(e, d)
               /\ d.socket = e.socket /\ d.data = e.data /\ d.fetch = e.fetch
  <1> PICK d : d = [e EXCEPT !.shown = NoCells]
    OBVIOUS
  <1>1. /\ d \in Editors /\ d.socket = e.socket /\ d.serverVersion = e.serverVersion /\ d.data = e.data
        /\ d.fetch = e.fetch /\ d.read = e.read /\ d.gaveUp = e.gaveUp /\ d.shown = NoCells
    BY SizesAssumption DEF Editors, NoCells
  <1>2. \A v : AtLeast(e, v) => AtLeast(d, v)
    BY <1>1 DEF AtLeast
  <1>3. EditorIsSound(d) /\ Better(e, d)
    BY <1>1, <1>2 DEF EditorIsSound, Better, Informed
  <1> QED  BY <1>1, <1>3 DEF clearCells

\* The workbook is fetched again; whatever happened, the editor will find out.
LEMMA InvalidateIs ==
    ASSUME version \in Nat, NEW e \in Editors, EditorIsSound(e)
    PROVE  LET d == Invalidate(e)
           IN  /\ d \in Editors /\ EditorIsSound(d) /\ \A v : Informed(d, v)
               /\ d.socket = e.socket
  <1>1. CASE e.data = 0 /\ e.fetch # NoRequest
    <2>1. Invalidate(e) = e
      BY <1>1 DEF Invalidate
    <2> QED  BY <1>1, <2>1 DEF Informed
  <1>2. CASE ~(e.data = 0 /\ e.fetch # NoRequest)
    <2> PICK d : d = [e EXCEPT !.fetch = Sent, !.gaveUp = @ \ {"workbook"}]
      OBVIOUS
    <2>1. /\ d \in Editors /\ d.socket = e.socket /\ d.serverVersion = e.serverVersion /\ d.data = e.data
          /\ d.fetch = Sent /\ d.read = e.read /\ d.gaveUp = e.gaveUp \ {"workbook"} /\ d.shown = e.shown
      BY DEF Editors, Requests
    <2>2. AtLeast(d, d.serverVersion)
      BY <2>1 DEF AtLeast, EditorIsSound
    <2>3. EditorIsSound(d)
      BY <2>1, <2>2 DEF EditorIsSound, Sent
    <2>4. Invalidate(e) = d
      BY <1>2 DEF Invalidate
    <2> QED  BY <2>1, <2>3, <2>4 DEF Informed
  <1> QED  BY <1>1, <1>2

\* An event with a version.
LEMMA HandleIs ==
    ASSUME version \in Nat, NEW e \in Editors, EditorIsSound(e), NEW event \in Events,
           event.version # 0, event.version <= version
    PROVE  LET d == handleCollaborationVersion(e, event)
           IN  /\ d \in Editors /\ EditorIsSound(d) /\ \A v : Informed(d, v)
               /\ d.socket = e.socket
  <1>1. event.version \in Versions
    BY SizesAssumption DEF Events, Versions
  <1> PICK f : f = updateVersion(e, event.version)
    OBVIOUS
  <1>2. f \in Editors /\ EditorIsSound(f) /\ f.socket = e.socket
    BY <1>1, UpdateIs
  <1> PICK g : g = clearCells(f)
    OBVIOUS
  <1>3. g \in Editors /\ EditorIsSound(g) /\ g.socket = e.socket
    BY <1>2, ClearIs
  <1> PICK h : h = IF event.structural THEN g ELSE f
    OBVIOUS
  <1>4. h \in Editors /\ EditorIsSound(h) /\ h.socket = e.socket
    BY <1>2, <1>3
  <1>5. handleCollaborationVersion(e, event) = Invalidate(h)
    BY DEF handleCollaborationVersion
  <1> QED  BY <1>4, <1>5, InvalidateIs

-----------------------------------------------------------------------------
(***************************************************************************)
(* The steps                                                               *)
(***************************************************************************)

\* The connections and the editors are sound.
LEMMA InvMeans ==
    ASSUME Inv
    PROVE  /\ version \in Versions /\ version \in Nat /\ peer \in Connections
           /\ browser \in [Browsers -> Editors] /\ faults \in 0..MaxFaults
           /\ \A b \in Browsers : /\ peer[b] \in Peers \cup {Free} /\ PeerIsSound(peer[b])
                                  /\ browser[b] \in Editors /\ EditorIsSound(browser[b])
           /\ \A u \in unpublished : u \in Publications /\ u.version \in Versions /\ u.version <= version
           /\ \A u \in answers : u.by \in Browsers /\ u.version \in Versions /\ u.version <= version
  <1>1. version \in Versions /\ version \in Nat
    BY SizesAssumption DEF Inv, TypeOK, Versions
  <1>2. \A b \in Browsers : PeerIsSound(peer[b])
    BY DEF Inv, TypeOK, NothingFromTheFuture, PeerIsSound
  <1>3. \A u \in unpublished : u \in Publications /\ u.version \in Versions /\ u.version <= version
    BY <1>1 DEF Inv, TypeOK, NothingFromTheFuture, Publications
  <1>4. \A u \in answers : u.by \in Browsers /\ u.version \in Versions /\ u.version <= version
    BY DEF Inv, TypeOK, NothingFromTheFuture, Publications
  <1> QED  BY <1>1, <1>2, <1>3, <1>4 DEF Inv, TypeOK, EditorsAreSound, Connections

\* A step that commits and publishes nothing keeps what everybody knows.
LEMMA NoCommitKeepsInv ==
    ASSUME Inv, UNCHANGED <<version, unpublished, abandoned>>, answers' \subseteq answers,
           faults' \in 0..MaxFaults, peer' \in Connections, browser' \in [Browsers -> Editors],
           \A b \in Browsers : /\ PeerIsSound(peer'[b]) /\ EditorIsSound(browser'[b])
                               /\ \A v \in 1..version : Told(b, v) => Told(b, v)'
    PROVE  Inv'
  <1>1. TypeOK'
    BY DEF Inv, TypeOK, Connections, PeerIsSound
  <1>2. NothingFromTheFuture'
    BY DEF Inv, NothingFromTheFuture, PeerIsSound
  <1>3. EditorsAreSound'
    BY DEF EditorsAreSound, EditorIsSound
  <1>4. EverybodyIsTold'
    <2>1. \A v : Pending(v)' <=> Pending(v)
      BY DEF Pending
    <2> QED  BY <2>1 DEF Inv, EverybodyIsTold
  <1> QED  BY <1>1, <1>2, <1>3, <1>4 DEF Inv

\* A step of the connections alone.
LEMMA PeersStep ==
    ASSUME Inv, UNCHANGED <<version, unpublished, answers, abandoned, browser>>,
           faults' \in 0..MaxFaults, peer' \in Connections,
           \A b \in Browsers : PeerIsSound(peer'[b]) /\ (Heard(peer[b]) => Heard(peer'[b]))
    PROVE  Inv'
  <1>1. \A b \in Browsers : \A v \in 1..version : Told(b, v) => Told(b, v)'
    BY DEF Told
  <1> QED  BY <1>1, InvMeans, NoCommitKeepsInv

\* A step of one editor alone.
LEMMA EditorStep ==
    ASSUME Inv, UNCHANGED <<version, unpublished, abandoned, peer>>, answers' \subseteq answers,
           faults' \in 0..MaxFaults, NEW b \in Browsers, NEW d \in Editors,
           browser' = [browser EXCEPT ![b] = d],
           EditorIsSound(d), Better(browser[b], d), d.socket = browser[b].socket
    PROVE  Inv'
  <1>1. browser \in [Browsers -> Editors]
    BY InvMeans
  <1>2. browser' \in [Browsers -> Editors] /\ browser'[b] = d
        /\ \A c \in Browsers : c # b => browser'[c] = browser[c]
    BY <1>1
  <1>3. \A c \in Browsers : \A v \in 1..version : Told(c, v) => Told(c, v)'
    BY <1>2 DEF Told, Better
  <1>4. \A c \in Browsers : PeerIsSound(peer'[c]) /\ EditorIsSound(browser'[c])
    BY <1>2, InvMeans
  <1> QED  BY <1>2, <1>3, <1>4, InvMeans, NoCommitKeepsInv

\* A version is told to everybody.
LEMMA PublishedKeepsInv ==
    ASSUME Inv, NEW u \in unpublished, u.kind # "current", Answered(u),
           UNCHANGED <<version, abandoned, faults, browser>>,
           peer' \in Connections, \A b \in Browsers : PeerIsSound(peer'[b]) /\ Heard(peer'[b])
    PROVE  Inv'
  <1>1. unpublished' \subseteq unpublished /\ \A a \in answers' : a \in answers \/ (a = u /\ u.by # Nobody)
    BY DEF Answered
  <1>2. u \in Publications /\ u.version <= version /\ (u.by # Nobody => u.by \in Browsers)
    BY InvMeans DEF Publications
  <1>3. TypeOK'
    BY <1>1, <1>2 DEF Inv, TypeOK, Connections, PeerIsSound
  <1>4. NothingFromTheFuture'
    BY <1>1, <1>2 DEF Inv, NothingFromTheFuture, PeerIsSound
  <1>5. EditorsAreSound'
    BY DEF Inv, EditorsAreSound, EditorIsSound
  <1>6. EverybodyIsTold'
    BY DEF EverybodyIsTold, Told
  <1> QED  BY <1>3, <1>4, <1>5, <1>6 DEF Inv

\* Everything else that handlers do with their changes.
LEMMA HandlersKeepInv ==
    ASSUME Inv, version' \in Versions, version <= version', UNCHANGED <<answers, browser>>,
           faults' \in 0..MaxFaults,
           unpublished' \subseteq Publications, \A u \in unpublished' : u.version \in 2..version',
           abandoned' \subseteq Versions, 1 \notin abandoned',
           peer' \in Connections, \A b \in Browsers : PeerIsSound(peer'[b]) /\ (Heard(peer[b]) => Heard(peer'[b])),
           \A v \in 1..version' : v \notin abandoned' /\ ~Pending(v)' =>
              v \in 1..version /\ v \notin abandoned /\ ~Pending(v)
    PROVE  Inv'
  <1>0. /\ version \in Nat /\ version' \in Nat
        /\ \A b \in Browsers : browser[b] \in Editors /\ EditorIsSound(browser[b])
        /\ \A p \in Peers : p.book \in Nat /\ \A i \in DOMAIN p.queue : p.queue[i].version \in Nat
    <2>1. ASSUME NEW p \in Peers
          PROVE  p.book \in Nat /\ \A i \in DOMAIN p.queue : p.queue[i].version \in Nat
      <3>1. p.queue \in Seq(Events) /\ p.book \in Versions
        BY PeersAre
      <3>2. \A i \in DOMAIN p.queue : p.queue[i] \in Events
        BY <3>1
      <3>3. \A event \in Events : event.version \in Nat
        BY SizesAssumption DEF Events
      <3> QED  BY <3>1, <3>2, <3>3, SizesAssumption DEF Versions
    <2> QED  BY <2>1, InvMeans, SizesAssumption DEF Versions
  <1>1. TypeOK'
    BY DEF Inv, TypeOK, Connections, PeerIsSound
  <1>2. NothingFromTheFuture'
    <2>1. \A u \in answers' : u.version <= version' /\ u.by \in Browsers
      BY <1>0, InvMeans DEF Versions
    <2>2. ASSUME NEW b \in Browsers, peer'[b] # Free
          PROVE  /\ peer'[b].book <= version'
                 /\ \A i \in DOMAIN peer'[b].queue : peer'[b].queue[i].version <= version'
      <3>1. peer'[b] \in Peers /\ PeerIsSound(peer'[b])
        BY <2>2 DEF Connections
      <3> QED  BY <1>0, <2>2, <3>1 DEF PeerIsSound
    <2> QED  BY <2>1, <2>2 DEF NothingFromTheFuture
  <1>3. EditorsAreSound'
    <2>1. ASSUME NEW b \in Browsers
          PROVE  EditorIsSound(browser[b])'
      <3>1. /\ browser[b].serverVersion \in Int /\ browser[b].fetch \in Int /\ browser[b].read \in Int
        <4>1. \A e \in Editors : e.serverVersion \in Int /\ e.fetch \in Int /\ e.read \in Int
          BY EditorsAre
        <4> QED  BY <1>0, <4>1
      <3> QED  BY <1>0, <3>1 DEF EditorIsSound
    <2> QED  BY <2>1 DEF EditorsAreSound
  <1>4. EverybodyIsTold'
    BY DEF Inv, EverybodyIsTold, Told
  <1> QED  BY <1>1, <1>2, <1>3, <1>4 DEF Inv

\* An event for every browser.
LEMMA EventIs ==
    ASSUME Inv, NEW v \in 0..MaxVersion, v <= version, NEW x
    PROVE  LET event == [b \in Browsers |-> [version |-> v, structural |-> b # x]]
               plain == [b \in Browsers |-> [version |-> v, structural |-> FALSE]]
           IN  /\ event \in [Browsers -> Events] /\ \A b \in Browsers : event[b].version = v
               /\ plain \in [Browsers -> Events] /\ \A b \in Browsers : plain[b].version = v
  BY DEF Events

\* Presence, cursors, comments.
LEMMA OtherIs ==
    ASSUME Inv
    PROVE  Other \in [Browsers -> Events] /\ \A b \in Browsers : Other[b].version <= version
  BY InvMeans, SizesAssumption DEF Other, Events

LEMMA PublishOtherKeepsInv ==
    ASSUME Inv, NEW x, PublishOther(x)
    PROVE  Inv'
  <1>1. /\ version \in Nat /\ peer \in Connections /\ \A b \in Browsers : PeerIsSound(peer[b])
    BY InvMeans
  <1>2. faults' \in 0..MaxFaults
    BY SizesAssumption DEF PublishOther, Inv, TypeOK
  <1>3. /\ peer' \in Connections
        /\ \A b \in Browsers : PeerIsSound(peer'[b]) /\ (Heard(peer[b]) => Heard(peer'[b]))
    BY <1>1, OtherIs, BroadcastIs DEF PublishOther
  <1> QED  BY <1>2, <1>3, PeersStep DEF PublishOther

\* A commit.
LEMMA CommitKeepsInv ==
    ASSUME Inv, NEW x \in Browsers \cup {Nobody}, NEW kind \in Changes, Commit(x, kind)
    PROVE  Inv'
  <1> PICK u : u = [version |-> version + 1, kind |-> kind, by |-> x]
    OBVIOUS
  <1>1. version \in Versions /\ version \in Nat /\ version >= 1 /\ version + 1 \in Versions
    BY InvMeans, SizesAssumption DEF Commit, Versions
  <1>2. u \in Publications /\ u.version = version + 1
    BY <1>1, ChangesAssumption DEF Publications
  <1>3. version' = version + 1 /\ unpublished' = unpublished \cup {u}
    BY DEF Commit
  <1>4. \A w \in unpublished' : w \in Publications /\ w.version \in 2..version'
    <2>1. \A w \in unpublished : w \in Publications /\ w.version \in 2..version
      BY DEF Inv, TypeOK, NothingFromTheFuture
    <2> QED  BY <1>1, <1>2, <1>3, <2>1
  <1>5. ASSUME NEW v \in 1..version', v \notin abandoned', ~Pending(v)'
        PROVE  v \in 1..version /\ v \notin abandoned /\ ~Pending(v)
    <2>1. v # version + 1
      BY <1>2, <1>3, <1>5 DEF Pending
    <2>2. ~Pending(v)
      BY <1>3, <1>5 DEF Pending
    <2> QED  BY <1>1, <1>3, <1>5, <2>1, <2>2 DEF Commit
  <1>6. /\ peer' \in Connections
        /\ \A b \in Browsers : PeerIsSound(peer'[b]) /\ (Heard(peer[b]) => Heard(peer'[b]))
    BY InvMeans DEF Commit
  <1>7. /\ faults' \in 0..MaxFaults /\ abandoned' \subseteq Versions /\ 1 \notin abandoned'
    BY DEF Commit, Inv, TypeOK, NothingFromTheFuture
  <1> QED  BY <1>1, <1>3, <1>4, <1>5, <1>6, <1>7, HandlersKeepInv DEF Commit

\* operation.broadcast
LEMMA PublishOperationKeepsInv ==
    ASSUME Inv, NEW u \in unpublished, PublishOperation(u)
    PROVE  Inv'
  <1> PICK w : w = [u EXCEPT !.kind = "version"]
    OBVIOUS
  <1>1. /\ version \in Nat /\ peer \in Connections /\ \A b \in Browsers : PeerIsSound(peer[b])
        /\ u \in Publications /\ u.version \in Versions /\ u.version <= version /\ version \in Versions
    BY InvMeans
  <1>2. w \in Publications /\ w.version = u.version /\ w.kind = "version"
    BY <1>1 DEF Publications
  <1>3. /\ unpublished' = (unpublished \ {u}) \cup {w} /\ u.kind = "operation" /\ version' = version
        /\ UNCHANGED <<answers, browser>>
    BY DEF PublishOperation
  <1>4. \A x \in unpublished' : x \in Publications /\ x.version \in 2..version'
    BY <1>2, <1>3 DEF Inv, TypeOK, NothingFromTheFuture
  <1>5. \A v : Pending(v) => Pending(v)'
    BY <1>2, <1>3 DEF Pending
  <1>6. /\ peer' \in Connections
        /\ \A b \in Browsers : PeerIsSound(peer'[b]) /\ (Heard(peer[b]) => Heard(peer'[b]))
    <2> PICK event : event = [b \in Browsers |-> [version |-> u.version, structural |-> FALSE]]
      OBVIOUS
    <2>1. u.version \in 0..MaxVersion
      BY <1>1, SizesAssumption DEF Versions
    <2>2. event \in [Browsers -> Events] /\ \A b \in Browsers : event[b].version <= version
      BY <1>1, <2>1, EventIs
    <2> QED  BY <1>1, <2>2, BroadcastIs DEF PublishOperation
  <1>7. /\ faults' \in 0..MaxFaults /\ abandoned' \subseteq Versions /\ 1 \notin abandoned'
    BY DEF PublishOperation, Inv, TypeOK, NothingFromTheFuture
  <1>8. \A v \in 1..version' : v \notin abandoned' /\ ~Pending(v)' =>
           v \in 1..version /\ v \notin abandoned /\ ~Pending(v)
    BY <1>3, <1>5 DEF PublishOperation
  <1> QED  BY <1>1, <1>3, <1>4, <1>6, <1>7, <1>8, HandlersKeepInv

\* PublishVersion and PublishStructure
LEMMA PublishKeepsInv ==
    ASSUME Inv, NEW u \in unpublished, PublishVersion(u) \/ PublishStructure(u)
    PROVE  Inv'
  <1>1. /\ version \in Nat /\ peer \in Connections /\ \A b \in Browsers : PeerIsSound(peer[b])
        /\ u \in Publications /\ u.version \in Versions /\ u.version <= version
    BY InvMeans
  <1>2. u.version \in 0..MaxVersion /\ u.version # 0
    BY <1>1, SizesAssumption DEF Versions
  <1>3. \E event \in [Browsers -> Events] :
           /\ \A b \in Browsers : event[b].version = u.version
           /\ peer' = broadcast(peer, event, Nobody)
    <2>1. CASE PublishVersion(u)
      <3> PICK event : event = [b \in Browsers |-> [version |-> u.version, structural |-> FALSE]]
        OBVIOUS
      <3>1. event \in [Browsers -> Events] /\ \A b \in Browsers : event[b].version = u.version
        BY <1>1, <1>2, EventIs
      <3> QED  BY <2>1, <3>1 DEF PublishVersion
    <2>2. CASE PublishStructure(u)
      <3> PICK event : event = [b \in Browsers |-> [version |-> u.version, structural |-> b # u.by]]
        OBVIOUS
      <3>1. event \in [Browsers -> Events] /\ \A b \in Browsers : event[b].version = u.version
        BY <1>2 DEF Events
      <3> QED  BY <2>2, <3>1 DEF PublishStructure
    <2> QED  BY <2>1, <2>2
  <1>4. PICK event \in [Browsers -> Events] : /\ \A b \in Browsers : event[b].version = u.version
                                              /\ peer' = broadcast(peer, event, Nobody)
    BY <1>3
  <1>5. /\ peer' \in Connections
        /\ \A b \in Browsers : PeerIsSound(peer'[b]) /\ Heard(peer'[b])
    BY <1>1, <1>2, <1>4, BroadcastIs, BrowsersAssumption
  <1>6. u.kind # "current" /\ Answered(u) /\ UNCHANGED <<version, abandoned, faults, browser>>
    BY DEF PublishVersion, PublishStructure
  <1> QED  BY <1>5, <1>6, PublishedKeepsInv

\* publishCurrentVersion
LEMMA PublishCurrentKeepsInv ==
    ASSUME Inv, NEW u \in unpublished, ReadCurrentVersion(u) \/ GiveUpPublishing(u)
    PROVE  Inv'
  <1>1. /\ version \in Nat /\ version \in Versions /\ u \in Publications
        /\ u.version \in Versions /\ u.version <= version /\ u.version \in 2..version
    BY InvMeans DEF Inv, NothingFromTheFuture
  <1>2. /\ peer' \in Connections
        /\ \A b \in Browsers : PeerIsSound(peer'[b]) /\ (Heard(peer[b]) => Heard(peer'[b]))
    BY InvMeans DEF ReadCurrentVersion, GiveUpPublishing
  <1>3. CASE ReadCurrentVersion(u)
    <2>0. PICK w : w = [u EXCEPT !.kind = "version", !.version = version]
      OBVIOUS
    <2>1. w \in Publications /\ w.version = version /\ w.kind = "version"
      BY <1>1, <2>0 DEF Publications
    <2>2. unpublished' = (unpublished \ {u}) \cup {w} /\ u.kind = "current" /\ version' = version
      BY <1>3, <2>0 DEF ReadCurrentVersion
    <2>3. \A x \in unpublished' : x \in Publications /\ x.version \in 2..version'
      <3>1. \A x \in unpublished : x \in Publications /\ x.version \in 2..version
        BY DEF Inv, TypeOK, NothingFromTheFuture
      <3>2. w.version \in 2..version
        BY <1>1, <2>1
      <3> QED  BY <2>1, <2>2, <3>1, <3>2
    <2>4. ASSUME NEW v \in 1..version PROVE Pending(v)'
      <3>1. w \in unpublished' /\ w.kind # "current" /\ w.version >= v
        BY <1>1, <2>1, <2>2
      <3> QED  BY <3>1 DEF Pending
    <2>5. /\ faults' \in 0..MaxFaults /\ abandoned' \subseteq Versions /\ 1 \notin abandoned'
      BY <1>3 DEF ReadCurrentVersion, Inv, TypeOK, NothingFromTheFuture
    <2>6. \A v \in 1..version' : ~Pending(v)' => FALSE
      BY <2>2, <2>4
    <2> QED  BY <1>1, <1>2, <1>3, <2>2, <2>3, <2>5, <2>6, HandlersKeepInv DEF ReadCurrentVersion
  <1>4. CASE GiveUpPublishing(u)
    <2>1. /\ unpublished' = unpublished \ {u} /\ abandoned' = abandoned \cup {u.version}
          /\ u.kind = "current" /\ version' = version
      BY <1>4 DEF GiveUpPublishing
    <2>2. \A x \in unpublished' : x \in Publications /\ x.version \in 2..version'
      BY <2>1 DEF Inv, TypeOK, NothingFromTheFuture
    <2>3. \A v : v # u.version /\ Pending(v) => Pending(v)'
      BY <2>1 DEF Pending
    <2>4. /\ faults' \in 0..MaxFaults /\ abandoned' \subseteq Versions /\ 1 \notin abandoned'
      <3>1. faults' \in 0..MaxFaults
        BY <1>4, SizesAssumption DEF GiveUpPublishing, Inv, TypeOK
      <3>2. abandoned \subseteq Versions /\ 1 \notin abandoned
        BY DEF Inv, TypeOK, NothingFromTheFuture
      <3>3. u.version # 1
        BY <1>1
      <3> QED  BY <1>1, <2>1, <3>1, <3>2, <3>3
    <2>5. \A v \in 1..version' : v \notin abandoned' /\ ~Pending(v)' =>
             v \in 1..version /\ v \notin abandoned /\ ~Pending(v)
      BY <2>1, <2>3
    <2> QED  BY <1>1, <1>2, <1>4, <2>1, <2>2, <2>4, <2>5, HandlersKeepInv DEF GiveUpPublishing
  <1> QED  BY <1>3, <1>4

\* Free connections are sound and have everything to tell.
LEMMA FreeIs == Free \in Peers \cup {Free} /\ PeerIsSound(Free) /\ Heard(Free)
  BY DEF PeerIsSound, Heard

\* A socket that is accepted, and read from,
LEMMA AcceptKeepsInv ==
    ASSUME Inv, NEW b \in Browsers, Accept(b)
    PROVE  Inv'
  <1> PICK p : p = [state |-> "accepted", book |-> version, queue |-> <<>>]
    OBVIOUS
  <1>1. version \in Versions /\ version \in Nat
    BY InvMeans
  <1>2. p \in Peers /\ p.state = "accepted" /\ p.book = version /\ p.queue = <<>>
    BY <1>1 DEF Peers
  <1>3. PeerIsSound(p) /\ Heard(p)
    BY <1>1, <1>2, SizesAssumption DEF PeerIsSound, Heard
  <1> PICK r : r = [peer EXCEPT ![b] = p]
    OBVIOUS
  <1>4. /\ r \in Connections /\ \A c \in Browsers : PeerIsSound(r[c])
        /\ r[b] = p /\ \A c \in Browsers : c # b => r[c] = peer[c]
        /\ peer' = r
    <2>1. r \in Connections /\ r[b] = p /\ \A c \in Browsers : c # b => r[c] = peer[c]
      BY <1>2, InvMeans DEF Connections
    <2>2. \A c \in Browsers : PeerIsSound(r[c])
      BY <1>3, <2>1, InvMeans
    <2>3. peer' = r
      BY DEF Accept
    <2> QED  BY <2>1, <2>2, <2>3
  <1> PICK d : d = [browser[b] EXCEPT !.socket = TRUE]
    OBVIOUS
  <1>5. browser[b] \in Editors /\ EditorIsSound(browser[b]) /\ browser \in [Browsers -> Editors]
    BY InvMeans
  <1>6. d \in Editors /\ EditorIsSound(d)
    BY <1>5 DEF Editors, EditorIsSound, AtLeast
  <1>7. /\ browser' \in [Browsers -> Editors] /\ browser'[b] = d
        /\ \A c \in Browsers : c # b => browser'[c] = browser[c]
    BY <1>5, <1>6 DEF Accept
  <1>8. ASSUME NEW c \in Browsers
        PROVE  /\ PeerIsSound(peer'[c]) /\ EditorIsSound(browser'[c])
               /\ \A v \in 1..version : Told(c, v) => Told(c, v)'
    BY <1>3, <1>4, <1>6, <1>7, InvMeans DEF Told
  <1>9. UNCHANGED <<version, unpublished, abandoned, answers, faults>>
    BY DEF Accept
  <1> QED  BY <1>4, <1>7, <1>8, <1>9, InvMeans, NoCommitKeepsInv

\* registered,
LEMMA RegisterKeepsInv ==
    ASSUME Inv, NEW b \in Browsers, register(b)
    PROVE  Inv'
  <1>1. peer[b] \in Peers /\ PeerIsSound(peer[b]) /\ peer \in Connections
    BY InvMeans, PeersAre DEF register
  <1> PICK p : p = [peer[b] EXCEPT !.state = "registered"]
    OBVIOUS
  <1>2. p \in Peers /\ p.state = "registered" /\ p.book = peer[b].book /\ p.queue = peer[b].queue
    BY <1>1 DEF Peers
  <1>3. PeerIsSound(p) /\ Heard(p)
    BY <1>1, <1>2, PeersAre DEF PeerIsSound, Heard
  <1> PICK r : r = [peer EXCEPT ![b] = p]
    OBVIOUS
  <1>4. peer' = r
    BY <1>1 DEF register, Connections
  <1>5. /\ peer' \in Connections /\ \A c \in Browsers : PeerIsSound(peer'[c])
        /\ peer'[b] = p /\ \A c \in Browsers : c # b => peer'[c] = peer[c]
    <2>1. r \in Connections /\ r[b] = p /\ \A c \in Browsers : c # b => r[c] = peer[c]
      BY <1>2, InvMeans DEF Connections
    <2>2. \A c \in Browsers : PeerIsSound(r[c])
      BY <1>3, <2>1, InvMeans
    <2> QED  BY <1>4, <2>1, <2>2
  <1>6. /\ UNCHANGED <<version, unpublished, answers, abandoned, browser, faults>>
        /\ faults \in 0..MaxFaults
    BY InvMeans DEF register
  <1> QED  BY <1>3, <1>5, <1>6, PeersStep

\* greeted,
LEMMA GreetKeepsInv ==
    ASSUME Inv, NEW b \in Browsers, Greet(b)
    PROVE  Inv'
  <1>1. /\ peer[b] \in Peers /\ PeerIsSound(peer[b]) /\ peer \in Connections /\ peer[b] # Free
        /\ version \in Nat
    BY InvMeans, PeersAre DEF Greet
  <1> PICK p : p = [peer[b] EXCEPT !.state = "greeted"]
    OBVIOUS
  <1>2. p \in Peers /\ p.state = "greeted" /\ p.book = peer[b].book /\ p.queue = peer[b].queue
    BY <1>1 DEF Peers
  <1>3. PeerIsSound(p)
    BY <1>1, <1>2, PeersAre DEF PeerIsSound
  <1> PICK s : s = [version |-> peer[b].book, structural |-> FALSE]
    OBVIOUS
  <1>4. s \in Events /\ s.version <= version /\ s.version # 0
    <2>1. peer[b].book \in Versions /\ peer[b].book <= version
      BY <1>1, PeersAre DEF PeerIsSound
    <2> QED  BY <2>1, SizesAssumption DEF Events, Versions
  <1> PICK q : q = enqueue(p, s)
    OBVIOUS
  <1>5. q \in Peers /\ PeerIsSound(q) /\ Heard(q)
    BY <1>1, <1>2, <1>3, <1>4, EnqueueIs
  <1> PICK r : r = [peer EXCEPT ![b] = q]
    OBVIOUS
  <1>6. /\ r \in Connections /\ \A c \in Browsers : PeerIsSound(r[c])
        /\ r[b] = q /\ \A c \in Browsers : c # b => r[c] = peer[c]
    <2>1. r \in Connections /\ r[b] = q /\ \A c \in Browsers : c # b => r[c] = peer[c]
      BY <1>5, InvMeans DEF Connections
    <2>2. \A c \in Browsers : PeerIsSound(r[c])
      BY <1>5, <2>1, InvMeans
    <2> QED  BY <2>1, <2>2
  <1>7. peer' = broadcast(r, Other, b)
    BY DEF Greet
  <1>8. /\ peer' \in Connections
        /\ \A c \in Browsers : PeerIsSound(peer'[c]) /\ (Heard(r[c]) => Heard(peer'[c]))
    BY <1>1, <1>6, <1>7, OtherIs, BroadcastIs
  <1>9. \A c \in Browsers : Heard(peer[c]) => Heard(peer'[c])
    BY <1>5, <1>6, <1>8
  <1>10. /\ UNCHANGED <<version, unpublished, answers, abandoned, browser, faults>>
         /\ faults \in 0..MaxFaults
    BY InvMeans DEF Greet
  <1> QED  BY <1>8, <1>9, <1>10, PeersStep

\* A connection is gone, and the others hear of it.
LEMMA GoneIs ==
    ASSUME Inv, NEW b \in Browsers, peer' = broadcast([peer EXCEPT ![b] = Free], Other, b)
    PROVE  /\ peer' \in Connections
           /\ \A c \in Browsers : PeerIsSound(peer'[c]) /\ (Heard(peer[c]) => Heard(peer'[c]))
  <1> PICK r : r = [peer EXCEPT ![b] = Free]
    OBVIOUS
  <1>1. /\ r \in Connections /\ \A c \in Browsers : PeerIsSound(r[c])
        /\ r[b] = Free /\ \A c \in Browsers : c # b => r[c] = peer[c]
    <2>1. r \in Connections /\ r[b] = Free /\ \A c \in Browsers : c # b => r[c] = peer[c]
      BY FreeIs, InvMeans DEF Connections
    <2>2. \A c \in Browsers : PeerIsSound(r[c])
      BY FreeIs, <2>1, InvMeans
    <2> QED  BY <2>1, <2>2
  <1>2. version \in Nat /\ peer' = broadcast(r, Other, b)
    BY InvMeans
  <1>3. /\ peer' \in Connections
        /\ \A c \in Browsers : PeerIsSound(peer'[c]) /\ (Heard(r[c]) => Heard(peer'[c]))
    BY <1>1, <1>2, OtherIs, BroadcastIs
  <1> QED  BY <1>1, <1>3, FreeIs

\* closed by the server,
LEMMA UnregisterKeepsInv ==
    ASSUME Inv, NEW b \in Browsers, unregister(b)
    PROVE  Inv'
  <1>1. /\ UNCHANGED <<version, unpublished, answers, abandoned, browser, faults>>
        /\ faults \in 0..MaxFaults /\ peer' = broadcast([peer EXCEPT ![b] = Free], Other, b)
    BY InvMeans DEF unregister
  <1> QED  BY <1>1, GoneIs, PeersStep

\* An editor that is no worse, while the connections change.
LEMMA SocketStep ==
    ASSUME Inv, UNCHANGED <<version, unpublished, answers, abandoned>>, faults' \in 0..MaxFaults,
           peer' \in Connections,
           NEW b \in Browsers, NEW d \in Editors, browser' = [browser EXCEPT ![b] = d],
           EditorIsSound(d), ~d.socket \/ \A v : Informed(d, v),
           \A c \in Browsers : /\ PeerIsSound(peer'[c])
                               /\ c # b => (Heard(peer[c]) => Heard(peer'[c]))
    PROVE  Inv'
  <1>1. browser' \in [Browsers -> Editors] /\ browser'[b] = d
        /\ \A c \in Browsers : c # b => browser'[c] = browser[c]
    BY InvMeans
  <1>2. \A c \in Browsers : \A v \in 1..version : Told(c, v) => Told(c, v)'
    BY <1>1 DEF Told
  <1>3. \A c \in Browsers : PeerIsSound(peer'[c]) /\ EditorIsSound(browser'[c])
    BY <1>1, InvMeans
  <1> QED  BY <1>1, <1>2, <1>3, NoCommitKeepsInv

\* or broken.
LEMMA SocketClosesKeepsInv ==
    ASSUME Inv, NEW b \in Browsers, Closed(b) \/ ConnectionLost(b)
    PROVE  Inv'
  <1> PICK d : d = [browser[b] EXCEPT !.socket = FALSE]
    OBVIOUS
  <1>1. browser[b] \in Editors /\ EditorIsSound(browser[b]) /\ browser \in [Browsers -> Editors]
    BY InvMeans
  <1>2. d \in Editors /\ EditorIsSound(d) /\ ~d.socket
    BY <1>1 DEF Editors, EditorIsSound, AtLeast
  <1>3. browser' = [browser EXCEPT ![b] = d] /\ UNCHANGED <<version, unpublished, answers, abandoned>>
    BY <1>1 DEF Closed, ConnectionLost
  <1>4. faults' \in 0..MaxFaults
    BY InvMeans, SizesAssumption DEF Closed, ConnectionLost
  <1>5. /\ peer' \in Connections
        /\ \A c \in Browsers : PeerIsSound(peer'[c]) /\ (Heard(peer[c]) => Heard(peer'[c]))
    BY InvMeans, GoneIs DEF Closed, ConnectionLost
  <1> QED  BY <1>2, <1>3, <1>4, <1>5, SocketStep

\* An event arrives.
LEMMA DeliverKeepsInv ==
    ASSUME Inv, NEW b \in Browsers, Deliver(b)
    PROVE  Inv'
  <1> PICK e : e = Head(peer[b].queue)
    OBVIOUS
  <1>1. /\ peer[b] \in Peers /\ PeerIsSound(peer[b]) /\ peer \in Connections /\ peer[b] # Free
        /\ version \in Nat /\ peer[b].queue \in Seq(Events) /\ peer[b].queue # <<>>
        /\ browser[b] \in Editors /\ EditorIsSound(browser[b]) /\ faults \in 0..MaxFaults
    BY InvMeans, PeersAre DEF Deliver
  <1> PICK q : q = peer[b].queue
    OBVIOUS
  <1> PICK t : t = Tail(q)
    OBVIOUS
  <1>2. /\ e \in Events /\ e = q[1] /\ e.version <= version /\ t \in Seq(Events) /\ Len(t) = Len(q) - 1
        /\ Len(q) \in Nat /\ DOMAIN q = 1..Len(q) /\ DOMAIN t = 1..(Len(q) - 1)
        /\ \A i \in DOMAIN t : i + 1 \in DOMAIN q /\ t[i] = q[i + 1]
    BY <1>1 DEF PeerIsSound
  <1> PICK p : p = [peer[b] EXCEPT !.queue = t]
    OBVIOUS
  <1>3. p \in Peers /\ p.state = peer[b].state /\ p.book = peer[b].book /\ p.queue = t
    BY <1>1, <1>2 DEF Peers
  <1>4. PeerIsSound(p)
    <2>1. Len(t) <= QueueSize /\ p.book <= version
      BY <1>1, <1>2, <1>3, SizesAssumption DEF PeerIsSound
    <2>2. \A i \in DOMAIN t : t[i].version <= version
      BY <1>1, <1>2 DEF PeerIsSound
    <2> QED  BY <1>3, <2>1, <2>2 DEF PeerIsSound
  <1> PICK r : r = [peer EXCEPT ![b] = p]
    OBVIOUS
  <1>5. peer' = r
    BY <1>1 DEF Deliver, Connections
  <1>6. /\ peer' \in Connections /\ \A c \in Browsers : PeerIsSound(peer'[c])
        /\ peer'[b] = p /\ \A c \in Browsers : c # b => peer'[c] = peer[c]
    <2>1. r \in Connections /\ r[b] = p /\ \A c \in Browsers : c # b => r[c] = peer[c]
      BY <1>3, InvMeans DEF Connections
    <2>2. \A c \in Browsers : PeerIsSound(r[c])
      BY <1>4, <2>1, InvMeans
    <2> QED  BY <1>5, <2>1, <2>2
  <1>7. UNCHANGED <<version, unpublished, answers, abandoned, faults>>
    BY DEF Deliver
  <1>8. CASE e.version = 0
    <2>1. browser' = browser
      BY <1>8 DEF Deliver
    <2>2. Heard(peer[b]) => Heard(p)
      <3>1. ASSUME NEW i \in DOMAIN q, q[i].version # 0 PROVE Heard(p)
        <4>1. i # 1 /\ i \in 1..Len(q)
          BY <1>2, <1>8, <3>1
        <4>2. i - 1 \in DOMAIN t /\ t[i - 1] = q[(i - 1) + 1] /\ (i - 1) + 1 = i
          BY <1>2, <4>1
        <4> QED  BY <1>3, <3>1, <4>2 DEF Heard
      <3> QED  BY <1>1, <1>3, <3>1 DEF Heard
    <2> QED  BY <1>1, <1>6, <1>7, <2>1, <2>2, PeersStep
  <1>9. CASE e.version # 0
    <2> PICK d : d = handleCollaborationVersion(browser[b], e)
      OBVIOUS
    <2>1. /\ d \in Editors /\ EditorIsSound(d) /\ \A v : Informed(d, v)
      BY <1>1, <1>2, <1>9, HandleIs
    <2>2. browser' = [browser EXCEPT ![b] = d]
      BY <1>9 DEF Deliver
    <2> QED  BY <1>1, <1>6, <1>7, <2>1, <2>2, SocketStep
  <1> QED  BY <1>8, <1>9

\* The server stops: every socket will be opened again.
LEMMA RestartKeepsInv ==
    ASSUME Inv, Restart
    PROVE  Inv'
  <1>1. /\ UNCHANGED <<version, abandoned, browser>> /\ unpublished' = {} /\ answers' = {}
        /\ version \in Nat
    BY InvMeans DEF Restart
  <1>2. faults' \in 0..MaxFaults
    BY SizesAssumption, InvMeans DEF Restart
  <1>3. /\ peer' \in Connections /\ \A b \in Browsers : peer'[b] = Free
    BY DEF Restart, Connections
  <1>4. TypeOK'
    BY <1>1, <1>2, <1>3 DEF Inv, TypeOK, Connections
  <1>5. NothingFromTheFuture'
    BY <1>1, <1>3 DEF Inv, NothingFromTheFuture
  <1>6. EditorsAreSound'
    BY <1>1 DEF Inv, EditorsAreSound, EditorIsSound
  <1>7. EverybodyIsTold'
    BY <1>3 DEF EverybodyIsTold, Told, Heard
  <1> QED  BY <1>4, <1>5, <1>6, <1>7 DEF Inv

\* The answer to a change of one's own.
LEMMA SaveAnsweredKeepsInv ==
    ASSUME Inv, NEW u \in answers, SaveAnswered(u)
    PROVE  Inv'
  <1> PICK e : e = browser[u.by]
    OBVIOUS
  <1>1. /\ version \in Nat /\ u.by \in Browsers /\ u.version \in Versions /\ u.version <= version
        /\ e \in Editors /\ EditorIsSound(e) /\ faults \in 0..MaxFaults
    BY InvMeans
  <1>2. /\ UNCHANGED <<version, unpublished, abandoned, peer, faults>> /\ answers' \subseteq answers
    BY DEF SaveAnswered
  <1> PICK c : c = clearCells(e)
    OBVIOUS
  <1>3. c \in Editors /\ EditorIsSound(c) /\ c.socket = e.socket
    BY <1>1, ClearIs
  <1> PICK f : f = updateVersion(c, u.version)
    OBVIOUS
  <1>4. f \in Editors /\ EditorIsSound(f) /\ f.socket = e.socket
    BY <1>1, <1>3, UpdateIs
  <1> PICK g : g = Invalidate(f)
    OBVIOUS
  <1>5. g \in Editors /\ EditorIsSound(g) /\ g.socket = e.socket /\ Better(e, g)
    BY <1>1, <1>4, InvalidateIs DEF Better
  <1> PICK h : h = updateVersion(e, u.version)
    OBVIOUS
  <1>6. h \in Editors /\ EditorIsSound(h) /\ h.socket = e.socket /\ Better(e, h)
    BY <1>1, UpdateIs
  <1> PICK d : d = IF u.kind = "structure" THEN g ELSE h
    OBVIOUS
  <1>7. d \in Editors /\ EditorIsSound(d) /\ d.socket = e.socket /\ Better(e, d)
    BY <1>5, <1>6
  <1>8. browser' = [browser EXCEPT ![u.by] = d]
    BY DEF SaveAnswered
  <1> QED  BY <1>1, <1>2, <1>7, <1>8, EditorStep

\* The server reads for a request.
LEMMA ServedKeepsInv ==
    ASSUME Inv, NEW b \in Browsers, Fetched(b) \/ Read(b)
    PROVE  Inv'
  <1> PICK e : e = browser[b]
    OBVIOUS
  <1> PICK n : n = version
    OBVIOUS
  <1>1. /\ n \in Nat /\ n \in Versions /\ n # 0 /\ n # -1
        /\ e \in Editors /\ EditorIsSound(e) /\ faults \in 0..MaxFaults
        /\ browser \in [Browsers -> Editors]
    BY InvMeans, SizesAssumption DEF Versions
  <1>2. UNCHANGED <<version, unpublished, answers, abandoned, peer, faults>>
    BY DEF Fetched, Read
  <1>3. CASE Fetched(b)
    <2> PICK d : d = [e EXCEPT !.fetch = n]
      OBVIOUS
    <2>1. /\ d \in Editors /\ d.socket = e.socket /\ d.serverVersion = e.serverVersion /\ d.data = e.data
          /\ d.fetch = n /\ d.read = e.read /\ d.gaveUp = e.gaveUp /\ d.shown = e.shown
      BY <1>1 DEF Editors, Requests
    <2>2. \A w : AtLeast(e, w) => AtLeast(d, w)
      BY <2>1 DEF AtLeast
    <2>3. EditorIsSound(d)
      BY <1>1, <2>1, <2>2 DEF EditorIsSound
    <2>4. Better(e, d)
      BY <1>1, <2>1 DEF Better, Informed
    <2>5. browser' = [browser EXCEPT ![b] = d]
      BY <1>3 DEF Fetched
    <2> QED  BY <1>1, <1>2, <2>1, <2>3, <2>4, <2>5, EditorStep
  <1>4. CASE Read(b)
    <2> PICK d : d = [e EXCEPT !.read = n]
      OBVIOUS
    <2>1. /\ d \in Editors /\ d.socket = e.socket /\ d.serverVersion = e.serverVersion /\ d.data = e.data
          /\ d.fetch = e.fetch /\ d.read = n /\ d.gaveUp = e.gaveUp /\ d.shown = e.shown
      BY <1>1 DEF Editors, Requests
    <2>2. \A w \in 1..version : AtLeast(d, w)
      BY <1>1, <2>1 DEF AtLeast
    <2>3. e.read = 0 /\ e.data # 0
      BY <1>1, <1>4 DEF Read, EditorIsSound, NoRequest, Sent
    <2>4. EditorIsSound(d)
      <3>1. e.serverVersion \in Nat /\ e.serverVersion <= version /\ e.serverVersion >= 1
        BY <1>1, EditorsAre, SizesAssumption DEF EditorIsSound, Versions
      <3>2. AtLeast(d, d.serverVersion)
        BY <1>1, <2>1, <2>2, <3>1
      <3> QED  BY <1>1, <2>1, <2>3, <3>2 DEF EditorIsSound
    <2>5. Better(e, d)
      BY <2>2 DEF Better, Informed
    <2>6. browser' = [browser EXCEPT ![b] = d]
      BY <1>4 DEF Read
    <2> QED  BY <1>1, <1>2, <2>1, <2>4, <2>5, <2>6, EditorStep
  <1> QED  BY <1>3, <1>4

\* The workbook arrives, and its version becomes that of the editor.
LEMMA FetchArrivesKeepsInv ==
    ASSUME Inv, NEW b \in Browsers, FetchArrives(b)
    PROVE  Inv'
  <1> PICK e : e = browser[b]
    OBVIOUS
  <1>1. /\ version \in Nat /\ e \in Editors /\ EditorIsSound(e) /\ faults \in 0..MaxFaults
        /\ browser \in [Browsers -> Editors] /\ e.fetch \in Versions /\ e.fetch <= version
        /\ e.serverVersion \in Versions /\ e.read <= version
        /\ e.read \in {-1, 0} \cup Versions /\ Versions \subseteq Nat \ {0}
    BY InvMeans, EditorsAre DEF FetchArrives, EditorIsSound
  <1>2. UNCHANGED <<version, unpublished, answers, abandoned, peer, faults>>
    BY DEF FetchArrives
  <1> PICK d : d = [e EXCEPT !.data = e.fetch, !.fetch = NoRequest]
    OBVIOUS
  <1>3. /\ d \in Editors /\ d.socket = e.socket /\ d.serverVersion = e.serverVersion /\ d.data = e.fetch
        /\ d.fetch = NoRequest /\ d.read = e.read /\ d.gaveUp = e.gaveUp /\ d.shown = e.shown
    <2>1. e.fetch \in 0..MaxVersion
      BY <1>1, SizesAssumption DEF Versions
    <2> QED  BY <1>1, <2>1 DEF Editors, Requests
  <1>4. \A w : AtLeast(e, w) => AtLeast(d, w)
    BY <1>3 DEF AtLeast
  <1>5. d.data # 0 /\ d.fetch <= version
    BY <1>1, <1>3 DEF NoRequest
  <1>6. CASE e.fetch = e.data
    <2>1. browser' = [browser EXCEPT ![b] = d]
      BY <1>6 DEF FetchArrives
    <2>2. EditorIsSound(d)
      BY <1>1, <1>3, <1>4, <1>5, <1>6 DEF EditorIsSound
    <2>3. Better(e, d)
      <3>1. e.fetch # Sent /\ e.data # 0
        BY <1>1, <1>6 DEF Sent
      <3>2. \A w \in 1..version : e.fetch >= w => AtLeast(d, w)
        <4>1. AtLeast(e, e.serverVersion) /\ e.serverVersion \in Int /\ e.fetch <= e.serverVersion
          BY <1>1, <1>6 DEF EditorIsSound
        <4> QED  BY <1>1, <1>4, <4>1, AtLeastIs
      <3> QED  BY <1>3, <1>4, <3>1, <3>2 DEF Better, Informed
    <2> QED  BY <1>1, <1>2, <1>3, <2>1, <2>2, <2>3, EditorStep
  <1>7. CASE e.fetch # e.data /\ e.data = 0
    <2> PICK f : f = [d EXCEPT !.serverVersion = e.fetch]
      OBVIOUS
    <2>1. /\ f \in Editors /\ f.socket = e.socket /\ f.serverVersion = e.fetch /\ f.data = e.fetch
          /\ f.fetch = NoRequest
      BY <1>1, <1>3 DEF Editors
    <2> PICK g : g = ReadCells(f)
      OBVIOUS
    <2>2. /\ g \in Editors /\ g.socket = e.socket /\ g.serverVersion = e.fetch /\ g.data = e.fetch
          /\ g.fetch = NoRequest /\ g.read = Sent
      BY <1>1, <2>1, ReadCellsIs
    <2>3. EditorIsSound(g) /\ Better(e, g)
      BY <1>1, <2>2 DEF EditorIsSound, AtLeast, Better, Informed, NoRequest, Sent
    <2>4. browser' = [browser EXCEPT ![b] = g]
      BY <1>7 DEF FetchArrives
    <2> QED  BY <1>1, <1>2, <2>2, <2>3, <2>4, EditorStep
  <1>8. CASE e.fetch # e.data /\ e.data # 0
    <2> PICK g : g = SetVersion(d, e.fetch)
      OBVIOUS
    <2>1. /\ g \in Editors /\ EditorIsSound(g) /\ Better(d, g)
          /\ g.socket = d.socket /\ AtLeast(g, e.fetch)
      <3>1. d.read <= version /\ d.data <= e.fetch /\ AtLeast(d, d.serverVersion)
        BY <1>1, <1>3, <1>4 DEF EditorIsSound
      <3>2. /\ version \in Nat /\ d \in Editors /\ e.fetch \in Versions /\ e.fetch <= version
            /\ d.fetch <= version /\ (d.data = 0 => d.read = NoRequest /\ d.shown = NoCells)
        BY <1>1, <1>3, <1>5
      <3> QED  BY <3>1, <3>2, SetVersionIs
    <2>2. Better(e, g)
      <3>1. ASSUME NEW w \in 1..version, Informed(e, w) PROVE Informed(g, w)
        <4>1. w <= e.fetch => Informed(g, w)
          <5>1. g \in Editors /\ e.fetch \in Int
            BY <1>1, <2>1
          <5> QED  BY <2>1, <5>1, AtLeastIs DEF Informed
        <4>2. Informed(d, w) => Informed(g, w)
          BY <2>1 DEF Better
        <4>3. w <= e.fetch \/ Informed(d, w)
          BY <1>1, <1>3, <1>4, <1>8, <3>1 DEF Informed, Sent
        <4> QED  BY <4>1, <4>2, <4>3
      <3> QED  BY <3>1 DEF Better
    <2>3. browser' = [browser EXCEPT ![b] = g]
      BY <1>8 DEF FetchArrives
    <2> QED  BY <1>1, <1>2, <1>3, <2>1, <2>2, <2>3, EditorStep
  <1> QED  BY <1>6, <1>7, <1>8

\* The cells arrive.
LEMMA ReadArrivesKeepsInv ==
    ASSUME Inv, NEW b \in Browsers, ReadArrives(b)
    PROVE  Inv'
  <1> PICK e : e = browser[b]
    OBVIOUS
  <1>1. /\ e \in Editors /\ EditorIsSound(e) /\ faults \in 0..MaxFaults
        /\ browser \in [Browsers -> Editors] /\ e.read \in Versions /\ version \in Nat
    BY InvMeans DEF ReadArrives
  <1>2. UNCHANGED <<version, unpublished, answers, abandoned, peer, faults>>
    BY DEF ReadArrives
  <1> PICK d : d = [e EXCEPT !.shown = e.read, !.read = NoRequest]
    OBVIOUS
  <1>3. /\ d \in Editors /\ d.socket = e.socket /\ d.serverVersion = e.serverVersion /\ d.data = e.data
        /\ d.fetch = e.fetch /\ d.read = NoRequest /\ d.gaveUp = e.gaveUp /\ d.shown = e.read
    <2>1. e.read \in 0..MaxVersion
      BY <1>1, SizesAssumption DEF Versions
    <2> QED  BY <1>1, <2>1 DEF Editors, Requests
  <1>4. e.read # Sent /\ e.read # NoRequest
    BY <1>1, SizesAssumption DEF Versions, Sent, NoRequest
  <1>5. \A w : AtLeast(e, w) => AtLeast(d, w)
    BY <1>3, <1>4 DEF AtLeast
  <1>6. EditorIsSound(d) /\ Better(e, d)
    <2>1. NoRequest <= version
      BY <1>1 DEF NoRequest
    <2>2. e.data # 0
      BY <1>1, <1>4 DEF EditorIsSound
    <2> QED  BY <1>1, <1>3, <1>5, <2>1, <2>2 DEF EditorIsSound, Better, Informed
  <1>7. browser' = [browser EXCEPT ![b] = d]
    BY <1>1 DEF ReadArrives
  <1> QED  BY <1>1, <1>2, <1>3, <1>6, <1>7, EditorStep

\* A request fails: the editor counts as informed, since what follows is the user's affair.
LEMMA RequestFailsKeepsInv ==
    ASSUME Inv, NEW b \in Browsers, RequestFails(b)
    PROVE  Inv'
  <1> PICK e : e = browser[b]
    OBVIOUS
  <1>1. /\ e \in Editors /\ EditorIsSound(e) /\ browser \in [Browsers -> Editors] /\ version \in Nat
        /\ NoRequest <= version
    BY InvMeans DEF NoRequest
  <1>2. /\ UNCHANGED <<version, unpublished, answers, abandoned, peer>> /\ faults' \in 0..MaxFaults
    BY InvMeans, SizesAssumption DEF RequestFails
  <1>3. CASE /\ e.fetch # NoRequest
             /\ browser' = [browser EXCEPT ![b].fetch = NoRequest, ![b].gaveUp = @ \cup {"workbook"}]
    <2> PICK d : d = [e EXCEPT !.fetch = NoRequest, !.gaveUp = @ \cup {"workbook"}]
      OBVIOUS
    <2>1. /\ d \in Editors /\ d.socket = e.socket /\ d.serverVersion = e.serverVersion /\ d.data = e.data
          /\ d.fetch = NoRequest /\ d.read = e.read /\ d.gaveUp = e.gaveUp \cup {"workbook"}
          /\ d.shown = e.shown
      BY <1>1 DEF Editors, Requests
    <2>2. AtLeast(d, d.serverVersion)
      BY <1>1, <2>1 DEF EditorIsSound, AtLeast
    <2>3. EditorIsSound(d) /\ Better(e, d)
      BY <1>1, <2>1, <2>2 DEF EditorIsSound, Better, Informed
    <2>4. browser' = [browser EXCEPT ![b] = d]
      BY <1>1, <1>3
    <2> QED  BY <1>1, <1>2, <2>1, <2>3, <2>4, EditorStep
  <1>4. CASE /\ e.read # NoRequest
             /\ browser' = [browser EXCEPT ![b].read = NoRequest, ![b].gaveUp = @ \cup {"cells"}]
    <2> PICK d : d = [e EXCEPT !.read = NoRequest, !.gaveUp = @ \cup {"cells"}]
      OBVIOUS
    <2>1. /\ d \in Editors /\ d.socket = e.socket /\ d.serverVersion = e.serverVersion /\ d.data = e.data
          /\ d.fetch = e.fetch /\ d.read = NoRequest /\ d.gaveUp = e.gaveUp \cup {"cells"}
          /\ d.shown = e.shown
      BY <1>1 DEF Editors, Requests
    <2>2. AtLeast(d, d.serverVersion)
      BY <2>1 DEF AtLeast
    <2>3. EditorIsSound(d) /\ Better(e, d)
      BY <1>1, <2>1, <2>2 DEF EditorIsSound, Better, Informed
    <2>4. browser' = [browser EXCEPT ![b] = d]
      BY <1>1, <1>4
    <2> QED  BY <1>1, <1>2, <2>1, <2>3, <2>4, EditorStep
  <1> QED  BY <1>3, <1>4 DEF RequestFails

-----------------------------------------------------------------------------
(***************************************************************************)
(* The theorems                                                            *)
(***************************************************************************)

\* It holds when the pages have just been opened,
LEMMA InitInv == Init => Inv
  <1> SUFFICES ASSUME Init PROVE Inv
    OBVIOUS
  <1>1. TypeOK
    BY SizesAssumption DEF Init, TypeOK, Versions, Editors, Requests, NoRequest, Sent, NoCells
  <1>2. NothingFromTheFuture
    BY DEF Init, NothingFromTheFuture
  <1>3. EditorsAreSound
    BY DEF Init, EditorsAreSound, EditorIsSound, AtLeast, NoRequest, Sent, NoCells
  <1>4. EverybodyIsTold
    BY DEF Init, EverybodyIsTold, Told
  <1> QED  BY <1>1, <1>2, <1>3, <1>4 DEF Inv

\* and every step keeps it.
LEMMA NextInv == Inv /\ [Next]_vars => Inv'
  <1> SUFFICES ASSUME Inv, [Next]_vars PROVE Inv'
    OBVIOUS
  <1>1. CASE Hub
    BY <1>1, PublishOperationKeepsInv, PublishKeepsInv, PublishCurrentKeepsInv, RegisterKeepsInv,
       GreetKeepsInv, UnregisterKeepsInv, DeliverKeepsInv DEF Hub
  <1>2. ASSUME NEW b \in Browsers, Editor(b) \/ ConnectionLost(b) \/ RequestFails(b) PROVE Inv'
    BY <1>2, AcceptKeepsInv, SocketClosesKeepsInv, ServedKeepsInv, FetchArrivesKeepsInv,
       ReadArrivesKeepsInv, RequestFailsKeepsInv DEF Editor
  <1>3. ASSUME NEW u \in answers, SaveAnswered(u) PROVE Inv'
    BY <1>3, SaveAnsweredKeepsInv
  <1>4. ASSUME NEW u \in unpublished, GiveUpPublishing(u) PROVE Inv'
    BY <1>4, PublishCurrentKeepsInv
  <1>5. ASSUME NEW by \in Browsers \cup {Nobody},
               PublishOther(by) \/ \E kind \in Changes : Commit(by, kind)
        PROVE  Inv'
    BY <1>5, PublishOtherKeepsInv, CommitKeepsInv
  <1>6. CASE Restart
    BY <1>6, RestartKeepsInv
  <1>7. CASE UNCHANGED vars
    <2>1. \A b : Told(b, 1)' <=> Told(b, 1)
      BY <1>7 DEF vars, Told
    <2> QED  BY <1>7 DEF vars, Inv, TypeOK, NothingFromTheFuture, EditorsAreSound, EditorIsSound,
                         EverybodyIsTold, Pending, Told
  <1> QED  BY <1>1, <1>2, <1>3, <1>4, <1>5, <1>6, <1>7 DEF Next

\* The invariant of every behaviour.
LEMMA InvAlways == Spec => []Inv
  BY InitInv, NextInv, PTL DEF Spec

\* Versions and requests are in range, and no queue of the hub is longer than client.send.
THEOREM TypeCorrect == Spec => []TypeOK
  BY InvAlways, PTL DEF Inv

\* A non-empty set of versions has a greatest one.
LEMMA GreatestIs ==
    ASSUME NEW n \in Nat, NEW S, S \subseteq 1..n, S # {}
    PROVE  Max(S) \in S /\ \A v \in S : v <= Max(S)
  <1> PICK T : T = {n - v : v \in S}
    OBVIOUS
  <1>1. T \subseteq Nat /\ T # {}
    <2>1. \A v \in 1..n : n - v \in Nat
      OBVIOUS
    <2> QED  BY <2>1, Zenon
  <1>2. PICK x \in T : \A y \in T : ~ (<<y, x>> \in OpToRel(<, Nat))
    BY <1>1, NatLessThanWellFounded, WFMin
  <1>3. \A y \in T : ~ (y < x)
    BY <1>1, <1>2 DEF OpToRel
  <1>4. PICK m \in S : x = n - m
    BY <1>2
  <1>5. \A v \in S : v <= m
    <2>1. ASSUME NEW v \in S PROVE v <= m
      <3>1. n - v \in T /\ ~ (n - v < n - m)
        BY <1>3, <1>4
      <3> QED  BY <3>1
    <2> QED  BY <2>1
  <1>6. \A v \in S : m >= v
    BY <1>5
  <1>7. Max(S) \in S /\ \A v \in S : Max(S) >= v
    BY <1>4, <1>6 DEF Max
  <1> QED  BY <1>7

\* The version owed exists, and no handler gave it up.
LEMMA OwedIs == Inv => Owed \in 1..version /\ Owed \notin abandoned
  <1> SUFFICES ASSUME Inv PROVE Owed \in 1..version /\ Owed \notin abandoned
    OBVIOUS
  <1>1. version \in Nat /\ 1 \in 1..version /\ 1 \notin abandoned
    BY InvMeans DEF Versions, Inv, NothingFromTheFuture
  <1> PICK S : S = {1} \cup {v \in 1..version : v \notin abandoned}
    OBVIOUS
  <1>2. S \subseteq 1..version /\ S # {} /\ Owed = Max(S)
    BY <1>1 DEF Owed
  <1>3. Owed \in S
    BY <1>1, <1>2, GreatestIs
  <1> QED  BY <1>1, <1>2, <1>3

\* No change is missed: whatever the handlers, the queues, the restarts and the networks do,
\* a browser that shows cells of an older version than the one owed to it has a read under
\* way, has been told that a request failed, or will hear of a newer version.
THEOREM ChangesAreNotMissed == Spec => []NoChangeIsMissed
  <1>1. Inv => NoChangeIsMissed
    <2> SUFFICES ASSUME Inv, NEW b \in Browsers
                 PROVE  \/ browser[b].shown = NoCells \/ browser[b].shown >= Owed
                        \/ browser[b].gaveUp # {} \/ browser[b].read # NoRequest \/ News(b)
      BY DEF NoChangeIsMissed
    <2> PICK o : o = Owed
      OBVIOUS
    <2>1. o \in 1..version /\ o \notin abandoned
      BY OwedIs
    <2>2. CASE Pending(o)
      <3>1. \E u \in unpublished : u.version >= o \/ u.kind = "current"
        <4>1. PICK u \in unpublished : u.version = o \/ (u.kind # "current" /\ u.version >= o)
          BY <2>2 DEF Pending
        <4>2. u.version >= o
          BY <2>1, <4>1, InvMeans
        <4> QED  BY <4>2
      <3> QED  BY <3>1 DEF News
    <2>3. CASE Told(b, o)
      <3>1. CASE ~browser[b].socket \/ Heard(peer[b])
        BY <3>1 DEF News, Heard
      <3>2. CASE browser[b].fetch # NoRequest
        BY <3>2 DEF News
      <3>3. CASE AtLeast(browser[b], o)
        BY <3>3, SizesAssumption DEF AtLeast, Sent, NoRequest, Versions
      <3>4. CASE browser[b].gaveUp # {}
        BY <3>4
      <3>5. browser[b].fetch = Sent \/ browser[b].fetch \in Versions => browser[b].fetch # NoRequest
        BY SizesAssumption DEF Sent, NoRequest, Versions
      <3> QED  BY <2>3, <3>1, <3>2, <3>3, <3>4, <3>5 DEF Told, Informed
    <2> QED  BY <2>1, <2>2, <2>3 DEF Inv, EverybodyIsTold
  <1> QED  BY <1>1, InvAlways, PTL

=============================================================================
