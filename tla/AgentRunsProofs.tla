--------------------------- MODULE AgentRunsProofs ---------------------------
(***************************************************************************)
(* Safety of AgentRuns for any number of requests, keys, tools and         *)
(* disturbances.  An approval touches the row of the run and the workbook  *)
(* in transactions of their own, so the invariant says what a request may  *)
(* rely on between them: whoever is past its claim has a run that can no   *)
(* longer be cancelled, and a workbook still at the version of the plan is *)
(* as the user saw it.  A second invariant follows the tools of the run to *)
(* what it leaves behind.                                                  *)
(***************************************************************************)
EXTENDS AgentRuns, TLAPS, NaturalsInduction, WellFoundedInduction

RunStatuses == {"planned", "applying", "applied", "undoing", "undone", "failed", "cancelled"}

RequestKinds == {"approve", "rollback", "approveCells", "undoCells"}

States == {"waiting_approval", "executing", "validating", "completed", "failed", "cancelled"}

Unusuals == {"overlap", "cellsOnly", "stuck", "refused", "cut"}

UndoKeys == Keys \X {"compensate", "undo"}

\* The types of TypeOK with their bounds as parameters: tools p, ids made n,
\* version v, revision k.
OutcomesTo(n) == [done : BOOLEAN, id : 0..n, rev : Nat]

RecordsTo(p, n) == [DOMAIN p.tools -> OutcomesTo(n)]

ActionsTo(p, n) ==
    [status : RunStatuses, revision : 1..3, key : Keys \cup {NoKey},
     undoKey : UndoKeys \cup {NoKey}, operation : BOOLEAN, tools : RecordsTo(p, n)]

RequestsTo(p, n, v, k) ==
    [at : Phases, kind : RequestKinds, key : Keys, rev : 1..k, tools : RecordsTo(p, n),
     operation : BOOLEAN, version : 0..v]

\* The idempotency keys of the operations of the workbook.
OpKeys == {"approve", "undo", "sort", "sort-undo"} \X (Keys \cup UndoKeys \cup Nat)

Things(p, n) == [tool : DOMAIN p.tools, id : 1..n, rev : Nat \ {0}]

ChartRows == [rev : Nat \ {0}, by : {"before", "agent", "other"}]

Books(p, n) ==
    [version : Nat \ {0}, cells : {"before", "agent", "displaced", "other"},
     range : {"plain", "sorted", "displaced", "theirs"}, chart : ChartRows, things : SUBSET Things(p, n), ops : SUBSET OpKeys, ids : {n}]

\* The revision of the row follows from its status: each claim counts it up once.
RevisionOK(a) ==
    /\ a.status = "planned" => a.revision = 1
    /\ a.status \in {"applying", "applied", "cancelled"} => a.revision = 2

ReqOK == req \in [Requests -> {Idle} \cup RequestsTo(plan, book.ids, book.version, action.revision)]

Types ==
    /\ plan \in Plans
    /\ book.ids \in Nat /\ book \in Books(plan, book.ids)
    /\ action \in ActionsTo(plan, book.ids) /\ RevisionOK(action)
    /\ ReqOK
    /\ state \in States
    /\ applied \in 0..book.version
    /\ made \in 0..MaxRequests /\ disturbed \in 0..MaxDisturbances
    /\ unusual \subseteq Unusuals

\* The row has been claimed: it can no longer be cancelled.
Claimed(a) == a.status \notin {"planned", "cancelled"}

Engaged == Claimed(action)

\* The phases of a request that has won a claim, or found one.
Ahead == Phases \ {"approve", "version", "claim", "undo"}

AheadIsEngaged == \A r \in Requests : req[r].at \in Ahead => Engaged

\* Every write of anybody counts the version up.
VersionTells == book.version = BaseVersion => AsPlanned

Inv ==
    /\ Types
    /\ AheadIsEngaged
    /\ NothingWithoutApproval
    /\ VersionTells

-----------------------------------------------------------------------------
(***************************************************************************)
(* Small facts                                                             *)
(***************************************************************************)

\* A non-empty set of tool calls has a first and a last one.
LEMMA FirstExists ==
    ASSUME NEW S \in SUBSET Nat, S # {}
    PROVE  \E i \in S : \A j \in S : i <= j
  <1> DEFINE R == OpToRel(<, Nat)
  <1>1. IsWellFoundedOn(R, Nat)
    BY NatLessThanWellFounded
  <1> HIDE DEF R
  <1>2. PICK i \in S : \A j \in S : ~(<<j, i>> \in R)
    BY <1>1, WFMin
  <1>3. \A j \in S : ~(j < i)
    BY <1>2 DEF R, OpToRel
  <1> QED  BY <1>3

LEMMA LastExists ==
    ASSUME NEW n \in Nat, NEW S \in SUBSET (1..n), S # {}
    PROVE  \E i \in S : \A j \in S : i >= j
  <1> DEFINE T == {n - i : i \in S}
  <1>1. \A i \in S : i \in Nat /\ n - i \in Nat
    OBVIOUS
  <1>2. T \in SUBSET Nat /\ T # {}
    BY <1>1
  <1> HIDE DEF T
  <1>3. PICK t \in T : \A u \in T : t <= u
    BY <1>2, FirstExists
  <1>4. PICK i \in S : t = n - i
    BY DEF T
  <1>5. \A j \in S : n - j \in T
    BY DEF T
  <1>6. \A j \in S : i >= j
    BY <1>1, <1>3, <1>4, <1>5
  <1> QED  BY <1>6

\* The tool calls of a plan are numbered.
LEMMA PlanTools ==
    ASSUME plan \in Plans
    PROVE  \E n \in Nat : DOMAIN plan.tools = 1..n /\ plan.tools \in [1..n -> Kinds]
  <1>1. PICK n \in 0..MaxTools : plan.tools \in [1..n -> Kinds]
    BY DEF Plans
  <1> QED  BY <1>1, NumbersAssumption

LEMMA MinIsIn ==
    ASSUME plan \in Plans, NEW S \in SUBSET DOMAIN plan.tools, S # {}
    PROVE  Min(S) \in S
  <1>1. PICK n \in Nat : DOMAIN plan.tools = 1..n
    BY PlanTools
  <1>2. S \in SUBSET Nat
    BY <1>1
  <1>3. \E i \in S : \A j \in S : i <= j
    BY <1>2, FirstExists
  <1> QED  BY <1>3 DEF Min

LEMMA MaxIsIn ==
    ASSUME plan \in Plans, NEW S \in SUBSET DOMAIN plan.tools, S # {}
    PROVE  Max(S) \in S
  <1>1. PICK n \in Nat : DOMAIN plan.tools = 1..n
    BY PlanTools
  <1>2. \E i \in S : \A j \in S : i >= j
    BY <1>1, LastExists
  <1> QED  BY <1>2 DEF Max

-----------------------------------------------------------------------------
(***************************************************************************)
(* Types                                                                   *)
(***************************************************************************)

\* What was within the bounds stays within them when they grow.
LEMMA RecordsGrow ==
    ASSUME NEW p, NEW n \in Nat, NEW m \in Nat, n <= m
    PROVE  RecordsTo(p, n) \subseteq RecordsTo(p, m)
  <1>1. 0..n \subseteq 0..m
    OBVIOUS
  <1>2. OutcomesTo(n) \subseteq OutcomesTo(m)
    BY <1>1 DEF OutcomesTo
  <1> QED  BY <1>2 DEF RecordsTo

LEMMA RequestsGrow ==
    ASSUME NEW p, NEW n \in Nat, NEW m \in Nat, n <= m,
           NEW v \in Nat, NEW w \in Nat, v <= w, NEW k \in Nat, NEW l \in Nat, k <= l
    PROVE  RequestsTo(p, n, v, k) \subseteq RequestsTo(p, m, w, l)
  <1>1. RecordsTo(p, n) \subseteq RecordsTo(p, m)
    BY RecordsGrow
  <1>2. 0..v \subseteq 0..w /\ 1..k \subseteq 1..l
    OBVIOUS
  <1> QED  BY <1>1, <1>2 DEF RequestsTo

LEMMA ActionsGrow ==
    ASSUME NEW p, NEW n \in Nat, NEW m \in Nat, n <= m
    PROVE  ActionsTo(p, n) \subseteq ActionsTo(p, m)
  <1>1. RecordsTo(p, n) \subseteq RecordsTo(p, m)
    BY RecordsGrow
  <1> QED  BY <1>1 DEF ActionsTo

\* A request that is under way, field by field.
LEMMA RequestFields ==
    ASSUME Types, NEW r \in Requests, req[r].at # "idle" \/ req[r] # Idle
    PROVE  /\ req[r] \in RequestsTo(plan, book.ids, book.version, action.revision)
           /\ req[r] # Idle
           /\ req[r].at \in Phases /\ req[r].kind \in RequestKinds /\ req[r].key \in Keys
           /\ req[r].rev \in 1..action.revision /\ req[r].tools \in RecordsTo(plan, book.ids)
           /\ req[r].operation \in BOOLEAN /\ req[r].version \in 0..book.version
           /\ UndoKey(r) \in UndoKeys
  <1>1. req[r] # Idle
    BY DEF Idle
  <1>2. req[r] \in {Idle} \cup RequestsTo(plan, book.ids, book.version, action.revision)
    BY DEF Types, ReqOK
  <1>3. req[r] \in RequestsTo(plan, book.ids, book.version, action.revision)
    BY <1>1, <1>2
  <1>4. req[r].key \in Keys
    BY <1>3 DEF RequestsTo
  <1>5. UndoKey(r) \in UndoKeys
    BY <1>4 DEF UndoKey, UndoKeys
  <1> QED  BY <1>1, <1>3, <1>5 DEF RequestsTo

\* A step that changes one request.
LEMMA OneRequest ==
    ASSUME Types, NEW r \in Requests, NEW q,
           NEW n \in Nat, book.ids <= n, NEW v \in Nat, book.version <= v,
           NEW k \in Nat, action.revision <= k,
           q \in {Idle} \cup RequestsTo(plan, n, v, k)
    PROVE  [req EXCEPT ![r] = q] \in [Requests -> {Idle} \cup RequestsTo(plan, n, v, k)]
  <1>1. book.ids \in Nat /\ book.version \in Nat /\ action.revision \in Nat
    BY DEF Types, Books, ActionsTo
  <1>2. RequestsTo(plan, book.ids, book.version, action.revision) \subseteq RequestsTo(plan, n, v, k)
    BY <1>1, RequestsGrow
  <1>3. req \in [Requests -> {Idle} \cup RequestsTo(plan, book.ids, book.version, action.revision)]
    BY DEF Types, ReqOK
  <1> QED  BY <1>2, <1>3

-----------------------------------------------------------------------------
(***************************************************************************)
(* What a step of a request has to show                                    *)
(***************************************************************************)

\* Request r becomes q.  The row is never unclaimed, and whoever changes the
\* workbook, or goes on to a phase ahead of a claim, has a claimed row.
LEMMA StepKeepsInv ==
    ASSUME Inv, NEW r \in Requests, NEW q,
           plan' = plan,
           book'.ids \in Nat, book' \in Books(plan, book'.ids), book.ids <= book'.ids,
           book' = book \/ (Engaged /\ book.version < book'.version),
           action' \in ActionsTo(plan, book'.ids), RevisionOK(action'),
           action.revision <= action'.revision, Engaged => Claimed(action'),
           req' = [req EXCEPT ![r] = q],
           q \in {Idle} \cup RequestsTo(plan, book'.ids, book'.version, action'.revision),
           q.at \in Ahead => Claimed(action'),
           state' \in States, applied' \in 0..book'.version,
           made' \in 0..MaxRequests, disturbed' \in 0..MaxDisturbances, unusual' \subseteq Unusuals
    PROVE  Inv'
  <1>1. Types
    BY DEF Inv
  <1>2. book.version \in Nat \ {0} /\ book'.version \in Nat \ {0} /\ book.version <= book'.version
    BY <1>1 DEF Types, Books
  <1>3. action'.revision \in Nat
    BY DEF ActionsTo
  <1>4. req' \in [Requests -> {Idle} \cup RequestsTo(plan, book'.ids, book'.version, action'.revision)]
    BY <1>1, <1>2, <1>3, OneRequest
  <1>5. Types'
    BY <1>1, <1>4 DEF Types, ReqOK
  <1>6. AheadIsEngaged'
    <2> SUFFICES ASSUME NEW s \in Requests, req'[s].at \in Ahead
                 PROVE  Claimed(action')
      BY DEF AheadIsEngaged, Engaged, Claimed
    <2>1. CASE s = r
      <3>1. req'[s] = q
        BY <2>1, <1>1 DEF Types, ReqOK
      <3> QED  BY <3>1
    <2>2. CASE s # r
      <3>1. req'[s] = req[s]
        BY <2>2, <1>1 DEF Types, ReqOK
      <3> QED  BY <3>1 DEF Inv, AheadIsEngaged
    <2> QED  BY <2>1, <2>2
  <1>7. NothingWithoutApproval'
    <2>1. CASE book' = book
      <3>1. Left' <=> Left
        BY <2>1 DEF Left, ToolsLeft
      <3>2. ~Claimed(action') => ~Left
        BY DEF Inv, NothingWithoutApproval, Engaged, Claimed
      <3> QED  BY <3>1, <3>2 DEF NothingWithoutApproval, Claimed
    <2>2. CASE Engaged
      BY <2>2 DEF NothingWithoutApproval, Claimed
    <2> QED  BY <2>1, <2>2
  <1>8. VersionTells'
    <2>1. CASE book' = book
      BY <2>1 DEF Inv, VersionTells, AsPlanned
    <2>2. CASE book.version < book'.version
      BY <2>2, <1>2 DEF VersionTells, BaseVersion
    <2> QED  BY <2>1, <2>2
  <1> QED  BY <1>5, <1>6, <1>7, <1>8 DEF Inv

\* A step that leaves the workbook alone.
LEMMA RowStepKeepsInv ==
    ASSUME Inv, NEW r \in Requests, NEW q,
           plan' = plan, book' = book,
           action' \in ActionsTo(plan, book.ids), RevisionOK(action'),
           action.revision <= action'.revision, Engaged => Claimed(action'),
           req' = [req EXCEPT ![r] = q],
           q \in {Idle} \cup RequestsTo(plan, book.ids, book.version, action'.revision),
           q.at \in Ahead => Claimed(action'),
           state' \in States, applied' \in 0..book.version,
           made' \in 0..MaxRequests, disturbed' \in 0..MaxDisturbances, unusual' \subseteq Unusuals
    PROVE  Inv'
  <1>1. book.ids \in Nat /\ book \in Books(plan, book.ids)
    BY DEF Inv, Types
  <1>2. book'.ids = book.ids /\ book'.version = book.version
    OBVIOUS
  <1>3. book'.ids \in Nat /\ book' \in Books(plan, book'.ids) /\ book.ids <= book'.ids
    BY <1>1, <1>2
  <1>4. action' \in ActionsTo(plan, book'.ids) /\ applied' \in 0..book'.version
        /\ q \in {Idle} \cup RequestsTo(plan, book'.ids, book'.version, action'.revision)
    BY <1>2
  <1> QED  BY <1>3, <1>4, StepKeepsInv

\* A step that leaves the row alone too.
LEMMA PhaseStepKeepsInv ==
    ASSUME Inv, NEW r \in Requests, NEW q,
           plan' = plan, book' = book, action' = action,
           req' = [req EXCEPT ![r] = q],
           q \in {Idle} \cup RequestsTo(plan, book.ids, book.version, action.revision),
           q.at \in Ahead => Engaged,
           state' \in States, applied' \in 0..book.version,
           made' \in 0..MaxRequests, disturbed' \in 0..MaxDisturbances, unusual' \subseteq Unusuals
    PROVE  Inv'
  <1>1. action \in ActionsTo(plan, book.ids) /\ RevisionOK(action) /\ action.revision \in Nat
    BY DEF Inv, Types, ActionsTo
  <1>2. action' \in ActionsTo(plan, book.ids) /\ RevisionOK(action') /\ action.revision <= action'.revision
    BY <1>1
  <1>3. Claimed(action') <=> Engaged
    BY DEF Claimed, Engaged
  <1>4. q \in {Idle} \cup RequestsTo(plan, book.ids, book.version, action'.revision)
    OBVIOUS
  <1> QED  BY <1>2, <1>3, <1>4, RowStepKeepsInv

\* What every step that changes neither the counters nor applied may use.
LEMMA CounterTypes ==
    ASSUME Inv
    PROVE  /\ state \in States /\ applied \in 0..book.version
           /\ made \in 0..MaxRequests /\ disturbed \in 0..MaxDisturbances /\ unusual \subseteq Unusuals
  BY DEF Inv, Types

\* A request goes on to another phase.
LEMMA GoesStep ==
    ASSUME Inv, NEW r \in Requests, NEW phase \in Phases, req[r].at # "idle",
           phase \in Ahead => Engaged, Goes(r, phase),
           plan' = plan, book' = book, action' = action,
           state' \in States, applied' = applied,
           made' = made, disturbed' \in 0..MaxDisturbances, unusual' = unusual
    PROVE  Inv'
  <1> DEFINE q == [req[r] EXCEPT !.at = phase]
  <1>1. req[r] \in RequestsTo(plan, book.ids, book.version, action.revision)
    BY RequestFields DEF Inv
  <1>2. q \in RequestsTo(plan, book.ids, book.version, action.revision) /\ q.at = phase
    BY <1>1 DEF RequestsTo
  <1>3. req' = [req EXCEPT ![r] = q]
    BY DEF Goes
  <1> HIDE DEF q
  <1> QED  BY <1>2, <1>3, CounterTypes, PhaseStepKeepsInv

\* A request ends.
LEMMA LeavesStep ==
    ASSUME Inv, NEW r \in Requests, Leaves(r),
           plan' = plan, book' = book,
           action' \in ActionsTo(plan, book.ids), RevisionOK(action'),
           action.revision <= action'.revision, Engaged => Claimed(action'),
           state' \in States, applied' \in 0..book.version,
           made' = made, disturbed' \in 0..MaxDisturbances, unusual' \subseteq Unusuals
    PROVE  Inv'
  <1>1. req' = [req EXCEPT ![r] = Idle]
    BY DEF Leaves
  <1>2. Idle.at \notin Ahead
    BY DEF Idle, Ahead, Phases
  <1> HIDE DEF Idle
  <1> QED  BY <1>1, <1>2, CounterTypes, RowStepKeepsInv

\* The row as it is satisfies what a changed row has to.
LEMMA SameRow ==
    ASSUME Inv, action' = action
    PROVE  /\ action' \in ActionsTo(plan, book.ids) /\ RevisionOK(action')
           /\ action.revision <= action'.revision /\ (Engaged => Claimed(action'))
  BY DEF Inv, Types, ActionsTo, Engaged, Claimed

LEMMA MarkFailedRow ==
    ASSUME Inv, MarkFailed
    PROVE  /\ action' \in ActionsTo(plan, book.ids) /\ RevisionOK(action')
           /\ action.revision <= action'.revision /\ (Engaged => Claimed(action'))
  <1>1. action \in ActionsTo(plan, book.ids) /\ RevisionOK(action)
    BY DEF Inv, Types
  <1>2. action' = [action EXCEPT !.status = IF @ \in {"applying", "undoing"} THEN "failed" ELSE @]
    BY DEF MarkFailed
  <1> QED  BY <1>1, <1>2 DEF ActionsTo, RunStatuses, RevisionOK, Engaged, Claimed

LEMMA FailsState ==
    ASSUME Inv, NEW r \in Requests, Fails(r)
    PROVE  state' \in States /\ Leaves(r)
  BY CounterTypes DEF Fails, States

\* A request goes on to another phase and changes the row.
LEMMA RowGoesStep ==
    ASSUME Inv, NEW r \in Requests, NEW phase \in Phases, req[r].at # "idle", Goes(r, phase),
           plan' = plan, book' = book,
           action' \in ActionsTo(plan, book.ids), RevisionOK(action'),
           action.revision <= action'.revision, Engaged => Claimed(action'),
           phase \in Ahead => Claimed(action'),
           state' \in States, applied' = applied,
           made' = made, disturbed' = disturbed, unusual' = unusual
    PROVE  Inv'
  <1> DEFINE q == [req[r] EXCEPT !.at = phase]
  <1>1. req[r] \in RequestsTo(plan, book.ids, book.version, action.revision)
    BY RequestFields DEF Inv
  <1>2. book.ids \in Nat /\ book.version \in Nat /\ action.revision \in Nat /\ action'.revision \in Nat
    BY DEF Inv, Types, Books, ActionsTo
  <1>3. req[r] \in RequestsTo(plan, book.ids, book.version, action'.revision)
    BY <1>1, <1>2, RequestsGrow
  <1>4. q \in RequestsTo(plan, book.ids, book.version, action'.revision) /\ q.at = phase
    BY <1>3 DEF RequestsTo
  <1>5. req' = [req EXCEPT ![r] = q]
    BY DEF Goes
  <1> HIDE DEF q
  <1> QED  BY <1>4, <1>5, CounterTypes, RowStepKeepsInv

\* A request that has a claim changes the workbook.
LEMMA BookStepKeepsInv ==
    ASSUME Inv, NEW r \in Requests, Engaged, NEW q,
           plan' = plan, action' = action,
           book'.ids \in Nat, book' \in Books(plan, book'.ids), book.ids <= book'.ids,
           book' = book \/ book.version < book'.version,
           req' = [req EXCEPT ![r] = q],
           q \in RequestsTo(plan, book'.ids, book'.version, action.revision),
           state' = state, applied' = applied,
           made' = made, disturbed' = disturbed, unusual' = unusual
    PROVE  Inv'
  <1>1. action \in ActionsTo(plan, book.ids) /\ RevisionOK(action) /\ book.ids \in Nat
    BY DEF Inv, Types
  <1>2. action' \in ActionsTo(plan, book'.ids)
    BY <1>1, ActionsGrow
  <1>3. action.revision \in Nat
    BY <1>1 DEF ActionsTo
  <1>4. book.version \in Nat /\ book'.version \in Nat
    BY DEF Inv, Types, Books
  <1>5. applied' \in 0..book'.version
    BY <1>4, CounterTypes
  <1>6. Claimed(action')
    BY DEF Engaged, Claimed
  <1>7. RevisionOK(action') /\ action.revision <= action'.revision
    BY <1>1, <1>3
  <1>8. q \in {Idle} \cup RequestsTo(plan, book'.ids, book'.version, action'.revision)
    OBVIOUS
  <1> QED  BY <1>2, <1>5, <1>6, <1>7, <1>8, CounterTypes, StepKeepsInv

\* Whoever is ahead has a claimed row.
LEMMA AheadFacts ==
    ASSUME Inv, NEW r \in Requests, req[r].at \in Ahead
    PROVE  Engaged /\ req[r].at # "idle"
  BY DEF Inv, AheadIsEngaged, Ahead, Phases

-----------------------------------------------------------------------------
(***************************************************************************)
(* Requests arrive                                                         *)
(***************************************************************************)

LEMMA ArrivesKeepsInv ==
    ASSUME Inv, NEW r \in Requests, NEW kind \in RequestKinds, NEW k \in Keys,
           NEW revision \in 1..action.revision, NEW phase \in Phases,
           phase \in Ahead => Engaged,
           Arrives(r, kind, k, revision, phase), state' \in States
    PROVE  Inv'
  <1> DEFINE q == [at |-> phase, kind |-> kind, key |-> k, rev |-> revision,
                   tools |-> action.tools, operation |-> action.operation, version |-> applied]
  <1>1. action.tools \in RecordsTo(plan, book.ids) /\ action.operation \in BOOLEAN
        /\ applied \in 0..book.version
    BY DEF Inv, Types, ActionsTo
  <1>2. q \in RequestsTo(plan, book.ids, book.version, action.revision) /\ q.at = phase
    BY <1>1 DEF RequestsTo
  <1>3. /\ req' = [req EXCEPT ![r] = q]
        /\ made < MaxRequests /\ made' = made + 1 /\ unusual' = Unusual(kind, k)
        /\ plan' = plan /\ action' = action /\ applied' = applied /\ book' = book
        /\ disturbed' = disturbed
    BY DEF Arrives
  <1>4. made' \in 0..MaxRequests
    BY <1>3, CounterTypes, NumbersAssumption
  <1>5. unusual' \subseteq Unusuals
    BY <1>3, CounterTypes DEF Unusual, Unusuals
  <1> HIDE DEF q
  <1> QED  BY <1>2, <1>3, <1>4, <1>5, CounterTypes, PhaseStepKeepsInv

LEMMA RequestsKeepInv ==
    ASSUME Inv, NEW r \in Requests, NEW k \in Keys, NEW revision \in 1..action.revision,
           \/ ApproveRun(r, k, revision) \/ RollbackChangeSet(r, k, revision)
           \/ ApproveAction(r, k, revision) \/ UndoAction(r, k, revision)
    PROVE  Inv'
  <1>1. CASE ApproveRun(r, k, revision)
    <2> DEFINE phase == CASE plan.cells -> "approve"
                          [] ~plan.cells /\ action.status = "applying" /\ action.key = k -> "tools"
                          [] OTHER -> "version"
    <2>1. Arrives(r, "approve", k, revision, phase) /\ state' \in States
      BY <1>1 DEF ApproveRun, States
    <2>2. plan.cells \in BOOLEAN
      BY DEF Inv, Types, Plans
    <2>3. \/ phase \in {"approve", "version"}
          \/ phase = "tools" /\ action.status = "applying"
      BY <2>2
    <2>4. phase \in Phases /\ (phase \in Ahead => Engaged)
      BY <2>3 DEF Phases, Ahead, Engaged, Claimed
    <2> HIDE DEF phase
    <2>5. "approve" \in RequestKinds
      BY DEF RequestKinds
    <2> QED  BY <2>1, <2>4, <2>5, ArrivesKeepsInv
  <1>2. CASE RollbackChangeSet(r, k, revision)
    <2>1. Arrives(r, "rollback", k, revision, "check") /\ state' \in States
      BY <1>2, CounterTypes DEF RollbackChangeSet
    <2>2. "check" \in Phases /\ "rollback" \in RequestKinds
      BY DEF Phases, RequestKinds
    <2>3. Engaged
      BY <1>2 DEF RollbackChangeSet, Engaged, Claimed
    <2> QED  BY <2>1, <2>2, <2>3, ArrivesKeepsInv
  <1>3. CASE ApproveAction(r, k, revision)
    <2>1. Arrives(r, "approveCells", k, revision, "approve") /\ state' \in States
      BY <1>3, CounterTypes DEF ApproveAction
    <2>2. "approve" \in Phases /\ "approve" \notin Ahead /\ "approveCells" \in RequestKinds
      BY DEF Phases, Ahead, RequestKinds
    <2> QED  BY <2>1, <2>2, ArrivesKeepsInv
  <1>4. CASE UndoAction(r, k, revision)
    <2>1. Arrives(r, "undoCells", k, revision, "undo") /\ state' \in States
      BY <1>4, CounterTypes DEF UndoAction
    <2>2. "undo" \in Phases /\ "undo" \notin Ahead /\ "undoCells" \in RequestKinds
      BY DEF Phases, Ahead, RequestKinds
    <2> QED  BY <2>1, <2>2, ArrivesKeepsInv
  <1> QED  BY <1>1, <1>2, <1>3, <1>4

\* A cancelled run was not claimed, so nothing of it is in the workbook and
\* nobody is past a claim.
LEMMA CancelRunKeepsInv ==
    ASSUME Inv, NEW revision, CancelRun(revision)
    PROVE  Inv'
  <1>1. /\ action.status = "planned"
        /\ action' = [action EXCEPT !.status = "cancelled", !.revision = @ + 1]
        /\ state' = "cancelled"
        /\ plan' = plan /\ applied' = applied /\ book' = book /\ req' = req
        /\ made' = made /\ disturbed' = disturbed /\ unusual' = unusual
    BY DEF CancelRun
  <1>2. action \in ActionsTo(plan, book.ids) /\ action.revision = 1
    BY <1>1 DEF Inv, Types, RevisionOK
  <1>3. action' \in ActionsTo(plan, book.ids) /\ RevisionOK(action') /\ action'.revision = 2
        /\ action'.status = "cancelled"
    <2>1. action' = [action EXCEPT !.status = "cancelled", !.revision = 2]
      BY <1>1, <1>2
    <2>2. action' \in ActionsTo(plan, book.ids) /\ action'.revision = 2 /\ action'.status = "cancelled"
      <3>1. "cancelled" \in RunStatuses /\ 2 \in 1..3
        BY DEF RunStatuses
      <3> QED  BY <1>2, <2>1, <3>1 DEF ActionsTo
    <2> QED  BY <2>2 DEF RevisionOK
  <1>4. book.ids \in Nat /\ book.version \in Nat
    BY DEF Inv, Types, Books
  <1>5. RequestsTo(plan, book.ids, book.version, 1) \subseteq RequestsTo(plan, book.ids, book.version, 2)
    BY <1>4, RequestsGrow
  <1>6. ReqOK'
    BY <1>1, <1>2, <1>3, <1>5 DEF Inv, Types, ReqOK
  <1>7. Types'
    BY <1>1, <1>3, <1>6, CounterTypes DEF Inv, Types, States
  <1>8. ~Engaged
    BY <1>1 DEF Engaged, Claimed
  <1>9. AheadIsEngaged'
    BY <1>1, <1>8 DEF Inv, AheadIsEngaged
  <1>10. NothingWithoutApproval'
    BY <1>1 DEF Inv, NothingWithoutApproval, Left, ToolsLeft
  <1>11. VersionTells'
    BY <1>1 DEF Inv, VersionTells, AsPlanned
  <1> QED  BY <1>7, <1>9, <1>10, <1>11 DEF Inv

-----------------------------------------------------------------------------
(***************************************************************************)
(* Approve                                                                 *)
(***************************************************************************)

\* A request goes on to the tools with the outcomes the row records.
LEMMA ToToolsStep ==
    ASSUME Inv, NEW r \in Requests, req[r].at # "idle",
           req' = [req EXCEPT ![r].at = "tools", ![r].tools = action.tools, ![r].operation = TRUE],
           plan' = plan, book' = book,
           action' \in ActionsTo(plan, book.ids), RevisionOK(action'),
           action'.revision = action.revision, Claimed(action'),
           state' = state, applied' = applied,
           made' = made, disturbed' = disturbed, unusual' = unusual
    PROVE  Inv'
  <1> DEFINE q == [req[r] EXCEPT !.at = "tools", !.tools = action.tools, !.operation = TRUE]
  <1>1. req[r] \in RequestsTo(plan, book.ids, book.version, action.revision)
    BY RequestFields DEF Inv
  <1>2. action.tools \in RecordsTo(plan, book.ids)
    BY DEF Inv, Types, ActionsTo
  <1>3. q \in RequestsTo(plan, book.ids, book.version, action'.revision)
    BY <1>1, <1>2 DEF RequestsTo, Phases
  <1>4. req' = [req EXCEPT ![r] = q]
    OBVIOUS
  <1>5. action.revision <= action'.revision
    BY DEF Inv, Types, ActionsTo
  <1> HIDE DEF q
  <1> QED  BY <1>3, <1>4, <1>5, CounterTypes, RowStepKeepsInv

LEMMA ReadForApprovalKeepsInv ==
    ASSUME Inv, NEW r \in Requests, ReadForApproval(r)
    PROVE  Inv'
  <1>1. /\ req[r].at = "approve"
        /\ plan' = plan /\ action' = action /\ applied' = applied /\ book' = book
        /\ made' = made /\ disturbed' = disturbed /\ unusual' = unusual
    BY DEF ReadForApproval
  <1>2. "apply" \in Phases /\ "claim" \in Phases /\ "claim" \notin Ahead
    BY DEF Phases, Ahead
  <1>3. CASE /\ action.status = "applied" /\ state' = state
             /\ req' = [req EXCEPT ![r].at = "tools", ![r].tools = action.tools, ![r].operation = TRUE]
    <2>1. Claimed(action')
      BY <1>1, <1>3 DEF Claimed
    <2> QED  BY <1>1, <1>3, <2>1, SameRow, ToToolsStep
  <1>4. CASE Leaves(r) /\ state' = state
    BY <1>1, <1>4, SameRow, CounterTypes, LeavesStep
  <1>5. CASE action.status = "applying" /\ Goes(r, "apply") /\ state' = state
    <2>1. Engaged
      BY <1>5 DEF Engaged, Claimed
    <2> QED  BY <1>1, <1>2, <1>5, <2>1, CounterTypes, GoesStep
  <1>6. CASE Goes(r, "claim") /\ state' = state
    BY <1>1, <1>2, <1>6, CounterTypes, GoesStep
  <1>7. CASE Fails(r)
    BY <1>1, <1>7, SameRow, FailsState, CounterTypes, LeavesStep
  <1> QED  BY <1>3, <1>4, <1>5, <1>6, <1>7 DEF ReadForApproval

LEMMA ReadVersionKeepsInv ==
    ASSUME Inv, NEW r \in Requests, ReadVersion(r)
    PROVE  Inv'
  <1>1. /\ req[r].at = "version"
        /\ plan' = plan /\ action' = action /\ applied' = applied /\ book' = book
        /\ made' = made /\ disturbed' = disturbed /\ unusual' = unusual
    BY DEF ReadVersion
  <1>2. "claim" \in Phases /\ "claim" \notin Ahead
    BY DEF Phases, Ahead
  <1>3. CASE Goes(r, "claim") /\ state' = state
    BY <1>1, <1>2, <1>3, CounterTypes, GoesStep
  <1>4. CASE Fails(r)
    BY <1>1, <1>4, SameRow, FailsState, CounterTypes, LeavesStep
  <1> QED  BY <1>3, <1>4 DEF ReadVersion

LEMMA ClaimKeepsInv ==
    ASSUME Inv, NEW r \in Requests, Claim(r)
    PROVE  Inv'
  <1>1. /\ req[r].at = "claim" /\ req[r].at # "idle"
        /\ plan' = plan /\ applied' = applied /\ book' = book
        /\ made' = made /\ disturbed' = disturbed /\ unusual' = unusual
    BY DEF Claim
  <1>2. CASE /\ action.status = "planned"
             /\ action' = [action EXCEPT !.status = "applying", !.revision = @ + 1, !.key = req[r].key]
             /\ Goes(r, IF plan.cells THEN "apply" ELSE "tools")
             /\ state' = state
    <2>1. req[r].key \in Keys
      BY <1>1, RequestFields DEF Inv
    <2>2. action \in ActionsTo(plan, book.ids) /\ action.revision = 1
      BY <1>2 DEF Inv, Types, RevisionOK
    <2>3. action' \in ActionsTo(plan, book.ids) /\ RevisionOK(action')
          /\ action.revision <= action'.revision /\ Claimed(action')
      <3>1. action' = [action EXCEPT !.status = "applying", !.revision = 2, !.key = req[r].key]
        BY <1>2, <2>2
      <3>2. action' \in ActionsTo(plan, book.ids) /\ action'.revision = 2 /\ action'.status = "applying"
        <4>1. "applying" \in RunStatuses /\ 2 \in 1..3
          BY DEF RunStatuses
        <4> QED  BY <2>1, <2>2, <3>1, <4>1 DEF ActionsTo
      <3> QED  BY <2>2, <3>2 DEF RevisionOK, Claimed
    <2> DEFINE phase == IF plan.cells THEN "apply" ELSE "tools"
    <2>4. phase \in Phases /\ Goes(r, phase)
      BY <1>2 DEF Phases
    <2> HIDE DEF phase
    <2> QED  BY <1>1, <1>2, <2>3, <2>4, CounterTypes, RowGoesStep
  <1>3. CASE Goes(r, "approve") /\ action' = action /\ state' = state
    <2>1. "approve" \in Phases /\ "approve" \notin Ahead
      BY DEF Phases, Ahead
    <2> QED  BY <1>1, <1>3, <2>1, CounterTypes, GoesStep
  <1>4. CASE Fails(r) /\ action' = action
    BY <1>1, <1>4, SameRow, FailsState, CounterTypes, LeavesStep
  <1> QED  BY <1>2, <1>3, <1>4 DEF Claim

\* The operation of the approval or of its undo: one more version, one more key.
LEMMA CellsBook ==
    ASSUME Inv, NEW key \in OpKeys, NEW c \in {"before", "agent", "displaced", "other"}, NEW b,
           b = [book EXCEPT !.version = @ + 1, !.ops = @ \cup {key}, !.cells = c]
    PROVE  /\ b \in Books(plan, b.ids) /\ b.ids = book.ids /\ b.ids \in Nat
           /\ b.version = book.version + 1 /\ book.version < b.version
  <1>1. book.ids \in Nat /\ book \in Books(plan, book.ids)
    BY DEF Inv, Types
  <1>2. book.version \in Nat /\ book.version + 1 \in Nat \ {0} /\ book.ops \cup {key} \in SUBSET OpKeys
    BY <1>1 DEF Books
  <1>3. b = [book EXCEPT !.version = book.version + 1, !.ops = book.ops \cup {key}, !.cells = c]
    BY <1>1 DEF Books
  <1>4. b \in Books(plan, book.ids) /\ b.ids = book.ids /\ b.version = book.version + 1
    BY <1>1, <1>2, <1>3 DEF Books
  <1> QED  BY <1>1, <1>2, <1>4

\* A request that has a claim writes the cells and goes on.
LEMMA CellsStep ==
    ASSUME Inv, NEW r \in Requests, Engaged, req[r].at # "idle", NEW phase \in Phases, Goes(r, phase),
           NEW key \in OpKeys, NEW c \in {"before", "agent", "displaced", "other"},
           book' = [book EXCEPT !.version = @ + 1, !.ops = @ \cup {key}, !.cells = c],
           plan' = plan, action' = action, state' = state, applied' = applied,
           made' = made, disturbed' = disturbed, unusual' = unusual
    PROVE  Inv'
  <1> DEFINE q == [req[r] EXCEPT !.at = phase]
  <1>1. /\ book' \in Books(plan, book'.ids) /\ book'.ids = book.ids /\ book'.ids \in Nat
        /\ book'.version = book.version + 1 /\ book.version < book'.version
    BY CellsBook
  <1>2. req[r] \in RequestsTo(plan, book.ids, book.version, action.revision)
    BY RequestFields DEF Inv
  <1>3. book.version \in Nat /\ book'.version \in Nat /\ action.revision \in Nat
    BY DEF Inv, Types, Books, ActionsTo
  <1>4. book.ids <= book'.ids /\ book.version <= book'.version /\ book.ids \in Nat
    BY <1>1, <1>3
  <1>5. req[r] \in RequestsTo(plan, book'.ids, book'.version, action.revision)
    BY <1>1, <1>2, <1>3, <1>4, RequestsGrow
  <1>6. q \in RequestsTo(plan, book'.ids, book'.version, action.revision)
    BY <1>5 DEF RequestsTo
  <1>7. req' = [req EXCEPT ![r] = q]
    BY DEF Goes
  <1> HIDE DEF q
  <1> QED  BY <1>1, <1>4, <1>6, <1>7, BookStepKeepsInv

LEMMA ApplyApprovedKeepsInv ==
    ASSUME Inv, NEW r \in Requests, ApplyApproved(r)
    PROVE  Inv'
  <1> DEFINE key == <<"approve", req[r].key>>
             c == IF book.cells = "before" THEN "agent" ELSE book.cells
  <1>1. /\ req[r].at = "apply"
        /\ plan' = plan /\ applied' = applied
        /\ made' = made /\ disturbed' = disturbed /\ unusual' = unusual
    BY DEF ApplyApproved
  <1>2. "record" \in Phases /\ Engaged /\ req[r].at # "idle"
    BY <1>1, AheadFacts DEF Phases, Ahead
  <1>3. CASE Goes(r, "record") /\ action' = action /\ state' = state /\ book' = book
    BY <1>1, <1>2, <1>3, CounterTypes, GoesStep
  <1>4. CASE /\ book' = [book EXCEPT !.version = @ + 1, !.ops = @ \cup {key}, !.cells = c]
             /\ Goes(r, "record") /\ action' = action /\ state' = state
    <2>1. key \in OpKeys
      <3>1. req[r].key \in Keys
        BY <1>2, RequestFields DEF Inv
      <3> QED  BY <3>1 DEF OpKeys
    <2>2. c \in {"before", "agent", "displaced", "other"}
      BY DEF Inv, Types, Books
    <2> HIDE DEF key, c
    <2> QED  BY <1>1, <1>2, <1>4, <2>1, <2>2, CellsStep
  <1>5. CASE MarkFailed /\ Fails(r) /\ book' = book
    BY <1>1, <1>5, MarkFailedRow, FailsState, CounterTypes, LeavesStep
  <1> QED  BY <1>3, <1>4, <1>5 DEF ApplyApproved

LEMMA ApplyRefusedKeepsInv ==
    ASSUME Inv, NEW r \in Requests, ApplyRefused(r)
    PROVE  Inv'
  <1>1. /\ disturbed < MaxDisturbances /\ disturbed' = disturbed + 1
        /\ MarkFailed /\ Fails(r)
        /\ plan' = plan /\ applied' = applied /\ book' = book /\ made' = made /\ unusual' = unusual
    BY DEF ApplyRefused
  <1>2. disturbed' \in 0..MaxDisturbances
    BY <1>1, CounterTypes, NumbersAssumption
  <1> QED  BY <1>1, <1>2, MarkFailedRow, FailsState, CounterTypes, LeavesStep

LEMMA completeApprovalKeepsInv ==
    ASSUME Inv, NEW r \in Requests, completeApproval(r)
    PROVE  Inv'
  <1>1. /\ req[r].at = "record" /\ req[r].at # "idle"
        /\ plan' = plan /\ applied' = applied /\ book' = book
        /\ made' = made /\ disturbed' = disturbed /\ unusual' = unusual
    BY DEF completeApproval
  <1>2. CASE /\ action.status = "applying"
             /\ action' = [action EXCEPT !.status = "applied", !.operation = TRUE]
             /\ state' = state
             /\ \/ req' = [req EXCEPT ![r].at = "tools", ![r].tools = action.tools, ![r].operation = TRUE]
                \/ Leaves(r)
    <2>1. action \in ActionsTo(plan, book.ids) /\ RevisionOK(action) /\ action.revision \in Nat
      BY DEF Inv, Types, ActionsTo
    <2>2. action' \in ActionsTo(plan, book.ids) /\ action'.status = "applied"
          /\ action'.revision = action.revision
      BY <1>2, <2>1 DEF ActionsTo, RunStatuses
    <2>3. RevisionOK(action') /\ Claimed(action') /\ action.revision <= action'.revision
      BY <1>2, <2>1, <2>2 DEF RevisionOK, Claimed
    <2>4. CASE Leaves(r)
      BY <1>1, <1>2, <2>2, <2>3, <2>4, CounterTypes, LeavesStep
    <2>5. CASE req' = [req EXCEPT ![r].at = "tools", ![r].tools = action.tools, ![r].operation = TRUE]
      BY <1>1, <1>2, <2>2, <2>3, <2>5, ToToolsStep
    <2> QED  BY <1>2, <2>4, <2>5
  <1>3. CASE Fails(r) /\ action' = action
    BY <1>1, <1>3, SameRow, FailsState, CounterTypes, LeavesStep
  <1> QED  BY <1>2, <1>3 DEF completeApproval

-----------------------------------------------------------------------------
(***************************************************************************)
(* Undo                                                                    *)
(***************************************************************************)

LEMMA UndoneStep ==
    ASSUME Inv, NEW r \in Requests, Undone(r), req[r].at # "idle",
           plan' = plan, book' = book,
           action' \in ActionsTo(plan, book.ids), RevisionOK(action'),
           action.revision <= action'.revision, Claimed(action'),
           applied' = applied, made' = made, disturbed' = disturbed, unusual' = unusual
    PROVE  Inv'
  <1>1. CASE Goes(r, "finish") /\ state' = state
    <2>1. "finish" \in Phases
      BY DEF Phases
    <2> QED  BY <1>1, <2>1, CounterTypes, RowGoesStep
  <1>2. CASE Fails(r)
    BY <1>2, FailsState, CounterTypes, LeavesStep
  <1> QED  BY <1>1, <1>2 DEF Undone

LEMMA ReadForUndoKeepsInv ==
    ASSUME Inv, NEW r \in Requests, ReadForUndo(r)
    PROVE  Inv'
  <1>1. /\ req[r].at = "undo" /\ req[r].at # "idle"
        /\ plan' = plan /\ action' = action /\ applied' = applied /\ book' = book
        /\ made' = made /\ disturbed' = disturbed /\ unusual' = unusual
    BY DEF ReadForUndo
  <1>2. "undoApply" \in Phases /\ "undoClaim" \in Phases
    BY DEF Phases
  <1>3. CASE action.status = "undone" /\ Undone(r)
    <2>1. Claimed(action')
      BY <1>1, <1>3 DEF Claimed
    <2> QED  BY <1>1, <1>3, <2>1, SameRow, UndoneStep
  <1>4. CASE action.status = "undoing" /\ Goes(r, "undoApply") /\ state' = state
    <2>1. Engaged
      BY <1>4 DEF Engaged, Claimed
    <2> QED  BY <1>1, <1>2, <1>4, <2>1, CounterTypes, GoesStep
  <1>5. CASE action.status = "applied" /\ Goes(r, "undoClaim") /\ state' = state
    <2>1. Engaged
      BY <1>5 DEF Engaged, Claimed
    <2> QED  BY <1>1, <1>2, <1>5, <2>1, CounterTypes, GoesStep
  <1>6. CASE Fails(r)
    BY <1>1, <1>6, SameRow, FailsState, CounterTypes, LeavesStep
  <1> QED  BY <1>3, <1>4, <1>5, <1>6 DEF ReadForUndo

\* The row of an applied run gets its undo key and the last revision.
LEMMA UndoRow ==
    ASSUME Inv, NEW key \in UndoKeys, NEW s \in {"undoing", "undone"}, action.status = "applied",
           action' = [action EXCEPT !.status = s, !.revision = @ + 1, !.undoKey = key]
    PROVE  /\ action' \in ActionsTo(plan, book.ids) /\ RevisionOK(action')
           /\ action.revision <= action'.revision /\ Claimed(action')
  <1>1. action \in ActionsTo(plan, book.ids) /\ action.revision = 2
    BY DEF Inv, Types, RevisionOK
  <1>2. action' = [action EXCEPT !.status = s, !.revision = 3, !.undoKey = key]
    BY <1>1
  <1>3. s \in RunStatuses /\ 3 \in 1..3
    BY DEF RunStatuses
  <1>4. action' \in ActionsTo(plan, book.ids) /\ action'.revision = 3 /\ action'.status = s
    BY <1>1, <1>2, <1>3 DEF ActionsTo
  <1> QED  BY <1>1, <1>4 DEF RevisionOK, Claimed

LEMMA ClaimUndoKeepsInv ==
    ASSUME Inv, NEW r \in Requests, ClaimUndo(r)
    PROVE  Inv'
  <1>1. /\ req[r].at = "undoClaim" /\ req[r].at # "idle"
        /\ plan' = plan /\ state' = state /\ applied' = applied /\ book' = book
        /\ made' = made /\ disturbed' = disturbed /\ unusual' = unusual
    BY DEF ClaimUndo
  <1>2. CASE /\ action.status = "applied"
             /\ action' = [action EXCEPT !.status = "undoing", !.revision = @ + 1, !.undoKey = UndoKey(r)]
             /\ Goes(r, "undoApply")
    <2>1. UndoKey(r) \in UndoKeys
      BY <1>1, RequestFields DEF Inv
    <2>2. /\ action' \in ActionsTo(plan, book.ids) /\ RevisionOK(action')
          /\ action.revision <= action'.revision /\ Claimed(action')
      BY <1>2, <2>1, UndoRow
    <2>3. "undoApply" \in Phases
      BY DEF Phases
    <2> QED  BY <1>1, <1>2, <2>2, <2>3, CounterTypes, RowGoesStep
  <1>3. CASE Goes(r, "undo") /\ action' = action
    <2>1. "undo" \in Phases /\ "undo" \notin Ahead
      BY DEF Phases, Ahead
    <2> QED  BY <1>1, <1>3, <2>1, CounterTypes, GoesStep
  <1> QED  BY <1>2, <1>3 DEF ClaimUndo

\* What an undo makes of the cells and of the sorted rows.
LEMMA PutBackCells ==
    ASSUME NEW x, NEW c \in PutBack(x, "agent", "before")
    PROVE  /\ c = "before" \/ c = x
           /\ c # "agent"
           /\ x = "other" => c = "other"
  BY DEF PutBack

LEMMA PutBackRange ==
    ASSUME NEW x, NEW c \in PutBack(x, "sorted", "plain")
    PROVE  /\ c = "plain" \/ c = x
           /\ c # "sorted"
           /\ x = "theirs" => c = "theirs"
  BY DEF PutBack

LEMMA ApplyUndoKeepsInv ==
    ASSUME Inv, NEW r \in Requests, ApplyUndo(r)
    PROVE  Inv'
  <1> DEFINE key == <<"undo", UndoKey(r)>>
  <1>1. /\ req[r].at = "undoApply"
        /\ plan' = plan /\ applied' = applied
        /\ made' = made /\ disturbed' = disturbed /\ unusual' = unusual
    BY DEF ApplyUndo
  <1>2. "undoRecord" \in Phases /\ Engaged /\ req[r].at # "idle"
    BY <1>1, AheadFacts DEF Phases, Ahead
  <1>3. CASE Goes(r, "undoRecord") /\ action' = action /\ state' = state /\ book' = book
    BY <1>1, <1>2, <1>3, CounterTypes, GoesStep
  <1>4. CASE /\ \E c \in PutBack(book.cells, "agent", "before") :
                   book' = [book EXCEPT !.version = @ + 1, !.ops = @ \cup {key}, !.cells = c]
             /\ Goes(r, "undoRecord") /\ action' = action /\ state' = state
    <2>1. key \in OpKeys
      <3>1. UndoKey(r) \in UndoKeys
        BY <1>2, RequestFields DEF Inv
      <3> QED  BY <3>1 DEF OpKeys
    <2> HIDE DEF key
    <2>2. PICK c \in PutBack(book.cells, "agent", "before") :
             book' = [book EXCEPT !.version = @ + 1, !.ops = @ \cup {key}, !.cells = c]
      BY <1>4
    <2>3. c \in {"before", "agent", "displaced", "other"}
      BY <2>2, PutBackCells DEF Inv, Types, Books
    <2> QED  BY <1>1, <1>2, <1>4, <2>1, <2>2, <2>3, CellsStep
  <1>5. CASE MarkFailed /\ Fails(r) /\ book' = book
    BY <1>1, <1>5, MarkFailedRow, FailsState, CounterTypes, LeavesStep
  <1> QED  BY <1>3, <1>4, <1>5 DEF ApplyUndo

LEMMA UndoRefusedKeepsInv ==
    ASSUME Inv, NEW r \in Requests, UndoRefused(r)
    PROVE  Inv'
  <1>1. /\ req[r].at = "undoApply" /\ MarkFailed /\ Fails(r)
        /\ disturbed' = disturbed \/ (disturbed < MaxDisturbances /\ disturbed' = disturbed + 1)
        /\ plan' = plan /\ applied' = applied /\ book' = book /\ made' = made
        /\ unusual' = unusual \cup {"refused"}
    BY DEF UndoRefused
  <1>2. disturbed' \in 0..MaxDisturbances /\ unusual' \subseteq Unusuals
    BY <1>1, CounterTypes, NumbersAssumption DEF Unusuals
  <1> QED  BY <1>1, <1>2, MarkFailedRow, FailsState, CounterTypes, LeavesStep

LEMMA completeUndoKeepsInv ==
    ASSUME Inv, NEW r \in Requests, completeUndo(r)
    PROVE  Inv'
  <1>1. /\ req[r].at = "undoRecord" /\ req[r].at # "idle"
        /\ plan' = plan /\ applied' = applied /\ book' = book
        /\ made' = made /\ disturbed' = disturbed /\ unusual' = unusual
    BY DEF completeUndo
  <1>2. CASE /\ action.status = "undoing"
             /\ action' = [action EXCEPT !.status = "undone"] /\ Undone(r)
    <2>1. action \in ActionsTo(plan, book.ids) /\ action.revision \in Nat
      BY DEF Inv, Types, ActionsTo
    <2>2. action' \in ActionsTo(plan, book.ids) /\ action'.status = "undone"
          /\ action'.revision = action.revision
      BY <1>2, <2>1 DEF ActionsTo, RunStatuses
    <2>3. RevisionOK(action') /\ Claimed(action') /\ action.revision <= action'.revision
      BY <2>1, <2>2 DEF RevisionOK, Claimed
    <2> QED  BY <1>1, <1>2, <2>2, <2>3, UndoneStep
  <1>3. CASE Fails(r) /\ action' = action
    BY <1>1, <1>3, SameRow, FailsState, CounterTypes, LeavesStep
  <1> QED  BY <1>2, <1>3 DEF completeUndo

-----------------------------------------------------------------------------
(***************************************************************************)
(* The tools                                                               *)
(***************************************************************************)

\* What running or undoing a tool makes of the workbook.
Successor(b) ==
    /\ b.ids \in Nat /\ b \in Books(plan, b.ids) /\ book.ids <= b.ids
    /\ b = book \/ book.version < b.version

LEMMA BookFacts ==
    ASSUME Inv
    PROVE  /\ book.ids \in Nat /\ book \in Books(plan, book.ids)
           /\ book.version \in Nat /\ book.version + 1 \in Nat \ {0}
           /\ book.version < book.version + 1
           /\ book.things \in SUBSET Things(plan, book.ids)
           /\ book.chart \in ChartRows /\ book.chart.rev \in Nat \ {0}
           /\ Successor(book)
  <1>1. book.ids \in Nat /\ book \in Books(plan, book.ids)
    BY DEF Inv, Types
  <1>2. book.version \in Nat /\ book.version + 1 \in Nat \ {0} /\ book.version < book.version + 1
    BY <1>1 DEF Books
  <1>3. book.things \in SUBSET Things(plan, book.ids) /\ book.chart \in ChartRows
    BY <1>1 DEF Books
  <1>4. book.chart.rev \in Nat \ {0}
    BY <1>3 DEF ChartRows
  <1> QED  BY <1>1, <1>2, <1>3, <1>4 DEF Successor

LEMMA MadeFacts ==
    ASSUME Inv, NEW i \in DOMAIN plan.tools
    PROVE  Successor(Made(i).book) /\ Made(i).outcome \in OutcomesTo(Made(i).book.ids)
  <1> DEFINE n == book.ids + 1
             new == [tool |-> i, id |-> n, rev |-> 1]
             b == [book EXCEPT !.version = book.version + 1, !.ids = n, !.things = book.things \cup {new}]
  <1>1. n \in Nat /\ book.ids <= n /\ 1..book.ids \subseteq 1..n /\ n \in 1..n /\ n \in 0..n
        /\ 1 \in Nat \ {0}
    BY BookFacts
  <1>2. new \in Things(plan, n)
    BY <1>1 DEF Things
  <1>3. Things(plan, book.ids) \subseteq Things(plan, n)
    BY <1>1 DEF Things
  <1>4. book.things \cup {new} \in SUBSET Things(plan, n)
    BY <1>2, <1>3, BookFacts
  <1>5. Made(i).book = b /\ Made(i).outcome = [done |-> TRUE, id |-> n, rev |-> 1]
    BY BookFacts DEF Made, Completed, Books
  <1> HIDE DEF n, new
  <1>6. b \in Books(plan, n) /\ b.ids = n /\ b.version = book.version + 1
    BY <1>4, BookFacts DEF Books
  <1>7. Made(i).outcome \in OutcomesTo(n)
    BY <1>1, <1>5 DEF OutcomesTo
  <1> HIDE DEF b
  <1> QED  BY <1>1, <1>5, <1>6, <1>7, BookFacts DEF Successor

LEMMA CreateObjectFacts ==
    ASSUME Inv, NEW i \in DOMAIN plan.tools
    PROVE  /\ Successor(CreateObject(i).book)
           /\ CreateObject(i).outcome \in OutcomesTo(CreateObject(i).book.ids)
  <1>1. CASE ThingsOf(i) = {}
    BY <1>1, MadeFacts DEF CreateObject
  <1>2. CASE ThingsOf(i) # {}
    <2> DEFINE found == CHOOSE t \in ThingsOf(i) : TRUE
    <2>1. found \in ThingsOf(i)
      BY <1>2
    <2>2. found \in Things(plan, book.ids)
      BY <2>1, BookFacts DEF ThingsOf
    <2>3. CreateObject(i) = [book |-> book, outcome |-> Completed(found.id, found.rev)]
      BY <1>2 DEF CreateObject
    <2> HIDE DEF found
    <2>4. found.id \in 1..book.ids /\ found.rev \in Nat \ {0}
      BY <2>2 DEF Things
    <2>5. found.id \in 0..book.ids /\ found.rev \in Nat
      BY <2>4, BookFacts
    <2>6. Completed(found.id, found.rev) \in OutcomesTo(book.ids)
      BY <2>5 DEF Completed, OutcomesTo
    <2>7. CreateObject(i).book = book /\ CreateObject(i).outcome = Completed(found.id, found.rev)
      BY <2>3
    <2> QED  BY <2>6, <2>7, BookFacts
  <1> QED  BY <1>1, <1>2

LEMMA SortRangeFacts ==
    ASSUME Inv, NEW i \in Nat
    PROVE  Successor(SortRange(i).book) /\ SortRange(i).outcome \in OutcomesTo(SortRange(i).book.ids)
  <1> DEFINE key == <<"sort", i>>
             c == IF book.range = "displaced" THEN book.range ELSE "sorted"
             b == [book EXCEPT !.version = book.version + 1, !.ops = book.ops \cup {key}, !.range = c]
  <1>1. SortRange(i).book \in {book, b} /\ SortRange(i).outcome = [done |-> TRUE, id |-> 0, rev |-> 0]
    BY BookFacts DEF SortRange, Completed, Books
  <1>2. book.ops \cup {key} \in SUBSET OpKeys /\ c \in {"plain", "sorted", "displaced", "theirs"}
    BY BookFacts DEF Books, OpKeys
  <1> HIDE DEF key, c
  <1>3. b \in Books(plan, book.ids) /\ b.ids = book.ids /\ b.version = book.version + 1
    BY <1>2, BookFacts DEF Books
  <1>4. Successor(b) /\ b.ids = book.ids
    BY <1>3, BookFacts DEF Successor
  <1>5. [done |-> TRUE, id |-> 0, rev |-> 0] \in OutcomesTo(book.ids)
    BY BookFacts DEF OutcomesTo
  <1> HIDE DEF b
  <1> QED  BY <1>1, <1>4, <1>5, BookFacts

LEMMA UpdateChartFacts ==
    ASSUME Inv, NEW i
    PROVE  Successor(UpdateChart(i).book) /\ UpdateChart(i).outcome \in OutcomesTo(UpdateChart(i).book.ids)
  <1> DEFINE row == [rev |-> book.chart.rev + 1, by |-> "agent"]
             b == [book EXCEPT !.version = book.version + 1, !.chart = row]
  <1>1. book.chart.rev + 1 \in Nat \ {0}
    BY BookFacts
  <1>2. row \in ChartRows
    BY <1>1 DEF ChartRows
  <1>3. UpdateChart(i).book = b
        /\ UpdateChart(i).outcome = [done |-> TRUE, id |-> 0, rev |-> book.chart.rev + 1]
    BY BookFacts DEF UpdateChart, Completed, Books
  <1> HIDE DEF row
  <1>4. b \in Books(plan, book.ids) /\ b.ids = book.ids /\ b.version = book.version + 1
    BY <1>2, BookFacts DEF Books
  <1>5. [done |-> TRUE, id |-> 0, rev |-> book.chart.rev + 1] \in OutcomesTo(book.ids)
    BY <1>1, BookFacts DEF OutcomesTo
  <1> HIDE DEF b
  <1> QED  BY <1>3, <1>4, <1>5, BookFacts DEF Successor

\* Each tool call is one of the four kinds.
LEMMA ToolKind ==
    ASSUME Inv, NEW i \in DOMAIN plan.tools
    PROVE  plan.tools[i] \in {"object", "report", "sort", "update"} /\ i \in Nat
  <1>1. PICK n \in Nat : DOMAIN plan.tools = 1..n /\ plan.tools \in [1..n -> Kinds]
    BY PlanTools DEF Inv, Types
  <1>2. i \in 1..n /\ i \in Nat
    BY <1>1
  <1>3. plan.tools[i] \in Kinds
    BY <1>1, <1>2
  <1> QED  BY <1>2, <1>3, KindsAssumption

LEMMA RanToolFacts ==
    ASSUME Inv, NEW i \in DOMAIN plan.tools
    PROVE  Successor(RanTool(i).book) /\ RanTool(i).outcome \in OutcomesTo(RanTool(i).book.ids)
  <1>1. CASE plan.tools[i] = "object"
    <2>1. RanTool(i) = CreateObject(i)
      BY <1>1 DEF RanTool
    <2> QED  BY <2>1, CreateObjectFacts
  <1>2. CASE plan.tools[i] = "report"
    <2>1. RanTool(i) = Made(i)
      BY <1>2 DEF RanTool
    <2> QED  BY <2>1, MadeFacts
  <1>3. CASE plan.tools[i] = "sort"
    <2>1. RanTool(i) = SortRange(i)
      BY <1>3 DEF RanTool
    <2> QED  BY <2>1, ToolKind, SortRangeFacts
  <1>4. CASE plan.tools[i] = "update"
    <2>1. RanTool(i) = UpdateChart(i)
      BY <1>4 DEF RanTool
    <2> QED  BY <2>1, UpdateChartFacts
  <1> QED  BY <1>1, <1>2, <1>3, <1>4, ToolKind

\* A request that has a claim runs or undoes a tool and notes the outcome.
LEMMA ToolStep ==
    ASSUME Inv, NEW r \in Requests, Engaged, req[r].at # "idle", NEW i \in DOMAIN plan.tools, NEW o,
           Successor(book'), o \in OutcomesTo(book'.ids),
           req' = [req EXCEPT ![r].tools[i] = o],
           plan' = plan, action' = action, state' = state, applied' = applied,
           made' = made, disturbed' = disturbed, unusual' = unusual
    PROVE  Inv'
  <1> DEFINE tools == [req[r].tools EXCEPT ![i] = o]
             q == [req[r] EXCEPT !.tools = tools]
  <1>1. /\ book'.ids \in Nat /\ book' \in Books(plan, book'.ids) /\ book.ids <= book'.ids
        /\ book' = book \/ book.version < book'.version
    BY DEF Successor
  <1>2. req[r] \in RequestsTo(plan, book.ids, book.version, action.revision)
    BY RequestFields DEF Inv
  <1>3. book.version \in Nat /\ book'.version \in Nat /\ action.revision \in Nat /\ book.ids \in Nat
        /\ book.version <= book'.version
    BY <1>1 DEF Inv, Types, Books, ActionsTo
  <1>4. req[r] \in RequestsTo(plan, book'.ids, book'.version, action.revision)
    BY <1>1, <1>2, <1>3, RequestsGrow
  <1>5. req[r].tools \in RecordsTo(plan, book'.ids)
    BY <1>4 DEF RequestsTo
  <1>6. tools \in RecordsTo(plan, book'.ids)
    BY <1>5 DEF RecordsTo
  <1>7. req' = [req EXCEPT ![r] = q]
    OBVIOUS
  <1> HIDE DEF tools
  <1>8. q \in RequestsTo(plan, book'.ids, book'.version, action.revision)
    BY <1>4, <1>6 DEF RequestsTo
  <1> HIDE DEF q
  <1> QED  BY <1>1, <1>7, <1>8, BookStepKeepsInv

LEMMA RunToolKeepsInv ==
    ASSUME Inv, NEW r \in Requests, RunTool(r)
    PROVE  Inv'
  <1> DEFINE i == Min(Open(r))
  <1>1. /\ req[r].at = "tools" /\ Open(r) # {}
        /\ book' = RanTool(i).book /\ req' = [req EXCEPT ![r].tools[i] = RanTool(i).outcome]
        /\ plan' = plan /\ action' = action /\ state' = state /\ applied' = applied
        /\ made' = made /\ disturbed' = disturbed /\ unusual' = unusual
    BY DEF RunTool
  <1>2. Engaged /\ req[r].at # "idle"
    BY <1>1, AheadFacts DEF Ahead, Phases
  <1>3. Open(r) \in SUBSET DOMAIN plan.tools
    BY DEF Open
  <1>4. i \in DOMAIN plan.tools
    BY <1>1, <1>3, MinIsIn DEF Inv, Types
  <1> HIDE DEF i
  <1>5. Successor(book') /\ RanTool(i).outcome \in OutcomesTo(book'.ids)
    BY <1>1, <1>4, RanToolFacts
  <1> QED  BY <1>1, <1>2, <1>4, <1>5, ToolStep

LEMMA ToolFailsKeepsInv ==
    ASSUME Inv, NEW r \in Requests, ToolFails(r)
    PROVE  Inv'
  <1>1. /\ req[r].at = "tools" /\ Goes(r, "undoTools")
        /\ plan' = plan /\ action' = action /\ state' = state /\ applied' = applied /\ book' = book
        /\ made' = made /\ unusual' = unusual
        /\ disturbed' = disturbed \/ (disturbed < MaxDisturbances /\ disturbed' = disturbed + 1)
    BY DEF ToolFails
  <1>2. Engaged /\ req[r].at # "idle" /\ "undoTools" \in Phases
    BY <1>1, AheadFacts DEF Ahead, Phases
  <1>3. disturbed' \in 0..MaxDisturbances
    BY <1>1, CounterTypes, NumbersAssumption
  <1> QED  BY <1>1, <1>2, <1>3, CounterTypes, GoesStep

LEMMA SaveToolCallsKeepsInv ==
    ASSUME Inv, NEW r \in Requests, SaveToolCalls(r)
    PROVE  Inv'
  <1> DEFINE phase == IF plan.cells THEN "validate" ELSE "complete"
  <1>1. /\ req[r].at = "tools" /\ action' = [action EXCEPT !.tools = req[r].tools] /\ Goes(r, phase)
        /\ plan' = plan /\ state' = state /\ applied' = applied /\ book' = book
        /\ made' = made /\ disturbed' = disturbed /\ unusual' = unusual
    BY DEF SaveToolCalls
  <1>2. Engaged /\ req[r].at # "idle" /\ phase \in Phases
    BY <1>1, AheadFacts DEF Ahead, Phases
  <1>3. req[r].tools \in RecordsTo(plan, book.ids)
    BY <1>2, RequestFields DEF Inv
  <1>4. action \in ActionsTo(plan, book.ids) /\ RevisionOK(action) /\ action.revision \in Nat
    BY DEF Inv, Types, ActionsTo
  <1>5. action' \in ActionsTo(plan, book.ids) /\ action'.status = action.status
        /\ action'.revision = action.revision
    BY <1>1, <1>3, <1>4 DEF ActionsTo
  <1>6. RevisionOK(action') /\ Claimed(action') /\ action.revision <= action'.revision
    BY <1>2, <1>4, <1>5 DEF RevisionOK, Engaged, Claimed
  <1> HIDE DEF phase
  <1> QED  BY <1>1, <1>2, <1>5, <1>6, CounterTypes, RowGoesStep

LEMMA completeToolOnlyApprovalKeepsInv ==
    ASSUME Inv, NEW r \in Requests, completeToolOnlyApproval(r)
    PROVE  Inv'
  <1>1. /\ req[r].at = "complete" /\ Goes(r, "validate")
        /\ plan' = plan /\ state' = state /\ applied' = applied /\ book' = book
        /\ made' = made /\ disturbed' = disturbed /\ unusual' = unusual
        /\ \/ action' = action
           \/ /\ action.status \in {"applying", "applied"}
              /\ action' = [action EXCEPT !.status = "applied"]
    BY DEF completeToolOnlyApproval
  <1>2. Engaged /\ req[r].at # "idle" /\ "validate" \in Phases
    BY <1>1, AheadFacts DEF Ahead, Phases
  <1>3. action \in ActionsTo(plan, book.ids) /\ RevisionOK(action) /\ action.revision \in Nat
    BY DEF Inv, Types, ActionsTo
  <1>4. action' \in ActionsTo(plan, book.ids) /\ action'.revision = action.revision
        /\ (action' = action \/ (action.status \in {"applying", "applied"} /\ action'.status = "applied"))
    BY <1>1, <1>3 DEF ActionsTo, RunStatuses
  <1>5. RevisionOK(action') /\ Claimed(action') /\ action.revision <= action'.revision
    BY <1>2, <1>3, <1>4 DEF RevisionOK, Engaged, Claimed
  <1> QED  BY <1>1, <1>2, <1>4, <1>5, CounterTypes, RowGoesStep

LEMMA ValidateExecutionKeepsInv ==
    ASSUME Inv, NEW r \in Requests, ValidateExecution(r)
    PROVE  Inv'
  <1> DEFINE q == [req[r] EXCEPT !.at = "validated", !.version = book.version]
  <1>1. /\ req[r].at = "validate" /\ state' = "validating" /\ req' = [req EXCEPT ![r] = q]
        /\ plan' = plan /\ action' = action /\ applied' = applied /\ book' = book
        /\ made' = made /\ disturbed' = disturbed /\ unusual' = unusual
    BY DEF ValidateExecution
  <1>2. Engaged /\ req[r].at # "idle" /\ "validated" \in Phases /\ state' \in States
    BY <1>1, AheadFacts DEF Ahead, Phases, States
  <1>3. req[r] \in RequestsTo(plan, book.ids, book.version, action.revision)
    BY <1>2, RequestFields DEF Inv
  <1>4. book.version \in 0..book.version
    BY BookFacts
  <1>5. q \in RequestsTo(plan, book.ids, book.version, action.revision)
    BY <1>2, <1>3, <1>4 DEF RequestsTo
  <1> HIDE DEF q
  <1> QED  BY <1>1, <1>2, <1>5, CounterTypes, PhaseStepKeepsInv

LEMMA completeAgentValidationKeepsInv ==
    ASSUME Inv, NEW r \in Requests, completeAgentValidation(r)
    PROVE  Inv'
  <1>1. /\ req[r].at = "validated" /\ req[r].at # "idle"
        /\ state' \in {"completed"} \cup (IF MayFailValidation THEN {"failed"} ELSE {})
        /\ applied' = req[r].version /\ Leaves(r)
        /\ plan' = plan /\ action' = action /\ book' = book
        /\ made' = made /\ disturbed' = disturbed /\ unusual' = unusual
    BY DEF completeAgentValidation
  <1>2. state' \in States
    BY <1>1 DEF States
  <1>3. applied' \in 0..book.version
    BY <1>1, RequestFields DEF Inv
  <1> QED  BY <1>1, <1>2, <1>3, SameRow, CounterTypes, LeavesStep

-----------------------------------------------------------------------------
(***************************************************************************)
(* undoCompletedTools                                                      *)
(***************************************************************************)

LEMMA CheckVersionKeepsInv ==
    ASSUME Inv, NEW r \in Requests, CheckVersion(r)
    PROVE  Inv'
  <1>1. /\ req[r].at = "check"
        /\ plan' = plan /\ action' = action /\ state' = state /\ applied' = applied /\ book' = book
        /\ made' = made /\ disturbed' = disturbed /\ unusual' = unusual
    BY DEF CheckVersion
  <1>2. Engaged /\ req[r].at # "idle" /\ "undoTools" \in Phases
    BY <1>1, AheadFacts DEF Ahead, Phases
  <1>3. CASE Goes(r, "undoTools")
    BY <1>1, <1>2, <1>3, CounterTypes, GoesStep
  <1>4. CASE Leaves(r)
    BY <1>1, <1>4, SameRow, CounterTypes, LeavesStep
  <1> QED  BY <1>3, <1>4 DEF CheckVersion

LEMMA UndoneToolFacts ==
    ASSUME Inv, NEW i \in DOMAIN plan.tools, NEW o, NEW u \in UndoneTool(i, o)
    PROVE  Successor(u)
  <1>1. CASE plan.tools[i] \in {"object", "report"}
    <2> DEFINE b == [book EXCEPT !.version = book.version + 1, !.things = book.things \ ThingOf(o)]
    <2>1. u = DeleteThing(o)
      BY <1>1 DEF UndoneTool
    <2>2. DeleteThing(o) \in {book, b}
      BY BookFacts DEF DeleteThing, Books
    <2>3. book.things \ ThingOf(o) \in SUBSET Things(plan, book.ids)
      BY BookFacts
    <2>4. b \in Books(plan, book.ids) /\ b.ids = book.ids /\ b.version = book.version + 1
      BY <2>3, BookFacts DEF Books
    <2>5. Successor(b)
      BY <2>4, BookFacts DEF Successor
    <2> HIDE DEF b
    <2> QED  BY <2>1, <2>2, <2>5, BookFacts
  <1>2. CASE plan.tools[i] = "sort"
    <2> DEFINE key == <<"sort-undo", i>>
               b(c) == [book EXCEPT !.version = @ + 1, !.ops = @ \cup {key}, !.range = c]
    <2>1. u \in UnsortRange(i)
      BY <1>2 DEF UndoneTool
    <2>2. u = book \/ \E c \in PutBack(book.range, "sorted", "plain") : u = b(c)
      BY <2>1 DEF UnsortRange
    <2> SUFFICES ASSUME NEW c \in PutBack(book.range, "sorted", "plain"), u = b(c)
                 PROVE  Successor(u)
      BY <2>2, BookFacts
    <2>3. book.ops \cup {key} \in SUBSET OpKeys /\ c \in {"plain", "sorted", "displaced", "theirs"}
      BY BookFacts, ToolKind, PutBackRange DEF Books, OpKeys
    <2> DEFINE d == [book EXCEPT !.version = book.version + 1, !.ops = book.ops \cup {key}, !.range = c]
    <2>9. u = d
      BY BookFacts DEF Books
    <2> HIDE DEF key
    <2>4. d \in Books(plan, book.ids) /\ d.ids = book.ids /\ d.version = book.version + 1
      BY <2>3, BookFacts DEF Books
    <2>5. Successor(d)
      BY <2>4, BookFacts DEF Successor
    <2> HIDE DEF d
    <2> QED  BY <2>5, <2>9
  <1>3. CASE plan.tools[i] = "update"
    <2> DEFINE row == [rev |-> book.chart.rev + 1, by |-> "before"]
               b == [book EXCEPT !.version = book.version + 1, !.chart = row]
    <2>1. u = RestoreChart
      BY <1>3 DEF UndoneTool
    <2>2. RestoreChart = b
      BY BookFacts DEF RestoreChart, Books
    <2>3. row \in ChartRows
      BY BookFacts DEF ChartRows
    <2> HIDE DEF row
    <2>4. b \in Books(plan, book.ids) /\ b.ids = book.ids /\ b.version = book.version + 1
      BY <2>3, BookFacts DEF Books
    <2>5. Successor(b)
      BY <2>4, BookFacts DEF Successor
    <2> HIDE DEF b
    <2> QED  BY <2>1, <2>2, <2>5
  <1> QED  BY <1>1, <1>2, <1>3, ToolKind

LEMMA UndoToolKeepsInv ==
    ASSUME Inv, NEW r \in Requests, UndoTool(r)
    PROVE  Inv'
  <1> DEFINE i == Max(ToUndo(r))
  <1>1. /\ req[r].at = "undoTools" /\ ToUndo(r) # {}
        /\ book' \in UndoneTool(i, req[r].tools[i]) /\ req' = [req EXCEPT ![r].tools[i] = Pending]
        /\ plan' = plan /\ action' = action /\ state' = state /\ applied' = applied
        /\ made' = made /\ disturbed' = disturbed /\ unusual' = unusual
    BY DEF UndoTool
  <1>2. Engaged /\ req[r].at # "idle"
    BY <1>1, AheadFacts DEF Ahead, Phases
  <1>3. ToUndo(r) \in SUBSET DOMAIN plan.tools
    BY DEF ToUndo
  <1>4. i \in DOMAIN plan.tools
    BY <1>1, <1>3, MaxIsIn DEF Inv, Types
  <1> HIDE DEF i
  <1>5. Successor(book')
    BY <1>1, <1>4, UndoneToolFacts
  <1>6. book'.ids \in Nat
    BY <1>5 DEF Successor
  <1>7. Pending \in OutcomesTo(book'.ids)
    BY <1>6 DEF Pending, OutcomesTo
  <1> QED  BY <1>1, <1>2, <1>4, <1>5, <1>7, ToolStep

LEMMA UndoCellsStep ==
    ASSUME Inv, NEW r \in Requests, req[r].at # "idle", UndoCells(r),
           plan' = plan, book' = book, action' = action, state' = state, applied' = applied,
           made' = made, disturbed' \in 0..MaxDisturbances, unusual' \subseteq Unusuals
    PROVE  Inv'
  <1> DEFINE k == IF req[r].kind = "approve" THEN action.revision ELSE req[r].rev
             q == [req[r] EXCEPT !.at = "undo", !.rev = k]
  <1>1. req[r] \in RequestsTo(plan, book.ids, book.version, action.revision)
        /\ req[r].rev \in 1..action.revision
    BY RequestFields DEF Inv
  <1>2. action.revision \in 1..action.revision
    BY DEF Inv, Types, ActionsTo
  <1>3. k \in 1..action.revision
    BY <1>1, <1>2
  <1>4. req' = [req EXCEPT ![r] = q]
    BY <1>1 DEF UndoCells, RequestsTo
  <1> HIDE DEF k
  <1>5. "undo" \in Phases /\ "undo" \notin Ahead
    BY DEF Phases, Ahead
  <1>6. q \in RequestsTo(plan, book.ids, book.version, action.revision) /\ q.at = "undo"
    BY <1>1, <1>3, <1>5 DEF RequestsTo
  <1> HIDE DEF q
  <1> QED  BY <1>4, <1>5, <1>6, CounterTypes, PhaseStepKeepsInv

LEMMA UndoToolFailsKeepsInv ==
    ASSUME Inv, NEW r \in Requests, UndoToolFails(r)
    PROVE  Inv'
  <1>1. /\ req[r].at = "undoTools" /\ req[r].at # "idle"
        /\ plan' = plan /\ action' = action /\ applied' = applied /\ book' = book
        /\ made' = made
        /\ disturbed' = disturbed \/ (disturbed < MaxDisturbances /\ disturbed' = disturbed + 1)
        /\ unusual' = unusual \/ unusual' = unusual \cup {"stuck"}
    BY DEF UndoToolFails
  <1>2. disturbed' \in 0..MaxDisturbances /\ unusual' \subseteq Unusuals
    BY <1>1, CounterTypes, NumbersAssumption DEF Unusuals
  <1>3. CASE Fails(r)
    BY <1>1, <1>2, <1>3, SameRow, FailsState, CounterTypes, LeavesStep
  <1>4. CASE UndoCells(r) /\ state' = state
    BY <1>1, <1>2, <1>4, UndoCellsStep
  <1> QED  BY <1>3, <1>4 DEF UndoToolFails

LEMMA ToolsUndoneKeepsInv ==
    ASSUME Inv, NEW r \in Requests, ToolsUndone(r)
    PROVE  Inv'
  <1>1. /\ req[r].at = "undoTools"
        /\ plan' = plan /\ action' = action /\ applied' = applied /\ book' = book
        /\ made' = made /\ disturbed' = disturbed /\ unusual' = unusual
    BY DEF ToolsUndone
  <1>2. Engaged /\ req[r].at # "idle" /\ "close" \in Phases
    BY <1>1, AheadFacts DEF Ahead, Phases
  <1>3. CASE UndoCells(r) /\ state' = state
    BY <1>1, <1>2, <1>3, CounterTypes, UndoCellsStep
  <1>4. CASE Goes(r, "close") /\ state' = state
    BY <1>1, <1>2, <1>4, CounterTypes, GoesStep
  <1>5. CASE Fails(r)
    BY <1>1, <1>5, SameRow, FailsState, CounterTypes, LeavesStep
  <1> QED  BY <1>3, <1>4, <1>5 DEF ToolsUndone

LEMMA CloseRunKeepsInv ==
    ASSUME Inv, NEW r \in Requests, CloseRun(r)
    PROVE  Inv'
  <1>1. /\ req[r].at = "close" /\ req[r].at # "idle"
        /\ plan' = plan /\ applied' = applied /\ book' = book
        /\ made' = made /\ disturbed' = disturbed /\ unusual' = unusual
    BY DEF CloseRun
  <1>2. CASE /\ action.status = "applied" /\ Goes(r, "finish") /\ state' = state
             /\ action' = [action EXCEPT !.status = "undone", !.revision = @ + 1, !.undoKey = UndoKey(r)]
    <2>1. UndoKey(r) \in UndoKeys
      BY <1>1, RequestFields DEF Inv
    <2>2. /\ action' \in ActionsTo(plan, book.ids) /\ RevisionOK(action')
          /\ action.revision <= action'.revision /\ Claimed(action')
      BY <1>2, <2>1, UndoRow
    <2>3. "finish" \in Phases
      BY DEF Phases
    <2> QED  BY <1>1, <1>2, <2>2, <2>3, CounterTypes, RowGoesStep
  <1>3. CASE Fails(r) /\ action' = action
    BY <1>1, <1>3, SameRow, FailsState, CounterTypes, LeavesStep
  <1> QED  BY <1>2, <1>3 DEF CloseRun

LEMMA FinishRollbackKeepsInv ==
    ASSUME Inv, NEW r \in Requests, FinishRollback(r)
    PROVE  Inv'
  <1>1. /\ state' = "completed" /\ Leaves(r)
        /\ plan' = plan /\ action' = action /\ applied' = applied /\ book' = book
        /\ made' = made /\ disturbed' = disturbed /\ unusual' = unusual
    BY DEF FinishRollback
  <1>2. state' \in States
    BY <1>1 DEF States
  <1> QED  BY <1>1, <1>2, SameRow, CounterTypes, LeavesStep

-----------------------------------------------------------------------------
(***************************************************************************)
(* What else happens                                                       *)
(***************************************************************************)

LEMMA CutOffKeepsInv ==
    ASSUME Inv, NEW r \in Requests, CutOff(r)
    PROVE  Inv'
  <1>1. /\ disturbed < MaxDisturbances /\ disturbed' = disturbed + 1 /\ Leaves(r)
        /\ plan' = plan /\ action' = action /\ state' = state /\ applied' = applied /\ book' = book
        /\ made' = made /\ unusual' = unusual \cup {"cut"}
    BY DEF CutOff, Disturbance
  <1>2. disturbed' \in 0..MaxDisturbances /\ unusual' \subseteq Unusuals
    BY <1>1, CounterTypes, NumbersAssumption DEF Unusuals
  <1> QED  BY <1>1, <1>2, SameRow, CounterTypes, LeavesStep

\* Others write: a new version, and nothing of the run appears.
LEMMA OthersKeepInv ==
    ASSUME Inv, Disturbance, req' = req, unusual' = unusual,
           book' \in Books(plan, book.ids), book'.ids = book.ids, book'.version = book.version + 1,
           Left' => Left
    PROVE  Inv'
  <1>1. /\ disturbed < MaxDisturbances /\ disturbed' = disturbed + 1
        /\ plan' = plan /\ action' = action /\ state' = state /\ applied' = applied /\ made' = made
    BY DEF Disturbance
  <1>2. disturbed' \in 0..MaxDisturbances
    BY <1>1, CounterTypes, NumbersAssumption
  <1>3. book.ids \in Nat /\ book.version \in Nat \ {0} /\ book.version <= book'.version
        /\ book'.version \in Nat /\ book'.version # 1
    <2>1. book.ids \in Nat /\ book.version \in Nat \ {0}
      BY DEF Inv, Types, Books
    <2> QED  BY <2>1
  <1>4. action.revision \in Nat
    BY DEF Inv, Types, ActionsTo
  <1>5. RequestsTo(plan, book.ids, book.version, action.revision)
          \subseteq RequestsTo(plan, book.ids, book'.version, action.revision)
    BY <1>3, <1>4, RequestsGrow
  <1>6. req \in [Requests -> {Idle} \cup RequestsTo(plan, book.ids, book.version, action.revision)]
    BY DEF Inv, Types, ReqOK
  <1>7. req \in [Requests -> {Idle} \cup RequestsTo(plan, book.ids, book'.version, action.revision)]
    BY <1>5, <1>6
  <1>8. ReqOK'
    BY <1>1, <1>7 DEF ReqOK
  <1>9. applied' \in 0..book'.version
    BY <1>1, <1>3, CounterTypes
  <1>10. Types'
    BY <1>1, <1>2, <1>3, <1>8, <1>9, CounterTypes DEF Inv, Types
  <1>11. AheadIsEngaged'
    BY <1>1 DEF Inv, AheadIsEngaged, Engaged, Claimed
  <1>12. NothingWithoutApproval'
    BY <1>1 DEF Inv, NothingWithoutApproval
  <1>13. VersionTells'
    BY <1>3 DEF VersionTells, BaseVersion
  <1> QED  BY <1>10, <1>11, <1>12, <1>13 DEF Inv

LEMMA OthersWriteKeepsInv ==
    ASSUME Inv, OthersWrite
    PROVE  Inv'
  <1>1. Disturbance /\ req' = req /\ unusual' = unusual
    BY DEF OthersWrite
  <1>2. \E c \in {"other", book.cells}, g \in {"theirs", book.range} :
           book' = [book EXCEPT !.version = book.version + 1, !.cells = c, !.range = g]
    <2>1. CASE book' = [book EXCEPT !.version = @ + 1, !.cells = "other"]
      <3>1. book' = [book EXCEPT !.version = book.version + 1, !.cells = "other", !.range = book.range]
        BY <2>1, BookFacts DEF Books
      <3> QED  BY <3>1
    <2>2. CASE book' = [book EXCEPT !.version = @ + 1, !.range = "theirs"]
      <3>1. book' = [book EXCEPT !.version = book.version + 1, !.cells = book.cells, !.range = "theirs"]
        BY <2>2, BookFacts DEF Books
      <3> QED  BY <3>1
    <2>3. CASE book' = [book EXCEPT !.version = @ + 1]
      <3>1. book' = [book EXCEPT !.version = book.version + 1, !.cells = book.cells, !.range = book.range]
        BY <2>3, BookFacts DEF Books
      <3> QED  BY <3>1
    <2> QED  BY <2>1, <2>2, <2>3 DEF OthersWrite
  <1>3. PICK c \in {"other", book.cells}, g \in {"theirs", book.range} :
           book' = [book EXCEPT !.version = book.version + 1, !.cells = c, !.range = g]
    BY <1>2
  <1>4. c \in {"before", "agent", "displaced", "other"} /\ g \in {"plain", "sorted", "displaced", "theirs"}
    BY <1>3, BookFacts DEF Books
  <1>5. /\ book' \in Books(plan, book.ids) /\ book'.ids = book.ids
        /\ book'.version = book.version + 1 /\ book'.cells = c /\ book'.range = g
        /\ book'.chart = book.chart /\ book'.things = book.things
    BY <1>3, <1>4, BookFacts DEF Books
  <1>6. Left' => Left
    BY <1>3, <1>5 DEF Left, ToolsLeft
  <1> QED  BY <1>1, <1>5, <1>6, OthersKeepInv

LEMMA OthersEditKeepsInv ==
    ASSUME Inv, OthersEdit
    PROVE  Inv'
  <1>1. Disturbance /\ req' = req /\ unusual' = unusual
    BY DEF OthersEdit
  <1>2. CASE \E t \in book.things :
               book' \in { [book EXCEPT !.version = @ + 1, !.things = (@ \ {t}) \cup {[t EXCEPT !.rev = @ + 1]}],
                           [book EXCEPT !.version = @ + 1, !.things = @ \ {t}] }
    <2>1. PICK t \in book.things :
               book' \in { [book EXCEPT !.version = @ + 1, !.things = (@ \ {t}) \cup {[t EXCEPT !.rev = @ + 1]}],
                           [book EXCEPT !.version = @ + 1, !.things = @ \ {t}] }
      BY <1>2
    <2> DEFINE edited == [t EXCEPT !.rev = t.rev + 1]
               kept == book.things \ {t}
    <2>2. t \in Things(plan, book.ids)
      BY BookFacts
    <2>3. t.rev + 1 \in Nat \ {0}
      BY <2>2 DEF Things
    <2>4. edited \in Things(plan, book.ids) /\ edited = [t EXCEPT !.rev = @ + 1]
      BY <2>2, <2>3 DEF Things
    <2>5. kept \in SUBSET Things(plan, book.ids) /\ kept \cup {edited} \in SUBSET Things(plan, book.ids)
      BY <2>4, BookFacts
    <2>6. PICK s \in {kept, kept \cup {edited}} :
             book' = [book EXCEPT !.version = book.version + 1, !.things = s]
      BY <2>1, <2>4, BookFacts DEF Books
    <2>7. s \in SUBSET Things(plan, book.ids)
      BY <2>5, <2>6
    <2> HIDE DEF edited, kept
    <2>8. /\ book' \in Books(plan, book.ids) /\ book'.ids = book.ids
          /\ book'.version = book.version + 1
      BY <2>6, <2>7, BookFacts DEF Books
    <2>9. Left
      BY DEF Left, ToolsLeft
    <2> QED  BY <1>1, <2>8, <2>9, OthersKeepInv
  <1>3. CASE book' = [book EXCEPT !.version = @ + 1, !.chart = [rev |-> @.rev + 1, by |-> "other"]]
    <2> DEFINE row == [rev |-> book.chart.rev + 1, by |-> "other"]
    <2>1. row \in ChartRows /\ row.by = "other"
      BY BookFacts DEF ChartRows
    <2>2. book' = [book EXCEPT !.version = book.version + 1, !.chart = row]
      BY <1>3, BookFacts DEF Books
    <2> HIDE DEF row
    <2>3. /\ book' \in Books(plan, book.ids) /\ book'.ids = book.ids
          /\ book'.version = book.version + 1 /\ book'.chart = row
          /\ book'.cells = book.cells /\ book'.range = book.range /\ book'.things = book.things
      BY <2>1, <2>2, BookFacts DEF Books
    <2>4. Left' => Left
      BY <2>1, <2>3 DEF Left, ToolsLeft
    <2> QED  BY <1>1, <2>3, <2>4, OthersKeepInv
  <1> QED  BY <1>2, <1>3 DEF OthersEdit

LEMMA OthersRestructureKeepsInv ==
    ASSUME Inv, OthersRestructure
    PROVE  Inv'
  <1>1. Disturbance /\ req' = req /\ unusual' = unusual
    BY DEF OthersRestructure
  <1>2. PICK c \in {"displaced", book.cells}, g \in {"displaced", book.range} :
           /\ book' = [book EXCEPT !.version = book.version + 1, !.cells = c, !.range = g]
           /\ book.cells = "agent" \/ book.range = "sorted"
    <2>1. CASE book.cells = "agent" /\ book' = [book EXCEPT !.version = @ + 1, !.cells = "displaced"]
      <3>1. book' = [book EXCEPT !.version = book.version + 1, !.cells = "displaced", !.range = book.range]
        BY <2>1, BookFacts DEF Books
      <3> QED  BY <2>1, <3>1
    <2>2. CASE book.range = "sorted" /\ book' = [book EXCEPT !.version = @ + 1, !.range = "displaced"]
      <3>1. book' = [book EXCEPT !.version = book.version + 1, !.cells = book.cells, !.range = "displaced"]
        BY <2>2, BookFacts DEF Books
      <3> QED  BY <2>2, <3>1
    <2> QED  BY <2>1, <2>2 DEF OthersRestructure
  <1>3. c \in {"before", "agent", "displaced", "other"} /\ g \in {"plain", "sorted", "displaced", "theirs"}
    BY <1>2, BookFacts DEF Books
  <1>4. /\ book' \in Books(plan, book.ids) /\ book'.ids = book.ids
        /\ book'.version = book.version + 1
    BY <1>2, <1>3, BookFacts DEF Books
  <1>5. Left
    BY <1>2 DEF Left, ToolsLeft
  <1> QED  BY <1>1, <1>4, <1>5, OthersKeepInv

-----------------------------------------------------------------------------
(***************************************************************************)
(* The theorems                                                            *)
(***************************************************************************)

LEMMA InitEstablishesInv == Init => Inv
  <1> SUFFICES ASSUME Init PROVE Inv
    OBVIOUS
  <1> DEFINE none == [i \in DOMAIN plan.tools |-> Pending]
             first == [rev |-> 1, by |-> "before"]
  <1>1. /\ plan \in Plans
        /\ action = [status |-> "planned", revision |-> 1, key |-> NoKey, undoKey |-> NoKey,
                     operation |-> FALSE, tools |-> none]
        /\ state = "waiting_approval" /\ applied = 0
        /\ book = [version |-> 1, cells |-> "before", range |-> "plain", chart |-> first,
                   things |-> {}, ops |-> {}, ids |-> 0]
        /\ req = [r \in Requests |-> Idle]
        /\ made = 0 /\ disturbed = 0 /\ unusual = {}
    BY DEF Init, BaseVersion
  <1>2. first \in ChartRows /\ first.rev = 1 /\ first.by = "before"
    BY DEF ChartRows
  <1>3. Pending \in OutcomesTo(0)
    BY DEF Pending, OutcomesTo
  <1>4. none \in RecordsTo(plan, 0)
    BY <1>3 DEF RecordsTo
  <1> HIDE DEF none, first
  <1>5. book.ids = 0 /\ book.version = 1 /\ book \in Books(plan, 0)
    BY <1>1, <1>2 DEF Books
  <1>6. action \in ActionsTo(plan, 0) /\ RevisionOK(action)
    BY <1>1, <1>4 DEF ActionsTo, RunStatuses, RevisionOK
  <1>7. ReqOK
    BY <1>1 DEF ReqOK
  <1>8. Types
    BY <1>1, <1>5, <1>6, <1>7, NumbersAssumption DEF Types, States
  <1>9. AheadIsEngaged
    BY <1>1 DEF AheadIsEngaged, Idle, Ahead, Phases
  <1>10. AsPlanned /\ ~Left
    BY <1>1, <1>2 DEF AsPlanned, Left, ToolsLeft
  <1> QED  BY <1>8, <1>9, <1>10 DEF Inv, NothingWithoutApproval, VersionTells

LEMMA StepsKeepInv ==
    ASSUME Inv, NEW r \in Requests, Step(r)
    PROVE  Inv'
  BY ReadForApprovalKeepsInv, ReadVersionKeepsInv, ClaimKeepsInv, ApplyApprovedKeepsInv,
     ApplyRefusedKeepsInv, completeApprovalKeepsInv, ReadForUndoKeepsInv, ClaimUndoKeepsInv,
     ApplyUndoKeepsInv, UndoRefusedKeepsInv, completeUndoKeepsInv, RunToolKeepsInv,
     ToolFailsKeepsInv, SaveToolCallsKeepsInv, completeToolOnlyApprovalKeepsInv, ValidateExecutionKeepsInv,
     completeAgentValidationKeepsInv, CheckVersionKeepsInv, UndoToolKeepsInv,
     UndoToolFailsKeepsInv, ToolsUndoneKeepsInv, CloseRunKeepsInv, FinishRollbackKeepsInv
     DEF Step

LEMMA NextKeepsInv ==
    ASSUME Inv, [Next]_vars
    PROVE  Inv'
  <1>1. CASE \E r \in Requests, k \in Keys, revision \in 1..action.revision :
                \/ ApproveRun(r, k, revision) \/ RollbackChangeSet(r, k, revision)
                \/ ApproveAction(r, k, revision) \/ UndoAction(r, k, revision)
    BY <1>1, RequestsKeepInv
  <1>2. CASE \E revision \in 1..action.revision : CancelRun(revision)
    BY <1>2, CancelRunKeepsInv
  <1>3. CASE supersedePendingAgentRuns
    BY <1>3, CancelRunKeepsInv DEF supersedePendingAgentRuns
  <1>4. CASE \E r \in Requests : Step(r)
    BY <1>4, StepsKeepInv
  <1>5. CASE \E r \in Requests : CutOff(r)
    BY <1>5, CutOffKeepsInv
  <1>6. CASE OthersWrite
    BY <1>6, OthersWriteKeepsInv
  <1>7. CASE OthersEdit
    BY <1>7, OthersEditKeepsInv
  <1>8. CASE OthersRestructure
    BY <1>8, OthersRestructureKeepsInv
  <1>9. CASE UNCHANGED vars
    BY <1>9 DEF vars, Inv, Types, ReqOK, AheadIsEngaged, Engaged, NothingWithoutApproval, Left,
                ToolsLeft, VersionTells, AsPlanned
  <1> QED  BY <1>1, <1>2, <1>3, <1>4, <1>5, <1>6, <1>7, <1>8, <1>9 DEF Next

LEMMA InvAlways == Spec => []Inv
  <1>1. Init => Inv
    BY InitEstablishesInv
  <1>2. Inv /\ [Next]_vars => Inv'
    BY NextKeepsInv
  <1> QED  BY <1>1, <1>2, PTL DEF Spec

\* The row of the run, the requests and the workbook keep their types, whatever
\* interleaves: a revision is counted up at most twice, an outcome names a thing
\* that was made, and no request or change set knows of a later version than the
\* workbook's (Action, the claims of Approve, Undo and claimToolOnlyApproval).
THEOREM TypeOKAlways == Spec => []TypeOK
  <1>1. Inv => TypeOK
    <2> SUFFICES ASSUME Inv PROVE TypeOK
      OBVIOUS
    <2>1. Outcomes = OutcomesTo(book.ids) /\ ToolRecords = RecordsTo(plan, book.ids)
      BY DEF Outcomes, ToolRecords, OutcomesTo, RecordsTo
    <2>2. action \in [status : {"planned", "applying", "applied", "undoing", "undone", "failed", "cancelled"},
                      revision : 1..3, key : Keys \cup {NoKey},
                      undoKey : (Keys \X {"compensate", "undo"}) \cup {NoKey},
                      operation : BOOLEAN, tools : ToolRecords]
      BY <2>1 DEF Inv, Types, ActionsTo, RunStatuses, UndoKeys
    <2>3. \A r \in Requests : req[r] # Idle =>
             req[r] \in [at : Phases, kind : {"approve", "rollback", "approveCells", "undoCells"},
                        key : Keys, rev : 1..action.revision, tools : ToolRecords,
                        operation : BOOLEAN, version : 0..book.version]
      <3> SUFFICES ASSUME NEW r \in Requests, req[r] # Idle
                   PROVE  req[r] \in [at : Phases, kind : {"approve", "rollback", "approveCells", "undoCells"},
                                     key : Keys, rev : 1..action.revision, tools : ToolRecords,
                                     operation : BOOLEAN, version : 0..book.version]
        OBVIOUS
      <3>1. req[r] \in RequestsTo(plan, book.ids, book.version, action.revision)
        BY RequestFields DEF Inv
      <3> QED  BY <2>1, <3>1 DEF RequestsTo, RequestKinds
    <2>4. /\ book.version \in Nat /\ book.cells \in {"before", "agent", "displaced", "other"}
          /\ book.range \in {"plain", "sorted", "displaced", "theirs"}
          /\ book.chart \in [rev : Nat \ {0}, by : {"before", "agent", "other"}]
          /\ book.things \subseteq [tool : DOMAIN plan.tools, id : 1..book.ids, rev : Nat \ {0}]
      BY BookFacts DEF Inv, Types, Books, ChartRows, Things
    <2> QED  BY <2>2, <2>3, <2>4 DEF TypeOK, Inv, Types, States, Unusuals
  <1> QED  BY <1>1, InvAlways, PTL

\* Nothing the model proposed is in the workbook while the run waits for its
\* approval, nor ever after it was cancelled or superseded, for any number of
\* racing requests (CancelRun, supersedePendingAgentRuns and the claims).
THEOREM NothingEverWithoutApproval == Spec => []NothingWithoutApproval
  <1>1. Inv => NothingWithoutApproval
    BY DEF Inv
  <1> QED  BY <1>1, InvAlways, PTL

-----------------------------------------------------------------------------
\* The tools leave the cells of the plan alone.
LEMMA ToolsKeepCells ==
    ASSUME Inv, NEW i \in DOMAIN plan.tools, NEW o
    PROVE  RanTool(i).book.cells = book.cells /\ \A u \in UndoneTool(i, o) : u.cells = book.cells
  <1>1. book \in Books(plan, book.ids)
    BY BookFacts
  <1>2. RanTool(i).book.cells = book.cells
    <2>1. Made(i).book.cells = book.cells
      BY <1>1 DEF Made, Books
    <2>2. CreateObject(i).book.cells = book.cells
      <3>1. CASE ThingsOf(i) = {}
        BY <2>1, <3>1 DEF CreateObject
      <3>2. CASE ThingsOf(i) # {}
        BY <3>2 DEF CreateObject
      <3> QED  BY <3>1, <3>2
    <2>3. SortRange(i).book.cells = book.cells
      BY <1>1 DEF SortRange, Books
    <2>4. UpdateChart(i).book.cells = book.cells
      BY <1>1 DEF UpdateChart, Books
    <2>5. RanTool(i) \in {CreateObject(i), Made(i), SortRange(i), UpdateChart(i)}
      BY ToolKind DEF RanTool
    <2> QED  BY <2>1, <2>2, <2>3, <2>4, <2>5
  <1>3. ASSUME NEW u \in UndoneTool(i, o) PROVE u.cells = book.cells
    <2>1. DeleteThing(o).cells = book.cells
      BY <1>1 DEF DeleteThing, Books
    <2>2. \A v \in UnsortRange(i) : v.cells = book.cells
      BY <1>1 DEF UnsortRange, Books
    <2>3. RestoreChart.cells = book.cells
      BY <1>1 DEF RestoreChart, Books
    <2>4. u = DeleteThing(o) \/ u \in UnsortRange(i) \/ u = RestoreChart
      BY <1>3, ToolKind DEF UndoneTool
    <2> QED  BY <2>1, <2>2, <2>3, <2>4
  <1> QED  BY <1>2, <1>3

\* The cells of the plan are written by an approval, and only at the version of
\* the plan.
LEMMA StepWritesAsPlanned ==
    ASSUME Inv, NEW r \in Requests, Step(r), book'.cells = "agent", book.cells # "agent"
    PROVE  AsPlanned
  <1>1. book \in Books(plan, book.ids)
    BY BookFacts
  <1>2. CASE ApplyApproved(r)
    <2>1. book' # book
      OBVIOUS
    <2>2. book.version = BaseVersion
      BY <1>2, <2>1 DEF ApplyApproved
    <2> QED  BY <2>2 DEF Inv, VersionTells
  <1>3. ~ApplyUndo(r)
    <2> SUFFICES ASSUME ApplyUndo(r) PROVE FALSE
      OBVIOUS
    <2> PICK k : k = <<"undo", UndoKey(r)>>
      OBVIOUS
    <2>1. \/ book' = book
          \/ \E c \in PutBack(book.cells, "agent", "before") :
                book' = [book EXCEPT !.version = @ + 1, !.ops = @ \cup {k}, !.cells = c]
      BY DEF ApplyUndo
    <2>2. PICK c \in PutBack(book.cells, "agent", "before") :
             book' = [book EXCEPT !.version = @ + 1, !.ops = @ \cup {k}, !.cells = c]
      BY <2>1
    <2>3. c # "agent"
      BY <2>2, PutBackCells
    <2> QED  BY <1>1, <2>2, <2>3 DEF Books
  <1>4. ~RunTool(r)
    <2> SUFFICES ASSUME RunTool(r) PROVE FALSE
      OBVIOUS
    <2> DEFINE i == Min(Open(r))
    <2>1. Open(r) # {} /\ book' = RanTool(i).book /\ Open(r) \in SUBSET DOMAIN plan.tools
      BY DEF RunTool, Open
    <2>2. i \in DOMAIN plan.tools
      BY <2>1, MinIsIn DEF Inv, Types
    <2> HIDE DEF i
    <2> QED  BY <2>1, <2>2, ToolsKeepCells
  <1>5. ~UndoTool(r)
    <2> SUFFICES ASSUME UndoTool(r) PROVE FALSE
      OBVIOUS
    <2> DEFINE i == Max(ToUndo(r))
    <2>1. ToUndo(r) # {} /\ book' \in UndoneTool(i, req[r].tools[i]) /\ ToUndo(r) \in SUBSET DOMAIN plan.tools
      BY DEF UndoTool, ToUndo
    <2>2. i \in DOMAIN plan.tools
      BY <2>1, MaxIsIn DEF Inv, Types
    <2> HIDE DEF i
    <2> QED  BY <2>1, <2>2, ToolsKeepCells
  <1>6. book' # book
    OBVIOUS
  <1> QED
    BY <1>2, <1>3, <1>4, <1>5, <1>6
       DEF Step, ReadForApproval, ReadVersion, Claim, ApplyRefused, completeApproval, ReadForUndo,
           ClaimUndo, UndoRefused, completeUndo, ToolFails, SaveToolCalls, completeToolOnlyApproval,
           ValidateExecution, completeAgentValidation, CheckVersion, UndoToolFails, ToolsUndone,
           CloseRun, FinishRollback

LEMMA NextWritesAsPlanned ==
    ASSUME Inv, Next, book'.cells = "agent", book.cells # "agent"
    PROVE  AsPlanned
  <1>1. book \in Books(plan, book.ids) /\ book' # book
    BY BookFacts
  <1>2. CASE \E r \in Requests : Step(r)
    BY <1>2, StepWritesAsPlanned
  <1>3. ~OthersWrite
    BY <1>1 DEF OthersWrite, Books
  <1>4. ~OthersEdit /\ ~OthersRestructure
    BY <1>1 DEF OthersEdit, OthersRestructure, Books
  <1>5. ~\E r \in Requests : CutOff(r)
    BY <1>1 DEF CutOff
  <1>6. ~\E revision \in 1..action.revision : CancelRun(revision)
    BY <1>1 DEF CancelRun
  <1>7. ~supersedePendingAgentRuns
    BY <1>1 DEF supersedePendingAgentRuns, CancelRun
  <1>8. ~\E r \in Requests, k \in Keys, revision \in 1..action.revision :
            \/ ApproveRun(r, k, revision) \/ RollbackChangeSet(r, k, revision)
            \/ ApproveAction(r, k, revision) \/ UndoAction(r, k, revision)
    BY <1>1 DEF ApproveRun, RollbackChangeSet, ApproveAction, UndoAction, Arrives
  <1> QED  BY <1>2, <1>3, <1>4, <1>5, <1>6, <1>7, <1>8 DEF Next

\* The proposed cells only ever land in a workbook that is as the user reviewed it,
\* also when the approval is repeated, was cut off, or races others' writes
\* (Approve: RequireExactVersion; every write counts the version up).
THEOREM AlwaysAppliedToWhatWasReviewed == Spec => AppliedToWhatWasReviewed
  <1>1. Inv /\ [Next]_vars => [book'.cells = "agent" /\ book.cells # "agent" => AsPlanned]_vars
    <2> SUFFICES ASSUME Inv, [Next]_vars, book'.cells = "agent", book.cells # "agent"
                 PROVE  AsPlanned
      OBVIOUS
    <2>1. CASE Next
      BY <2>1, NextWritesAsPlanned
    <2>2. CASE UNCHANGED vars
      BY <2>2 DEF vars
    <2> QED  BY <2>1, <2>2
  <1> QED  BY <1>1, InvAlways, PTL DEF Spec, AppliedToWhatWasReviewed

-----------------------------------------------------------------------------
(***************************************************************************)
(* What a run leaves behind                                                *)
(*                                                                         *)
(* The rest of the module follows the tools of a run one by one.  The      *)
(* second invariant says of each request what its phase has established,   *)
(* of the workbook whose each thing in it is, and, as long as nothing      *)
(* unusual has happened, who knows of everything the run has left there:   *)
(* the request that holds the claim, or the row, or nobody because there   *)
(* is nothing.                                                             *)
(***************************************************************************)

Approvals == {"approve", "approveCells"}

UndoPhases == {"undo", "undoClaim", "undoApply", "undoRecord"}

\* The phases of an approval that has won its claim.
Held == {"apply", "record", "tools", "complete", "validate", "validated", "undoTools"} \cup UndoPhases

Holds(r) == req[r].at \in Held /\ req[r].kind \in Approvals

\* Applied or later; on the way back or given up.
Done(a) == a.status \in {"applied", "undoing", "undone", "failed"}

Over(a) == a.status \in {"undoing", "undone", "failed"}

\* What the phase of request q says about the row a and the plan p.
PhaseOK(q, a, p) ==
    /\ q.operation => a.operation
    /\ q.at \in {"approve", "claim", "version", "apply", "record"} => q.kind \in Approvals
    /\ q.at \in {"tools", "complete", "validate", "validated"} => q.kind = "approve"
    /\ q.at \in {"check", "close", "finish"} => q.kind = "rollback"
    /\ q.at = "undoTools" => q.kind \in {"approve", "rollback"}
    /\ q.at \in UndoPhases => q.kind # "approveCells" /\ (q.kind = "undoCells" \/ q.operation)
    /\ q.at \in {"approve", "apply", "record"} => p.cells
    /\ q.at \in {"version", "complete"} => ~p.cells
    /\ q.at \in Held /\ q.kind \in Approvals => Claimed(a) /\ a.key = q.key
    /\ q.at \in {"tools", "undoTools"} /\ p.cells => Done(a)
    /\ q.at \in {"validate", "validated"} => Done(a)
    /\ q.at \in {"undoApply", "undoRecord"} => Over(a)
    /\ q.at = "close" => ~q.operation
    /\ q.kind = "approveCells" => p.cells
    /\ q.kind = "rollback" => Done(a) /\ q.rev >= 2 /\ (p.cells => q.operation)

RowOK(a, p) ==
    /\ a.operation => p.cells
    /\ a.status = "applied" /\ p.cells => a.operation

RequestsAreSound ==
    /\ RowOK(action, plan)
    /\ \A r \in Requests : req[r] # Idle => PhaseOK(req[r], action, plan)

\* Nothing unusual has happened but a refused undo, or an undo of the cells alone.
Normal == unusual \subseteq {"cellsOnly", "refused"}

Usual == unusual \subseteq {"refused"}

\* Outcome o of tool i of plan p is true of the workbook b, u being what was unusual.
OutcomeOK(i, o, b, p, u) ==
    o.done =>
        /\ \A t \in b.things : t.id = o.id => t.tool = i
        /\ p.tools[i] = "sort" => <<"sort", i>> \in b.ops
        /\ p.tools[i] = "update" => o.rev <= b.chart.rev /\ (o.rev = b.chart.rev => b.chart.by # "other")
        /\ p.tools[i] = "object" /\ u \subseteq {"cellsOnly", "refused"} => o.rev = 1

RecordOK(tools, b, p, u) == \A i \in DOMAIN p.tools : OutcomeOK(i, tools[i], b, p, u)

BookOK(b, p) ==
    /\ b.chart.rev = 1 => b.chart.by = "before"
    /\ \A t, s \in b.things : t.id = s.id => t.tool = s.tool
    /\ \A t \in b.things : p.tools[t.tool] \in {"object", "report"}
    /\ \A i \in DOMAIN p.tools : <<"sort-undo", i>> \in b.ops => <<"sort", i>> \in b.ops
    /\ b.range = "sorted" \/ b.chart.by = "agent" => DOMAIN p.tools # {}

RecordsAreSound ==
    /\ BookOK(book, plan)
    /\ RecordOK(action.tools, book, plan, unusual)
    /\ \A r \in Requests : req[r] # Idle => RecordOK(req[r].tools, book, plan, unusual)

\* The cells of the plan are there by the approval, and not after an undo.
CellsAreSound ==
    /\ book.cells = "agent" => plan.cells /\ <<"approve", action.key>> \in book.ops
    /\ \A k \in UndoKeys : <<"undo", k>> \in book.ops => book.cells # "agent" /\ book.version # BaseVersion
    /\ \A r \in Requests : req[r].at = "undoRecord" => <<"undo", UndoKey(r)>> \in book.ops

\* The outcomes name everything of the run that the workbook holds.
Names(tools, b, p) ==
    /\ \A t \in b.things : tools[t.tool].done /\ tools[t.tool].id = t.id
    /\ b.range = "sorted" =>
         \E i \in DOMAIN p.tools : p.tools[i] = "sort" /\ tools[i].done /\ <<"sort-undo", i>> \notin b.ops
    /\ b.chart.by = "agent" =>
         \E i \in DOMAIN p.tools : p.tools[i] = "update" /\ tools[i].done /\ tools[i].rev = b.chart.rev

NoEffects(b) == b.things = {} /\ b.range # "sorted" /\ b.chart.by # "agent"

-----------------------------------------------------------------------------
(***************************************************************************)
(* The requests and the row                                                *)
(***************************************************************************)

\* The row only goes on.
Onward(a, b) ==
    /\ a.operation => b.operation
    /\ Claimed(a) => Claimed(b) /\ b.key = a.key
    /\ Done(a) => Done(b)
    /\ Over(a) => Over(b)

LEMMA PhaseIsKept ==
    ASSUME NEW q, NEW a, NEW b, NEW p, PhaseOK(q, a, p), Onward(a, b)
    PROVE  PhaseOK(q, b, p)
  BY DEF PhaseOK, Onward

\* Request r is the only one that changes.
Only(r) == \A s \in Requests \ {r} : req'[s] = req[s]

\* It stays the request it is.
Same(r) ==
    /\ req'[r].kind = req[r].kind /\ req'[r].key = req[r].key
    /\ req'[r].kind # "approve" => req'[r].rev = req[r].rev

\* Before the claim.
Early == {"approve", "version", "claim"}

\* What every step of a request does.
Turn(r) ==
    /\ plan' = plan /\ unusual \subseteq unusual'
    /\ req[r] # Idle /\ Only(r)
    /\ req'[r] # Idle => Same(r) /\ PhaseOK(req'[r], action', plan)
    /\ Onward(action, action') /\ RowOK(action', plan)
    /\ req'[r].at \in Early => req[r].at \in Early
    /\ Claimed(action') => Engaged \/ (req'[r].at \in Held /\ req'[r].kind \in Approvals)

LEMMA TurnKeepsRequests ==
    ASSUME RequestsAreSound, NEW r \in Requests, Turn(r)
    PROVE  RequestsAreSound'
  <1>1. ASSUME NEW s \in Requests, req'[s] # Idle
        PROVE  PhaseOK(req'[s], action', plan)
    <2>1. CASE s = r
      BY <1>1, <2>1 DEF Turn
    <2>2. CASE s # r
      <3>1. req'[s] = req[s]
        BY <2>2 DEF Turn, Only
      <3>2. PhaseOK(req[s], action, plan)
        BY <1>1, <3>1 DEF RequestsAreSound
      <3> QED  BY <3>1, <3>2, PhaseIsKept DEF Turn
    <2> QED  BY <2>1, <2>2
  <1>2. RowOK(action', plan') /\ \A s \in Requests : req'[s] # Idle => PhaseOK(req'[s], action', plan')
    BY <1>1 DEF Turn
  <1> QED  BY <1>2 DEF RequestsAreSound

LEMMA UnderWay ==
    ASSUME Inv, RequestsAreSound, NEW r \in Requests, req[r].at # "idle"
    PROVE  /\ req[r] # Idle /\ PhaseOK(req[r], action, plan) /\ RowOK(action, plan)
           /\ req[r].kind \in RequestKinds /\ req[r].operation \in BOOLEAN
  BY RequestFields DEF Inv, RequestsAreSound

LEMMA RowFields ==
    ASSUME Inv
    PROVE  /\ action.status \in RunStatuses /\ action.operation \in BOOLEAN /\ RevisionOK(action)
           /\ action = [status |-> action.status, revision |-> action.revision, key |-> action.key,
                        undoKey |-> action.undoKey, operation |-> action.operation, tools |-> action.tools]
           /\ plan.cells \in BOOLEAN
  BY DEF Inv, Types, ActionsTo, Plans

LEMMA SameRowGoesOn ==
    ASSUME Inv, RequestsAreSound, action' = action
    PROVE  Onward(action, action') /\ RowOK(action', plan) /\ (Claimed(action') => Engaged)
  BY DEF Onward, RequestsAreSound, Engaged

\* A request goes on to another phase, or ends.
LEMMA GoesIs ==
    ASSUME Inv, NEW r \in Requests, req[r].at # "idle", NEW phase \in Phases, Goes(r, phase)
    PROVE  /\ Only(r) /\ Same(r) /\ req'[r] # Idle /\ req'[r].at = phase /\ req'[r].rev = req[r].rev
           /\ req'[r].tools = req[r].tools /\ req'[r].operation = req[r].operation
           /\ req'[r].kind = req[r].kind /\ req'[r].key = req[r].key
  <1>1. req \in [Requests -> {Idle} \cup RequestsTo(plan, book.ids, book.version, action.revision)]
    BY DEF Inv, Types, ReqOK
  <1>2. req[r] \in RequestsTo(plan, book.ids, book.version, action.revision)
    BY RequestFields DEF Inv
  <1>3. req' = [req EXCEPT ![r].at = phase]
    BY DEF Goes
  <1>4. Only(r)
    BY <1>1, <1>3 DEF Only
  <1>5. req'[r] = [req[r] EXCEPT !.at = phase]
    BY <1>1, <1>3
  <1>6. /\ req'[r].at = phase /\ req'[r].kind = req[r].kind /\ req'[r].key = req[r].key
        /\ req'[r].rev = req[r].rev
        /\ req'[r].tools = req[r].tools /\ req'[r].operation = req[r].operation
    BY <1>2, <1>5 DEF RequestsTo
  <1>7. req'[r] # Idle
    BY <1>6 DEF Idle, Phases
  <1> QED  BY <1>4, <1>6, <1>7 DEF Same

LEMMA LeavesIs ==
    ASSUME Inv, NEW r \in Requests, Leaves(r)
    PROVE  Only(r) /\ req'[r] = Idle /\ req'[r].at = "idle"
  <1>1. req \in [Requests -> {Idle} \cup RequestsTo(plan, book.ids, book.version, action.revision)]
    BY DEF Inv, Types, ReqOK
  <1>2. Only(r) /\ req'[r] = Idle
    BY <1>1 DEF Leaves, Only
  <1> QED  BY <1>2 DEF Idle

LEMMA ToToolsIs ==
    ASSUME Inv, NEW r \in Requests, req[r].at # "idle",
           req' = [req EXCEPT ![r].at = "tools", ![r].tools = action.tools, ![r].operation = TRUE]
    PROVE  /\ Only(r) /\ Same(r) /\ req'[r] # Idle /\ req'[r].at = "tools"
           /\ req'[r].tools = action.tools /\ req'[r].operation = TRUE
           /\ req'[r].kind = req[r].kind /\ req'[r].key = req[r].key
  <1>1. req \in [Requests -> {Idle} \cup RequestsTo(plan, book.ids, book.version, action.revision)]
    BY DEF Inv, Types, ReqOK
  <1>2. req[r] \in RequestsTo(plan, book.ids, book.version, action.revision)
    BY RequestFields DEF Inv
  <1> PICK o : o = action.tools
    OBVIOUS
  <1> PICK q : q = [req[r] EXCEPT !.at = "tools", !.tools = o, !.operation = TRUE]
    OBVIOUS
  <1>3. q.at = "tools" /\ q.kind = req[r].kind /\ q.key = req[r].key
    BY <1>2 DEF RequestsTo
  <1>4. q.rev = req[r].rev /\ q.tools = o /\ q.operation = TRUE
    BY <1>2 DEF RequestsTo
  <1>5. Only(r) /\ req'[r] = q
    BY <1>1 DEF Only
  <1>6. q # Idle
    BY <1>3 DEF Idle
  <1> QED  BY <1>3, <1>4, <1>5, <1>6 DEF Same

LEMMA UndoCellsIs ==
    ASSUME Inv, NEW r \in Requests, req[r].at # "idle", UndoCells(r)
    PROVE  /\ Only(r) /\ Same(r) /\ req'[r] # Idle /\ req'[r].at = "undo"
           /\ req'[r].tools = req[r].tools /\ req'[r].operation = req[r].operation
           /\ req'[r].kind = req[r].kind /\ req'[r].key = req[r].key
           /\ req'[r].kind # "approve" => req'[r].rev = req[r].rev
           /\ req'[r].kind = "approve" => req'[r].rev = action.revision
  <1>1. req \in [Requests -> {Idle} \cup RequestsTo(plan, book.ids, book.version, action.revision)]
    BY DEF Inv, Types, ReqOK
  <1>2. req[r] \in RequestsTo(plan, book.ids, book.version, action.revision)
    BY RequestFields DEF Inv
  <1> PICK k : k = IF req[r].kind = "approve" THEN action.revision ELSE req[r].rev
    OBVIOUS
  <1>3. req' = [req EXCEPT ![r] = [req[r] EXCEPT !.at = "undo", !.rev = k]]
    BY <1>1, <1>2 DEF UndoCells, RequestsTo
  <1>4. Only(r) /\ req'[r] = [req[r] EXCEPT !.at = "undo", !.rev = k]
    BY <1>1, <1>3 DEF Only
  <1>5. /\ req'[r].at = "undo" /\ req'[r].kind = req[r].kind /\ req'[r].key = req[r].key
        /\ req'[r].rev = k
        /\ req'[r].tools = req[r].tools /\ req'[r].operation = req[r].operation
    BY <1>2, <1>4 DEF RequestsTo
  <1>6. req'[r] # Idle
    BY <1>5 DEF Idle
  <1> QED  BY <1>4, <1>5, <1>6 DEF Same

\* The rows that the steps write, field by field.
LEMMA StatusIs ==
    ASSUME Inv, NEW s, action' = [action EXCEPT !.status = s]
    PROVE  /\ action'.status = s /\ action'.operation = action.operation /\ action'.key = action.key
           /\ action'.undoKey = action.undoKey /\ action'.tools = action.tools
           /\ action'.revision = action.revision
  BY DEF Inv, Types, ActionsTo

LEMMA ClaimedRowIs ==
    ASSUME Inv, NEW k, NEW n,
           action' = [action EXCEPT !.status = "applying", !.revision = n, !.key = k]
    PROVE  /\ action'.status = "applying" /\ action'.operation = action.operation /\ action'.key = k
           /\ action'.undoKey = action.undoKey /\ action'.tools = action.tools
  BY DEF Inv, Types, ActionsTo

LEMMA AppliedRowIs ==
    ASSUME Inv, action' = [action EXCEPT !.status = "applied", !.operation = TRUE]
    PROVE  /\ action'.status = "applied" /\ action'.operation = TRUE /\ action'.key = action.key
           /\ action'.undoKey = action.undoKey /\ action'.tools = action.tools
  BY DEF Inv, Types, ActionsTo

LEMMA UndoRowIs ==
    ASSUME Inv, NEW s, NEW k, NEW n,
           action' = [action EXCEPT !.status = s, !.revision = n, !.undoKey = k]
    PROVE  /\ action'.status = s /\ action'.operation = action.operation /\ action'.key = action.key
           /\ action'.undoKey = k /\ action'.tools = action.tools
  BY DEF Inv, Types, ActionsTo

LEMMA SavedRowIs ==
    ASSUME Inv, NEW o, action' = [action EXCEPT !.tools = o]
    PROVE  /\ action'.status = action.status /\ action'.operation = action.operation
           /\ action'.key = action.key /\ action'.undoKey = action.undoKey /\ action'.tools = o
  BY DEF Inv, Types, ActionsTo

\* markFailed: a claim that nobody can complete any more.
LEMMA MarkFailedIs ==
    ASSUME Inv, RequestsAreSound, MarkFailed
    PROVE  /\ action'.status = IF action.status \in {"applying", "undoing"} THEN "failed" ELSE action.status
           /\ action'.operation = action.operation /\ action'.key = action.key
           /\ action'.undoKey = action.undoKey /\ action'.tools = action.tools
           /\ Onward(action, action') /\ RowOK(action', plan) /\ (Claimed(action') => Engaged)
  <1> PICK s : s = IF action.status \in {"applying", "undoing"} THEN "failed" ELSE action.status
    OBVIOUS
  <1>1. action' = [action EXCEPT !.status = s]
    BY DEF MarkFailed
  <1>2. /\ action'.status = s /\ action'.operation = action.operation /\ action'.key = action.key
        /\ action'.undoKey = action.undoKey /\ action'.tools = action.tools
    BY <1>1, StatusIs
  <1>3. RowOK(action, plan)
    BY DEF RequestsAreSound
  <1>4. s # "planned" /\ s # "cancelled" => Engaged
    BY DEF Engaged, Claimed
  <1>5. Onward(action, action') /\ RowOK(action', plan)
    BY <1>2, <1>3 DEF Onward, RowOK, Claimed, Done, Over
  <1> QED  BY <1>2, <1>4, <1>5 DEF Claimed

-----------------------------------------------------------------------------
LEMMA LeavesTurn ==
    ASSUME Inv, RequestsAreSound, NEW r \in Requests, req[r].at # "idle", Leaves(r),
           plan' = plan, unusual \subseteq unusual',
           Onward(action, action'), RowOK(action', plan), Claimed(action') => Engaged
    PROVE  Turn(r)
  <1>1. Only(r) /\ req'[r] = Idle /\ req'[r].at \notin Early
    BY LeavesIs DEF Early
  <1> QED  BY <1>1, UnderWay DEF Turn

LEMMA FailsTurn ==
    ASSUME Inv, RequestsAreSound, NEW r \in Requests, req[r].at # "idle", Fails(r),
           plan' = plan, unusual \subseteq unusual', action' = action
    PROVE  Turn(r)
  BY LeavesTurn, SameRowGoesOn DEF Fails

\* A request goes on and leaves the row as it is.
LEMMA GoesTurn ==
    ASSUME Inv, RequestsAreSound, NEW r \in Requests, req[r].at # "idle",
           NEW phase \in Phases, Goes(r, phase),
           plan' = plan, unusual' = unusual, action' = action,
           phase \in Early => req[r].at \in Early,
           PhaseOK(req'[r], action, plan)
    PROVE  Turn(r)
  <1>1. Only(r) /\ Same(r) /\ req'[r] # Idle /\ req'[r].at = phase
    BY GoesIs
  <1> QED  BY <1>1, UnderWay, SameRowGoesOn DEF Turn

LEMMA ReadForApprovalTurns ==
    ASSUME Inv, RequestsAreSound, NEW r \in Requests, ReadForApproval(r)
    PROVE  Turn(r)
  <1>1. req[r].at = "approve" /\ plan' = plan /\ action' = action /\ unusual' = unusual
    BY DEF ReadForApproval
  <1>2. PhaseOK(req[r], action, plan) /\ RowOK(action, plan) /\ req[r] # Idle
    BY <1>1, UnderWay
  <1>3. CASE /\ action.status = "applied" /\ action.key = req[r].key /\ action.operation
             /\ req[r].kind = "approve"
             /\ req' = [req EXCEPT ![r].at = "tools", ![r].tools = action.tools, ![r].operation = TRUE]
    <2>1. /\ Only(r) /\ Same(r) /\ req'[r] # Idle /\ req'[r].at = "tools" /\ req'[r].operation = TRUE
          /\ req'[r].kind = req[r].kind /\ req'[r].key = req[r].key
      BY <1>1, <1>3, ToToolsIs
    <2>2. PhaseOK(req'[r], action, plan)
      BY <2>1, <1>3 DEF PhaseOK, UndoPhases, Held, Claimed, Done
    <2> QED  BY <1>1, <1>2, <2>1, <2>2, SameRowGoesOn DEF Turn, Early
  <1>4. CASE Leaves(r)
    BY <1>1, <1>4, SameRowGoesOn, LeavesTurn
  <1>5. CASE action.status = "applying" /\ action.key = req[r].key /\ Goes(r, "apply")
    <2>1. /\ req'[r].at = "apply" /\ req'[r].operation = req[r].operation
          /\ req'[r].kind = req[r].kind /\ req'[r].key = req[r].key /\ "apply" \in Phases
      BY <1>1, <1>5, GoesIs DEF Phases
    <2>2. plan.cells
      BY <1>1, <1>2 DEF PhaseOK
    <2>3. PhaseOK(req'[r], action, plan)
      BY <1>1, <1>2, <1>5, <2>1, <2>2 DEF PhaseOK, UndoPhases, Held, Claimed, Done
    <2> QED  BY <1>1, <1>5, <2>1, <2>3, GoesTurn DEF Early
  <1>6. CASE Goes(r, "claim")
    <2>1. /\ req'[r].at = "claim" /\ req'[r].operation = req[r].operation
          /\ req'[r].kind = req[r].kind /\ req'[r].key = req[r].key /\ "claim" \in Phases
      BY <1>1, <1>6, GoesIs DEF Phases
    <2>2. PhaseOK(req'[r], action, plan)
      BY <1>1, <1>2, <2>1 DEF PhaseOK, UndoPhases, Held, Approvals
    <2> QED  BY <1>1, <1>6, <2>1, <2>2, GoesTurn DEF Early
  <1>7. CASE Fails(r)
    BY <1>1, <1>7, FailsTurn
  <1> QED  BY <1>3, <1>4, <1>5, <1>6, <1>7 DEF ReadForApproval

LEMMA ReadVersionTurns ==
    ASSUME Inv, RequestsAreSound, NEW r \in Requests, ReadVersion(r)
    PROVE  Turn(r)
  <1>1. req[r].at = "version" /\ plan' = plan /\ action' = action /\ unusual' = unusual
    BY DEF ReadVersion
  <1>2. PhaseOK(req[r], action, plan)
    BY <1>1, UnderWay
  <1>3. CASE Goes(r, "claim")
    <2>1. /\ req'[r].at = "claim" /\ req'[r].operation = req[r].operation
          /\ req'[r].kind = req[r].kind /\ req'[r].key = req[r].key /\ "claim" \in Phases
      BY <1>1, <1>3, GoesIs DEF Phases
    <2>2. PhaseOK(req'[r], action, plan)
      BY <1>1, <1>2, <2>1 DEF PhaseOK, UndoPhases, Held, Approvals
    <2> QED  BY <1>1, <1>3, <2>1, <2>2, GoesTurn DEF Early
  <1>4. CASE Fails(r)
    BY <1>1, <1>4, FailsTurn
  <1> QED  BY <1>3, <1>4 DEF ReadVersion

LEMMA ClaimTurns ==
    ASSUME Inv, RequestsAreSound, NEW r \in Requests, Claim(r)
    PROVE  Turn(r)
  <1>1. req[r].at = "claim" /\ plan' = plan /\ unusual' = unusual
    BY DEF Claim
  <1>2. PhaseOK(req[r], action, plan) /\ RowOK(action, plan) /\ req[r] # Idle
    BY <1>1, UnderWay
  <1>3. CASE /\ action.status = "planned"
             /\ action' = [action EXCEPT !.status = "applying", !.revision = @ + 1, !.key = req[r].key]
             /\ Goes(r, IF plan.cells THEN "apply" ELSE "tools")
    <2> PICK phase : phase = IF plan.cells THEN "apply" ELSE "tools"
      OBVIOUS
    <2>1. phase \in Phases /\ Goes(r, phase)
      BY <1>3 DEF Phases
    <2>2. /\ Only(r) /\ Same(r) /\ req'[r] # Idle /\ req'[r].at = phase
          /\ req'[r].operation = req[r].operation
          /\ req'[r].kind = req[r].kind /\ req'[r].key = req[r].key
      BY <1>1, <2>1, GoesIs
    <2>3. action'.status = "applying" /\ action'.operation = action.operation /\ action'.key = req[r].key
      BY <1>3, ClaimedRowIs
    <2>4. Onward(action, action') /\ RowOK(action', plan)
      BY <1>2, <1>3, <2>3 DEF Onward, RowOK, Claimed, Done, Over
    <2>5. plan.cells \in BOOLEAN /\ (phase = "tools" => ~plan.cells) /\ (phase = "apply" => plan.cells)
          /\ phase \in {"apply", "tools"}
      BY RowFields
    <2>6. phase = "tools" => req[r].kind = "approve"
      BY <1>1, <1>2, <2>5 DEF PhaseOK, Approvals
    <2>7. PhaseOK(req'[r], action', plan)
      BY <1>1, <1>2, <2>2, <2>3, <2>5, <2>6 DEF PhaseOK, UndoPhases, Held, Approvals, Claimed, Done
    <2>8. req'[r].at \in Held /\ req'[r].kind \in Approvals
      BY <1>1, <1>2, <2>2, <2>5 DEF PhaseOK, Held
    <2> QED  BY <1>1, <1>2, <2>2, <2>4, <2>5, <2>7, <2>8 DEF Turn, Early
  <1>4. CASE plan.cells /\ Goes(r, "approve") /\ action' = action
    <2>1. /\ req'[r].at = "approve" /\ req'[r].operation = req[r].operation
          /\ req'[r].kind = req[r].kind /\ req'[r].key = req[r].key /\ "approve" \in Phases
      BY <1>1, <1>4, GoesIs DEF Phases
    <2>2. PhaseOK(req'[r], action, plan)
      BY <1>1, <1>2, <1>4, <2>1 DEF PhaseOK, UndoPhases, Held, Approvals
    <2> QED  BY <1>1, <1>4, <2>1, <2>2, GoesTurn DEF Early
  <1>5. CASE Fails(r) /\ action' = action
    BY <1>1, <1>5, FailsTurn
  <1> QED  BY <1>3, <1>4, <1>5 DEF Claim

LEMMA ApplyApprovedTurns ==
    ASSUME Inv, RequestsAreSound, NEW r \in Requests, ApplyApproved(r) \/ ApplyRefused(r)
    PROVE  Turn(r)
  <1>1. req[r].at = "apply" /\ plan' = plan /\ unusual' = unusual
    BY DEF ApplyApproved, ApplyRefused
  <1>2. PhaseOK(req[r], action, plan)
    BY <1>1, UnderWay
  <1>3. CASE Goes(r, "record") /\ action' = action
    <2>1. /\ req'[r].at = "record" /\ req'[r].operation = req[r].operation
          /\ req'[r].kind = req[r].kind /\ req'[r].key = req[r].key /\ "record" \in Phases
      BY <1>1, <1>3, GoesIs DEF Phases
    <2>2. PhaseOK(req'[r], action, plan)
      BY <1>1, <1>2, <1>3, <2>1 DEF PhaseOK, UndoPhases, Held, Approvals
    <2> QED  BY <1>1, <1>3, <2>1, <2>2, GoesTurn DEF Early
  <1>4. CASE Fails(r) /\ MarkFailed
    BY <1>1, <1>4, MarkFailedIs, LeavesTurn DEF Fails
  <1> QED  BY <1>3, <1>4 DEF ApplyApproved, ApplyRefused

LEMMA completeApprovalTurns ==
    ASSUME Inv, RequestsAreSound, NEW r \in Requests, completeApproval(r)
    PROVE  Turn(r)
  <1>1. req[r].at = "record" /\ plan' = plan /\ unusual' = unusual
    BY DEF completeApproval
  <1>2. PhaseOK(req[r], action, plan) /\ RowOK(action, plan) /\ req[r] # Idle
    BY <1>1, UnderWay
  <1>3. plan.cells
    BY <1>1, <1>2 DEF PhaseOK
  <1>4. CASE action.status = "applying" /\ action.key = req[r].key
             /\ action' = [action EXCEPT !.status = "applied", !.operation = TRUE]
    <2>1. action'.status = "applied" /\ action'.operation = TRUE /\ action'.key = action.key
      BY <1>4, AppliedRowIs
    <2>2. Onward(action, action') /\ RowOK(action', plan) /\ Engaged
      BY <1>3, <1>4, <2>1 DEF Onward, RowOK, Claimed, Done, Over, Engaged
    <2>3. CASE req[r].kind = "approve"
               /\ req' = [req EXCEPT ![r].at = "tools", ![r].tools = action.tools, ![r].operation = TRUE]
      <3>1. /\ Only(r) /\ Same(r) /\ req'[r] # Idle /\ req'[r].at = "tools" /\ req'[r].operation = TRUE
            /\ req'[r].kind = req[r].kind /\ req'[r].key = req[r].key
        BY <1>1, <2>3, ToToolsIs
      <3>2. PhaseOK(req'[r], action', plan)
        BY <3>1, <1>4, <2>1, <2>3 DEF PhaseOK, UndoPhases, Held, Claimed, Done
      <3> QED  BY <1>1, <1>2, <2>2, <3>1, <3>2 DEF Turn, Early
    <2>4. CASE Leaves(r)
      BY <1>1, <2>2, <2>4, LeavesTurn
    <2> QED  BY <1>1, <1>4, <2>3, <2>4 DEF completeApproval
  <1>5. CASE Fails(r) /\ action' = action
    BY <1>1, <1>5, FailsTurn
  <1> QED  BY <1>4, <1>5 DEF completeApproval

\* The end of an undo: a rollback has its last step to do, the others are over.
LEMMA UndoneTurns ==
    ASSUME Inv, RequestsAreSound, NEW r \in Requests, req[r].at \in UndoPhases, Undone(r),
           plan' = plan, unusual' = unusual,
           Onward(action, action'), RowOK(action', plan), Engaged
    PROVE  Turn(r)
  <1>1. req[r].at # "idle"
    BY DEF UndoPhases
  <1>2. PhaseOK(req[r], action, plan) /\ RowOK(action, plan) /\ req[r] # Idle
    BY <1>1, UnderWay
  <1>3. CASE req[r].kind = "rollback" /\ Goes(r, "finish")
    <2>1. /\ req'[r].at = "finish" /\ req'[r].operation = req[r].operation /\ req'[r] # Idle
          /\ req'[r].kind = req[r].kind /\ req'[r].key = req[r].key /\ req'[r].rev = req[r].rev
          /\ Only(r) /\ Same(r)
      BY <1>1, <1>3, GoesIs DEF Phases
    <2>2. PhaseOK(req[r], action', plan)
      BY <1>2, PhaseIsKept
    <2>3. PhaseOK(req'[r], action', plan)
      BY <1>2, <1>3, <2>1, <2>2 DEF PhaseOK, UndoPhases, Held
    <2> QED  BY <1>2, <1>3, <2>1, <2>3 DEF Turn, Early
  <1>4. CASE Fails(r)
    BY <1>1, <1>4, LeavesTurn DEF Fails
  <1> QED  BY <1>3, <1>4 DEF Undone

LEMMA ReadForUndoTurns ==
    ASSUME Inv, RequestsAreSound, NEW r \in Requests, ReadForUndo(r)
    PROVE  Turn(r)
  <1>1. req[r].at = "undo" /\ plan' = plan /\ action' = action /\ unusual' = unusual
    BY DEF ReadForUndo
  <1>2. PhaseOK(req[r], action, plan)
    BY <1>1, UnderWay
  <1>3. CASE action.status = "undone" /\ Undone(r)
    BY <1>1, <1>3, SameRowGoesOn, UndoneTurns DEF UndoPhases, Engaged, Claimed
  <1>4. ASSUME NEW phase \in {"undoApply", "undoClaim"}, Goes(r, phase),
               phase = "undoApply" => action.status = "undoing"
        PROVE  Turn(r)
    <2>1. /\ req'[r].at = phase /\ req'[r].operation = req[r].operation
          /\ req'[r].kind = req[r].kind /\ req'[r].key = req[r].key /\ req'[r].rev = req[r].rev
          /\ phase \in Phases
      BY <1>1, <1>4, GoesIs DEF Phases
    <2>2. PhaseOK(req'[r], action, plan)
      BY <1>1, <1>2, <1>4, <2>1 DEF PhaseOK, UndoPhases, Held, Approvals, Over
    <2> QED  BY <1>1, <1>4, <2>1, <2>2, GoesTurn DEF Early
  <1>5. CASE Fails(r)
    BY <1>1, <1>5, FailsTurn
  <1> QED  BY <1>3, <1>4, <1>5 DEF ReadForUndo

LEMMA ClaimUndoTurns ==
    ASSUME Inv, RequestsAreSound, NEW r \in Requests, ClaimUndo(r)
    PROVE  Turn(r)
  <1>1. req[r].at = "undoClaim" /\ plan' = plan /\ unusual' = unusual
    BY DEF ClaimUndo
  <1>2. PhaseOK(req[r], action, plan) /\ RowOK(action, plan) /\ req[r] # Idle
    BY <1>1, UnderWay
  <1>3. CASE /\ action.status = "applied"
             /\ action' = [action EXCEPT !.status = "undoing", !.revision = @ + 1, !.undoKey = UndoKey(r)]
             /\ Goes(r, "undoApply")
    <2>1. action'.status = "undoing" /\ action'.operation = action.operation /\ action'.key = action.key
      BY <1>3, UndoRowIs
    <2>2. Onward(action, action') /\ RowOK(action', plan) /\ Engaged
      BY <1>2, <1>3, <2>1 DEF Onward, RowOK, Claimed, Done, Over, Engaged
    <2>3. /\ req'[r].at = "undoApply" /\ req'[r].operation = req[r].operation /\ req'[r] # Idle
          /\ req'[r].kind = req[r].kind /\ req'[r].key = req[r].key /\ req'[r].rev = req[r].rev
          /\ Only(r) /\ Same(r)
      BY <1>1, <1>3, GoesIs DEF Phases
    <2>4. PhaseOK(req[r], action', plan) /\ Over(action')
      BY <1>2, <2>1, <2>2, PhaseIsKept DEF Over
    <2>5. PhaseOK(req'[r], action', plan)
      BY <1>1, <2>3, <2>4 DEF PhaseOK, UndoPhases, Held, Approvals
    <2> QED  BY <1>1, <1>2, <2>2, <2>3, <2>5 DEF Turn, Early
  <1>4. CASE Goes(r, "undo") /\ action' = action
    <2>1. /\ req'[r].at = "undo" /\ req'[r].operation = req[r].operation
          /\ req'[r].kind = req[r].kind /\ req'[r].key = req[r].key /\ req'[r].rev = req[r].rev
          /\ "undo" \in Phases
      BY <1>1, <1>4, GoesIs DEF Phases
    <2>2. PhaseOK(req'[r], action, plan)
      BY <1>1, <1>2, <2>1 DEF PhaseOK, UndoPhases, Held, Approvals
    <2> QED  BY <1>1, <1>4, <2>1, <2>2, GoesTurn DEF Early
  <1> QED  BY <1>3, <1>4 DEF ClaimUndo

LEMMA ApplyUndoTurns ==
    ASSUME Inv, RequestsAreSound, NEW r \in Requests, ApplyUndo(r)
    PROVE  Turn(r)
  <1>1. req[r].at = "undoApply" /\ plan' = plan /\ unusual' = unusual
    BY DEF ApplyUndo
  <1>2. PhaseOK(req[r], action, plan)
    BY <1>1, UnderWay
  <1>3. CASE Goes(r, "undoRecord") /\ action' = action
    <2>1. /\ req'[r].at = "undoRecord" /\ req'[r].operation = req[r].operation
          /\ req'[r].kind = req[r].kind /\ req'[r].key = req[r].key /\ req'[r].rev = req[r].rev
          /\ "undoRecord" \in Phases
      BY <1>1, <1>3, GoesIs DEF Phases
    <2>2. PhaseOK(req'[r], action, plan)
      BY <1>1, <1>2, <2>1 DEF PhaseOK, UndoPhases, Held, Approvals
    <2> QED  BY <1>1, <1>3, <2>1, <2>2, GoesTurn DEF Early
  <1>4. CASE Fails(r) /\ MarkFailed
    BY <1>1, <1>4, MarkFailedIs, LeavesTurn DEF Fails
  <1> QED  BY <1>3, <1>4 DEF ApplyUndo

LEMMA UndoRefusedTurns ==
    ASSUME Inv, RequestsAreSound, NEW r \in Requests, UndoRefused(r)
    PROVE  Turn(r)
  <1>1. req[r].at = "undoApply" /\ plan' = plan /\ unusual \subseteq unusual' /\ MarkFailed /\ Leaves(r)
    BY DEF UndoRefused, Fails
  <1> QED  BY <1>1, MarkFailedIs, LeavesTurn

LEMMA completeUndoTurns ==
    ASSUME Inv, RequestsAreSound, NEW r \in Requests, completeUndo(r)
    PROVE  Turn(r)
  <1>1. req[r].at = "undoRecord" /\ plan' = plan /\ unusual' = unusual
    BY DEF completeUndo
  <1>2. RowOK(action, plan)
    BY <1>1, UnderWay
  <1>3. CASE action.status = "undoing" /\ action' = [action EXCEPT !.status = "undone"] /\ Undone(r)
    <2>1. action'.status = "undone" /\ action'.operation = action.operation /\ action'.key = action.key
      BY <1>3, StatusIs
    <2>2. Onward(action, action') /\ RowOK(action', plan) /\ Engaged
      BY <1>2, <1>3, <2>1 DEF Onward, RowOK, Claimed, Done, Over, Engaged
    <2> QED  BY <1>1, <1>3, <2>2, UndoneTurns DEF UndoPhases
  <1>4. CASE Fails(r) /\ action' = action
    BY <1>1, <1>4, FailsTurn
  <1> QED  BY <1>3, <1>4 DEF completeUndo

-----------------------------------------------------------------------------
LEMMA ToolFailsTurns ==
    ASSUME Inv, RequestsAreSound, NEW r \in Requests, ToolFails(r)
    PROVE  Turn(r)
  <1>1. /\ req[r].at = "tools" /\ plan' = plan /\ action' = action /\ unusual' = unusual
        /\ Goes(r, "undoTools")
    BY DEF ToolFails
  <1>2. PhaseOK(req[r], action, plan)
    BY <1>1, UnderWay
  <1>3. /\ req'[r].at = "undoTools" /\ req'[r].operation = req[r].operation
        /\ req'[r].kind = req[r].kind /\ req'[r].key = req[r].key /\ "undoTools" \in Phases
    BY <1>1, GoesIs DEF Phases
  <1>4. PhaseOK(req'[r], action, plan)
    BY <1>1, <1>2, <1>3 DEF PhaseOK, UndoPhases, Held, Approvals
  <1> QED  BY <1>1, <1>3, <1>4, GoesTurn DEF Early

\* A run without cell changes may reach its validation only when it is applied.
LEMMA SaveToolCallsTurns ==
    ASSUME Inv, RequestsAreSound, NEW r \in Requests, SaveToolCalls(r)
    PROVE  Turn(r)
  <1> PICK phase : phase = IF plan.cells THEN "validate" ELSE "complete"
    OBVIOUS
  <1>1. /\ req[r].at = "tools" /\ plan' = plan /\ unusual' = unusual /\ Goes(r, phase)
        /\ action' = [action EXCEPT !.tools = req[r].tools]
    BY DEF SaveToolCalls
  <1>2. PhaseOK(req[r], action, plan) /\ RowOK(action, plan) /\ req[r] # Idle
    BY <1>1, UnderWay
  <1>3. action'.status = action.status /\ action'.operation = action.operation /\ action'.key = action.key
    BY <1>1, SavedRowIs
  <1>4. Onward(action, action') /\ RowOK(action', plan) /\ (Claimed(action') => Engaged)
    BY <1>2, <1>3 DEF Onward, RowOK, Claimed, Done, Over, Engaged
  <1>5. phase \in {"validate", "complete"} /\ (phase = "validate" <=> plan.cells)
    BY RowFields
  <1>6. /\ req'[r].at = phase /\ req'[r].operation = req[r].operation /\ req'[r] # Idle
        /\ req'[r].kind = req[r].kind /\ req'[r].key = req[r].key
        /\ Only(r) /\ Same(r)
    BY <1>1, <1>5, GoesIs DEF Phases
  <1>7. PhaseOK(req[r], action', plan)
    BY <1>2, <1>4, PhaseIsKept
  <1>8. PhaseOK(req'[r], action', plan)
    BY <1>1, <1>5, <1>6, <1>7 DEF PhaseOK, UndoPhases, Held, Approvals
  <1> QED  BY <1>1, <1>2, <1>4, <1>5, <1>6, <1>8 DEF Turn, Early

LEMMA completeToolOnlyApprovalTurns ==
    ASSUME Inv, RequestsAreSound, NEW r \in Requests, completeToolOnlyApproval(r)
    PROVE  Turn(r)
  <1>1. /\ req[r].at = "complete" /\ plan' = plan /\ unusual' = unusual /\ Goes(r, "validate")
        /\ action' = IF action.status \in {"applying", "applied"} /\ action.key = req[r].key
                     THEN [action EXCEPT !.status = "applied"] ELSE action
    BY DEF completeToolOnlyApproval
  <1>2. PhaseOK(req[r], action, plan) /\ RowOK(action, plan) /\ req[r] # Idle
    BY <1>1, UnderWay
  <1>3. action.key = req[r].key /\ Claimed(action) /\ ~plan.cells /\ req[r].kind = "approve"
    BY <1>1, <1>2 DEF PhaseOK, Held, Approvals
  <1>4. /\ action'.status = IF action.status \in {"applying", "applied"} THEN "applied" ELSE action.status
        /\ action'.operation = action.operation /\ action'.key = action.key
    <2>1. CASE action.status \in {"applying", "applied"}
      BY <1>1, <1>3, <2>1, StatusIs
    <2>2. CASE action.status \notin {"applying", "applied"}
      BY <1>1, <2>2
    <2> QED  BY <2>1, <2>2
  <1>5. Onward(action, action') /\ RowOK(action', plan) /\ Engaged
    BY <1>2, <1>3, <1>4 DEF Onward, RowOK, Claimed, Done, Over, Engaged
  <1>6. Done(action')
    BY <1>3, <1>4, RowFields DEF Done, Claimed, RunStatuses
  <1>7. /\ req'[r].at = "validate" /\ req'[r].operation = req[r].operation /\ req'[r] # Idle
        /\ req'[r].kind = req[r].kind /\ req'[r].key = req[r].key
        /\ Only(r) /\ Same(r)
    BY <1>1, GoesIs DEF Phases
  <1>8. PhaseOK(req[r], action', plan)
    BY <1>2, <1>5, PhaseIsKept
  <1>9. PhaseOK(req'[r], action', plan)
    BY <1>1, <1>3, <1>6, <1>7, <1>8 DEF PhaseOK, UndoPhases, Held, Approvals
  <1> QED  BY <1>1, <1>2, <1>5, <1>7, <1>9 DEF Turn, Early

LEMMA ValidateExecutionTurns ==
    ASSUME Inv, RequestsAreSound, NEW r \in Requests, ValidateExecution(r)
    PROVE  /\ Turn(r) /\ req'[r].at = "validated" /\ req'[r].kind = req[r].kind
           /\ req'[r].tools = req[r].tools /\ req'[r] # Idle
  <1>1. /\ req[r].at = "validate" /\ plan' = plan /\ action' = action /\ unusual' = unusual
        /\ req' = [req EXCEPT ![r].at = "validated", ![r].version = book.version]
    BY DEF ValidateExecution
  <1>2. PhaseOK(req[r], action, plan) /\ req[r] # Idle
    BY <1>1, UnderWay
  <1>3. req \in [Requests -> {Idle} \cup RequestsTo(plan, book.ids, book.version, action.revision)]
    BY DEF Inv, Types, ReqOK
  <1>4. req[r] \in RequestsTo(plan, book.ids, book.version, action.revision)
    BY <1>1, RequestFields DEF Inv
  <1> PICK v : v = book.version
    OBVIOUS
  <1> PICK q : q = [req[r] EXCEPT !.at = "validated", !.version = v]
    OBVIOUS
  <1>5. /\ q.at = "validated" /\ q.kind = req[r].kind /\ q.key = req[r].key /\ q.rev = req[r].rev
        /\ q.operation = req[r].operation /\ q.tools = req[r].tools
    BY <1>4 DEF RequestsTo
  <1>6. Only(r) /\ req'[r] = q
    BY <1>1, <1>3 DEF Only
  <1>7. q # Idle
    BY <1>5 DEF Idle
  <1>8. PhaseOK(q, action, plan)
    BY <1>1, <1>2, <1>5 DEF PhaseOK, UndoPhases, Held, Approvals
  <1>9. Same(r)
    BY <1>5, <1>6 DEF Same
  <1> QED  BY <1>1, <1>2, <1>5, <1>6, <1>7, <1>8, <1>9, SameRowGoesOn DEF Turn, Early

LEMMA EndsTurn ==
    ASSUME Inv, RequestsAreSound, NEW r \in Requests,
           completeAgentValidation(r) \/ FinishRollback(r) \/ CutOff(r)
    PROVE  Turn(r)
  <1>1. /\ plan' = plan /\ action' = action /\ unusual \subseteq unusual' /\ Leaves(r)
    BY DEF completeAgentValidation, FinishRollback, CutOff, Disturbance
  <1>2. req[r].at # "idle"
    BY RequestFields DEF completeAgentValidation, FinishRollback, CutOff, Inv, Phases
  <1> QED  BY <1>1, <1>2, SameRowGoesOn, LeavesTurn

LEMMA CheckVersionTurns ==
    ASSUME Inv, RequestsAreSound, NEW r \in Requests, CheckVersion(r)
    PROVE  Turn(r)
  <1>1. /\ req[r].at = "check" /\ plan' = plan /\ action' = action /\ unusual' = unusual
    BY DEF CheckVersion
  <1>2. PhaseOK(req[r], action, plan)
    BY <1>1, UnderWay
  <1>3. CASE Goes(r, "undoTools")
    <2>1. /\ req'[r].at = "undoTools" /\ req'[r].operation = req[r].operation
          /\ req'[r].kind = req[r].kind /\ req'[r].key = req[r].key /\ req'[r].rev = req[r].rev
          /\ "undoTools" \in Phases
      BY <1>1, <1>3, GoesIs DEF Phases
    <2>2. PhaseOK(req'[r], action, plan)
      BY <1>1, <1>2, <2>1 DEF PhaseOK, UndoPhases, Held, Approvals
    <2> QED  BY <1>1, <1>3, <2>1, <2>2, GoesTurn DEF Early
  <1>4. CASE Leaves(r)
    BY <1>1, <1>4, SameRowGoesOn, LeavesTurn
  <1> QED  BY <1>3, <1>4 DEF CheckVersion

\* A request stores what a tool, or its undo, came to.
LEMMA StoresIs ==
    ASSUME Inv, NEW r \in Requests, req[r].at # "idle", NEW i, NEW o,
           req' = [req EXCEPT ![r].tools[i] = o]
    PROVE  /\ Only(r) /\ Same(r) /\ req'[r] # Idle /\ req'[r].at = req[r].at
           /\ req'[r].kind = req[r].kind /\ req'[r].key = req[r].key /\ req'[r].rev = req[r].rev
           /\ req'[r].operation = req[r].operation
           /\ req'[r].tools = [req[r].tools EXCEPT ![i] = o]
  <1>1. req \in [Requests -> {Idle} \cup RequestsTo(plan, book.ids, book.version, action.revision)]
    BY DEF Inv, Types, ReqOK
  <1>2. req[r] \in RequestsTo(plan, book.ids, book.version, action.revision)
    BY RequestFields DEF Inv
  <1> PICK t : t = [req[r].tools EXCEPT ![i] = o]
    OBVIOUS
  <1> PICK q : q = [req[r] EXCEPT !.tools = t]
    OBVIOUS
  <1>3. /\ q.at = req[r].at /\ q.kind = req[r].kind /\ q.key = req[r].key /\ q.rev = req[r].rev
        /\ q.operation = req[r].operation /\ q.tools = t
    BY <1>2 DEF RequestsTo
  <1>4. Only(r) /\ req'[r] = q
    BY <1>1 DEF Only
  <1>5. q # Idle
    BY <1>3 DEF Idle
  <1> QED  BY <1>3, <1>4, <1>5 DEF Same

LEMMA StoresTurn ==
    ASSUME Inv, RequestsAreSound, NEW r \in Requests, req[r].at \in {"tools", "undoTools"}, NEW i, NEW o,
           req' = [req EXCEPT ![r].tools[i] = o],
           plan' = plan, action' = action, unusual' = unusual
    PROVE  Turn(r)
  <1>1. PhaseOK(req[r], action, plan) /\ req[r] # Idle
    BY UnderWay
  <1>2. /\ Only(r) /\ Same(r) /\ req'[r] # Idle /\ req'[r].at = req[r].at
        /\ req'[r].kind = req[r].kind /\ req'[r].key = req[r].key /\ req'[r].rev = req[r].rev
        /\ req'[r].operation = req[r].operation
    BY StoresIs
  <1>3. PhaseOK(req'[r], action, plan)
    BY <1>1, <1>2 DEF PhaseOK
  <1> QED  BY <1>1, <1>2, <1>3, SameRowGoesOn DEF Turn, Early

LEMMA ToolTurns ==
    ASSUME Inv, RequestsAreSound, NEW r \in Requests, RunTool(r) \/ UndoTool(r)
    PROVE  Turn(r)
  <1>1. CASE RunTool(r)
    <2> PICK i : i = Min(Open(r))
      OBVIOUS
    <2> PICK o : o = RanTool(i).outcome
      OBVIOUS
    <2>1. req' = [req EXCEPT ![r].tools[i] = o]
      BY <1>1 DEF RunTool
    <2> QED  BY <1>1, <2>1, StoresTurn DEF RunTool
  <1>2. CASE UndoTool(r)
    <2> PICK i : i = Max(ToUndo(r))
      OBVIOUS
    <2>1. req' = [req EXCEPT ![r].tools[i] = Pending]
      BY <1>2 DEF UndoTool
    <2> QED  BY <1>2, <2>1, StoresTurn DEF UndoTool
  <1> QED  BY <1>1, <1>2

\* After the tools, the cells.
LEMMA UndoCellsTurns ==
    ASSUME Inv, RequestsAreSound, NEW r \in Requests, req[r].at = "undoTools", req[r].operation, UndoCells(r),
           plan' = plan, action' = action, unusual \subseteq unusual'
    PROVE  Turn(r)
  <1>1. PhaseOK(req[r], action, plan) /\ req[r] # Idle
    BY UnderWay
  <1>2. /\ Only(r) /\ Same(r) /\ req'[r] # Idle /\ req'[r].at = "undo"
        /\ req'[r].operation = req[r].operation
        /\ req'[r].kind = req[r].kind /\ req'[r].key = req[r].key
        /\ req'[r].kind # "approve" => req'[r].rev = req[r].rev
    BY UndoCellsIs
  <1>3. PhaseOK(req'[r], action, plan)
    BY <1>1, <1>2 DEF PhaseOK, UndoPhases, Held, Approvals
  <1> QED  BY <1>1, <1>2, <1>3, SameRowGoesOn DEF Turn, Early

LEMMA UndoToolFailsTurns ==
    ASSUME Inv, RequestsAreSound, NEW r \in Requests, UndoToolFails(r)
    PROVE  Turn(r)
  <1>1. req[r].at = "undoTools" /\ plan' = plan /\ action' = action /\ unusual \subseteq unusual'
    BY DEF UndoToolFails
  <1>2. CASE Fails(r)
    BY <1>1, <1>2, FailsTurn
  <1>3. CASE req[r].operation /\ UndoCells(r)
    BY <1>1, <1>3, UndoCellsTurns
  <1> QED  BY <1>2, <1>3 DEF UndoToolFails

LEMMA ToolsUndoneTurns ==
    ASSUME Inv, RequestsAreSound, NEW r \in Requests, ToolsUndone(r)
    PROVE  Turn(r)
  <1>1. req[r].at = "undoTools" /\ plan' = plan /\ action' = action /\ unusual' = unusual
    BY DEF ToolsUndone
  <1>2. CASE req[r].operation /\ UndoCells(r)
    BY <1>1, <1>2, UndoCellsTurns
  <1>3. CASE ~req[r].operation /\ req[r].kind = "rollback" /\ Goes(r, "close")
    <2>1. PhaseOK(req[r], action, plan)
      BY <1>1, UnderWay
    <2>2. /\ req'[r].at = "close" /\ req'[r].operation = req[r].operation
          /\ req'[r].kind = req[r].kind /\ req'[r].key = req[r].key /\ req'[r].rev = req[r].rev
          /\ "close" \in Phases
      BY <1>1, <1>3, GoesIs DEF Phases
    <2>3. PhaseOK(req'[r], action, plan)
      BY <1>3, <2>1, <2>2 DEF PhaseOK, UndoPhases, Held, Approvals
    <2> QED  BY <1>1, <1>3, <2>2, <2>3, GoesTurn DEF Early
  <1>4. CASE Fails(r)
    BY <1>1, <1>4, FailsTurn
  <1> QED  BY <1>2, <1>3, <1>4 DEF ToolsUndone

LEMMA CloseRunTurns ==
    ASSUME Inv, RequestsAreSound, NEW r \in Requests, CloseRun(r)
    PROVE  Turn(r)
  <1>1. req[r].at = "close" /\ plan' = plan /\ unusual' = unusual
    BY DEF CloseRun
  <1>2. PhaseOK(req[r], action, plan) /\ RowOK(action, plan) /\ req[r] # Idle
    BY <1>1, UnderWay
  <1>3. CASE /\ action.status = "applied" /\ Goes(r, "finish")
             /\ action' = [action EXCEPT !.status = "undone", !.revision = @ + 1, !.undoKey = UndoKey(r)]
    <2>1. action'.status = "undone" /\ action'.operation = action.operation /\ action'.key = action.key
      BY <1>3, UndoRowIs
    <2>2. Onward(action, action') /\ RowOK(action', plan) /\ Engaged
      BY <1>2, <1>3, <2>1 DEF Onward, RowOK, Claimed, Done, Over, Engaged
    <2>3. /\ req'[r].at = "finish" /\ req'[r].operation = req[r].operation /\ req'[r] # Idle
          /\ req'[r].kind = req[r].kind /\ req'[r].key = req[r].key /\ req'[r].rev = req[r].rev
          /\ Only(r) /\ Same(r)
      BY <1>1, <1>3, GoesIs DEF Phases
    <2>4. PhaseOK(req[r], action', plan)
      BY <1>2, <2>2, PhaseIsKept
    <2>5. PhaseOK(req'[r], action', plan)
      BY <1>1, <2>3, <2>4 DEF PhaseOK, UndoPhases, Held
    <2> QED  BY <1>1, <1>2, <2>2, <2>3, <2>5 DEF Turn, Early
  <1>4. CASE Fails(r) /\ action' = action
    BY <1>1, <1>4, FailsTurn
  <1> QED  BY <1>3, <1>4 DEF CloseRun

LEMMA EveryStepTurns ==
    ASSUME Inv, RequestsAreSound, NEW r \in Requests, Step(r) \/ CutOff(r)
    PROVE  Turn(r)
  BY ReadForApprovalTurns, ReadVersionTurns, ClaimTurns, ApplyApprovedTurns, completeApprovalTurns,
     ReadForUndoTurns, ClaimUndoTurns, ApplyUndoTurns, UndoRefusedTurns, completeUndoTurns,
     ToolTurns, ToolFailsTurns,
     SaveToolCallsTurns, completeToolOnlyApprovalTurns, ValidateExecutionTurns, EndsTurn,
     CheckVersionTurns, UndoToolFailsTurns, ToolsUndoneTurns, CloseRunTurns
  DEF Step

-----------------------------------------------------------------------------
\* A request begins.
LEMMA ArrivesIs ==
    ASSUME Inv, NEW r \in Requests, NEW kind, NEW k, NEW revision, NEW phase \in Phases,
           Arrives(r, kind, k, revision, phase)
    PROVE  /\ req[r] = Idle /\ Only(r) /\ req'[r] # Idle
           /\ req'[r].at = phase /\ req'[r].kind = kind /\ req'[r].key = k /\ req'[r].rev = revision
           /\ req'[r].tools = action.tools /\ req'[r].operation = action.operation
           /\ plan' = plan /\ action' = action /\ book' = book /\ unusual' = Unusual(kind, k)
  <1>1. req \in [Requests -> {Idle} \cup RequestsTo(plan, book.ids, book.version, action.revision)]
    BY DEF Inv, Types, ReqOK
  <1> PICK q : q = [at |-> phase, kind |-> kind, key |-> k, rev |-> revision,
                    tools |-> action.tools, operation |-> action.operation, version |-> applied]
    OBVIOUS
  <1>2. Only(r) /\ req'[r] = q
    BY <1>1 DEF Arrives, Only
  <1>3. q # Idle
    BY DEF Idle, Phases
  <1> QED  BY <1>2, <1>3 DEF Arrives

\* What an arrival of request r shows.
Arrival(r) ==
    /\ plan' = plan /\ action' = action /\ book' = book /\ unusual \subseteq unusual'
    /\ req[r] = Idle /\ Only(r) /\ req'[r] # Idle
    /\ PhaseOK(req'[r], action, plan)
    /\ req'[r].tools = action.tools

LEMMA EveryArrival ==
    ASSUME Inv, RequestsAreSound, NEW r \in Requests, NEW k \in Keys, NEW revision \in 1..action.revision,
           \/ ApproveRun(r, k, revision) \/ RollbackChangeSet(r, k, revision)
           \/ ApproveAction(r, k, revision) \/ UndoAction(r, k, revision)
    PROVE  Arrival(r)
  <1>1. RowOK(action, plan) /\ plan.cells \in BOOLEAN /\ RevisionOK(action)
    BY RowFields DEF RequestsAreSound
  <1>2. \A kind, key : unusual \subseteq Unusual(kind, key)
    BY DEF Unusual
  <1>3. CASE ApproveRun(r, k, revision)
    <2> PICK phase : phase = CASE plan.cells -> "approve"
                               [] ~plan.cells /\ action.status = "applying" /\ action.key = k -> "tools"
                               [] OTHER -> "version"
      OBVIOUS
    <2>1. /\ phase \in {"approve", "tools", "version"}
          /\ phase = "approve" <=> plan.cells
          /\ phase = "tools" => action.status = "applying" /\ action.key = k
      BY <1>1
    <2>2. Arrives(r, "approve", k, revision, phase) /\ phase \in Phases
      BY <1>3, <2>1 DEF ApproveRun, Phases
    <2>3. /\ req[r] = Idle /\ Only(r) /\ req'[r] # Idle
          /\ req'[r].at = phase /\ req'[r].kind = "approve" /\ req'[r].key = k
          /\ req'[r].tools = action.tools /\ req'[r].operation = action.operation
          /\ plan' = plan /\ action' = action /\ book' = book /\ unusual' = Unusual("approve", k)
      BY <2>2, ArrivesIs
    <2>4. PhaseOK(req'[r], action, plan)
      BY <2>1, <2>3 DEF PhaseOK, UndoPhases, Held, Approvals, Claimed
    <2> QED  BY <1>2, <2>3, <2>4 DEF Arrival
  <1>4. CASE RollbackChangeSet(r, k, revision)
    <2>1. Arrives(r, "rollback", k, revision, "check") /\ "check" \in Phases
      BY <1>4 DEF RollbackChangeSet, Phases
    <2>2. /\ req[r] = Idle /\ Only(r) /\ req'[r] # Idle
          /\ req'[r].at = "check" /\ req'[r].kind = "rollback" /\ req'[r].rev = revision
          /\ req'[r].tools = action.tools /\ req'[r].operation = action.operation
          /\ plan' = plan /\ action' = action /\ book' = book /\ unusual' = Unusual("rollback", k)
      BY <2>1, ArrivesIs
    <2>3. action.status = "applied" /\ revision = 2
      BY <1>1, <1>4 DEF RollbackChangeSet, RevisionOK
    <2>4. PhaseOK(req'[r], action, plan)
      BY <1>1, <2>2, <2>3 DEF PhaseOK, UndoPhases, Held, Approvals, Done, RowOK
    <2> QED  BY <1>2, <2>2, <2>4 DEF Arrival
  <1>5. CASE ApproveAction(r, k, revision)
    <2>1. Arrives(r, "approveCells", k, revision, "approve") /\ "approve" \in Phases /\ plan.cells
      BY <1>5 DEF ApproveAction, Phases
    <2>2. /\ req[r] = Idle /\ Only(r) /\ req'[r] # Idle
          /\ req'[r].at = "approve" /\ req'[r].kind = "approveCells"
          /\ req'[r].tools = action.tools /\ req'[r].operation = action.operation
          /\ plan' = plan /\ action' = action /\ book' = book /\ unusual' = Unusual("approveCells", k)
      BY <2>1, ArrivesIs
    <2>3. PhaseOK(req'[r], action, plan)
      BY <2>1, <2>2 DEF PhaseOK, UndoPhases, Held, Approvals
    <2> QED  BY <1>2, <2>2, <2>3 DEF Arrival
  <1>6. CASE UndoAction(r, k, revision)
    <2>1. Arrives(r, "undoCells", k, revision, "undo") /\ "undo" \in Phases
      BY <1>6 DEF UndoAction, Phases
    <2>2. /\ req[r] = Idle /\ Only(r) /\ req'[r] # Idle
          /\ req'[r].at = "undo" /\ req'[r].kind = "undoCells"
          /\ req'[r].tools = action.tools /\ req'[r].operation = action.operation
          /\ plan' = plan /\ action' = action /\ book' = book /\ unusual' = Unusual("undoCells", k)
      BY <2>1, ArrivesIs
    <2>3. PhaseOK(req'[r], action, plan)
      BY <2>2 DEF PhaseOK, UndoPhases, Held, Approvals
    <2> QED  BY <1>2, <2>2, <2>3 DEF Arrival
  <1> QED  BY <1>3, <1>4, <1>5, <1>6

LEMMA ArrivalKeepsRequests ==
    ASSUME RequestsAreSound, NEW r \in Requests, Arrival(r)
    PROVE  RequestsAreSound'
  <1>1. ASSUME NEW s \in Requests, req'[s] # Idle
        PROVE  PhaseOK(req'[s], action, plan)
    BY <1>1 DEF Arrival, Only, RequestsAreSound
  <1>2. RowOK(action', plan') /\ \A s \in Requests : req'[s] # Idle => PhaseOK(req'[s], action', plan')
    BY <1>1 DEF Arrival, RequestsAreSound
  <1> QED  BY <1>2 DEF RequestsAreSound

\* The steps of nobody's request: the row goes on, or only the workbook changes.
LEMMA CancelIs ==
    ASSUME Inv, RequestsAreSound, (\E n \in 1..action.revision : CancelRun(n)) \/ supersedePendingAgentRuns
    PROVE  /\ action.status = "planned" /\ action'.status = "cancelled" /\ action'.tools = action.tools
           /\ action'.key = action.key
           /\ plan' = plan /\ book' = book /\ req' = req /\ unusual' = unusual
           /\ Onward(action, action') /\ RowOK(action', plan)
  <1>1. PICK n : CancelRun(n)
    BY DEF supersedePendingAgentRuns
  <1> PICK m : m = action.revision + 1
    OBVIOUS
  <1>2. action.status = "planned" /\ action' = [action EXCEPT !.status = "cancelled", !.revision = m]
    BY <1>1 DEF CancelRun
  <1>3. action'.status = "cancelled" /\ action'.tools = action.tools /\ action'.key = action.key
        /\ action'.operation = action.operation
    BY <1>2 DEF Inv, Types, ActionsTo
  <1>4. RowOK(action, plan)
    BY DEF RequestsAreSound
  <1>5. Onward(action, action') /\ RowOK(action', plan)
    BY <1>2, <1>3, <1>4 DEF Onward, RowOK, Claimed, Done, Over
  <1> QED  BY <1>1, <1>2, <1>3, <1>5 DEF CancelRun

LEMMA OthersKeepRequests ==
    ASSUME RequestsAreSound, plan' = plan, req' = req, Onward(action, action'), RowOK(action', plan)
    PROVE  RequestsAreSound'
  <1>1. \A s \in Requests : req'[s] # Idle => PhaseOK(req'[s], action', plan')
    BY PhaseIsKept DEF RequestsAreSound
  <1> QED  BY <1>1 DEF RequestsAreSound

LEMMA OthersAre ==
    ASSUME OthersWrite \/ OthersEdit \/ OthersRestructure
    PROVE  plan' = plan /\ action' = action /\ req' = req /\ unusual' = unusual
  BY DEF OthersWrite, OthersEdit, OthersRestructure, Disturbance

LEMMA NextKeepsRequests ==
    ASSUME Inv, RequestsAreSound, [Next]_vars
    PROVE  RequestsAreSound'
  <1>1. ASSUME NEW r \in Requests, NEW k \in Keys, NEW revision \in 1..action.revision,
               \/ ApproveRun(r, k, revision) \/ RollbackChangeSet(r, k, revision)
               \/ ApproveAction(r, k, revision) \/ UndoAction(r, k, revision)
        PROVE  RequestsAreSound'
    BY <1>1, EveryArrival, ArrivalKeepsRequests
  <1>2. CASE (\E n \in 1..action.revision : CancelRun(n)) \/ supersedePendingAgentRuns
    BY <1>2, CancelIs, OthersKeepRequests
  <1>3. ASSUME NEW r \in Requests, Step(r) \/ CutOff(r)
        PROVE  RequestsAreSound'
    BY <1>3, EveryStepTurns, TurnKeepsRequests
  <1>4. CASE OthersWrite \/ OthersEdit \/ OthersRestructure
    BY <1>4, OthersAre, SameRowGoesOn, OthersKeepRequests
  <1>5. CASE UNCHANGED vars
    BY <1>5, SameRowGoesOn, OthersKeepRequests DEF vars
  <1> QED  BY <1>1, <1>2, <1>3, <1>4, <1>5 DEF Next

-----------------------------------------------------------------------------
(***************************************************************************)
(* The workbook and the outcomes                                           *)
(***************************************************************************)

\* Nothing of the run is added: what every step does but that of a tool.
Shrinks(b, c) ==
    /\ \A t \in c.things : \E s \in b.things : s.tool = t.tool /\ s.id = t.id
    /\ c.range = "sorted" => b.range = "sorted" /\ \A i : <<"sort-undo", i>> \in c.ops => <<"sort-undo", i>> \in b.ops
    /\ c.chart = b.chart \/ (c.chart.rev > b.chart.rev /\ c.chart.by # "agent")
    /\ \A i : <<"sort", i>> \in b.ops => <<"sort", i>> \in c.ops
    /\ \A i : <<"sort-undo", i>> \in c.ops => <<"sort-undo", i>> \in b.ops \/ <<"sort", i>> \in c.ops

LEMMA ShrinkKeepsOutcome ==
    ASSUME NEW i, NEW o, NEW b, NEW c, NEW p, NEW u, NEW v, u \subseteq v,
           b.chart.rev \in Nat, c.chart.rev \in Nat, o.rev \in Nat,
           OutcomeOK(i, o, b, p, u), Shrinks(b, c)
    PROVE  OutcomeOK(i, o, c, p, v)
  <1> SUFFICES ASSUME o.done PROVE OutcomeOK(i, o, c, p, v)
    BY DEF OutcomeOK
  <1>1. \A t \in c.things : t.id = o.id => t.tool = i
    BY DEF OutcomeOK, Shrinks
  <1>2. p.tools[i] = "sort" => <<"sort", i>> \in c.ops
    BY DEF OutcomeOK, Shrinks
  <1>3. p.tools[i] = "update" => o.rev <= c.chart.rev /\ (o.rev = c.chart.rev => c.chart.by # "other")
    BY DEF OutcomeOK, Shrinks
  <1>4. p.tools[i] = "object" /\ v \subseteq {"cellsOnly", "refused"} => o.rev = 1
    BY DEF OutcomeOK
  <1> QED  BY <1>1, <1>2, <1>3, <1>4 DEF OutcomeOK

LEMMA ShrinkKeepsBook ==
    ASSUME NEW b, NEW c, NEW p, b.chart.rev \in Nat \ {0}, c.chart.rev \in Nat,
           BookOK(b, p), Shrinks(b, c)
    PROVE  BookOK(c, p)
  <1>1. c.chart.rev = 1 => c.chart.by = "before"
    BY DEF BookOK, Shrinks
  <1>2. \A t, s \in c.things : t.id = s.id => t.tool = s.tool
    BY DEF BookOK, Shrinks
  <1>3. \A t \in c.things : p.tools[t.tool] \in {"object", "report"}
    BY DEF BookOK, Shrinks
  <1>4. \A i \in DOMAIN p.tools : <<"sort-undo", i>> \in c.ops => <<"sort", i>> \in c.ops
    BY DEF BookOK, Shrinks
  <1>5. c.range = "sorted" \/ c.chart.by = "agent" => DOMAIN p.tools # {}
    BY DEF BookOK, Shrinks
  <1> QED  BY <1>1, <1>2, <1>3, <1>4, <1>5 DEF BookOK

LEMMA ShrinkKeepsNames ==
    ASSUME NEW tools, NEW b, NEW c, NEW p, Names(tools, b, p), Shrinks(b, c)
    PROVE  Names(tools, c, p)
  <1>1. \A t \in c.things : tools[t.tool].done /\ tools[t.tool].id = t.id
    BY DEF Names, Shrinks
  <1>2. c.range = "sorted" =>
          \E i \in DOMAIN p.tools : p.tools[i] = "sort" /\ tools[i].done /\ <<"sort-undo", i>> \notin c.ops
    BY DEF Names, Shrinks
  <1>3. c.chart.by = "agent" =>
          \E i \in DOMAIN p.tools : p.tools[i] = "update" /\ tools[i].done /\ tools[i].rev = c.chart.rev
    BY DEF Names, Shrinks
  <1> QED  BY <1>1, <1>2, <1>3 DEF Names

LEMMA ShrinkKeepsNothing ==
    ASSUME NEW b, NEW c, NoEffects(b), Shrinks(b, c)
    PROVE  NoEffects(c)
  BY DEF NoEffects, Shrinks

LEMMA NothingToName ==
    ASSUME NEW tools, NEW b, NEW p, NoEffects(b)
    PROVE  Names(tools, b, p)
  BY DEF NoEffects, Names

LEMMA SameShrinks ==
    ASSUME NEW b, NEW c, c = b
    PROVE  Shrinks(b, c)
  BY DEF Shrinks

\* Which outcomes a step may leave in a record: those there were, and Pending.
Recorded(tools) ==
    \/ tools = action.tools
    \/ \E r \in Requests : req[r] # Idle /\
          \/ tools = req[r].tools
          \/ \E i \in DOMAIN plan.tools : tools = [req[r].tools EXCEPT ![i] = Pending]

LEMMA RecordedIsSound ==
    ASSUME Inv, RecordsAreSound, NEW tools, Recorded(tools)
    PROVE  tools \in RecordsTo(plan, book.ids) /\ RecordOK(tools, book, plan, unusual)
  <1>1. CASE tools = action.tools
    BY <1>1 DEF RecordsAreSound, Inv, Types, ActionsTo
  <1>2. ASSUME NEW r \in Requests, req[r] # Idle, tools = req[r].tools
        PROVE  tools \in RecordsTo(plan, book.ids) /\ RecordOK(tools, book, plan, unusual)
    BY <1>2, RequestFields DEF RecordsAreSound, Inv
  <1>3. ASSUME NEW r \in Requests, req[r] # Idle, NEW i \in DOMAIN plan.tools,
               tools = [req[r].tools EXCEPT ![i] = Pending]
        PROVE  tools \in RecordsTo(plan, book.ids) /\ RecordOK(tools, book, plan, unusual)
    <2>1. req[r].tools \in RecordsTo(plan, book.ids) /\ RecordOK(req[r].tools, book, plan, unusual)
      BY <1>3, RequestFields DEF RecordsAreSound, Inv
    <2>2. Pending \in OutcomesTo(book.ids)
      BY DEF Pending, OutcomesTo, Inv, Types
    <2>3. tools \in RecordsTo(plan, book.ids)
      BY <1>3, <2>1, <2>2 DEF RecordsTo
    <2>4. ASSUME NEW j \in DOMAIN plan.tools
          PROVE  OutcomeOK(j, tools[j], book, plan, unusual)
      <3>1. tools[j] = Pending \/ tools[j] = req[r].tools[j]
        BY <1>3, <2>1 DEF RecordsTo
      <3>2. OutcomeOK(j, Pending, book, plan, unusual)
        BY DEF OutcomeOK, Pending
      <3>3. OutcomeOK(j, req[r].tools[j], book, plan, unusual)
        BY <2>1 DEF RecordOK
      <3> QED  BY <3>1, <3>2, <3>3
    <2> QED  BY <2>3, <2>4 DEF RecordOK
  <1> QED  BY <1>1, <1>2, <1>3 DEF Recorded

LEMMA ShrinkKeepsRecord ==
    ASSUME Inv, Inv', plan' = plan, unusual \subseteq unusual', Shrinks(book, book'),
           NEW tools, tools \in RecordsTo(plan, book.ids), RecordOK(tools, book, plan, unusual)
    PROVE  RecordOK(tools, book', plan, unusual')
  <1>1. book.chart.rev \in Nat /\ book'.chart.rev \in Nat
    BY DEF Inv, Types, Books, ChartRows
  <1>2. \A i \in DOMAIN plan.tools : tools[i].rev \in Nat
    BY DEF RecordsTo, OutcomesTo
  <1> QED  BY <1>1, <1>2, ShrinkKeepsOutcome DEF RecordOK

LEMMA ShrinkKeepsRecords ==
    ASSUME Inv, Inv', RecordsAreSound,
           plan' = plan, unusual \subseteq unusual', Shrinks(book, book'),
           Recorded(action'.tools), \A r \in Requests : req'[r] # Idle => Recorded(req'[r].tools)
    PROVE  RecordsAreSound'
  <1>1. BookOK(book', plan)
    <2>1. book.chart.rev \in Nat \ {0} /\ book'.chart.rev \in Nat
      BY DEF Inv, Types, Books, ChartRows
    <2> QED  BY <2>1, ShrinkKeepsBook DEF RecordsAreSound
  <1>2. ASSUME NEW tools, Recorded(tools)
        PROVE  RecordOK(tools, book', plan, unusual')
    BY <1>2, RecordedIsSound, ShrinkKeepsRecord
  <1>3. RecordOK(action'.tools, book', plan, unusual')
    BY <1>2
  <1>4. ASSUME NEW r \in Requests, req'[r] # Idle
        PROVE  RecordOK(req'[r].tools, book', plan, unusual')
    BY <1>2, <1>4
  <1> QED  BY <1>1, <1>3, <1>4 DEF RecordsAreSound

-----------------------------------------------------------------------------
\* What the undo of a tool changes in the workbook.
LEMMA DeletedIs ==
    ASSUME Inv, NEW o, NEW c, c = DeleteThing(o)
    PROVE  /\ c.things = book.things \ ThingOf(o)
           /\ c.range = book.range /\ c.chart = book.chart /\ c.ops = book.ops /\ c.cells = book.cells
           /\ c.version = book.version \/ c.version = book.version + 1
  BY BookFacts DEF DeleteThing, Books

LEMMA UnsortedIs ==
    ASSUME Inv, NEW i, NEW c \in UnsortRange(i)
    PROVE  \/ <<"sort-undo", i>> \in book.ops /\ c = book
           \/ /\ <<"sort-undo", i>> \notin book.ops
              /\ c.things = book.things /\ c.chart = book.chart /\ c.cells = book.cells
              /\ c.ops = book.ops \cup {<<"sort-undo", i>>}
              /\ c.range # "sorted" /\ (book.range = "theirs" => c.range = "theirs")
              /\ c.version = book.version + 1
  <1>1. CASE <<"sort-undo", i>> \in book.ops
    BY <1>1 DEF UnsortRange
  <1>2. CASE <<"sort-undo", i>> \notin book.ops
    <2>1. PICK x \in PutBack(book.range, "sorted", "plain") :
             c = [book EXCEPT !.version = @ + 1, !.ops = @ \cup {<<"sort-undo", i>>}, !.range = x]
      BY <1>2 DEF UnsortRange
    <2>2. x # "sorted" /\ (book.range = "theirs" => x = "theirs")
      BY <2>1, PutBackRange
    <2>3. /\ c.things = book.things /\ c.chart = book.chart /\ c.cells = book.cells
          /\ c.ops = book.ops \cup {<<"sort-undo", i>>} /\ c.range = x /\ c.version = book.version + 1
      BY <2>1, BookFacts DEF Books
    <2> QED  BY <1>2, <2>2, <2>3
  <1> QED  BY <1>1, <1>2

LEMMA RestoredIs ==
    ASSUME Inv, NEW c, c = RestoreChart
    PROVE  /\ c.things = book.things /\ c.range = book.range /\ c.ops = book.ops /\ c.cells = book.cells
           /\ c.chart.rev = book.chart.rev + 1 /\ c.chart.by = "before"
           /\ c.version = book.version + 1
  BY BookFacts DEF RestoreChart, Books

LEMMA UndoneShrinks ==
    ASSUME Inv, NEW i \in DOMAIN plan.tools, NEW o, o.done, OutcomeOK(i, o, book, plan, unusual),
           NEW c, c \in UndoneTool(i, o)
    PROVE  Shrinks(book, c)
  <1>1. CASE plan.tools[i] \in {"object", "report"}
    <2>1. c = DeleteThing(o)
      BY <1>1 DEF UndoneTool
    <2> QED  BY <2>1, DeletedIs DEF Shrinks
  <1>2. CASE plan.tools[i] = "sort"
    <2>1. c \in UnsortRange(i)
      BY <1>2 DEF UndoneTool
    <2>2. <<"sort", i>> \in book.ops
      BY <1>2 DEF OutcomeOK
    <2>3. CASE c = book
      BY <2>3, SameShrinks
    <2>4. CASE /\ c.things = book.things /\ c.chart = book.chart
               /\ c.ops = book.ops \cup {<<"sort-undo", i>>}
               /\ c.range # "sorted"
      BY <2>2, <2>4 DEF Shrinks
    <2> QED  BY <2>1, <2>3, <2>4, UnsortedIs
  <1>3. CASE plan.tools[i] = "update"
    <2>1. c = RestoreChart
      BY <1>3 DEF UndoneTool
    <2> QED  BY <2>1, RestoredIs, BookFacts DEF Shrinks
  <1> QED  BY <1>1, <1>2, <1>3, ToolKind

\* The outcomes still name everything when the last of them is undone and forgotten.
LEMMA UndoneIsForgotten ==
    ASSUME Inv, NEW i \in DOMAIN plan.tools, NEW tools \in RecordsTo(plan, book.ids),
           BookOK(book, plan), Names(tools, book, plan),
           NEW c, c \in UndoneTool(i, tools[i])
    PROVE  Names([tools EXCEPT ![i] = Pending], c, plan)
  <1> PICK rest : rest = [tools EXCEPT ![i] = Pending]
    OBVIOUS
  <1>1. \A j \in DOMAIN plan.tools : j # i => rest[j] = tools[j]
    BY DEF RecordsTo
  <1>2. \A t \in book.things : t.tool \in DOMAIN plan.tools
    BY BookFacts DEF Things
  <1>3. CASE plan.tools[i] \in {"object", "report"}
    <2>1. /\ c.things = book.things \ ThingOf(tools[i])
          /\ c.range = book.range /\ c.chart = book.chart /\ c.ops = book.ops
      <3>1. c = DeleteThing(tools[i])
        BY <1>3 DEF UndoneTool
      <3> QED  BY <3>1, DeletedIs
    <2>2. ASSUME NEW t \in c.things PROVE rest[t.tool].done /\ rest[t.tool].id = t.id
      <3>1. t \in book.things /\ t.id # tools[i].id
        BY <2>1 DEF ThingOf
      <3>2. t.tool # i
        BY <3>1 DEF Names
      <3> QED  BY <1>1, <1>2, <3>1, <3>2 DEF Names
    <2>3. c.range = "sorted" =>
          \E j \in DOMAIN plan.tools : plan.tools[j] = "sort" /\ rest[j].done /\ <<"sort-undo", j>> \notin c.ops
      BY <1>1, <1>3, <2>1 DEF Names
    <2>4. c.chart.by = "agent" =>
          \E j \in DOMAIN plan.tools : plan.tools[j] = "update" /\ rest[j].done /\ rest[j].rev = c.chart.rev
      BY <1>1, <1>3, <2>1 DEF Names
    <2> QED  BY <2>2, <2>3, <2>4 DEF Names
  <1>4. CASE plan.tools[i] = "sort"
    <2>1. \/ <<"sort-undo", i>> \in book.ops /\ c = book
          \/ c.things = book.things /\ c.chart = book.chart /\ c.range # "sorted"
      <3>1. c \in UnsortRange(i)
        BY <1>4 DEF UndoneTool
      <3> QED  BY <3>1, UnsortedIs
    <2>2. c.things = book.things /\ c.chart = book.chart
      BY <2>1
    <2>3. ASSUME NEW t \in c.things PROVE rest[t.tool].done /\ rest[t.tool].id = t.id
      <3>1. t \in book.things /\ t.tool # i
        BY <1>4, <2>2 DEF BookOK
      <3> QED  BY <1>1, <1>2, <3>1 DEF Names
    <2>4. c.range = "sorted" =>
          \E j \in DOMAIN plan.tools : plan.tools[j] = "sort" /\ rest[j].done /\ <<"sort-undo", j>> \notin c.ops
      BY <1>1, <2>1 DEF Names
    <2>5. c.chart.by = "agent" =>
          \E j \in DOMAIN plan.tools : plan.tools[j] = "update" /\ rest[j].done /\ rest[j].rev = c.chart.rev
      BY <1>1, <1>4, <2>2 DEF Names
    <2> QED  BY <2>3, <2>4, <2>5 DEF Names
  <1>5. CASE plan.tools[i] = "update"
    <2>1. c.things = book.things /\ c.range = book.range /\ c.ops = book.ops /\ c.chart.by = "before"
      <3>1. c = RestoreChart
        BY <1>5 DEF UndoneTool
      <3> QED  BY <3>1, RestoredIs
    <2>2. ASSUME NEW t \in c.things PROVE rest[t.tool].done /\ rest[t.tool].id = t.id
      <3>1. t \in book.things /\ t.tool # i
        BY <1>5, <2>1 DEF BookOK
      <3> QED  BY <1>1, <1>2, <3>1 DEF Names
    <2>3. c.range = "sorted" =>
          \E j \in DOMAIN plan.tools : plan.tools[j] = "sort" /\ rest[j].done /\ <<"sort-undo", j>> \notin c.ops
      BY <1>1, <1>5, <2>1 DEF Names
    <2> QED  BY <2>1, <2>2, <2>3 DEF Names
  <1> QED  BY <1>3, <1>4, <1>5, ToolKind

-----------------------------------------------------------------------------
\* What a tool changes in the workbook b, and the outcome it reports.
MadeAnew(i, b, o) ==
    /\ plan.tools[i] \in {"object", "report"}
    /\ b.things = book.things \cup {[tool |-> i, id |-> book.ids + 1, rev |-> 1]}
    /\ b.range = book.range /\ b.chart = book.chart /\ b.ops = book.ops
    /\ o.id = book.ids + 1 /\ o.rev = 1

Found(i, b, o) ==
    /\ plan.tools[i] = "object" /\ b = book
    /\ \E t \in book.things : t.tool = i /\ o.id = t.id

Sorted(i, b, o) ==
    /\ plan.tools[i] = "sort" /\ o.id = 0
    /\ \/ <<"sort", i>> \in book.ops /\ b = book
       \/ /\ <<"sort", i>> \notin book.ops
          /\ b.things = book.things /\ b.chart = book.chart
          /\ b.range \in {"sorted", book.range} /\ b.ops = book.ops \cup {<<"sort", i>>}

Updated(i, b, o) ==
    /\ plan.tools[i] = "update" /\ o.id = 0 /\ o.rev = book.chart.rev + 1
    /\ b.things = book.things /\ b.range = book.range /\ b.ops = book.ops
    /\ b.chart.rev = book.chart.rev + 1 /\ b.chart.by = "agent"

LEMMA MadeIs ==
    ASSUME Inv, NEW i \in DOMAIN plan.tools, plan.tools[i] \in {"object", "report"},
           NEW b, b = Made(i).book, NEW o, o = Made(i).outcome
    PROVE  MadeAnew(i, b, o) /\ o.done
  <1>1. b = [book EXCEPT !.version = @ + 1, !.ids = @ + 1,
                         !.things = @ \cup {[tool |-> i, id |-> book.ids + 1, rev |-> 1]}]
    BY DEF Made
  <1>2. o.done /\ o.id = book.ids + 1 /\ o.rev = 1
    BY DEF Made, Completed
  <1> PICK n : n = [tool |-> i, id |-> book.ids + 1, rev |-> 1]
    OBVIOUS
  <1>3. b.things = book.things \cup {n} /\ b.range = book.range /\ b.chart = book.chart /\ b.ops = book.ops
    BY <1>1, BookFacts DEF Books
  <1> QED  BY <1>2, <1>3 DEF MadeAnew

LEMMA RanToolIs ==
    ASSUME Inv, NEW i \in DOMAIN plan.tools,
           NEW b, b = RanTool(i).book, NEW o, o = RanTool(i).outcome
    PROVE  /\ o.done
           /\ MadeAnew(i, b, o) \/ Found(i, b, o) \/ Sorted(i, b, o) \/ Updated(i, b, o)
           /\ Found(i, b, o) => ThingsOf(i) # {}
  <1>0. Found(i, b, o) => ThingsOf(i) # {}
    BY DEF Found, ThingsOf
  <1>1. CASE plan.tools[i] = "object"
    <2>1. b = CreateObject(i).book /\ o = CreateObject(i).outcome
      BY <1>1 DEF RanTool
    <2>2. CASE ThingsOf(i) = {}
      BY <1>0, <1>1, <2>1, <2>2, MadeIs DEF CreateObject
    <2>3. CASE ThingsOf(i) # {}
      <3> PICK found : found = CHOOSE t \in ThingsOf(i) : TRUE
        OBVIOUS
      <3>1. found \in ThingsOf(i)
        BY <2>3
      <3>2. b = book /\ o = Completed(found.id, found.rev)
        BY <2>1, <2>3 DEF CreateObject
      <3>3. o.done /\ o.id = found.id
        BY <3>2 DEF Completed
      <3> QED  BY <1>0, <1>1, <3>1, <3>2, <3>3 DEF Found, ThingsOf
    <2> QED  BY <2>2, <2>3
  <1>2. CASE plan.tools[i] = "report"
    <2>1. b = Made(i).book /\ o = Made(i).outcome
      BY <1>2 DEF RanTool
    <2> QED  BY <1>0, <1>2, <2>1, MadeIs
  <1>3. CASE plan.tools[i] = "sort"
    <2>1. b = SortRange(i).book /\ o = SortRange(i).outcome
      BY <1>3 DEF RanTool
    <2>2. o.done /\ o.id = 0
      BY <2>1 DEF SortRange, Completed
    <2> PICK x \in {"sorted", book.range} : x = IF book.range = "displaced" THEN book.range ELSE "sorted"
      OBVIOUS
    <2>3. b = IF <<"sort", i>> \in book.ops THEN book
              ELSE [book EXCEPT !.version = @ + 1, !.ops = @ \cup {<<"sort", i>>}, !.range = x]
      BY <2>1, BookFacts DEF SortRange, Books
    <2> QED  BY <1>0, <1>3, <2>2, <2>3, BookFacts DEF Sorted, Books
  <1>4. CASE plan.tools[i] = "update"
    <2>1. b = UpdateChart(i).book /\ o = UpdateChart(i).outcome
      BY <1>4 DEF RanTool
    <2>2. o.done /\ o.id = 0 /\ o.rev = book.chart.rev + 1
      BY <2>1 DEF UpdateChart, Completed
    <2>3. b = [book EXCEPT !.version = @ + 1, !.chart = [rev |-> book.chart.rev + 1, by |-> "agent"]]
      BY <2>1, BookFacts DEF UpdateChart, Books
    <2> QED  BY <1>0, <1>4, <2>2, <2>3, BookFacts DEF Updated, Books
  <1> QED  BY <1>1, <1>2, <1>3, <1>4, ToolKind

LEMMA RanKeepsOutcome ==
    ASSUME Inv, NEW i, NEW b, NEW o,
           MadeAnew(i, b, o) \/ Found(i, b, o) \/ Sorted(i, b, o) \/ Updated(i, b, o),
           NEW j, NEW q \in OutcomesTo(book.ids), OutcomeOK(j, q, book, plan, unusual)
    PROVE  OutcomeOK(j, q, b, plan, unusual)
  <1> SUFFICES ASSUME q.done PROVE OutcomeOK(j, q, b, plan, unusual)
    BY DEF OutcomeOK
  <1>1. q.id \in 0..book.ids /\ q.rev \in Nat
    BY DEF OutcomesTo
  <1>2. q.id # book.ids + 1
    BY <1>1, BookFacts
  <1>3. \A t \in b.things : t.id = q.id => t.tool = j
    BY <1>2 DEF OutcomeOK, MadeAnew, Found, Sorted, Updated
  <1>4. plan.tools[j] = "sort" => <<"sort", j>> \in b.ops
    BY DEF OutcomeOK, MadeAnew, Found, Sorted, Updated
  <1>5. plan.tools[j] = "update" => q.rev <= b.chart.rev /\ (q.rev = b.chart.rev => b.chart.by # "other")
    BY <1>1, BookFacts DEF OutcomeOK, MadeAnew, Found, Sorted, Updated
  <1> QED  BY <1>3, <1>4, <1>5 DEF OutcomeOK

LEMMA RanKeepsBook ==
    ASSUME Inv, NEW i \in DOMAIN plan.tools, NEW b, NEW o, BookOK(book, plan),
           MadeAnew(i, b, o) \/ Found(i, b, o) \/ Sorted(i, b, o) \/ Updated(i, b, o)
    PROVE  BookOK(b, plan)
  <1>1. \A t \in book.things : t.id # book.ids + 1
    BY BookFacts DEF Things
  <1>2. b.chart.rev = 1 => b.chart.by = "before"
    BY BookFacts DEF BookOK, MadeAnew, Found, Sorted, Updated
  <1>3. \A t, s \in b.things : t.id = s.id => t.tool = s.tool
    BY <1>1 DEF BookOK, MadeAnew, Found, Sorted, Updated
  <1>4. \A t \in b.things : plan.tools[t.tool] \in {"object", "report"}
    BY DEF BookOK, MadeAnew, Found, Sorted, Updated
  <1>5. \A j \in DOMAIN plan.tools : <<"sort-undo", j>> \in b.ops => <<"sort", j>> \in b.ops
    BY DEF BookOK, MadeAnew, Found, Sorted, Updated
  <1> QED  BY <1>2, <1>3, <1>4, <1>5 DEF BookOK

LEMMA RanOutcome ==
    ASSUME Inv, NEW i \in DOMAIN plan.tools, NEW b, NEW o, BookOK(book, plan),
           MadeAnew(i, b, o) \/ Found(i, b, o) \/ Sorted(i, b, o) \/ Updated(i, b, o),
           Normal => ~Found(i, b, o)
    PROVE  OutcomeOK(i, o, b, plan, unusual)
  <1>1. \A t \in book.things : t.id # book.ids + 1 /\ t.id # 0
    BY BookFacts DEF Things
  <1>2. \A t \in b.things : t.id = o.id => t.tool = i
    BY <1>1 DEF BookOK, MadeAnew, Found, Sorted, Updated
  <1>3. plan.tools[i] = "sort" => <<"sort", i>> \in b.ops
    BY DEF MadeAnew, Found, Sorted, Updated
  <1>4. plan.tools[i] = "update" => o.rev <= b.chart.rev /\ (o.rev = b.chart.rev => b.chart.by # "other")
    BY BookFacts DEF MadeAnew, Found, Sorted, Updated
  <1>5. plan.tools[i] = "object" /\ unusual \subseteq {"cellsOnly", "refused"} => o.rev = 1
    BY DEF MadeAnew, Found, Sorted, Updated, Normal
  <1> QED  BY <1>2, <1>3, <1>4, <1>5 DEF OutcomeOK

\* A record that names everything names the new effect as well.
LEMMA RanIsNamed ==
    ASSUME Inv, NEW i \in DOMAIN plan.tools, NEW b, NEW o, o.done, BookOK(book, plan),
           MadeAnew(i, b, o) \/ Found(i, b, o) \/ Sorted(i, b, o) \/ Updated(i, b, o),
           NEW tools \in RecordsTo(plan, book.ids), Names(tools, book, plan), ~tools[i].done
    PROVE  ~Found(i, b, o) /\ Names([tools EXCEPT ![i] = o], b, plan)
  <1> PICK more : more = [tools EXCEPT ![i] = o]
    OBVIOUS
  <1>1. more[i] = o /\ \A j \in DOMAIN plan.tools : j # i => more[j] = tools[j]
    BY DEF RecordsTo
  <1>2. \A t \in book.things : t.tool \in DOMAIN plan.tools /\ t.tool # i
    BY BookFacts DEF Things, Names
  <1>3. ~Found(i, b, o)
    BY <1>2 DEF Found
  <1>4. \A t \in book.things : more[t.tool].done /\ more[t.tool].id = t.id
    BY <1>1, <1>2 DEF Names
  <1>5. book.range = "sorted" =>
          \E j \in DOMAIN plan.tools : plan.tools[j] = "sort" /\ more[j].done /\ <<"sort-undo", j>> \notin book.ops
    BY <1>1 DEF Names
  <1>6. book.chart.by = "agent" =>
          \E j \in DOMAIN plan.tools : plan.tools[j] = "update" /\ more[j].done /\ more[j].rev = book.chart.rev
    BY <1>1 DEF Names
  <1>7. Names(more, b, plan)
    <2>1. CASE MadeAnew(i, b, o)
      <3> PICK new : new = [tool |-> i, id |-> book.ids + 1, rev |-> 1]
        OBVIOUS
      <3>1. /\ b.things = book.things \cup {new} /\ o.id = book.ids + 1
            /\ b.range = book.range /\ b.chart = book.chart /\ b.ops = book.ops
        BY <2>1 DEF MadeAnew
      <3>2. more[new.tool].done /\ more[new.tool].id = new.id
        BY <1>1, <3>1
      <3>3. \A t \in b.things : more[t.tool].done /\ more[t.tool].id = t.id
        BY <1>4, <3>1, <3>2
      <3> QED  BY <1>5, <1>6, <3>1, <3>3 DEF Names
    <2>2. CASE Sorted(i, b, o)
      <3>1. b.things = book.things /\ b.chart = book.chart
        BY <2>2 DEF Sorted
      <3>2. b.range = "sorted" =>
          \E j \in DOMAIN plan.tools : plan.tools[j] = "sort" /\ more[j].done /\ <<"sort-undo", j>> \notin b.ops
        BY <1>1, <1>5, <2>2 DEF Sorted, BookOK
      <3> QED  BY <1>4, <1>6, <3>1, <3>2 DEF Names
    <2>3. CASE Updated(i, b, o)
      <3>1. b.things = book.things /\ b.range = book.range /\ b.ops = book.ops
        BY <2>3 DEF Updated
      <3>2. plan.tools[i] = "update" /\ more[i].done /\ more[i].rev = b.chart.rev
        BY <1>1, <2>3 DEF Updated
      <3> QED  BY <1>4, <1>5, <3>1, <3>2 DEF Names
    <2> QED  BY <1>3, <2>1, <2>2, <2>3
  <1> QED  BY <1>3, <1>7

-----------------------------------------------------------------------------
(***************************************************************************)
(* Who knows what the run has left                                         *)
(***************************************************************************)

\* The request that runs the tools, or undoes them after a failure.
ToolHolder(r) == req[r].at \in {"tools", "undoTools"} /\ req[r].kind = "approve"

\* The request that has stored the outcomes in the row.
SavedHolder(r) == req[r].at \in {"complete", "validate", "validated"}

\* Approvals that are under way at the same time have keys of their own.
ApprovalsDiffer ==
    \A r, s \in Requests :
        r # s /\ req[r] # Idle /\ req[s] # Idle /\ req[r].kind \in Approvals /\ req[s].kind \in Approvals
        => req[r].key # req[s].key

\* An approval that finds its key claimed before its own claim comes too late.
LateApprovalsFail ==
    \A r \in Requests :
        req[r].at \in Early /\ req[r].kind = "approve" /\ Engaged /\ action.key = req[r].key => Over(action)

\* A claim without a holder, or whose cells have not been written, has left nothing.
ClaimIsClean ==
    action.status = "applying" /\ (plan.cells \/ \A r \in Requests : ~Holds(r)) => NoEffects(book)

ClaimIsHeld ==
    action.status = "applying" /\ plan.cells => \E r \in Requests : req[r].at \in {"apply", "record"}

HolderKnows == \A r \in Requests : ToolHolder(r) => Names(req[r].tools, book, plan)

SavedKnows == \A r \in Requests : SavedHolder(r) => Names(action.tools, book, plan)

RowKnows ==
    action.status = "applied" /\ (\A r \in Requests : ~ToolHolder(r)) => Names(action.tools, book, plan)

NormalInv ==
    /\ ApprovalsDiffer /\ LateApprovalsFail /\ ClaimIsClean /\ ClaimIsHeld
    /\ HolderKnows /\ SavedKnows /\ RowKnows

\* What a step of request r does to it.
NormalTurn(r) ==
    /\ action'.tools = action.tools \/ Holds(r)
    /\ ToolHolder(r)' => Names(req'[r].tools, book, plan) \/ Names(req'[r].tools, book', plan)
    /\ SavedHolder(r)' => Names(action'.tools, book, plan)
    /\ action'.status = "applied" /\ ~ToolHolder(r)' =>
         \/ Names(action'.tools, book, plan)
         \/ action.status = "applied" /\ action'.tools = action.tools /\ ~ToolHolder(r)
    /\ action'.status = "applying" =>
         \/ NoEffects(book)
         \/ action.status = "applying" /\ (Holds(r) => Holds(r)' \/ plan.cells)
    /\ action'.status = "applying" /\ plan.cells =>
         \/ req'[r].at \in {"apply", "record"}
         \/ action.status = "applying" /\ req[r].at \notin {"apply", "record"}

\* Two requests cannot both hold the claim.
LEMMA OneHolder ==
    ASSUME RequestsAreSound, ApprovalsDiffer, NEW r \in Requests, NEW s \in Requests, Holds(r), Holds(s)
    PROVE  r = s
  <1>1. req[r] # Idle /\ req[s] # Idle
    BY DEF Holds, Held, UndoPhases, Idle
  <1>2. action.key = req[r].key /\ action.key = req[s].key
    BY <1>1 DEF RequestsAreSound, PhaseOK, Holds
  <1> QED  BY <1>1, <1>2 DEF ApprovalsDiffer, Holds

LEMMA ToolHolderHolds ==
    ASSUME NEW r, ToolHolder(r)
    PROVE  Holds(r)
  BY DEF ToolHolder, Holds, Held, Approvals

LEMMA SavedHolderHolds ==
    ASSUME RequestsAreSound, NEW r \in Requests, SavedHolder(r)
    PROVE  Holds(r)
  <1>1. req[r] # Idle
    BY DEF SavedHolder, Idle
  <1> QED  BY <1>1 DEF RequestsAreSound, PhaseOK, SavedHolder, Holds, Held, Approvals

LEMMA TurnKeepsLateApprovals ==
    ASSUME RequestsAreSound, ApprovalsDiffer, LateApprovalsFail, NEW r \in Requests, Turn(r)
    PROVE  LateApprovalsFail'
  <1> SUFFICES ASSUME NEW s \in Requests, req'[s].at \in Early, req'[s].kind = "approve",
                      Claimed(action'), action'.key = req'[s].key
               PROVE  Over(action')
    BY DEF LateApprovalsFail, Engaged
  <1>1. req'[s] # Idle
    BY DEF Early, Idle
  <1>2. req[s].at \in Early /\ req[s].kind = "approve" /\ req[s].key = req'[s].key /\ req[s] # Idle
    <2>1. CASE s = r
      BY <1>1, <2>1 DEF Turn, Same
    <2>2. CASE s # r
      BY <1>1, <2>2 DEF Turn, Only
    <2> QED  BY <2>1, <2>2
  <1>3. CASE Engaged
    BY <1>2, <1>3 DEF LateApprovalsFail, Turn, Onward, Engaged
  <1>4. CASE ~Engaged
    <2>1. req'[r].at \in Held /\ req'[r].kind \in Approvals
      BY <1>4 DEF Turn
    <2>2. req'[r] # Idle /\ s # r
      BY <2>1 DEF Held, UndoPhases, Early, Idle
    <2>3. action'.key = req'[r].key
      BY <2>1, <2>2 DEF Turn, PhaseOK
    <2>4. req[r] # Idle /\ req[r].kind \in Approvals /\ req[r].key = action'.key
      BY <2>1, <2>2, <2>3 DEF Turn, Same
    <2> QED  BY <1>2, <2>2, <2>4 DEF ApprovalsDiffer, Approvals
  <1> QED  BY <1>3, <1>4

LEMMA TurnKeepsDifferent ==
    ASSUME ApprovalsDiffer, NEW r \in Requests, Turn(r)
    PROVE  ApprovalsDiffer'
  <1>1. \A s \in Requests : req'[s] # Idle =>
           req[s] # Idle /\ req'[s].kind = req[s].kind /\ req'[s].key = req[s].key
    BY DEF Turn, Only, Same
  <1> QED  BY <1>1 DEF ApprovalsDiffer

LEMMA NormalTurnKeeps ==
    ASSUME RequestsAreSound, NormalInv, NEW r \in Requests, Turn(r), NormalTurn(r), Shrinks(book, book')
    PROVE  NormalInv'
  <1> USE DEF NormalInv
  <1>1. ApprovalsDiffer' /\ LateApprovalsFail'
    BY TurnKeepsDifferent, TurnKeepsLateApprovals
  <1>2. plan' = plan /\ \A s \in Requests \ {r} : req'[s] = req[s]
    BY DEF Turn, Only
  <1> PICK p : p = plan
    OBVIOUS
  <1> PICK c : c = book'
    OBVIOUS
  <1> PICK a : a = action'
    OBVIOUS
  <1>3. \A tools : Names(tools, book, plan) => Names(tools, c, plan)
    BY ShrinkKeepsNames
  <1>4. NoEffects(book) => NoEffects(c)
    BY ShrinkKeepsNothing
  <1>5. HolderKnows'
    <2> SUFFICES ASSUME NEW s \in Requests, ToolHolder(s)'
                 PROVE  Names(req'[s].tools, c, plan)
      BY <1>2 DEF HolderKnows
    <2>1. CASE s = r
      BY <1>3, <2>1 DEF NormalTurn
    <2>2. CASE s # r
      <3>1. req'[s] = req[s]
        BY <1>2, <2>2
      <3>2. ToolHolder(s)
        BY <3>1 DEF ToolHolder
      <3> QED  BY <1>3, <3>1, <3>2 DEF HolderKnows
    <2> QED  BY <2>1, <2>2
  <1>6. SavedKnows'
    <2> SUFFICES ASSUME NEW s \in Requests, SavedHolder(s)'
                 PROVE  Names(a.tools, c, plan)
      BY <1>2 DEF SavedKnows
    <2>1. CASE s = r
      BY <1>3, <2>1 DEF NormalTurn
    <2>2. CASE s # r
      <3>1. req'[s] = req[s]
        BY <1>2, <2>2
      <3>2. SavedHolder(s)
        BY <3>1 DEF SavedHolder
      <3>3. ~Holds(r)
        BY <2>2, <3>2, OneHolder, SavedHolderHolds
      <3>4. a.tools = action.tools
        BY <3>3 DEF NormalTurn
      <3> QED  BY <1>3, <3>2, <3>4 DEF SavedKnows
    <2> QED  BY <2>1, <2>2
  <1>7. RowKnows'
    <2> SUFFICES ASSUME a.status = "applied", \A s \in Requests : ~ToolHolder(s)'
                 PROVE  Names(a.tools, c, plan)
      BY <1>2 DEF RowKnows
    <2>1. ~ToolHolder(r)'
      OBVIOUS
    <2>2. CASE Names(action'.tools, book, plan)
      BY <1>3, <2>2
    <2>3. CASE action.status = "applied" /\ action'.tools = action.tools /\ ~ToolHolder(r)
      <3>1. ASSUME NEW s \in Requests PROVE ~ToolHolder(s)
        <4>1. CASE s = r
          BY <2>3, <4>1
        <4>2. CASE s # r
          BY <1>2, <4>2 DEF ToolHolder
        <4> QED  BY <4>1, <4>2
      <3>2. Names(action.tools, book, plan)
        BY <2>3, <3>1 DEF RowKnows
      <3> QED  BY <1>3, <2>3, <3>2
    <2> QED  BY <2>1, <2>2, <2>3 DEF NormalTurn
  <1>8. ClaimIsClean'
    <2> SUFFICES ASSUME a.status = "applying", plan.cells \/ \A s \in Requests : ~Holds(s)'
                 PROVE  NoEffects(c)
      BY <1>2 DEF ClaimIsClean
    <2>1. CASE NoEffects(book)
      BY <1>4, <2>1
    <2>2. CASE action.status = "applying" /\ plan.cells
      BY <1>4, <2>2 DEF ClaimIsClean
    <2>3. CASE action.status = "applying" /\ (Holds(r) => Holds(r)') /\ ~plan.cells
      <3>1. ASSUME NEW s \in Requests PROVE ~Holds(s)
        <4>1. CASE s = r
          BY <2>3, <4>1
        <4>2. CASE s # r
          BY <1>2, <2>3, <4>2 DEF Holds
        <4> QED  BY <4>1, <4>2
      <3> QED  BY <1>4, <2>3, <3>1 DEF ClaimIsClean
    <2> QED  BY <2>1, <2>2, <2>3 DEF NormalTurn
  <1>9. ClaimIsHeld'
    <2> SUFFICES ASSUME a.status = "applying", plan.cells
                 PROVE  \E s \in Requests : req'[s].at \in {"apply", "record"}
      BY <1>2 DEF ClaimIsHeld
    <2>1. CASE req'[r].at \in {"apply", "record"}
      BY <2>1
    <2>2. CASE action.status = "applying" /\ req[r].at \notin {"apply", "record"}
      <3>1. PICK s \in Requests : req[s].at \in {"apply", "record"}
        BY <2>2 DEF ClaimIsHeld
      <3>2. req'[s] = req[s]
        BY <1>2, <2>2, <3>1
      <3> QED  BY <3>1, <3>2
    <2> QED  BY <2>1, <2>2 DEF NormalTurn
  <1> QED  BY <1>1, <1>5, <1>6, <1>7, <1>8, <1>9

-----------------------------------------------------------------------------
\* An undo is made of a run that is over with, by a request that says so, and
\* the endpoint for cells alone only of a run without tools.
UndoWaits ==
    \A r \in Requests : req[r] # Idle /\ req[r].kind \in {"rollback", "undoCells"} =>
        /\ req[r].rev >= 2 => \A s \in Requests : ~Holds(s)
        /\ req[r].kind = "undoCells" => DOMAIN plan.tools = {}

\* Nobody changes the row under its holder.
HolderOK(q, a) ==
    /\ q.at \in {"apply", "record"} => a.status = "applying"
    /\ q.at \in {"tools", "complete", "validate", "validated", "undoTools"} => ~Over(a)
    /\ q.at \in {"undo", "undoClaim"} => a.status = "applied"

HolderIsAlone == \A r \in Requests : Holds(r) => HolderOK(req[r], action)

RollbackKnows ==
    \A r \in Requests :
        req[r].at \in {"check", "undoTools"} /\ req[r].kind = "rollback" => Names(req[r].tools, book, plan)

\* The cells come last: the tools have been undone.
UndoIsClean == \A r \in Requests : req[r].at \in UndoPhases \cup {"close"} => NoEffects(book)

EndIsClean ==
    /\ Over(action) => NoEffects(book)
    /\ action.status = "undone" => book.cells # "agent"
    /\ action.status = "failed" /\ book.cells = "agent" => "refused" \in unusual

HoldsUndo(r) == req[r].at \in {"undoApply", "undoRecord"} /\ UndoKey(r) = action.undoKey

UndoIsHeld == action.status = "undoing" => action.operation /\ \E r \in Requests : HoldsUndo(r)

UsualInv == UndoWaits /\ HolderIsAlone /\ RollbackKnows /\ UndoIsClean /\ EndIsClean /\ UndoIsHeld

\* Who may change the status of the row.
MayDecide(r) ==
    \/ action.status = "planned" \/ Over(action) \/ Holds(r)
    \/ req[r].kind \in {"rollback", "undoCells"} /\ req[r].rev >= 2

\* What a step of request r does to it.
UsualTurn(r) ==
    /\ Holds(r)' => Holds(r) \/ action.status \in {"planned", "applying"}
    /\ action'.status # action.status => MayDecide(r)
    /\ Holds(r)' => HolderOK(req'[r], action')
    /\ req'[r].at \in {"check", "undoTools"} /\ req'[r].kind = "rollback" =>
         Names(req'[r].tools, book, plan) \/ Names(req'[r].tools, book', plan)
    /\ req'[r].at \in UndoPhases \cup {"close"} => NoEffects(book)
    /\ Over(action') => Over(action) \/ NoEffects(book)
    /\ book'.cells = "agent" /\ action'.status \in {"undone", "failed"} =>
         \/ book.cells = "agent" /\ action.status = action'.status
         \/ action'.status = "failed" /\ "refused" \in unusual'
    /\ action'.status = "undoing" =>
         /\ action'.operation
         /\ \/ HoldsUndo(r)'
            \/ action.status = "undoing" /\ action'.undoKey = action.undoKey /\ ~HoldsUndo(r)

\* A plan has cell changes or tool calls.
LEMMA NoToolsMeansCells ==
    ASSUME Inv, DOMAIN plan.tools = {}
    PROVE  plan.cells
  <1>1. plan.cells \/ plan.tools # <<>>
    BY DEF Inv, Types, Plans
  <1>2. PICK n \in Nat : DOMAIN plan.tools = 1..n /\ plan.tools \in [1..n -> Kinds]
    BY PlanTools DEF Inv, Types
  <1>3. n = 0
    BY <1>2
  <1>4. plan.tools \in Seq(Kinds) /\ Len(plan.tools) = 0
    BY <1>2, <1>3
  <1>5. plan.tools = <<>>
    BY <1>4
  <1> QED  BY <1>1, <1>5

LEMMA TurnKeepsUndoWaits ==
    ASSUME Inv, RequestsAreSound, ClaimIsHeld, UndoWaits, NEW r \in Requests, Turn(r), UsualTurn(r)
    PROVE  UndoWaits'
  <1>1. plan' = plan /\ \A s \in Requests \ {r} : req'[s] = req[s]
    BY DEF Turn, Only
  <1> SUFFICES ASSUME NEW u \in Requests, req'[u] # Idle, req'[u].kind \in {"rollback", "undoCells"}
               PROVE  /\ req'[u].rev >= 2 => \A s \in Requests : ~Holds(s)'
                      /\ req'[u].kind = "undoCells" => DOMAIN plan.tools = {}
    BY <1>1 DEF UndoWaits
  <1>2. req[u] # Idle /\ req[u].kind = req'[u].kind /\ req[u].rev = req'[u].rev
    <2>1. CASE u = r
      BY <2>1 DEF Turn, Same
    <2>2. CASE u # r
      BY <1>1, <2>2
    <2> QED  BY <2>1, <2>2
  <1>3. req'[u].kind = "undoCells" => DOMAIN plan.tools = {}
    BY <1>2 DEF UndoWaits
  <1>4. ASSUME req'[u].rev >= 2, NEW s \in Requests, Holds(s)'
        PROVE  FALSE
    <2>1. \A x \in Requests : ~Holds(x)
      BY <1>2, <1>4 DEF UndoWaits
    <2>2. s = r
      <3>1. ASSUME s # r PROVE FALSE
        BY <1>1, <1>4, <2>1, <3>1 DEF Holds
      <3> QED  BY <3>1
    <2>3. action.status \in {"planned", "applying"}
      BY <1>4, <2>1, <2>2 DEF UsualTurn
    <2>4. req[u].rev \in 1..action.revision
      BY <1>2, RequestFields DEF Inv
    <2>5. CASE action.status = "planned"
      BY <1>2, <1>4, <2>4, <2>5, RowFields DEF RevisionOK
    <2>6. CASE action.status = "applying"
      <3>1. req[u].kind # "rollback"
        BY <1>2, <2>6 DEF RequestsAreSound, PhaseOK, Done
      <3>2. plan.cells
        BY <1>2, <1>3, <3>1, NoToolsMeansCells
      <3>3. PICK x \in Requests : req[x].at \in {"apply", "record"}
        BY <2>6, <3>2 DEF ClaimIsHeld
      <3>4. req[x] # Idle
        BY <3>3 DEF Idle
      <3>5. Holds(x)
        BY <3>3, <3>4 DEF RequestsAreSound, PhaseOK, Holds, Held
      <3> QED  BY <2>1, <3>5
    <2> QED  BY <2>3, <2>5, <2>6
  <1> QED  BY <1>3, <1>4

LEMMA TurnKeepsHolderAlone ==
    ASSUME RequestsAreSound, ApprovalsDiffer, UndoWaits, HolderIsAlone,
           NEW r \in Requests, Turn(r), UsualTurn(r)
    PROVE  HolderIsAlone'
  <1> PICK a : a = action'
    OBVIOUS
  <1> SUFFICES ASSUME NEW s \in Requests, Holds(s)'
               PROVE  HolderOK(req'[s], a)
    BY DEF HolderIsAlone
  <1>1. CASE s = r
    BY <1>1 DEF UsualTurn
  <1>2. CASE s # r
    <2>1. req'[s] = req[s]
      BY <1>2 DEF Turn, Only
    <2>2. Holds(s)
      BY <2>1 DEF Holds
    <2>3. HolderOK(req[s], action) /\ ~Holds(r)
      BY <1>2, <2>2, OneHolder DEF HolderIsAlone
    <2>4. CASE a.status = action.status
      BY <2>1, <2>3, <2>4 DEF HolderOK, Over
    <2>5. CASE action.status = "planned"
      <3>1. req[s] # Idle
        BY <2>2 DEF Holds, Held, UndoPhases, Idle
      <3> QED  BY <2>2, <2>5, <3>1 DEF RequestsAreSound, PhaseOK, Holds, Claimed
    <2>6. CASE Over(action)
      BY <2>1, <2>3, <2>6 DEF HolderOK, Over
    <2>7. CASE req[r].kind \in {"rollback", "undoCells"} /\ req[r].rev >= 2
      BY <2>2, <2>7 DEF UndoWaits, Turn
    <2> QED  BY <2>3, <2>4, <2>5, <2>6, <2>7 DEF UsualTurn, MayDecide
  <1> QED  BY <1>1, <1>2

LEMMA TurnKeepsUndoHeld ==
    ASSUME UndoIsHeld, NEW r \in Requests, Turn(r), UsualTurn(r)
    PROVE  UndoIsHeld'
  <1> SUFFICES ASSUME action'.status = "undoing"
               PROVE  action'.operation /\ \E s \in Requests : HoldsUndo(s)'
    BY DEF UndoIsHeld
  <1>1. CASE HoldsUndo(r)'
    BY <1>1 DEF UsualTurn
  <1>2. CASE action.status = "undoing" /\ action'.undoKey = action.undoKey /\ ~HoldsUndo(r)
    <2>1. PICK s \in Requests : HoldsUndo(s)
      BY <1>2 DEF UndoIsHeld
    <2>2. req'[s] = req[s]
      BY <1>2, <2>1 DEF Turn, Only
    <2>3. HoldsUndo(s)'
      BY <1>2, <2>1, <2>2 DEF HoldsUndo, UndoKey
    <2> QED  BY <2>3 DEF UsualTurn
  <1> QED  BY <1>1, <1>2 DEF UsualTurn

LEMMA UsualTurnKeeps ==
    ASSUME Inv, RequestsAreSound, NormalInv, UsualInv, NEW r \in Requests, Turn(r), UsualTurn(r),
           Shrinks(book, book')
    PROVE  UsualInv'
  <1> USE DEF NormalInv, UsualInv
  <1>1. UndoWaits' /\ HolderIsAlone' /\ UndoIsHeld'
    BY TurnKeepsUndoWaits, TurnKeepsHolderAlone, TurnKeepsUndoHeld
  <1>2. plan' = plan /\ \A s \in Requests \ {r} : req'[s] = req[s]
    BY DEF Turn, Only
  <1> PICK c : c = book'
    OBVIOUS
  <1>3. \A tools : Names(tools, book, plan) => Names(tools, c, plan)
    BY ShrinkKeepsNames
  <1>4. NoEffects(book) => NoEffects(c)
    BY ShrinkKeepsNothing
  <1>5. RollbackKnows'
    <2> SUFFICES ASSUME NEW s \in Requests, req'[s].at \in {"check", "undoTools"}, req'[s].kind = "rollback"
                 PROVE  Names(req'[s].tools, c, plan)
      BY <1>2 DEF RollbackKnows
    <2>1. CASE s = r
      BY <1>3, <2>1 DEF UsualTurn
    <2>2. CASE s # r
      BY <1>2, <1>3, <2>2 DEF RollbackKnows
    <2> QED  BY <2>1, <2>2
  <1>6. UndoIsClean'
    <2> SUFFICES ASSUME NEW s \in Requests, req'[s].at \in UndoPhases \cup {"close"}
                 PROVE  NoEffects(c)
      BY DEF UndoIsClean
    <2>1. CASE s = r
      BY <1>4, <2>1 DEF UsualTurn
    <2>2. CASE s # r
      BY <1>2, <1>4, <2>2 DEF UndoIsClean
    <2> QED  BY <2>1, <2>2
  <1>7. EndIsClean'
    <2> PICK a : a = action'
      OBVIOUS
    <2>1. Over(a) => NoEffects(c)
      BY <1>4 DEF UsualTurn, EndIsClean
    <2>2. a.status = "undone" => c.cells # "agent"
      BY DEF UsualTurn, EndIsClean
    <2>3. a.status = "failed" /\ c.cells = "agent" => "refused" \in unusual'
      BY DEF UsualTurn, EndIsClean, Turn
    <2> QED  BY <2>1, <2>2, <2>3 DEF EndIsClean
  <1> QED  BY <1>1, <1>5, <1>6, <1>7

-----------------------------------------------------------------------------
(***************************************************************************)
(* What each step of a request does to that knowledge                      *)
(***************************************************************************)

Known ==
    /\ Inv /\ RequestsAreSound /\ RecordsAreSound /\ CellsAreSound
    /\ Normal => NormalInv
    /\ Usual => UsualInv

LEMMA UsualIsNormal == Usual => Normal
  BY DEF Usual, Normal

\* Of a request that has not come to its claim, or is past it.
LEMMA Apart ==
    ASSUME NEW r
    PROVE  /\ req[r].at \notin {"tools", "undoTools"} => ~ToolHolder(r)
           /\ req[r].at \notin Held => ~Holds(r)
           /\ req[r].at \notin {"undoApply", "undoRecord"} => ~HoldsUndo(r)
  BY DEF ToolHolder, Holds, HoldsUndo

\* A request ends and leaves the row alone.
LEMMA LeavesKnowing ==
    ASSUME Known, NEW r \in Requests, Leaves(r), action' = action, book' = book,
           Normal /\ ToolHolder(r) /\ action.status = "applied" => NoEffects(book),
           Normal /\ Holds(r) /\ action.status = "applying" => plan.cells \/ NoEffects(book),
           Normal /\ req[r].at \in {"apply", "record"} => action.status # "applying",
           Usual /\ HoldsUndo(r) => action.status # "undoing"
    PROVE  (Normal => NormalTurn(r)) /\ (Usual => UsualTurn(r))
  <1>1. req'[r].at = "idle"
    BY LeavesIs DEF Known
  <1>2. ~ToolHolder(r)' /\ ~SavedHolder(r)' /\ ~Holds(r)' /\ req'[r].at \notin UndoPhases \cup {"close"}
    BY <1>1 DEF ToolHolder, SavedHolder, Holds, Held, UndoPhases
  <1>3. NoEffects(book) => Names(action.tools, book, plan)
    BY NothingToName
  <1>4. ASSUME Normal PROVE NormalTurn(r)
    BY <1>2, <1>3, <1>4 DEF NormalTurn
  <1>5. ASSUME Usual PROVE UsualTurn(r)
    <2>1. action.status = "undoing" => action.operation
      BY <1>5 DEF Known, UsualInv, UndoIsHeld
    <2> QED  BY <1>1, <1>2, <1>5, <2>1 DEF UsualTurn
  <1> QED  BY <1>4, <1>5

LEMMA EarlyLeaves ==
    ASSUME Known, NEW r \in Requests, Leaves(r), action' = action, book' = book,
           req[r].at \notin Held
    PROVE  (Normal => NormalTurn(r)) /\ (Usual => UsualTurn(r))
  <1>1. req[r].at \notin {"tools", "undoTools"} /\ req[r].at \notin {"undoApply", "undoRecord"}
        /\ req[r].at \notin {"apply", "record"}
    BY DEF Held, UndoPhases
  <1> QED  BY <1>1, Apart, LeavesKnowing

\* A request goes on before its claim.
LEMMA EarlyGoes ==
    ASSUME Known, NEW r \in Requests, action' = action, book' = book,
           req[r].at \notin Held, req'[r].at \notin Held, req'[r].at \notin {"check", "close"}
    PROVE  (Normal => NormalTurn(r)) /\ (Usual => UsualTurn(r))
  <1>1. /\ ~ToolHolder(r) /\ ~Holds(r) /\ ~HoldsUndo(r) /\ req[r].at \notin {"apply", "record"}
        /\ ~ToolHolder(r)' /\ ~SavedHolder(r)' /\ ~Holds(r)'
        /\ req'[r].at \notin UndoPhases \cup {"close"} /\ req'[r].at \notin {"check", "undoTools"}
    BY DEF ToolHolder, SavedHolder, Holds, HoldsUndo, Held, UndoPhases
  <1>2. ASSUME Normal PROVE NormalTurn(r)
    BY <1>1, <1>2 DEF NormalTurn
  <1>3. ASSUME Usual PROVE UsualTurn(r)
    <2>1. action.status = "undoing" => action.operation
      BY <1>3 DEF Known, UsualInv, UndoIsHeld
    <2> QED  BY <1>1, <1>3, <2>1 DEF UsualTurn
  <1> QED  BY <1>2, <1>3

LEMMA ReadForApprovalKnows ==
    ASSUME Known, NEW r \in Requests, ReadForApproval(r)
    PROVE  (Normal => NormalTurn(r)) /\ (Usual => UsualTurn(r))
  <1>1. req[r].at = "approve" /\ action' = action /\ book' = book /\ req[r].at \notin Held
    BY DEF ReadForApproval, Held, UndoPhases
  <1>2. PhaseOK(req[r], action, plan)
    BY <1>1, UnderWay DEF Known
  <1>3. CASE action.status = "applied" /\ action.key = req[r].key /\ req[r].kind = "approve"
    <2>1. ~Normal
      BY <1>1, <1>3 DEF Known, NormalInv, LateApprovalsFail, Early, Engaged, Claimed, Over
    <2> QED  BY <2>1, UsualIsNormal
  <1>4. CASE Leaves(r)
    BY <1>1, <1>4, EarlyLeaves
  <1>5. CASE action.status = "applying" /\ action.key = req[r].key /\ Goes(r, "apply")
    <2>1. req'[r].at = "apply"
      BY <1>1, <1>5, GoesIs DEF Known, Phases
    <2>2. plan.cells
      BY <1>1, <1>2 DEF PhaseOK
    <2>3. ~ToolHolder(r)' /\ ~SavedHolder(r)' /\ ~ToolHolder(r) /\ ~HoldsUndo(r) /\ ~Holds(r)
          /\ req'[r].at \notin UndoPhases \cup {"close"} /\ HolderOK(req'[r], action)
          /\ req'[r].at \notin {"check", "undoTools"}
      BY <1>1, <1>5, <2>1 DEF ToolHolder, SavedHolder, HoldsUndo, Holds, UndoPhases, HolderOK
    <2>4. ASSUME Normal PROVE NormalTurn(r)
      BY <1>1, <1>5, <2>1, <2>2, <2>3, <2>4 DEF NormalTurn
    <2>5. ASSUME Usual PROVE UsualTurn(r)
      BY <1>1, <1>5, <2>1, <2>3, <2>5 DEF UsualTurn
    <2> QED  BY <2>4, <2>5
  <1>6. CASE Goes(r, "claim")
    <2>1. req'[r].at = "claim"
      BY <1>1, <1>6, GoesIs DEF Known, Phases
    <2> QED  BY <1>1, <2>1, EarlyGoes DEF Held, UndoPhases
  <1>7. CASE Fails(r)
    BY <1>1, <1>7, EarlyLeaves DEF Fails
  <1> QED  BY <1>3, <1>4, <1>5, <1>6, <1>7 DEF ReadForApproval

LEMMA ReadVersionKnows ==
    ASSUME Known, NEW r \in Requests, ReadVersion(r)
    PROVE  (Normal => NormalTurn(r)) /\ (Usual => UsualTurn(r))
  <1>1. req[r].at = "version" /\ action' = action /\ book' = book /\ req[r].at \notin Held
    BY DEF ReadVersion, Held, UndoPhases
  <1>2. CASE Goes(r, "claim")
    <2>1. req'[r].at = "claim"
      BY <1>1, <1>2, GoesIs DEF Known, Phases
    <2> QED  BY <1>1, <2>1, EarlyGoes DEF Held, UndoPhases
  <1>3. CASE Fails(r)
    BY <1>1, <1>3, EarlyLeaves DEF Fails
  <1> QED  BY <1>2, <1>3 DEF ReadVersion

\* Before the claim nothing of the run is in the workbook.
LEMMA UnclaimedIsClean ==
    ASSUME Inv, action.status = "planned"
    PROVE  NoEffects(book) /\ book.cells # "agent"
  BY DEF Inv, NothingWithoutApproval, Left, ToolsLeft, NoEffects

LEMMA ClaimKnows ==
    ASSUME Known, NEW r \in Requests, Claim(r)
    PROVE  (Normal => NormalTurn(r)) /\ (Usual => UsualTurn(r))
  <1>1. req[r].at = "claim" /\ book' = book /\ req[r].at \notin Held
    BY DEF Claim, Held, UndoPhases
  <1>2. CASE /\ action.status = "planned"
             /\ action' = [action EXCEPT !.status = "applying", !.revision = @ + 1, !.key = req[r].key]
             /\ Goes(r, IF plan.cells THEN "apply" ELSE "tools")
    <2> PICK phase : phase = IF plan.cells THEN "apply" ELSE "tools"
      OBVIOUS
    <2>1. phase \in {"apply", "tools"} /\ (plan.cells => phase = "apply")
      OBVIOUS
    <2>2. req'[r].at = phase
      BY <1>1, <1>2, <2>1, GoesIs DEF Known, Phases
    <2>3. action'.status = "applying" /\ action'.tools = action.tools
      BY <1>2, ClaimedRowIs DEF Known
    <2>4. NoEffects(book) /\ book.cells # "agent" /\ Names(req'[r].tools, book, plan)
      BY <1>2, UnclaimedIsClean, NothingToName DEF Known
    <2>5. ~SavedHolder(r)' /\ req'[r].at \notin UndoPhases \cup {"close"} /\ HolderOK(req'[r], action')
      BY <2>1, <2>2, <2>3 DEF SavedHolder, UndoPhases, HolderOK, Over
    <2>6. NormalTurn(r)
      BY <2>1, <2>2, <2>3, <2>4, <2>5 DEF NormalTurn
    <2>7. UsualTurn(r)
      BY <1>1, <1>2, <2>3, <2>4, <2>5 DEF UsualTurn, MayDecide, Over
    <2> QED  BY <2>6, <2>7
  <1>3. CASE Goes(r, "approve") /\ action' = action
    <2>1. req'[r].at = "approve"
      BY <1>1, <1>3, GoesIs DEF Known, Phases
    <2> QED  BY <1>1, <1>3, <2>1, EarlyGoes DEF Held, UndoPhases
  <1>4. CASE Fails(r) /\ action' = action
    BY <1>1, <1>4, EarlyLeaves DEF Fails
  <1> QED  BY <1>2, <1>3, <1>4 DEF Claim

LEMMA ApplyApprovedKnows ==
    ASSUME Known, NEW r \in Requests, ApplyApproved(r) \/ ApplyRefused(r)
    PROVE  (Normal => NormalTurn(r)) /\ (Usual => UsualTurn(r))
  <1>1. req[r].at = "apply"
    BY DEF ApplyApproved, ApplyRefused
  <1>2. PhaseOK(req[r], action, plan)
    BY <1>1, UnderWay DEF Known
  <1>3. /\ plan.cells /\ Holds(r) /\ action.key = req[r].key
        /\ ~ToolHolder(r) /\ ~HoldsUndo(r)
    BY <1>1, <1>2 DEF PhaseOK, Holds, Held, ToolHolder, HoldsUndo
  <1>4. Usual => action.status = "applying" /\ NoEffects(book)
    BY <1>1, <1>3, UsualIsNormal
    DEF Known, UsualInv, NormalInv, HolderIsAlone, HolderOK, ClaimIsClean
  <1>5. CASE Goes(r, "record") /\ action' = action
    <2>1. req'[r].at = "record"
      BY <1>1, <1>5, GoesIs DEF Known, Phases
    <2>2. ~ToolHolder(r)' /\ ~SavedHolder(r)' /\ req'[r].at \notin UndoPhases \cup {"close"}
          /\ req'[r].at \notin {"check", "undoTools"}
      BY <2>1 DEF ToolHolder, SavedHolder, UndoPhases
    <2>3. Usual => HolderOK(req'[r], action)
      BY <1>4, <2>1 DEF HolderOK
    <2>4. NormalTurn(r)
      BY <1>3, <1>5, <2>1, <2>2 DEF NormalTurn
    <2>5. ASSUME Usual PROVE UsualTurn(r)
      BY <1>3, <1>4, <1>5, <2>2, <2>3, <2>5 DEF UsualTurn
    <2> QED  BY <2>4, <2>5
  <1>6. CASE /\ <<"approve", req[r].key>> \notin book.ops /\ book' = book
             /\ MarkFailed /\ Fails(r)
    <2>1. req'[r].at = "idle"
      BY <1>6, LeavesIs DEF Known, Fails
    <2>2. ~ToolHolder(r)' /\ ~SavedHolder(r)' /\ ~Holds(r)' /\ req'[r].at \notin UndoPhases \cup {"close"}
          /\ req'[r].at \notin {"check", "undoTools"}
      BY <2>1 DEF ToolHolder, SavedHolder, Holds, Held, UndoPhases
    <2>3. /\ action'.status = IF action.status \in {"applying", "undoing"} THEN "failed" ELSE action.status
          /\ action'.tools = action.tools
      BY <1>6, MarkFailedIs DEF Known
    <2>4. book.cells # "agent"
      BY <1>3, <1>6 DEF Known, CellsAreSound
    <2>5. NormalTurn(r)
      BY <1>3, <2>2, <2>3 DEF NormalTurn
    <2>6. ASSUME Usual PROVE UsualTurn(r)
      BY <1>3, <1>4, <1>6, <2>2, <2>3, <2>4, <2>6 DEF UsualTurn, MayDecide
    <2> QED  BY <2>5, <2>6
  <1> QED  BY <1>5, <1>6 DEF ApplyApproved, ApplyRefused

LEMMA completeApprovalKnows ==
    ASSUME Known, NEW r \in Requests, completeApproval(r)
    PROVE  (Normal => NormalTurn(r)) /\ (Usual => UsualTurn(r))
  <1>1. req[r].at = "record" /\ book' = book
    BY DEF completeApproval
  <1>2. PhaseOK(req[r], action, plan)
    BY <1>1, UnderWay DEF Known
  <1>3. /\ plan.cells /\ Holds(r) /\ action.key = req[r].key
        /\ ~ToolHolder(r) /\ ~HoldsUndo(r)
    BY <1>1, <1>2 DEF PhaseOK, Holds, Held, ToolHolder, HoldsUndo
  <1>4. CASE action.status = "applying"
             /\ action' = [action EXCEPT !.status = "applied", !.operation = TRUE]
    <2>1. action'.status = "applied" /\ action'.tools = action.tools
      BY <1>4, AppliedRowIs DEF Known
    <2>2. Normal => NoEffects(book)
      BY <1>3, <1>4 DEF Known, NormalInv, ClaimIsClean
    <2>3. NoEffects(book) => Names(action.tools, book, plan)
      BY NothingToName
    <2>4. \/ req'[r].at = "tools" /\ req'[r].tools = action.tools
          \/ req'[r].at = "idle"
      <3>1. CASE req' = [req EXCEPT ![r].at = "tools", ![r].tools = action.tools, ![r].operation = TRUE]
        BY <1>1, <3>1, ToToolsIs DEF Known
      <3>2. CASE Leaves(r)
        BY <3>2, LeavesIs DEF Known
      <3> QED  BY <1>4, <3>1, <3>2, <1>1, <1>3 DEF completeApproval
    <2>5. ~SavedHolder(r)' /\ req'[r].at \notin UndoPhases \cup {"close"}
          /\ req'[r].at \notin {"check", "undoTools"} /\ HolderOK(req'[r], action')
          /\ (ToolHolder(r)' => req'[r].tools = action.tools)
      BY <2>1, <2>4 DEF ToolHolder, SavedHolder, UndoPhases, HolderOK, Over
    <2>6. ASSUME Normal PROVE NormalTurn(r)
      BY <1>3, <2>1, <2>2, <2>3, <2>5, <2>6 DEF NormalTurn
    <2>7. ASSUME Usual PROVE UsualTurn(r)
      BY <1>3, <2>1, <2>5, <2>7 DEF UsualTurn, MayDecide, Over
    <2> QED  BY <2>6, <2>7
  <1>5. CASE ~(action.status = "applying" /\ action.key = req[r].key) /\ Fails(r) /\ action' = action
    BY <1>1, <1>3, <1>5, LeavesKnowing DEF Fails
  <1> QED  BY <1>4, <1>5 DEF completeApproval

-----------------------------------------------------------------------------
\* The cells are undone by a request that has undone its tools.
UndoFacts(r) ==
    /\ req[r].at # "idle" /\ PhaseOK(req[r], action, plan)
    /\ ~ToolHolder(r) /\ req[r].at \notin {"apply", "record"}
    /\ Holds(r) => plan.cells
    /\ Usual => NoEffects(book)

LEMMA Undoing ==
    ASSUME Known, NEW r \in Requests, req[r].at \in UndoPhases
    PROVE  UndoFacts(r)
  <1>1. req[r].at # "idle"
    BY DEF UndoPhases
  <1>2. PhaseOK(req[r], action, plan) /\ RowOK(action, plan)
    BY <1>1, UnderWay DEF Known
  <1>3. ~ToolHolder(r) /\ req[r].at \notin {"apply", "record"}
    BY DEF ToolHolder, UndoPhases
  <1>4. Holds(r) => plan.cells
    BY <1>2 DEF PhaseOK, RowOK, Holds, Approvals
  <1>5. Usual => NoEffects(book)
    BY DEF Known, UsualInv, UndoIsClean
  <1> QED  BY <1>1, <1>2, <1>3, <1>4, <1>5 DEF UndoFacts

LEMMA UndoneIs ==
    ASSUME Known, NEW r \in Requests, req[r].at \in UndoPhases, Undone(r)
    PROVE  req'[r].at \in {"idle", "finish"}
  <1>1. req[r].at # "idle"
    BY DEF UndoPhases
  <1>2. CASE Goes(r, "finish")
    BY <1>1, <1>2, GoesIs DEF Known, Phases
  <1>3. CASE Fails(r)
    BY <1>3, LeavesIs DEF Known, Fails
  <1> QED  BY <1>2, <1>3 DEF Undone

\* A step that ends the undo of a request.
LEMMA EndOfUndo ==
    ASSUME Known, NEW r \in Requests, req[r].at \in UndoPhases, req'[r].at \in {"idle", "finish"},
           book' = book, action'.tools = action.tools,
           action'.status = "applied" => action.status = "applied",
           action'.status = "applying" => action.status = "applying",
           Usual => /\ action'.status # action.status => MayDecide(r)
                    /\ action'.status # action.status =>
                         /\ action'.status \in {"undone", "failed"}
                         /\ book.cells # "agent" \/ (action'.status = "failed" /\ "refused" \in unusual')
                    /\ action'.status = "undoing" => action' = action /\ ~HoldsUndo(r)
    PROVE  (Normal => NormalTurn(r)) /\ (Usual => UsualTurn(r))
  <1>1. ~ToolHolder(r)' /\ ~SavedHolder(r)' /\ ~Holds(r)' /\ req'[r].at \notin UndoPhases \cup {"close"}
        /\ req'[r].at \notin {"check", "undoTools"}
    BY DEF ToolHolder, SavedHolder, Holds, Held, UndoPhases
  <1>2. UndoFacts(r)
    BY Undoing
  <1>3. NormalTurn(r)
    BY <1>1, <1>2 DEF NormalTurn, UndoFacts
  <1>4. ASSUME Usual PROVE UsualTurn(r)
    <2>1. action.status = "undoing" => action.operation
      BY <1>4 DEF Known, UsualInv, UndoIsHeld
    <2>2. NoEffects(book)
      BY <1>2, <1>4 DEF UndoFacts
    <2> QED  BY <1>1, <1>4, <2>1, <2>2 DEF UsualTurn
  <1> QED  BY <1>3, <1>4

LEMMA UndoGoes ==
    ASSUME Known, NEW r \in Requests, req[r].at \in UndoPhases, req'[r].at \in UndoPhases,
           req'[r].kind = req[r].kind, action' = action,
           book'.cells = "agent" => book.cells = "agent",
           Usual /\ Holds(r) => HolderOK(req'[r], action),
           Usual /\ action.status = "undoing" => HoldsUndo(r)' \/ ~HoldsUndo(r)
    PROVE  (Normal => NormalTurn(r)) /\ (Usual => UsualTurn(r))
  <1>1. ~ToolHolder(r)' /\ ~SavedHolder(r)' /\ req'[r].at \notin {"check", "undoTools"}
    BY DEF ToolHolder, SavedHolder, UndoPhases
  <1>2. Holds(r)' <=> Holds(r)
    BY DEF Holds, Held
  <1>3. UndoFacts(r)
    BY Undoing
  <1>4. NormalTurn(r)
    BY <1>1, <1>2, <1>3 DEF NormalTurn, UndoFacts
  <1>5. ASSUME Usual PROVE UsualTurn(r)
    <2>1. action.status = "undoing" => action.operation
      BY <1>5 DEF Known, UsualInv, UndoIsHeld
    <2>2. NoEffects(book)
      BY <1>3, <1>5 DEF UndoFacts
    <2> QED  BY <1>1, <1>2, <1>5, <2>1, <2>2 DEF UsualTurn
  <1> QED  BY <1>4, <1>5

LEMMA ReadForUndoKnows ==
    ASSUME Known, NEW r \in Requests, ReadForUndo(r)
    PROVE  (Normal => NormalTurn(r)) /\ (Usual => UsualTurn(r))
  <1>1. req[r].at = "undo" /\ action' = action /\ book' = book
    BY DEF ReadForUndo
  <1>2. req[r].at \in UndoPhases /\ ~HoldsUndo(r)
    BY <1>1 DEF UndoPhases, HoldsUndo
  <1>3. CASE Undone(r) \/ Fails(r)
    <2>1. req'[r].at \in {"idle", "finish"}
      <3>1. CASE Undone(r)
        BY <1>2, <3>1, UndoneIs
      <3>2. CASE Fails(r)
        BY <3>2, LeavesIs DEF Known, Fails
      <3> QED  BY <1>3, <3>1, <3>2
    <2> QED  BY <1>1, <1>2, <2>1, EndOfUndo
  <1>4. ASSUME NEW phase \in {"undoApply", "undoClaim"}, Goes(r, phase),
               phase = "undoClaim" => action.status = "applied"
        PROVE  (Normal => NormalTurn(r)) /\ (Usual => UsualTurn(r))
    <2>1. req'[r].at = phase /\ req'[r].kind = req[r].kind
      BY <1>1, <1>4, GoesIs DEF Known, Phases
    <2>2. req'[r].at \in UndoPhases /\ HolderOK(req'[r], action)
      BY <1>4, <2>1 DEF UndoPhases, HolderOK
    <2> QED  BY <1>1, <1>2, <2>1, <2>2, UndoGoes
  <1> QED  BY <1>3, <1>4 DEF ReadForUndo

LEMMA ClaimUndoKnows ==
    ASSUME Known, NEW r \in Requests, ClaimUndo(r)
    PROVE  (Normal => NormalTurn(r)) /\ (Usual => UsualTurn(r))
  <1>1. req[r].at = "undoClaim" /\ book' = book
    BY DEF ClaimUndo
  <1>2. req[r].at \in UndoPhases /\ ~HoldsUndo(r)
    BY <1>1 DEF UndoPhases, HoldsUndo
  <1>3. UndoFacts(r)
    BY <1>2, Undoing
  <1>4. CASE /\ action.status = "applied" /\ action.revision = req[r].rev
             /\ action' = [action EXCEPT !.status = "undoing", !.revision = @ + 1, !.undoKey = UndoKey(r)]
             /\ Goes(r, "undoApply")
    <2>1. /\ action'.status = "undoing" /\ action'.operation = action.operation
          /\ action'.undoKey = UndoKey(r) /\ action'.tools = action.tools
      BY <1>4, UndoRowIs DEF Known
    <2>2. req'[r].at = "undoApply" /\ req'[r].kind = req[r].kind /\ req'[r].key = req[r].key
      BY <1>1, <1>4, GoesIs DEF Known, Phases
    <2>3. HoldsUndo(r)'
      BY <2>1, <2>2 DEF HoldsUndo, UndoKey
    <2>4. ~ToolHolder(r)' /\ ~SavedHolder(r)' /\ req'[r].at \notin {"check", "undoTools"}
          /\ HolderOK(req'[r], action')
      BY <2>2 DEF ToolHolder, SavedHolder, HolderOK
    <2>5. Holds(r)' <=> Holds(r)
      BY <1>1, <2>2 DEF Holds, Held, UndoPhases
    <2>6. NormalTurn(r)
      BY <1>3, <2>1, <2>4, <2>5 DEF NormalTurn, UndoFacts
    <2>7. req[r].kind \in {"approve", "rollback", "undoCells"}
      BY <1>2, <1>3, RequestFields DEF UndoFacts, PhaseOK, Known, Inv, RequestKinds
    <2>8. MayDecide(r)
      <3>1. action.revision = 2
        BY <1>4, RowFields DEF Known, RevisionOK
      <3>2. req[r].kind = "approve" => Holds(r)
        BY <1>1 DEF Holds, Held, UndoPhases, Approvals
      <3> QED  BY <1>4, <2>7, <3>1, <3>2 DEF MayDecide
    <2>9. ASSUME Usual PROVE UsualTurn(r)
      <3>1. NoEffects(book)
        BY <1>3, <2>9 DEF UndoFacts
      <3>2. action.operation
        <4>1. req[r] # Idle
          BY <1>1 DEF Idle
        <4>2. CASE req[r].kind = "undoCells"
          <5>1. DOMAIN plan.tools = {}
            BY <2>9, <4>1, <4>2 DEF Known, UsualInv, UndoWaits
          <5>2. plan.cells
            BY <5>1, NoToolsMeansCells DEF Known
          <5> QED  BY <1>4, <5>2 DEF Known, RequestsAreSound, RowOK
        <4>3. CASE req[r].kind # "undoCells"
          BY <1>2, <1>3, <4>3 DEF UndoFacts, PhaseOK
        <4> QED  BY <4>2, <4>3
      <3> QED  BY <1>1, <2>1, <2>3, <2>4, <2>5, <2>8, <3>1, <3>2 DEF UsualTurn
    <2> QED  BY <2>6, <2>9
  <1>5. CASE Goes(r, "undo") /\ action' = action
    <2>1. req'[r].at = "undo" /\ req'[r].kind = req[r].kind
      BY <1>1, <1>5, GoesIs DEF Known, Phases
    <2>2. Usual /\ Holds(r) => HolderOK(req'[r], action)
      BY <1>1, <2>1 DEF Known, UsualInv, HolderIsAlone, HolderOK
    <2> QED  BY <1>1, <1>2, <1>5, <2>1, <2>2, UndoGoes DEF UndoPhases
  <1> QED  BY <1>4, <1>5 DEF ClaimUndo

LEMMA ApplyUndoKnows ==
    ASSUME Known, NEW r \in Requests, ApplyUndo(r)
    PROVE  (Normal => NormalTurn(r)) /\ (Usual => UsualTurn(r))
  <1>1. req[r].at = "undoApply" /\ req[r].at \in UndoPhases
    BY DEF ApplyUndo, UndoPhases
  <1>2. UndoFacts(r)
    BY <1>1, Undoing
  <1> PICK k : k = <<"undo", UndoKey(r)>>
    OBVIOUS
  <1>3. CASE /\ Goes(r, "undoRecord") /\ action' = action
             /\ \/ book' = book
                \/ \E c \in PutBack(book.cells, "agent", "before") :
                      book' = [book EXCEPT !.version = @ + 1, !.ops = @ \cup {k}, !.cells = c]
    <2>1. req'[r].at = "undoRecord" /\ req'[r].kind = req[r].kind /\ req'[r].key = req[r].key
      BY <1>1, <1>3, GoesIs DEF Known, Phases
    <2>2. book'.cells = "agent" => book.cells = "agent"
      <3>1. CASE book' = book
        BY <3>1
      <3>2. ASSUME NEW c \in PutBack(book.cells, "agent", "before"),
                   book' = [book EXCEPT !.version = @ + 1, !.ops = @ \cup {k}, !.cells = c]
            PROVE  book'.cells # "agent"
        BY <3>2, PutBackCells, BookFacts DEF Known, Books
      <3> QED  BY <1>3, <3>1, <3>2
    <2>3. HoldsUndo(r)' <=> HoldsUndo(r)
      BY <1>1, <1>3, <2>1 DEF HoldsUndo, UndoKey
    <2>4. HolderOK(req'[r], action) /\ req'[r].at \in UndoPhases
      BY <2>1 DEF HolderOK, UndoPhases
    <2> QED  BY <1>1, <1>3, <2>1, <2>2, <2>3, <2>4, UndoGoes
  <1>4. CASE ~action.operation /\ MarkFailed /\ Fails(r) /\ book' = book
    <2>1. req'[r].at = "idle"
      BY <1>4, LeavesIs DEF Known, Fails
    <2>2. /\ action'.status = IF action.status \in {"applying", "undoing"} THEN "failed" ELSE action.status
          /\ action'.tools = action.tools
      BY <1>4, MarkFailedIs DEF Known
    <2>3. Over(action)
      BY <1>1, <1>2 DEF UndoFacts, PhaseOK
    <2>4. Usual => action.status # "undoing"
      BY <1>4 DEF Known, UsualInv, UndoIsHeld
    <2>5. Usual => action'.status = action.status /\ action'.status # "undoing"
      BY <2>2, <2>3, <2>4 DEF Over
    <2> QED  BY <1>1, <1>4, <2>1, <2>2, <2>5, EndOfUndo
  <1> QED  BY <1>3, <1>4 DEF ApplyUndo

LEMMA UndoRefusedKnows ==
    ASSUME Known, NEW r \in Requests, UndoRefused(r)
    PROVE  (Normal => NormalTurn(r)) /\ (Usual => UsualTurn(r))
  <1>1. /\ req[r].at = "undoApply" /\ req[r].at \in UndoPhases /\ book' = book
        /\ MarkFailed /\ Leaves(r) /\ "refused" \in unusual'
    BY DEF UndoRefused, UndoPhases, Fails
  <1>2. req'[r].at = "idle"
    BY <1>1, LeavesIs DEF Known
  <1>3. /\ action'.status = IF action.status \in {"applying", "undoing"} THEN "failed" ELSE action.status
        /\ action'.tools = action.tools
    BY <1>1, MarkFailedIs DEF Known
  <1>4. Over(action)
    BY <1>1, Undoing DEF UndoFacts, PhaseOK
  <1>5. /\ action'.status # action.status => action'.status = "failed"
        /\ action'.status \notin {"applied", "applying", "undoing"} /\ MayDecide(r)
    BY <1>3, <1>4 DEF Over, MayDecide
  <1> QED  BY <1>1, <1>2, <1>3, <1>5, EndOfUndo

LEMMA completeUndoKnows ==
    ASSUME Known, NEW r \in Requests, completeUndo(r)
    PROVE  (Normal => NormalTurn(r)) /\ (Usual => UsualTurn(r))
  <1>1. req[r].at = "undoRecord" /\ req[r].at \in UndoPhases /\ book' = book
    BY DEF completeUndo, UndoPhases
  <1>2. CASE action.status = "undoing" /\ action' = [action EXCEPT !.status = "undone"] /\ Undone(r)
    <2>1. req'[r].at \in {"idle", "finish"}
      BY <1>1, <1>2, UndoneIs
    <2>2. action'.status = "undone" /\ action'.tools = action.tools
      BY <1>2, StatusIs DEF Known
    <2>3. book.cells # "agent"
      <3>1. UndoKey(r) \in UndoKeys
        BY <1>1, RequestFields DEF Known, Inv
      <3> QED  BY <1>1, <3>1 DEF Known, CellsAreSound
    <2>4. MayDecide(r)
      BY <1>2 DEF MayDecide, Over
    <2> QED  BY <1>1, <2>1, <2>2, <2>3, <2>4, EndOfUndo
  <1>3. CASE ~(action.status = "undoing" /\ action.undoKey = UndoKey(r)) /\ Fails(r) /\ action' = action
    <2>1. req'[r].at = "idle"
      BY <1>3, LeavesIs DEF Known, Fails
    <2> QED  BY <1>1, <1>3, <2>1, EndOfUndo DEF HoldsUndo
  <1> QED  BY <1>2, <1>3 DEF completeUndo

-----------------------------------------------------------------------------
LEMMA ToolFailsKnows ==
    ASSUME Known, NEW r \in Requests, ToolFails(r)
    PROVE  (Normal => NormalTurn(r)) /\ (Usual => UsualTurn(r))
  <1>1. req[r].at = "tools" /\ action' = action /\ book' = book /\ Goes(r, "undoTools")
    BY DEF ToolFails
  <1>2. req[r].kind = "approve" /\ ToolHolder(r) /\ Holds(r)
    BY <1>1, UnderWay, ToolHolderHolds DEF Known, PhaseOK, ToolHolder
  <1>3. req'[r].at = "undoTools" /\ req'[r].kind = "approve" /\ req'[r].tools = req[r].tools
    BY <1>1, <1>2, GoesIs DEF Known, Phases
  <1>4. ToolHolder(r)' /\ Holds(r)' /\ ~SavedHolder(r)' /\ req'[r].at \notin UndoPhases \cup {"close"}
    BY <1>3 DEF ToolHolder, Holds, Held, Approvals, SavedHolder, UndoPhases
  <1>5. ASSUME Normal PROVE NormalTurn(r)
    <2>1. Names(req[r].tools, book, plan)
      BY <1>2, <1>5 DEF Known, NormalInv, HolderKnows
    <2> QED  BY <1>1, <1>3, <1>4, <2>1 DEF NormalTurn
  <1>6. ASSUME Usual PROVE UsualTurn(r)
    <2>1. ~Over(action)
      BY <1>1, <1>2, <1>6 DEF Known, UsualInv, HolderIsAlone, HolderOK
    <2>2. HolderOK(req'[r], action)
      BY <1>3, <2>1 DEF HolderOK
    <2> QED  BY <1>1, <1>2, <1>3, <1>4, <2>1, <2>2 DEF UsualTurn, Over
  <1> QED  BY <1>5, <1>6

LEMMA SaveToolCallsKnows ==
    ASSUME Known, NEW r \in Requests, SaveToolCalls(r)
    PROVE  (Normal => NormalTurn(r)) /\ (Usual => UsualTurn(r))
  <1> PICK phase : phase = IF plan.cells THEN "validate" ELSE "complete"
    OBVIOUS
  <1>1. /\ req[r].at = "tools" /\ book' = book /\ Goes(r, phase)
        /\ action' = [action EXCEPT !.tools = req[r].tools]
    BY DEF SaveToolCalls
  <1>2. req[r].kind = "approve" /\ ToolHolder(r) /\ Holds(r)
    BY <1>1, UnderWay, ToolHolderHolds DEF Known, PhaseOK, ToolHolder
  <1>3. phase \in {"validate", "complete"}
    OBVIOUS
  <1>4. req'[r].at = phase /\ req'[r].kind = "approve"
    BY <1>1, <1>2, <1>3, GoesIs DEF Known, Phases
  <1>5. /\ action'.status = action.status /\ action'.operation = action.operation
        /\ action'.undoKey = action.undoKey /\ action'.tools = req[r].tools
    BY <1>1, SavedRowIs DEF Known
  <1>6. /\ ~ToolHolder(r)' /\ Holds(r)' /\ req'[r].at \notin UndoPhases \cup {"close"}
        /\ req'[r].at \notin {"check", "undoTools"}
    BY <1>3, <1>4 DEF ToolHolder, Holds, Held, Approvals, UndoPhases
  <1>7. ASSUME Normal PROVE NormalTurn(r)
    <2>1. Names(req[r].tools, book, plan)
      BY <1>2, <1>7 DEF Known, NormalInv, HolderKnows
    <2> QED  BY <1>1, <1>2, <1>5, <1>6, <2>1 DEF NormalTurn
  <1>8. ASSUME Usual PROVE UsualTurn(r)
    <2>1. ~Over(action)
      BY <1>1, <1>2, <1>8 DEF Known, UsualInv, HolderIsAlone, HolderOK
    <2>2. HolderOK(req'[r], action') /\ ~Over(action')
      BY <1>3, <1>4, <1>5, <2>1 DEF HolderOK, Over
    <2> QED  BY <1>1, <1>2, <1>5, <1>6, <2>1, <2>2 DEF UsualTurn, Over
  <1> QED  BY <1>7, <1>8

\* The outcomes are in the row, and the request goes on.
LEMMA SavedGoes ==
    ASSUME Known, NEW r \in Requests, SavedHolder(r), book' = book, action'.tools = action.tools,
           req'[r].at \in {"validate", "validated"}, req'[r].kind = req[r].kind,
           action'.status = action.status \/ action'.status = "applied",
           action'.status = "applying" => action.status = "applying"
    PROVE  (Normal => NormalTurn(r)) /\ (Usual => UsualTurn(r))
  <1>1. Holds(r)
    BY SavedHolderHolds DEF Known
  <1>2. /\ ~ToolHolder(r)' /\ Holds(r)' /\ req'[r].at \notin UndoPhases \cup {"close"}
        /\ req'[r].at \notin {"check", "undoTools"} /\ req[r].at \notin {"apply", "record"}
    BY <1>1 DEF ToolHolder, Holds, Held, UndoPhases, SavedHolder
  <1>3. ASSUME Normal PROVE NormalTurn(r)
    <2>1. Names(action.tools, book, plan)
      BY <1>3 DEF Known, NormalInv, SavedKnows
    <2> QED  BY <1>1, <1>2, <2>1 DEF NormalTurn
  <1>4. ASSUME Usual PROVE UsualTurn(r)
    <2>1. ~Over(action)
      BY <1>1, <1>4 DEF Known, UsualInv, HolderIsAlone, HolderOK, SavedHolder
    <2>2. HolderOK(req'[r], action') /\ ~Over(action')
      BY <2>1 DEF HolderOK, Over
    <2> QED  BY <1>1, <1>2, <2>1, <2>2 DEF UsualTurn, MayDecide, Over
  <1> QED  BY <1>3, <1>4

LEMMA completeToolOnlyApprovalKnows ==
    ASSUME Known, NEW r \in Requests, completeToolOnlyApproval(r)
    PROVE  (Normal => NormalTurn(r)) /\ (Usual => UsualTurn(r))
  <1>1. /\ req[r].at = "complete" /\ book' = book /\ Goes(r, "validate")
        /\ action' = IF action.status \in {"applying", "applied"} /\ action.key = req[r].key
                     THEN [action EXCEPT !.status = "applied"] ELSE action
    BY DEF completeToolOnlyApproval
  <1>2. Holds(r) /\ SavedHolder(r)
    BY <1>1, SavedHolderHolds DEF Known, SavedHolder
  <1>3. action.key = req[r].key
    BY <1>1, <1>2, UnderWay DEF Known, PhaseOK, Holds
  <1>4. req'[r].at = "validate" /\ req'[r].kind = req[r].kind
    BY <1>1, GoesIs DEF Known, Phases
  <1>5. CASE action.status \in {"applying", "applied"}
    <2>1. action'.status = "applied" /\ action'.tools = action.tools
      BY <1>1, <1>3, <1>5, StatusIs DEF Known
    <2> QED  BY <1>1, <1>2, <1>4, <2>1, SavedGoes
  <1>6. CASE action.status \notin {"applying", "applied"}
    BY <1>1, <1>2, <1>4, <1>6, SavedGoes
  <1> QED  BY <1>5, <1>6

LEMMA ValidateExecutionKnows ==
    ASSUME Known, NEW r \in Requests, ValidateExecution(r)
    PROVE  (Normal => NormalTurn(r)) /\ (Usual => UsualTurn(r))
  <1>1. SavedHolder(r) /\ action' = action /\ book' = book
    BY DEF ValidateExecution, SavedHolder
  <1>2. req'[r].at = "validated" /\ req'[r].kind = req[r].kind
    BY ValidateExecutionTurns DEF Known
  <1> QED  BY <1>1, <1>2, SavedGoes

LEMMA EndsKnow ==
    ASSUME Known, NEW r \in Requests, completeAgentValidation(r) \/ FinishRollback(r)
    PROVE  (Normal => NormalTurn(r)) /\ (Usual => UsualTurn(r))
  <1>1. CASE completeAgentValidation(r)
    <2>1. req[r].at = "validated" /\ Leaves(r) /\ action' = action /\ book' = book
      BY <1>1 DEF completeAgentValidation
    <2>2. Done(action)
      BY <2>1, UnderWay DEF Known, PhaseOK
    <2>3. ~ToolHolder(r) /\ ~HoldsUndo(r) /\ action.status # "applying"
      BY <2>1, <2>2 DEF ToolHolder, HoldsUndo, Done
    <2> QED  BY <2>1, <2>3, LeavesKnowing
  <1>2. CASE FinishRollback(r)
    BY <1>2, EarlyLeaves DEF FinishRollback, Held, UndoPhases
  <1> QED  BY <1>1, <1>2

-----------------------------------------------------------------------------
LEMMA CheckVersionKnows ==
    ASSUME Known, NEW r \in Requests, CheckVersion(r)
    PROVE  (Normal => NormalTurn(r)) /\ (Usual => UsualTurn(r))
  <1>1. req[r].at = "check" /\ action' = action /\ book' = book /\ req[r].at \notin Held
    BY DEF CheckVersion, Held, UndoPhases
  <1>2. CASE Goes(r, "undoTools")
    <2>1. req[r].kind = "rollback"
      BY <1>1, UnderWay DEF Known, PhaseOK
    <2>2. req'[r].at = "undoTools" /\ req'[r].kind = "rollback" /\ req'[r].tools = req[r].tools
      BY <1>1, <1>2, <2>1, GoesIs DEF Known, Phases
    <2>3. /\ ~ToolHolder(r)' /\ ~Holds(r)' /\ ~SavedHolder(r)' /\ req'[r].at \notin UndoPhases \cup {"close"}
          /\ ~ToolHolder(r) /\ ~Holds(r) /\ ~HoldsUndo(r) /\ req[r].at \notin {"apply", "record"}
      BY <1>1, <2>2 DEF ToolHolder, Holds, HoldsUndo, Approvals, SavedHolder, UndoPhases
    <2>4. NormalTurn(r)
      BY <1>1, <2>3 DEF NormalTurn
    <2>5. ASSUME Usual PROVE UsualTurn(r)
      <3>1. Names(req[r].tools, book, plan)
        BY <1>1, <2>1, <2>5 DEF Known, UsualInv, RollbackKnows
      <3>2. action.status = "undoing" => action.operation
        BY <2>5 DEF Known, UsualInv, UndoIsHeld
      <3> QED  BY <1>1, <2>2, <2>3, <3>1, <3>2 DEF UsualTurn
    <2> QED  BY <2>4, <2>5
  <1>3. CASE Leaves(r)
    BY <1>1, <1>3, EarlyLeaves
  <1> QED  BY <1>2, <1>3 DEF CheckVersion

\* Request r notes outcome o of tool i.
Stores(r, i, o) == req' = [req EXCEPT ![r].tools[i] = o]

Noted(tools, i, o) == [tools EXCEPT ![i] = o]

LEMMA WhatIsStored ==
    ASSUME Inv, NEW r \in Requests, req[r].at # "idle", NEW i, NEW o, Stores(r, i, o)
    PROVE  /\ req'[r].at = req[r].at /\ req'[r].kind = req[r].kind /\ req'[r].key = req[r].key
           /\ req'[r].tools = Noted(req[r].tools, i, o) /\ Only(r)
  <1>1. req \in [Requests -> {Idle} \cup RequestsTo(plan, book.ids, book.version, action.revision)]
    BY DEF Inv, Types, ReqOK
  <1>2. req[r] \in RequestsTo(plan, book.ids, book.version, action.revision)
    BY RequestFields DEF Inv
  <1> PICK t : t = Noted(req[r].tools, i, o)
    OBVIOUS
  <1> PICK q : q = [req[r] EXCEPT !.tools = t]
    OBVIOUS
  <1>3. q.at = req[r].at /\ q.kind = req[r].kind /\ q.key = req[r].key /\ q.tools = t
    BY <1>2 DEF RequestsTo
  <1>4. Only(r) /\ req'[r] = q
    BY <1>1 DEF Only, Stores, Noted
  <1> QED  BY <1>3, <1>4

LEMMA UndoToolIs ==
    ASSUME Inv, NEW r \in Requests, UndoTool(r)
    PROVE  \E i \in DOMAIN plan.tools :
              /\ req[r].tools[i].done /\ MayUndo(i, req[r].tools[i]) /\ req[r].at = "undoTools"
              /\ book' \in UndoneTool(i, req[r].tools[i]) /\ Only(r)
              /\ req'[r].at = req[r].at /\ req'[r].kind = req[r].kind /\ req'[r].key = req[r].key
              /\ req'[r].tools = [req[r].tools EXCEPT ![i] = Pending]
              /\ plan' = plan /\ action' = action /\ unusual' = unusual
  <1> PICK i : i = Max(ToUndo(r))
    OBVIOUS
  <1> PICK o : o = Pending
    OBVIOUS
  <1>1. /\ req[r].at = "undoTools" /\ ToUndo(r) # {} /\ MayUndo(i, req[r].tools[i])
        /\ book' \in UndoneTool(i, req[r].tools[i]) /\ req' = [req EXCEPT ![r].tools[i] = o]
        /\ plan' = plan /\ action' = action /\ unusual' = unusual
    BY DEF UndoTool
  <1>2. ToUndo(r) \in SUBSET DOMAIN plan.tools
    BY DEF ToUndo
  <1>3. i \in ToUndo(r)
    BY <1>1, <1>2, MaxIsIn DEF Inv, Types
  <1>4. i \in DOMAIN plan.tools /\ req[r].tools[i].done
    BY <1>3 DEF ToUndo
  <1>5. /\ req'[r].at = req[r].at /\ req'[r].kind = req[r].kind /\ req'[r].key = req[r].key
        /\ req'[r].tools = [req[r].tools EXCEPT ![i] = o] /\ Only(r)
    <2>1. req[r].at # "idle" /\ Stores(r, i, o)
      BY <1>1 DEF Stores
    <2>2. /\ req'[r].at = req[r].at /\ req'[r].kind = req[r].kind /\ req'[r].key = req[r].key
          /\ req'[r].tools = Noted(req[r].tools, i, o) /\ Only(r)
      BY <2>1, WhatIsStored
    <2> QED  BY <2>2 DEF Noted
  <1> QED  BY <1>1, <1>4, <1>5

LEMMA UndoToolKnows ==
    ASSUME Known, NEW r \in Requests, UndoTool(r)
    PROVE  (Normal => NormalTurn(r)) /\ (Usual => UsualTurn(r))
  <1>1. PICK i \in DOMAIN plan.tools :
          /\ req[r].at = "undoTools" /\ book' \in UndoneTool(i, req[r].tools[i])
          /\ req'[r].at = "undoTools" /\ req'[r].kind = req[r].kind
          /\ req'[r].tools = [req[r].tools EXCEPT ![i] = Pending] /\ action' = action
    BY UndoToolIs DEF Known
  <1>4. req[r].tools \in RecordsTo(plan, book.ids)
    BY <1>1, RequestFields DEF Known, Inv
  <1> PICK c : c = book'
    OBVIOUS
  <1>6. Names(req[r].tools, book, plan) => Names(req'[r].tools, c, plan)
    BY <1>1, <1>4, UndoneIsForgotten DEF Known, RecordsAreSound
  <1>7. c.cells = book.cells
    <2> PICK o : o = req[r].tools[i]
      OBVIOUS
    <2>1. c \in UndoneTool(i, o)
      BY <1>1
    <2> QED  BY <2>1, ToolsKeepCells DEF Known
  <1>8. /\ (ToolHolder(r)' <=> ToolHolder(r)) /\ (Holds(r)' <=> Holds(r)) /\ ~SavedHolder(r)'
        /\ req'[r].at \notin UndoPhases \cup {"close"}
        /\ ~HoldsUndo(r) /\ req[r].at \notin {"apply", "record"}
    BY <1>1 DEF ToolHolder, Holds, HoldsUndo, SavedHolder, UndoPhases
  <1>9. ASSUME Normal PROVE NormalTurn(r)
    <2>1. ToolHolder(r) => Names(req'[r].tools, c, plan)
      BY <1>6, <1>9 DEF Known, NormalInv, HolderKnows
    <2> QED  BY <1>1, <1>8, <2>1 DEF NormalTurn
  <1>10. ASSUME Usual PROVE UsualTurn(r)
    <2>1. req[r].kind = "rollback" => Names(req'[r].tools, c, plan)
      BY <1>1, <1>6, <1>10 DEF Known, UsualInv, RollbackKnows
    <2>2. action.status = "undoing" => action.operation
      BY <1>10 DEF Known, UsualInv, UndoIsHeld
    <2>3. Holds(r) => HolderOK(req'[r], action)
      BY <1>1, <1>10 DEF Known, UsualInv, HolderIsAlone, HolderOK
    <2> QED  BY <1>1, <1>7, <1>8, <2>1, <2>2, <2>3 DEF UsualTurn
  <1> QED  BY <1>9, <1>10

\* Outcomes that name nothing any more.
LEMMA AllUndone ==
    ASSUME Inv, NEW r, ToUndo(r) = {}, Names(req[r].tools, book, plan)
    PROVE  NoEffects(book)
  <1>1. \A i \in DOMAIN plan.tools : ~req[r].tools[i].done
    BY DEF ToUndo
  <1>2. \A t \in book.things : t.tool \in DOMAIN plan.tools
    BY BookFacts DEF Things
  <1> QED  BY <1>1, <1>2 DEF Names, NoEffects

\* An undo that is stuck is unusual, unless it is that of a rollback.
LEMMA UndoToolFailsKnows ==
    ASSUME Known, NEW r \in Requests, UndoToolFails(r)
    PROVE  (Normal' => NormalTurn(r)) /\ (Usual' => UsualTurn(r))
  <1>1. req[r].at = "undoTools" /\ action' = action /\ book' = book
    BY DEF UndoToolFails
  <1>2. CASE req[r].kind = "rollback" /\ Fails(r) /\ unusual' = unusual
    <2>1. ~ToolHolder(r) /\ ~Holds(r) /\ ~HoldsUndo(r) /\ req[r].at \notin {"apply", "record"}
      BY <1>1, <1>2 DEF ToolHolder, Holds, Approvals, HoldsUndo
    <2>2. (Normal => NormalTurn(r)) /\ (Usual => UsualTurn(r))
      BY <1>1, <1>2, <2>1, LeavesKnowing DEF Fails
    <2> QED  BY <1>2, <2>2 DEF Normal, Usual
  <1>3. CASE unusual' = unusual \cup {"stuck"}
    <2>1. ~Normal' /\ ~Usual'
      BY <1>3 DEF Normal, Usual
    <2> QED  BY <2>1
  <1> QED  BY <1>2, <1>3 DEF UndoToolFails

LEMMA ToolsUndoneKnows ==
    ASSUME Known, NEW r \in Requests, ToolsUndone(r)
    PROVE  (Normal => NormalTurn(r)) /\ (Usual => UsualTurn(r))
  <1>1. req[r].at = "undoTools" /\ ToUndo(r) = {} /\ action' = action /\ book' = book
    BY DEF ToolsUndone
  <1>2. PhaseOK(req[r], action, plan) /\ RowOK(action, plan)
    BY <1>1, UnderWay DEF Known
  <1>3. req[r].kind \in {"approve", "rollback"}
    BY <1>1, <1>2 DEF PhaseOK
  <1>4. Normal /\ req[r].kind = "approve" => NoEffects(book)
    BY <1>1, AllUndone DEF Known, NormalInv, HolderKnows, ToolHolder
  <1>5. Usual => NoEffects(book)
    <2>1. Usual /\ req[r].kind = "rollback" => NoEffects(book)
      BY <1>1, AllUndone DEF Known, UsualInv, RollbackKnows
    <2> QED  BY <1>3, <1>4, <2>1, UsualIsNormal
  <1>6. ~HoldsUndo(r) /\ req[r].at \notin {"apply", "record"} /\ (Holds(r) <=> req[r].kind = "approve")
        /\ (ToolHolder(r) <=> req[r].kind = "approve")
    BY <1>1, <1>3 DEF HoldsUndo, Holds, Held, Approvals, ToolHolder
  <1>7. NoEffects(book) => Names(action.tools, book, plan)
    BY NothingToName
  <1>8. CASE /\ req[r].operation /\ req'[r].at = "undo" /\ req'[r].kind = req[r].kind
    <2>1. ~ToolHolder(r)' /\ ~SavedHolder(r)' /\ req'[r].at \notin {"check", "undoTools"}
          /\ (Holds(r)' <=> req[r].kind = "approve")
      BY <1>3, <1>8 DEF ToolHolder, SavedHolder, Holds, Held, UndoPhases, Approvals
    <2>2. ASSUME Normal PROVE NormalTurn(r)
      BY <1>1, <1>3, <1>4, <1>6, <1>7, <2>1, <2>2 DEF NormalTurn
    <2>3. ASSUME Usual PROVE UsualTurn(r)
      <3>1. Holds(r)' => HolderOK(req'[r], action)
        <4>1. ASSUME Holds(r) PROVE action.status = "applied"
          <5>1. ~Over(action)
            BY <1>1, <2>3, <4>1 DEF Known, UsualInv, HolderIsAlone, HolderOK
          <5>2. Done(action)
            BY <1>1, <1>2, <1>8 DEF PhaseOK, RowOK
          <5> QED  BY <5>1, <5>2 DEF Over, Done
        <4> QED  BY <1>6, <1>8, <2>1, <4>1 DEF HolderOK
      <3>2. action.status = "undoing" => action.operation
        BY <2>3 DEF Known, UsualInv, UndoIsHeld
      <3> QED  BY <1>1, <1>5, <1>6, <2>1, <2>3, <3>1, <3>2 DEF UsualTurn
    <2> QED  BY <2>2, <2>3
  <1>9. CASE req[r].kind = "rollback" /\ req'[r].at = "close"
    <2>1. ~ToolHolder(r)' /\ ~SavedHolder(r)' /\ ~Holds(r)' /\ req'[r].at \notin {"check", "undoTools"}
      BY <1>9 DEF ToolHolder, SavedHolder, Holds, Held, UndoPhases
    <2>2. NormalTurn(r)
      BY <1>1, <1>6, <1>9, <2>1 DEF NormalTurn
    <2>3. ASSUME Usual PROVE UsualTurn(r)
      <3>1. action.status = "undoing" => action.operation
        BY <2>3 DEF Known, UsualInv, UndoIsHeld
      <3> QED  BY <1>1, <1>5, <1>6, <2>1, <2>3, <3>1 DEF UsualTurn
    <2> QED  BY <2>2, <2>3
  <1>10. CASE req[r].kind = "approve" /\ Leaves(r)
    BY <1>1, <1>4, <1>6, <1>10, LeavesKnowing
  <1>11. ASSUME req[r].operation, UndoCells(r) PROVE req'[r].at = "undo" /\ req'[r].kind = req[r].kind
    BY <1>1, <1>11, UndoCellsIs DEF Known
  <1>12. ASSUME Goes(r, "close") PROVE req'[r].at = "close"
    BY <1>1, <1>12, GoesIs DEF Known, Phases
  <1> QED  BY <1>8, <1>9, <1>10, <1>11, <1>12 DEF ToolsUndone, Fails

LEMMA CloseRunKnows ==
    ASSUME Known, NEW r \in Requests, CloseRun(r)
    PROVE  (Normal => NormalTurn(r)) /\ (Usual => UsualTurn(r))
  <1>1. req[r].at = "close" /\ book' = book /\ req[r].at \notin Held
    BY DEF CloseRun, Held, UndoPhases
  <1>2. PhaseOK(req[r], action, plan)
    BY <1>1, UnderWay DEF Known
  <1>3. req[r].kind = "rollback" /\ req[r].rev >= 2 /\ ~plan.cells
    BY <1>1, <1>2 DEF PhaseOK
  <1>4. CASE /\ Goes(r, "finish")
             /\ action' = [action EXCEPT !.status = "undone", !.revision = @ + 1, !.undoKey = UndoKey(r)]
    <2>1. action'.status = "undone" /\ action'.tools = action.tools
      BY <1>4, UndoRowIs DEF Known
    <2>2. req'[r].at = "finish"
      BY <1>1, <1>4, GoesIs DEF Known, Phases
    <2>3. ~ToolHolder(r)' /\ ~SavedHolder(r)' /\ ~Holds(r)' /\ req'[r].at \notin {"check", "undoTools"}
          /\ req'[r].at \notin UndoPhases \cup {"close"}
      BY <2>2 DEF ToolHolder, SavedHolder, Holds, Held, UndoPhases
    <2>4. NormalTurn(r)
      BY <2>1, <2>3 DEF NormalTurn
    <2>5. ASSUME Usual PROVE UsualTurn(r)
      <3>1. NoEffects(book)
        BY <1>1, <2>5 DEF Known, UsualInv, UndoIsClean
      <3>2. book.cells # "agent"
        BY <1>3 DEF Known, CellsAreSound
      <3> QED  BY <1>1, <1>3, <2>1, <2>3, <3>1, <3>2 DEF UsualTurn, MayDecide
    <2> QED  BY <2>4, <2>5
  <1>5. CASE Fails(r) /\ action' = action
    BY <1>1, <1>5, EarlyLeaves DEF Fails
  <1> QED  BY <1>4, <1>5 DEF CloseRun

-----------------------------------------------------------------------------
(***************************************************************************)
(* Every step but that of a tool shrinks what the run has left             *)
(***************************************************************************)

Shrunk(r) ==
    /\ Shrinks(book, book') /\ Recorded(action'.tools)
    /\ req'[r] # Idle => Recorded(req'[r].tools)

GoesOn(r) == Leaves(r) \/ Fails(r) \/ \E phase \in Phases : Goes(r, phase)

LEMMA GoesOnRecorded ==
    ASSUME Inv, NEW r \in Requests, req[r].at # "idle", GoesOn(r)
    PROVE  req'[r] # Idle => Recorded(req'[r].tools)
  <1>1. CASE Leaves(r) \/ Fails(r)
    BY <1>1, LeavesIs DEF Fails
  <1>2. ASSUME NEW phase \in Phases, Goes(r, phase)
        PROVE  Recorded(req'[r].tools)
    <2>1. req'[r].tools = req[r].tools /\ req[r] # Idle
      BY <1>2, GoesIs, RequestFields DEF Inv
    <2> QED  BY <2>1 DEF Recorded
  <1> QED  BY <1>1, <1>2 DEF GoesOn

\* A step that changes no outcome.
LEMMA GoesOnShrinks ==
    ASSUME Inv, NEW r \in Requests, req[r].at # "idle", GoesOn(r), book' = book,
           action'.tools = action.tools
    PROVE  Shrunk(r)
  BY GoesOnRecorded, SameShrinks DEF Shrunk, Recorded

LEMMA ReadsShrink ==
    ASSUME Inv, NEW r \in Requests,
           \/ ReadForApproval(r) \/ ReadVersion(r) \/ ReadForUndo(r) \/ ToolFails(r)
           \/ completeAgentValidation(r) \/ CheckVersion(r) \/ FinishRollback(r) \/ CutOff(r)
    PROVE  Shrunk(r)
  <1>1. action' = action /\ book' = book
    BY DEF ReadForApproval, ReadVersion, ReadForUndo, ToolFails, completeAgentValidation,
           CheckVersion, FinishRollback, CutOff, Disturbance
  <1>2. req[r].at # "idle"
    <2>1. CASE CutOff(r)
      BY <2>1, RequestFields DEF CutOff, Inv, Phases
    <2> QED  BY <2>1 DEF ReadForApproval, ReadVersion, ReadForUndo, ToolFails, completeAgentValidation,
               CheckVersion, FinishRollback
  <1>3. GoesOn(r) \/ ReadForApproval(r)
    BY DEF GoesOn, ReadVersion, ReadForUndo, Undone, ToolFails, completeAgentValidation, CheckVersion,
           FinishRollback, CutOff, Phases
  <1>4. CASE ReadForApproval(r)
    <2>1. CASE GoesOn(r)
      BY <1>1, <1>2, <2>1, GoesOnShrinks
    <2>2. CASE req' = [req EXCEPT ![r].at = "tools", ![r].tools = action.tools, ![r].operation = TRUE]
      <3>1. req'[r].tools = action.tools
        BY <1>2, <2>2, ToToolsIs
      <3> QED  BY <1>1, <3>1, SameShrinks DEF Shrunk, Recorded
    <2> QED  BY <1>4, <2>1, <2>2 DEF ReadForApproval, GoesOn, Phases
  <1> QED  BY <1>1, <1>2, <1>3, <1>4, GoesOnShrinks

LEMMA RowsShrink ==
    ASSUME Inv, RequestsAreSound, NEW r \in Requests,
           \/ Claim(r) \/ ApplyRefused(r) \/ completeApproval(r) \/ ClaimUndo(r)
           \/ UndoRefused(r) \/ completeUndo(r) \/ completeToolOnlyApproval(r) \/ CloseRun(r)
    PROVE  Shrunk(r)
  <1>1. book' = book /\ req[r].at # "idle"
    BY DEF Claim, ApplyRefused, completeApproval, ClaimUndo, UndoRefused, completeUndo,
           completeToolOnlyApproval, CloseRun
  <1>2. action'.tools = action.tools
    <2>1. CASE Claim(r)
      BY <2>1, ClaimedRowIs DEF Claim
    <2>2. CASE ApplyRefused(r) \/ UndoRefused(r)
      BY <2>2, MarkFailedIs DEF ApplyRefused, UndoRefused
    <2>3. CASE completeApproval(r)
      BY <2>3, AppliedRowIs DEF completeApproval
    <2>4. CASE ClaimUndo(r) \/ CloseRun(r)
      <3> PICK k : k = UndoKey(r)
        OBVIOUS
      <3> PICK n : n = action.revision + 1
        OBVIOUS
      <3>1. \/ action' = action
            \/ \E s : action' = [action EXCEPT !.status = s, !.revision = n, !.undoKey = k]
        BY <2>4 DEF ClaimUndo, CloseRun
      <3> QED  BY <3>1, UndoRowIs
    <2>5. CASE completeUndo(r) \/ completeToolOnlyApproval(r)
      BY <2>5, StatusIs DEF completeUndo, completeToolOnlyApproval
    <2> QED  BY <2>1, <2>2, <2>3, <2>4, <2>5
  <1>3. CASE GoesOn(r)
    BY <1>1, <1>2, <1>3, GoesOnShrinks
  <1>4. CASE req' = [req EXCEPT ![r].at = "tools", ![r].tools = action.tools, ![r].operation = TRUE]
    <2>1. req'[r].tools = action.tools
      BY <1>1, <1>4, ToToolsIs
    <2> QED  BY <1>1, <1>2, <2>1, SameShrinks DEF Shrunk, Recorded
  <1>5. GoesOn(r) \/ completeApproval(r)
    BY DEF GoesOn, Claim, ApplyRefused, ClaimUndo, UndoRefused, completeUndo, Undone,
           completeToolOnlyApproval, CloseRun, Phases
  <1> QED  BY <1>3, <1>4, <1>5 DEF completeApproval, GoesOn

\* The cells of the plan are no tool's.
CellsSet(c, kind, k, n, x) ==
    /\ kind \in {"approve", "undo"}
    /\ c = [book EXCEPT !.version = n, !.ops = book.ops \cup {<<kind, k>>}, !.cells = x]

LEMMA CellsShrink ==
    ASSUME Inv, NEW c, NEW kind, NEW k, NEW n, NEW x, CellsSet(c, kind, k, n, x)
    PROVE  /\ Shrinks(book, c)
           /\ c.version = n /\ c.ops = book.ops \cup {<<kind, k>>} /\ c.cells = x
  <1>1. /\ c.things = book.things /\ c.range = book.range /\ c.chart = book.chart
        /\ c.version = n /\ c.ops = book.ops \cup {<<kind, k>>} /\ c.cells = x
    BY BookFacts DEF Books, CellsSet
  <1>2. \A i : <<"sort", i>> \in c.ops <=> <<"sort", i>> \in book.ops
    BY <1>1 DEF CellsSet
  <1>3. \A i : <<"sort-undo", i>> \in c.ops <=> <<"sort-undo", i>> \in book.ops
    BY <1>1 DEF CellsSet
  <1> QED  BY <1>1, <1>2, <1>3 DEF Shrinks

LEMMA ApplyApprovedShrinks ==
    ASSUME Inv, RequestsAreSound, NEW r \in Requests, ApplyApproved(r)
    PROVE  Shrunk(r)
  <1> PICK k : k = req[r].key
    OBVIOUS
  <1> PICK n : n = book.version + 1
    OBVIOUS
  <1> PICK x : x = IF book.cells = "before" THEN "agent" ELSE book.cells
    OBVIOUS
  <1>1. req[r].at # "idle" /\ GoesOn(r)
    BY DEF ApplyApproved, GoesOn, Phases
  <1> PICK c : c = book'
    OBVIOUS
  <1> PICK kind : kind = "approve"
    OBVIOUS
  <1>2. \/ c = book
        \/ CellsSet(c, kind, k, n, x)
    BY DEF ApplyApproved, CellsSet
  <1>3. Shrinks(book, book')
    <2>1. CASE c = book
      BY <2>1, SameShrinks
    <2>2. CASE CellsSet(c, kind, k, n, x)
      BY <2>2, CellsShrink
    <2> QED  BY <1>2, <2>1, <2>2
  <1>4. action'.tools = action.tools
    BY MarkFailedIs DEF ApplyApproved
  <1> QED  BY <1>1, <1>3, <1>4, GoesOnRecorded DEF Shrunk, Recorded

LEMMA ApplyUndoShrinks ==
    ASSUME Inv, RequestsAreSound, NEW r \in Requests, ApplyUndo(r)
    PROVE  Shrunk(r)
  <1> PICK k : k = UndoKey(r)
    OBVIOUS
  <1> PICK n : n = book.version + 1
    OBVIOUS
  <1>1. req[r].at # "idle" /\ GoesOn(r)
    BY DEF ApplyUndo, GoesOn, Phases
  <1> PICK c : c = book'
    OBVIOUS
  <1> PICK kind : kind = "undo"
    OBVIOUS
  <1>2. \/ c = book
        \/ \E x : CellsSet(c, kind, k, n, x)
    <2>1. ASSUME NEW x, c = [book EXCEPT !.version = n, !.ops = book.ops \cup {<<"undo", k>>}, !.cells = x]
          PROVE  CellsSet(c, kind, k, n, x)
      BY <2>1 DEF CellsSet
    <2> QED  BY <2>1 DEF ApplyUndo
  <1>3. Shrinks(book, book')
    <2>1. CASE c = book
      BY <2>1, SameShrinks
    <2>2. ASSUME NEW x, CellsSet(c, kind, k, n, x)
          PROVE  Shrinks(book, c)
      BY <2>2, CellsShrink
    <2> QED  BY <1>2, <2>1, <2>2
  <1>4. action'.tools = action.tools
    BY MarkFailedIs DEF ApplyUndo
  <1> QED  BY <1>1, <1>3, <1>4, GoesOnRecorded DEF Shrunk, Recorded

LEMMA SaveToolCallsShrinks ==
    ASSUME Inv, NEW r \in Requests, SaveToolCalls(r)
    PROVE  Shrunk(r)
  <1> PICK phase : phase = IF plan.cells THEN "validate" ELSE "complete"
    OBVIOUS
  <1> PICK o : o = req[r].tools
    OBVIOUS
  <1>1. /\ req[r].at = "tools" /\ book' = book /\ Goes(r, phase) /\ phase \in Phases
        /\ action' = [action EXCEPT !.tools = o]
    BY DEF SaveToolCalls, Phases
  <1>2. action'.tools = o
    BY <1>1, SavedRowIs
  <1>3. req[r] # Idle
    BY <1>1 DEF Idle
  <1>4. Recorded(action'.tools)
    BY <1>2, <1>3 DEF Recorded
  <1>5. GoesOn(r) /\ req[r].at # "idle"
    BY <1>1 DEF GoesOn
  <1> QED  BY <1>1, <1>4, <1>5, GoesOnRecorded, SameShrinks DEF Shrunk

LEMMA ValidateExecutionShrinks ==
    ASSUME Inv, NEW r \in Requests, ValidateExecution(r)
    PROVE  Shrunk(r)
  <1> PICK v : v = book.version
    OBVIOUS
  <1>1. /\ req[r].at = "validate" /\ book' = book /\ action' = action
        /\ req' = [req EXCEPT ![r].at = "validated", ![r].version = v]
    BY DEF ValidateExecution
  <1>2. req \in [Requests -> {Idle} \cup RequestsTo(plan, book.ids, book.version, action.revision)]
    BY DEF Inv, Types, ReqOK
  <1>3. req[r] \in RequestsTo(plan, book.ids, book.version, action.revision) /\ req[r] # Idle
    BY <1>1, RequestFields DEF Inv
  <1>4. req'[r] = [req[r] EXCEPT !.at = "validated", !.version = v]
    BY <1>1, <1>2
  <1>5. req'[r].tools = req[r].tools
    BY <1>3, <1>4 DEF RequestsTo
  <1> QED  BY <1>1, <1>3, <1>5, SameShrinks DEF Shrunk, Recorded

LEMMA UndoesShrink ==
    ASSUME Inv, NEW r \in Requests, UndoToolFails(r) \/ ToolsUndone(r)
    PROVE  Shrunk(r)
  <1>1. req[r].at = "undoTools" /\ action' = action /\ book' = book
    BY DEF UndoToolFails, ToolsUndone
  <1>2. CASE GoesOn(r)
    BY <1>1, <1>2, GoesOnShrinks
  <1>3. CASE UndoCells(r)
    <2>1. req'[r].tools = req[r].tools /\ req[r] # Idle
      BY <1>1, <1>3, UndoCellsIs, RequestFields DEF Inv
    <2> QED  BY <1>1, <2>1, SameShrinks DEF Shrunk, Recorded
  <1> QED  BY <1>2, <1>3 DEF UndoToolFails, ToolsUndone, GoesOn, Phases

LEMMA UndoToolShrinks ==
    ASSUME Inv, RecordsAreSound, NEW r \in Requests, UndoTool(r)
    PROVE  Shrunk(r)
  <1>1. PICK i \in DOMAIN plan.tools :
          /\ req[r].tools[i].done /\ req[r].at = "undoTools" /\ book' \in UndoneTool(i, req[r].tools[i])
          /\ req'[r].tools = [req[r].tools EXCEPT ![i] = Pending] /\ action' = action
    BY UndoToolIs
  <1> PICK o : o = req[r].tools[i]
    OBVIOUS
  <1>2. req[r] # Idle
    BY <1>1 DEF Idle
  <1>3. o.done /\ OutcomeOK(i, o, book, plan, unusual)
    BY <1>1, <1>2 DEF RecordsAreSound, RecordOK
  <1>4. Shrinks(book, book')
    BY <1>1, <1>3, UndoneShrinks
  <1> QED  BY <1>1, <1>2, <1>4 DEF Shrunk, Recorded

LEMMA StepShrinks ==
    ASSUME Inv, RequestsAreSound, RecordsAreSound, NEW r \in Requests, Step(r) \/ CutOff(r)
    PROVE  RunTool(r) \/ Shrunk(r)
  BY ReadsShrink, RowsShrink, ApplyApprovedShrinks, ApplyUndoShrinks, SaveToolCallsShrinks,
     ValidateExecutionShrinks, UndoesShrink, UndoToolShrinks
  DEF Step

\* The writes of others take from it only.
LEMMA OthersShrink ==
    ASSUME Inv, OthersWrite \/ OthersEdit \/ OthersRestructure
    PROVE  Shrinks(book, book') /\ (book'.cells = "agent" => book.cells = "agent")
           /\ book'.ops = book.ops /\ book'.version = book.version + 1
  <1> PICK n : n = book.version + 1
    OBVIOUS
  <1>1. CASE OthersWrite
    <2>1. book' \in { [book EXCEPT !.version = n, !.cells = "other"],
                      [book EXCEPT !.version = n, !.range = "theirs"],
                      [book EXCEPT !.version = n] }
      BY <1>1 DEF OthersWrite
    <2>2. /\ book'.things = book.things /\ book'.chart = book.chart /\ book'.ops = book.ops
          /\ book'.version = n
          /\ book'.range = book.range \/ book'.range = "theirs"
          /\ book'.cells = book.cells \/ book'.cells = "other"
      BY <2>1, BookFacts DEF Books
    <2> QED  BY <2>2 DEF Shrinks
  <1>2. CASE OthersEdit
    <2>1. ASSUME NEW t \in book.things, NEW m,
                 \/ book' = [book EXCEPT !.version = n, !.things = (book.things \ {t}) \cup {[t EXCEPT !.rev = m]}]
                 \/ book' = [book EXCEPT !.version = n, !.things = book.things \ {t}]
          PROVE  /\ Shrinks(book, book') /\ book'.cells = book.cells /\ book'.ops = book.ops
                 /\ book'.version = n
      <3> PICK u : u = [t EXCEPT !.rev = m]
        OBVIOUS
      <3>1. u.tool = t.tool /\ u.id = t.id
        BY BookFacts DEF Things
      <3>2. /\ book'.range = book.range /\ book'.chart = book.chart /\ book'.ops = book.ops
            /\ book'.version = n /\ book'.cells = book.cells
            /\ book'.things \subseteq book.things \cup {u}
        <4>1. CASE book' = [book EXCEPT !.version = n, !.things = book.things \ {t}]
          BY <4>1, BookFacts DEF Books
        <4> PICK more : more = (book.things \ {t}) \cup {u}
          OBVIOUS
        <4>2. CASE book' = [book EXCEPT !.version = n, !.things = more]
          <5>1. /\ book'.range = book.range /\ book'.chart = book.chart /\ book'.ops = book.ops
                /\ book'.version = n /\ book'.cells = book.cells /\ book'.things = more
            BY <4>2, BookFacts DEF Books
          <5> QED  BY <5>1
        <4> QED  BY <2>1, <4>1, <4>2
      <3> QED  BY <3>1, <3>2 DEF Shrinks
    <2>2. ASSUME book' = [book EXCEPT !.version = n,
                                     !.chart = [rev |-> book.chart.rev + 1, by |-> "other"]]
          PROVE  /\ Shrinks(book, book') /\ book'.cells = book.cells /\ book'.ops = book.ops
                 /\ book'.version = n
      <3>1. /\ book'.range = book.range /\ book'.things = book.things /\ book'.ops = book.ops
            /\ book'.version = n /\ book'.cells = book.cells
            /\ book'.chart.rev = book.chart.rev + 1 /\ book'.chart.by = "other"
        BY <2>2, BookFacts DEF Books
      <3> QED  BY <3>1, BookFacts DEF Shrinks
    <2>3. CASE book' = [book EXCEPT !.version = n,
                                    !.chart = [rev |-> book.chart.rev + 1, by |-> "other"]]
      BY <2>2, <2>3
    <2>4. CASE ~(book' = [book EXCEPT !.version = n,
                                      !.chart = [rev |-> book.chart.rev + 1, by |-> "other"]])
      <3>1. book' = [book EXCEPT !.version = @ + 1, !.chart = [rev |-> @.rev + 1, by |-> "other"]]
            => book' = [book EXCEPT !.version = n, !.chart = [rev |-> book.chart.rev + 1, by |-> "other"]]
        BY BookFacts DEF Books
      <3>2. PICK t \in book.things :
              book' \in { [book EXCEPT !.version = @ + 1, !.things = (@ \ {t}) \cup {[t EXCEPT !.rev = @ + 1]}],
                          [book EXCEPT !.version = @ + 1, !.things = @ \ {t}] }
        BY <1>2, <2>4, <3>1 DEF OthersEdit
      <3> PICK m : m = t.rev + 1
        OBVIOUS
      <3>3. \/ book' = [book EXCEPT !.version = n, !.things = (book.things \ {t}) \cup {[t EXCEPT !.rev = m]}]
            \/ book' = [book EXCEPT !.version = n, !.things = book.things \ {t}]
        BY <3>2
      <3> QED  BY <2>1, <3>3
    <2> QED  BY <2>3, <2>4
  <1>3. CASE OthersRestructure
    <2>1. book' \in { [book EXCEPT !.version = n, !.cells = "displaced"],
                      [book EXCEPT !.version = n, !.range = "displaced"] }
      BY <1>3 DEF OthersRestructure
    <2>2. /\ book'.things = book.things /\ book'.chart = book.chart /\ book'.ops = book.ops
          /\ book'.version = n
          /\ book'.range = book.range \/ book'.range = "displaced"
          /\ book'.cells = book.cells \/ book'.cells = "displaced"
      BY <2>1, BookFacts DEF Books
    <2> QED  BY <2>2 DEF Shrinks
  <1> QED  BY <1>1, <1>2, <1>3

-----------------------------------------------------------------------------
(***************************************************************************)
(* The run of a tool                                                       *)
(***************************************************************************)

LEMMA RunToolIs ==
    ASSUME Inv, NEW r \in Requests, RunTool(r)
    PROVE  \E i \in DOMAIN plan.tools, o \in OutcomesTo(book'.ids) :
              /\ req[r].at = "tools" /\ ~req[r].tools[i].done
              /\ o.done
              /\ MadeAnew(i, book', o) \/ Found(i, book', o) \/ Sorted(i, book', o) \/ Updated(i, book', o)
              /\ Successor(book') /\ book'.cells = book.cells /\ Only(r)
              /\ req'[r].at = req[r].at /\ req'[r].kind = req[r].kind /\ req'[r].key = req[r].key
              /\ req'[r].tools = [req[r].tools EXCEPT ![i] = o]
              /\ plan' = plan /\ action' = action /\ unusual' = unusual
  <1> PICK i : i = Min(Open(r))
    OBVIOUS
  <1> PICK o : o = RanTool(i).outcome
    OBVIOUS
  <1> PICK b : b = book'
    OBVIOUS
  <1>1. /\ req[r].at = "tools" /\ Open(r) # {}
        /\ b = RanTool(i).book /\ req' = [req EXCEPT ![r].tools[i] = o]
        /\ plan' = plan /\ action' = action /\ unusual' = unusual
    BY DEF RunTool
  <1>2. Open(r) \in SUBSET DOMAIN plan.tools
    BY DEF Open
  <1>3. i \in Open(r)
    BY <1>1, <1>2, MinIsIn DEF Inv, Types
  <1>4. i \in DOMAIN plan.tools /\ ~req[r].tools[i].done
    BY <1>3 DEF Open
  <1>5. Successor(b) /\ o \in OutcomesTo(b.ids)
    BY <1>1, <1>4, RanToolFacts
  <1>6. b.cells = book.cells
    BY <1>1, <1>4, ToolsKeepCells
  <1>7. /\ o.done
        /\ MadeAnew(i, b, o) \/ Found(i, b, o) \/ Sorted(i, b, o) \/ Updated(i, b, o)
    BY <1>1, <1>4, RanToolIs
  <1>8. /\ req'[r].at = req[r].at /\ req'[r].kind = req[r].kind /\ req'[r].key = req[r].key
        /\ req'[r].tools = [req[r].tools EXCEPT ![i] = o] /\ Only(r)
    <2>1. req[r].at # "idle" /\ Stores(r, i, o)
      BY <1>1 DEF Stores
    <2>2. /\ req'[r].at = req[r].at /\ req'[r].kind = req[r].kind /\ req'[r].key = req[r].key
          /\ req'[r].tools = Noted(req[r].tools, i, o) /\ Only(r)
      BY <2>1, WhatIsStored
    <2> QED  BY <2>2 DEF Noted
  <1> QED  BY <1>1, <1>4, <1>5, <1>6, <1>7, <1>8

LEMMA RunToolKeepsRecords ==
    ASSUME Known, NEW r \in Requests, RunTool(r)
    PROVE  /\ RecordsAreSound'
           /\ Normal => Names(req'[r].tools, book', plan)
  <1> USE DEF Known
  <1> PICK b : b = book'
    OBVIOUS
  <1>1. PICK i \in DOMAIN plan.tools, o \in OutcomesTo(b.ids) :
              /\ req[r].at = "tools" /\ ~req[r].tools[i].done
              /\ o.done
              /\ MadeAnew(i, b, o) \/ Found(i, b, o) \/ Sorted(i, b, o) \/ Updated(i, b, o)
              /\ req'[r].tools = [req[r].tools EXCEPT ![i] = o] /\ Only(r)
              /\ plan' = plan /\ action' = action /\ unusual' = unusual
    BY RunToolIs
  <1>2. req[r] # Idle /\ req[r].tools \in RecordsTo(plan, book.ids)
    BY <1>1, RequestFields DEF Inv
  <1>3. ToolHolder(r)
    BY <1>1, UnderWay DEF PhaseOK, ToolHolder
  <1>4. BookOK(book, plan)
    BY DEF RecordsAreSound
  <1>5. Normal => ~Found(i, b, o) /\ Names([req[r].tools EXCEPT ![i] = o], b, plan)
    <2> SUFFICES ASSUME Normal PROVE ~Found(i, b, o) /\ Names([req[r].tools EXCEPT ![i] = o], b, plan)
      OBVIOUS
    <2>1. Names(req[r].tools, book, plan)
      BY <1>3 DEF NormalInv, HolderKnows
    <2> QED  BY <1>1, <1>2, <1>4, <2>1, RanIsNamed
  <1>6. BookOK(b, plan)
    BY <1>1, <1>4, RanKeepsBook
  <1>7. ASSUME NEW tools \in RecordsTo(plan, book.ids), RecordOK(tools, book, plan, unusual)
        PROVE  RecordOK(tools, b, plan, unusual)
    <2> SUFFICES ASSUME NEW j \in DOMAIN plan.tools PROVE OutcomeOK(j, tools[j], b, plan, unusual)
      BY DEF RecordOK
    <2> PICK q : q = tools[j]
      OBVIOUS
    <2>1. q \in OutcomesTo(book.ids)
      BY DEF RecordsTo
    <2>2. OutcomeOK(j, q, book, plan, unusual)
      BY <1>7 DEF RecordOK
    <2> QED  BY <1>1, <2>1, <2>2, RanKeepsOutcome
  <1>8. RecordOK(action.tools, b, plan, unusual)
    BY <1>7 DEF RecordsAreSound, Inv, Types, ActionsTo
  <1>9. ASSUME NEW s \in Requests, req'[s] # Idle
        PROVE  RecordOK(req'[s].tools, b, plan, unusual)
    <2>1. CASE s = r
      <3>1. RecordOK(req[r].tools, b, plan, unusual)
        BY <1>2, <1>7 DEF RecordsAreSound
      <3>2. OutcomeOK(i, o, b, plan, unusual)
        BY <1>1, <1>4, <1>5, RanOutcome
      <3>3. \A j \in DOMAIN plan.tools : req'[r].tools[j] = IF j = i THEN o ELSE req[r].tools[j]
        BY <1>1, <1>2 DEF RecordsTo
      <3> QED  BY <2>1, <3>1, <3>2, <3>3 DEF RecordOK
    <2>2. CASE s # r
      <3>1. req'[s] = req[s]
        BY <1>1, <2>2 DEF Only
      <3>2. req[s].tools \in RecordsTo(plan, book.ids) /\ RecordOK(req[s].tools, book, plan, unusual)
        BY <1>9, <3>1, RequestFields DEF RecordsAreSound, Inv
      <3> QED  BY <1>7, <3>1, <3>2
    <2> QED  BY <2>1, <2>2
  <1>10. RecordsAreSound'
    BY <1>1, <1>6, <1>8, <1>9 DEF RecordsAreSound
  <1> QED  BY <1>1, <1>5, <1>10

\* The request that runs a tool is the one holder, and goes on being it.
LEMMA RunToolHolder ==
    ASSUME Known, NEW r \in Requests, RunTool(r)
    PROVE  /\ Holds(r) /\ ToolHolder(r) /\ ToolHolder(r)' /\ Holds(r)'
           /\ req[r] # Idle /\ req'[r].at = "tools" /\ req'[r].kind = "approve" /\ Only(r)
           /\ plan' = plan /\ action' = action /\ unusual' = unusual /\ book'.cells = book.cells
           /\ DOMAIN plan.tools # {} /\ (plan.cells => Done(action))
           /\ Normal => \A s \in Requests : Holds(s) \/ Holds(s)' => s = r
  <1> USE DEF Known
  <1>1. /\ req[r].at = "tools" /\ req'[r].at = "tools" /\ req'[r].kind = req[r].kind /\ Only(r)
        /\ plan' = plan /\ action' = action /\ unusual' = unusual /\ book'.cells = book.cells
        /\ DOMAIN plan.tools # {}
    BY RunToolIs
  <1>2. req[r] # Idle /\ req[r].kind = "approve" /\ (plan.cells => Done(action))
    BY <1>1, UnderWay DEF PhaseOK
  <1>3. ToolHolder(r) /\ ToolHolder(r)'
    BY <1>1, <1>2 DEF ToolHolder
  <1>4. Holds(r) /\ Holds(r)'
    BY <1>1, <1>2 DEF Holds, Held, Approvals
  <1>5. ASSUME Normal, NEW s \in Requests, Holds(s) \/ Holds(s)'
        PROVE  s = r
    <2>1. s # r => req'[s] = req[s]
      BY <1>1 DEF Only
    <2>2. s # r => Holds(s)
      BY <1>5, <2>1 DEF Holds
    <2> QED  BY <1>4, <1>5, <2>2, OneHolder DEF NormalInv
  <1> QED  BY <1>1, <1>2, <1>3, <1>4, <1>5

LEMMA RunToolKeepsNormal ==
    ASSUME Known, RequestsAreSound', NEW r \in Requests, RunTool(r), Normal
    PROVE  NormalInv'
  <1> USE DEF Known, NormalInv
  <1>1. Turn(r)
    BY EveryStepTurns DEF Step
  <1>2. ApprovalsDiffer' /\ LateApprovalsFail'
    BY <1>1, TurnKeepsDifferent, TurnKeepsLateApprovals
  <1>3. /\ ToolHolder(r)' /\ Holds(r)' /\ req'[r].at = "tools"
        /\ plan' = plan /\ action' = action /\ (plan.cells => Done(action))
        /\ \A s \in Requests : Holds(s)' => s = r
    BY RunToolHolder
  <1>4. action.status = "applying" => ~plan.cells
    BY <1>3 DEF Done
  <1>5. ClaimIsClean' /\ ClaimIsHeld'
    BY <1>3, <1>4 DEF ClaimIsClean, ClaimIsHeld
  <1>6. HolderKnows'
    <2> SUFFICES ASSUME NEW s \in Requests, ToolHolder(s)'
                 PROVE  Names(req'[s].tools, book', plan')
      BY DEF HolderKnows
    <2>1. Holds(s)'
      BY DEF ToolHolder, Holds, Held, Approvals
    <2> QED  BY <1>3, <2>1, RunToolKeepsRecords
  <1>7. SavedKnows'
    <2> SUFFICES ASSUME NEW s \in Requests, SavedHolder(s)'
                 PROVE  FALSE
      BY DEF SavedKnows
    <2>1. req'[s] # Idle
      BY DEF SavedHolder, Idle
    <2>2. PhaseOK(req'[s], action', plan')
      BY <2>1 DEF RequestsAreSound
    <2>3. Holds(s)'
      BY <2>2 DEF PhaseOK, SavedHolder, Holds, Held, Approvals
    <2> QED  BY <1>3, <2>3 DEF SavedHolder
  <1>8. RowKnows'
    BY <1>3 DEF RowKnows
  <1> QED  BY <1>2, <1>5, <1>6, <1>7, <1>8

LEMMA RunToolKeepsUsual ==
    ASSUME Known, RequestsAreSound', NEW r \in Requests, RunTool(r), Usual
    PROVE  UsualInv'
  <1> USE DEF Known, NormalInv, UsualInv
  <1>0. Normal
    BY UsualIsNormal
  <1>1. Turn(r)
    BY EveryStepTurns DEF Step
  <1>2. /\ Holds(r) /\ Holds(r)' /\ req[r] # Idle /\ req'[r].at = "tools" /\ req'[r].kind = "approve" /\ Only(r)
        /\ plan' = plan /\ action' = action /\ book'.cells = book.cells
        /\ DOMAIN plan.tools # {}
        /\ \A s \in Requests : Holds(s)' => s = r
    BY <1>0, RunToolHolder
  <1>3. req[r].at = "tools" /\ ~Over(action)
    BY <1>2 DEF RunTool, HolderIsAlone, HolderOK
  <1>4. HolderOK(req'[r], action)
    BY <1>2, <1>3 DEF HolderOK
  <1>5. UsualTurn(r)
    BY <1>2, <1>3, <1>4 DEF UsualTurn, UndoPhases, Over
  <1>6. UndoWaits' /\ HolderIsAlone' /\ UndoIsHeld'
    BY <1>0, <1>1, <1>5, TurnKeepsUndoWaits, TurnKeepsHolderAlone, TurnKeepsUndoHeld
  <1>7. ASSUME NEW s \in Requests, req'[s] # Idle
        PROVE  ~(req'[s].kind = "rollback") /\ ~(req'[s].kind = "undoCells")
    <2>1. PhaseOK(req'[s], action', plan')
      BY <1>7 DEF RequestsAreSound
    <2>2. req'[s].kind # "rollback"
      BY <1>2, <1>6, <1>7, <2>1 DEF PhaseOK, UndoWaits
    <2>3. req'[s].kind # "undoCells"
      BY <1>2, <1>6, <1>7 DEF UndoWaits
    <2> QED  BY <2>2, <2>3
  <1>8. RollbackKnows'
    <2> SUFFICES ASSUME NEW s \in Requests, req'[s].at \in {"check", "undoTools"}, req'[s].kind = "rollback"
                 PROVE  FALSE
      BY DEF RollbackKnows
    <2> QED  BY <1>7 DEF Idle
  <1>9. UndoIsClean'
    <2> SUFFICES ASSUME NEW s \in Requests, req'[s].at \in UndoPhases \cup {"close"}
                 PROVE  FALSE
      BY DEF UndoIsClean
    <2>1. req'[s] # Idle /\ req'[s].at # "tools"
      BY DEF UndoPhases, Idle
    <2>2. PhaseOK(req'[s], action', plan')
      BY <2>1 DEF RequestsAreSound
    <2>3. req'[s].kind \in RequestKinds
      BY <1>2, <2>1, RequestFields DEF Only, Inv
    <2>4. Holds(s)'
      BY <1>7, <2>1, <2>2, <2>3 DEF PhaseOK, Holds, Held, Approvals, RequestKinds
    <2> QED  BY <1>2, <2>1, <2>4
  <1>10. EndIsClean'
    BY <1>2, <1>3 DEF EndIsClean, Over
  <1> QED  BY <1>6, <1>8, <1>9, <1>10

\* The other steps of a request.
LEMMA RequestKnows ==
    ASSUME Known, NEW r \in Requests, Step(r) \/ CutOff(r), ~RunTool(r)
    PROVE  (Normal' => NormalTurn(r)) /\ (Usual' => UsualTurn(r))
  <1>1. (Normal' => Normal) /\ (Usual' => Usual)
    BY EveryStepTurns DEF Known, Turn, Normal, Usual
  <1>2. CASE CutOff(r)
    BY <1>2 DEF CutOff, Normal, Usual
  <1>3. CASE UndoToolFails(r)
    BY <1>3, UndoToolFailsKnows
  <1>4. CASE Step(r) /\ ~UndoToolFails(r)
    <2>1. (Normal => NormalTurn(r)) /\ (Usual => UsualTurn(r))
      BY <1>4, ReadForApprovalKnows, ReadVersionKnows, ClaimKnows, ApplyApprovedKnows, completeApprovalKnows,
         ReadForUndoKnows, ClaimUndoKnows, ApplyUndoKnows, UndoRefusedKnows, completeUndoKnows, ToolFailsKnows,
         SaveToolCallsKnows, completeToolOnlyApprovalKnows, ValidateExecutionKnows, EndsKnow,
         CheckVersionKnows, UndoToolKnows, ToolsUndoneKnows, CloseRunKnows
      DEF Step
    <2> QED  BY <1>1, <2>1
  <1> QED  BY <1>2, <1>3, <1>4

-----------------------------------------------------------------------------
(***************************************************************************)
(* The cells of the plan                                                   *)
(***************************************************************************)

\* The cells of the plan are not written anew, and keys are not forgotten.
Cautious(b, c) ==
    /\ c.cells = "agent" => b.cells = "agent"
    /\ b.ops \subseteq c.ops
    /\ \A k : <<"undo", k>> \in c.ops =>
         <<"undo", k>> \in b.ops \/ (c.cells # "agent" /\ c.version # BaseVersion)
    /\ c.version = b.version \/ b.version < c.version

LEMMA SameIsCautious ==
    ASSUME NEW b, NEW c, c = b
    PROVE  Cautious(b, c)
  BY DEF Cautious

LEMMA CautionKeepsCells ==
    ASSUME Inv, Inv', CellsAreSound, plan' = plan, Onward(action, action'), Cautious(book, book'),
           \A s \in Requests : req'[s].at = "undoRecord" => <<"undo", UndoKey(s)'>> \in book'.ops
    PROVE  CellsAreSound'
  <1>1. book.cells = "agent" => Claimed(action)
    BY DEF Inv, NothingWithoutApproval, Left, ToolsLeft, Claimed
  <1>2. book'.cells = "agent" => plan.cells /\ <<"approve", action'.key>> \in book'.ops
    BY <1>1 DEF CellsAreSound, Onward, Cautious
  <1>3. book.version \in Nat \ {0} /\ book'.version \in Nat
    BY DEF Inv, Types, Books
  <1>4. ASSUME NEW k \in UndoKeys, <<"undo", k>> \in book'.ops
        PROVE  book'.cells # "agent" /\ book'.version # BaseVersion
    <2>1. CASE <<"undo", k>> \in book.ops
      <3>1. book.cells # "agent" /\ book.version # BaseVersion
        BY <2>1 DEF CellsAreSound
      <3> QED  BY <1>3, <3>1 DEF Cautious, BaseVersion
    <2>2. CASE <<"undo", k>> \notin book.ops
      BY <1>4, <2>2 DEF Cautious
    <2> QED  BY <2>1, <2>2
  <1> QED  BY <1>2, <1>4 DEF CellsAreSound

\* Only UndoOperation comes before the undo is recorded.
LEMMA RecordsAfterUndo ==
    ASSUME Inv, NEW r \in Requests, Step(r) \/ CutOff(r), req'[r].at = "undoRecord"
    PROVE  ApplyUndo(r)
  <1> SUFFICES ASSUME ~ApplyUndo(r) PROVE FALSE
    OBVIOUS
  <1>1. ~Leaves(r) /\ ~Fails(r)
    BY LeavesIs DEF Fails
  <1>2. ASSUME NEW phase \in Phases \ {"undoRecord"}, req[r].at # "idle", Goes(r, phase) PROVE FALSE
    BY <1>2, GoesIs
  <1>3. CASE ReadForApproval(r) \/ completeApproval(r)
    <2>1. req[r].at # "idle"
      BY <1>3 DEF ReadForApproval, completeApproval
    <2>2. req' # [req EXCEPT ![r].at = "tools", ![r].tools = action.tools, ![r].operation = TRUE]
      BY <2>1, ToToolsIs
    <2> QED  BY <1>1, <1>2, <1>3, <2>1, <2>2 DEF ReadForApproval, completeApproval, Phases
  <1>4. CASE ReadVersion(r) \/ Claim(r) \/ ApplyApproved(r) \/ ApplyRefused(r)
    BY <1>1, <1>2, <1>4 DEF ReadVersion, Claim, ApplyApproved, ApplyRefused, Phases
  <1>5. CASE ReadForUndo(r) \/ ClaimUndo(r) \/ UndoRefused(r) \/ completeUndo(r)
    BY <1>1, <1>2, <1>5 DEF ReadForUndo, ClaimUndo, UndoRefused, completeUndo, Undone, Phases
  <1>6. CASE RunTool(r) \/ UndoTool(r)
    BY <1>6, RunToolIs, UndoToolIs
  <1>7. CASE ToolFails(r) \/ SaveToolCalls(r) \/ completeToolOnlyApproval(r)
    BY <1>1, <1>2, <1>7 DEF ToolFails, SaveToolCalls, completeToolOnlyApproval, Phases
  <1>8. CASE ValidateExecution(r)
    <2>1. req \in [Requests -> {Idle} \cup RequestsTo(plan, book.ids, book.version, action.revision)]
      BY DEF Inv, Types, ReqOK
    <2>2. req[r] \in RequestsTo(plan, book.ids, book.version, action.revision)
      BY <1>8, RequestFields DEF Inv, ValidateExecution
    <2> PICK v : v = book.version
      OBVIOUS
    <2>3. req' = [req EXCEPT ![r].at = "validated", ![r].version = v]
      BY <1>8 DEF ValidateExecution
    <2>4. req'[r] = [req[r] EXCEPT !.at = "validated", !.version = v]
      BY <2>1, <2>3
    <2> QED  BY <2>2, <2>4 DEF RequestsTo
  <1>9. CASE completeAgentValidation(r) \/ CheckVersion(r) \/ CloseRun(r) \/ FinishRollback(r) \/ CutOff(r)
    BY <1>1, <1>2, <1>9 DEF completeAgentValidation, CheckVersion, CloseRun, FinishRollback, CutOff, Phases
  <1>10. CASE UndoToolFails(r) \/ ToolsUndone(r)
    <2>1. req[r].at # "idle"
      BY <1>10 DEF UndoToolFails, ToolsUndone
    <2>2. ~UndoCells(r)
      BY <2>1, UndoCellsIs
    <2> QED  BY <1>1, <1>2, <1>10, <2>1, <2>2 DEF UndoToolFails, ToolsUndone, Phases
  <1> QED  BY <1>3, <1>4, <1>5, <1>6, <1>7, <1>8, <1>9, <1>10 DEF Step

LEMMA ToolsAreCautious ==
    ASSUME Inv, NEW r \in Requests, RunTool(r) \/ UndoTool(r)
    PROVE  Cautious(book, book')
  <1> PICK b : b = book'
    OBVIOUS
  <1>1. CASE RunTool(r)
    <2>1. PICK i, o :
            /\ MadeAnew(i, b, o) \/ Found(i, b, o) \/ Sorted(i, b, o) \/ Updated(i, b, o)
            /\ Successor(b) /\ b.cells = book.cells
      BY <1>1, RunToolIs
    <2>2. b.ops = book.ops \/ b.ops = book.ops \cup {<<"sort", i>>}
      BY <2>1 DEF MadeAnew, Found, Sorted, Updated
    <2> QED  BY <2>1, <2>2 DEF Cautious, Successor
  <1>2. CASE UndoTool(r)
    <2>0. PICK i \in DOMAIN plan.tools : b \in UndoneTool(i, req[r].tools[i])
      BY <1>2, UndoToolIs
    <2> PICK o : o = req[r].tools[i]
      OBVIOUS
    <2>1. b \in UndoneTool(i, o)
      BY <2>0
    <2>2. Successor(b) /\ b.cells = book.cells
      BY <2>1, UndoneToolFacts, ToolsKeepCells
    <2>3. b.ops = book.ops \/ b.ops = book.ops \cup {<<"sort-undo", i>>}
      <3>1. CASE b = DeleteThing(o)
        BY <3>1, DeletedIs
      <3>2. CASE b \in UnsortRange(i)
        BY <3>2, UnsortedIs
      <3>3. CASE b = RestoreChart
        BY <3>3, RestoredIs
      <3> QED  BY <2>1, <3>1, <3>2, <3>3, ToolKind DEF UndoneTool
    <2> QED  BY <2>2, <2>3 DEF Cautious, Successor
  <1> QED  BY <1>1, <1>2

LEMMA ApplyUndoIsCautious ==
    ASSUME Inv, NEW r \in Requests, ApplyUndo(r)
    PROVE  /\ Cautious(book, book')
           /\ req'[r].at = "undoRecord" => <<"undo", UndoKey(r)'>> \in book'.ops
  <1> PICK k : k = UndoKey(r)
    OBVIOUS
  <1> PICK n : n = book.version + 1
    OBVIOUS
  <1> PICK c : c = book'
    OBVIOUS
  <1> PICK kind : kind = "undo"
    OBVIOUS
  <1>1. \/ <<"undo", k>> \in book.ops /\ Goes(r, "undoRecord") /\ c = book
        \/ Goes(r, "undoRecord") /\ \E x : x # "agent" /\ CellsSet(c, kind, k, n, x)
        \/ Leaves(r) /\ c = book
    <2>1. ASSUME NEW x \in PutBack(book.cells, "agent", "before"),
                 c = [book EXCEPT !.version = n, !.ops = book.ops \cup {<<"undo", k>>}, !.cells = x]
          PROVE  x # "agent" /\ CellsSet(c, kind, k, n, x)
      BY <2>1, PutBackCells DEF CellsSet
    <2> QED  BY <2>1 DEF ApplyUndo, Fails
  <1>2. ASSUME Goes(r, "undoRecord") PROVE UndoKey(r)' = k
    <2>1. req'[r].kind = req[r].kind /\ req'[r].key = req[r].key
      BY <1>2, GoesIs DEF ApplyUndo, Phases
    <2> QED  BY <2>1 DEF UndoKey
  <1>3. ASSUME NEW x, x # "agent", CellsSet(c, kind, k, n, x), Goes(r, "undoRecord")
        PROVE  /\ Cautious(book, c)
               /\ <<"undo", UndoKey(r)'>> \in c.ops
    <2>1. c.version = n /\ c.ops = book.ops \cup {<<kind, k>>} /\ c.cells = x
      BY <1>3, CellsShrink
    <2>2. n # BaseVersion /\ book.version < n
      BY BookFacts DEF BaseVersion, Books
    <2>3. Cautious(book, c)
      BY <1>3, <2>1, <2>2 DEF Cautious
    <2> QED  BY <1>2, <1>3, <2>1, <2>3
  <1>4. CASE <<"undo", k>> \in book.ops /\ Goes(r, "undoRecord") /\ c = book
    BY <1>2, <1>4, SameIsCautious
  <1>5. CASE Leaves(r) /\ c = book
    BY <1>5, LeavesIs, SameIsCautious
  <1> QED  BY <1>1, <1>3, <1>4, <1>5

\* An approval writes the cells at the version of the plan: before any undo.
LEMMA ApplyApprovedKeepsCells ==
    ASSUME Inv, Inv', RequestsAreSound, CellsAreSound, NEW r \in Requests, ApplyApproved(r), book' # book
    PROVE  CellsAreSound'
  <1> PICK k : k = req[r].key
    OBVIOUS
  <1> PICK n : n = book.version + 1
    OBVIOUS
  <1> PICK x : x = IF book.cells = "before" THEN "agent" ELSE book.cells
    OBVIOUS
  <1> PICK c : c = book'
    OBVIOUS
  <1> PICK kind : kind = "approve"
    OBVIOUS
  <1>1. /\ req[r].at = "apply" /\ book.version = BaseVersion /\ CellsSet(c, kind, k, n, x)
        /\ Goes(r, "record") /\ action' = action /\ plan' = plan
    BY DEF ApplyApproved, CellsSet
  <1>2. c.ops = book.ops \cup {<<kind, k>>}
    BY <1>1, CellsShrink
  <1>3. plan.cells /\ action.key = k
    BY <1>1, UnderWay DEF PhaseOK, Held
  <1>4. \A u \in UndoKeys : <<"undo", u>> \notin c.ops
    BY <1>1, <1>2 DEF CellsAreSound
  <1>5. ASSUME NEW s \in Requests PROVE req'[s].at # "undoRecord"
    <2>1. CASE s = r
      BY <1>1, <2>1, GoesIs DEF Phases
    <2>2. CASE s # r
      <3>1. req'[s] = req[s]
        BY <1>1, <2>2, GoesIs DEF Only, Phases
      <3>2. req[s].at = "undoRecord" => UndoKey(s) \in UndoKeys /\ <<"undo", UndoKey(s)>> \in c.ops
        BY <1>2, RequestFields DEF CellsAreSound, Inv
      <3> QED  BY <1>4, <3>1, <3>2
    <2> QED  BY <2>1, <2>2
  <1> QED  BY <1>1, <1>2, <1>3, <1>4, <1>5 DEF CellsAreSound

LEMMA StepKeepsCells ==
    ASSUME Known, Inv', NEW r \in Requests, Step(r) \/ CutOff(r)
    PROVE  CellsAreSound'
  <1> USE DEF Known
  <1>1. Turn(r)
    BY EveryStepTurns
  <1>2. plan' = plan /\ Onward(action, action') /\ Only(r)
    BY <1>1 DEF Turn
  <1>3. CASE ApplyApproved(r) /\ book' # book
    BY <1>3, ApplyApprovedKeepsCells
  <1>4. CASE ~(ApplyApproved(r) /\ book' # book)
    <2>1. Cautious(book, book')
      <3>1. CASE book' = book
        BY <3>1, SameIsCautious
      <3>2. CASE RunTool(r) \/ UndoTool(r)
        BY <3>2, ToolsAreCautious
      <3>3. CASE ApplyUndo(r)
        BY <3>3, ApplyUndoIsCautious
      <3> QED
        BY <1>4, <3>1, <3>2, <3>3
        DEF Step, CutOff, ReadForApproval, ReadVersion, Claim, ApplyRefused, completeApproval, ReadForUndo,
            ClaimUndo, UndoRefused, completeUndo, ToolFails, SaveToolCalls, completeToolOnlyApproval,
            ValidateExecution, completeAgentValidation, CheckVersion, UndoToolFails, ToolsUndone,
            CloseRun, FinishRollback
    <2>2. ASSUME NEW s \in Requests, req'[s].at = "undoRecord"
          PROVE  <<"undo", UndoKey(s)'>> \in book'.ops
      <3>1. CASE s = r
        BY <2>2, <3>1, RecordsAfterUndo, ApplyUndoIsCautious
      <3>2. CASE s # r
        <4>1. req'[s] = req[s]
          BY <1>2, <3>2 DEF Only
        <4>2. UndoKey(s)' = UndoKey(s)
          BY <4>1 DEF UndoKey
        <4>3. <<"undo", UndoKey(s)>> \in book.ops
          BY <2>2, <4>1 DEF CellsAreSound
        <4> QED  BY <2>1, <4>2, <4>3 DEF Cautious
      <3> QED  BY <3>1, <3>2
    <2> QED  BY <1>2, <2>1, <2>2, CautionKeepsCells
  <1> QED  BY <1>3, <1>4

LEMMA StepKnows ==
    ASSUME Known, Inv', NEW r \in Requests, Step(r) \/ CutOff(r)
    PROVE  Known'
  <1> USE DEF Known
  <1>1. Turn(r)
    BY EveryStepTurns
  <1>2. RequestsAreSound'
    BY <1>1, TurnKeepsRequests
  <1>3. CellsAreSound'
    BY StepKeepsCells
  <1>4. CASE RunTool(r)
    <2>1. (Normal' <=> Normal) /\ (Usual' <=> Usual)
      BY <1>4 DEF RunTool, Normal, Usual
    <2> QED
      BY <1>2, <1>3, <1>4, <2>1, RunToolKeepsRecords, RunToolKeepsNormal, RunToolKeepsUsual
  <1>5. CASE ~RunTool(r)
    <2>1. Shrunk(r)
      BY <1>5, StepShrinks
    <2>2. plan' = plan /\ unusual \subseteq unusual' /\ Only(r)
      BY <1>1 DEF Turn
    <2>3. ASSUME NEW s \in Requests, req'[s] # Idle PROVE Recorded(req'[s].tools)
      <3>1. CASE s = r
        BY <2>1, <2>3, <3>1 DEF Shrunk
      <3>2. CASE s # r
        <4>1. req'[s] = req[s]
          BY <2>2, <3>2 DEF Only
        <4> QED  BY <2>3, <4>1 DEF Recorded
      <3> QED  BY <3>1, <3>2
    <2>4. RecordsAreSound'
      BY <2>1, <2>2, <2>3, ShrinkKeepsRecords DEF Shrunk
    <2>5. (Normal' => Normal) /\ (Usual' => Usual /\ Normal)
      BY <2>2, UsualIsNormal DEF Normal, Usual
    <2>6. Shrinks(book, book')
      BY <2>1 DEF Shrunk
    <2>7. Normal' => NormalInv'
      BY <1>1, <1>5, <2>5, <2>6, RequestKnows, NormalTurnKeeps
    <2>8. Usual' => UsualInv'
      BY <1>1, <1>5, <2>5, <2>6, RequestKnows, UsualTurnKeeps
    <2> QED  BY <1>2, <1>3, <2>4, <2>7, <2>8
  <1> QED  BY <1>4, <1>5

-----------------------------------------------------------------------------
(***************************************************************************)
(* A request begins                                                        *)
(***************************************************************************)

NormalArrival(r) ==
    /\ ToolHolder(r)' => Names(req'[r].tools, book, plan)
    /\ ~SavedHolder(r)' /\ req'[r].at # "undoRecord"
    /\ req'[r].kind \in Approvals =>
         \A s \in Requests : req[s] # Idle /\ req[s].kind \in Approvals => req[s].key # req'[r].key
    /\ req'[r].at \in Early /\ req'[r].kind = "approve" /\ Engaged /\ action.key = req'[r].key => Over(action)

UsualArrival(r) ==
    /\ Holds(r)' => action.status = "applying" /\ ~plan.cells /\ HolderOK(req'[r], action)
    /\ req'[r].kind \in {"rollback", "undoCells"} => \A s \in Requests : ~Holds(s)
    /\ req'[r].kind = "undoCells" => DOMAIN plan.tools = {}
    /\ req'[r].at \in {"check", "undoTools"} /\ req'[r].kind = "rollback" => Names(req'[r].tools, book, plan)
    /\ req'[r].at \in UndoPhases \cup {"close"} => NoEffects(book)

LEMMA ArrivalIs ==
    ASSUME NEW r \in Requests, Arrival(r)
    PROVE  /\ plan' = plan /\ action' = action /\ book' = book
           /\ \A s \in Requests : s # r => req'[s] = req[s]
           /\ \A s \in Requests : s # r =>
                /\ (ToolHolder(s)' <=> ToolHolder(s)) /\ (SavedHolder(s)' <=> SavedHolder(s))
                /\ (Holds(s)' <=> Holds(s)) /\ (HoldsUndo(s)' <=> HoldsUndo(s))
           /\ ~ToolHolder(r) /\ ~SavedHolder(r) /\ ~Holds(r) /\ ~HoldsUndo(r)
           /\ req[r].at \notin {"apply", "record"}
  <1>1. /\ plan' = plan /\ action' = action /\ book' = book /\ req[r] = Idle
        /\ \A s \in Requests : s # r => req'[s] = req[s]
    BY DEF Arrival, Only
  <1>2. req[r].at = "idle"
    BY <1>1 DEF Idle
  <1>3. ~ToolHolder(r) /\ ~SavedHolder(r) /\ ~Holds(r) /\ ~HoldsUndo(r) /\ req[r].at \notin {"apply", "record"}
    BY <1>2 DEF ToolHolder, SavedHolder, Holds, Held, UndoPhases, HoldsUndo
  <1>4. ASSUME NEW s \in Requests, s # r
        PROVE  /\ (ToolHolder(s)' <=> ToolHolder(s)) /\ (SavedHolder(s)' <=> SavedHolder(s))
               /\ (Holds(s)' <=> Holds(s)) /\ (HoldsUndo(s)' <=> HoldsUndo(s))
    <2>1. req'[s] = req[s]
      BY <1>1, <1>4
    <2> QED  BY <1>1, <2>1 DEF ToolHolder, SavedHolder, Holds, HoldsUndo, UndoKey
  <1> QED  BY <1>1, <1>3, <1>4

LEMMA ArrivalKeepsNormal ==
    ASSUME NormalInv, NEW r \in Requests, Arrival(r), NormalArrival(r)
    PROVE  NormalInv'
  <1> USE DEF NormalInv
  <1>1. plan' = plan /\ action' = action /\ book' = book
    BY ArrivalIs
  <1>2. \A s \in Requests : s # r => req'[s] = req[s]
    BY ArrivalIs
  <1>3. \A s \in Requests : s # r =>
                /\ (ToolHolder(s)' <=> ToolHolder(s)) /\ (SavedHolder(s)' <=> SavedHolder(s))
                /\ (Holds(s)' <=> Holds(s))
    BY ArrivalIs
  <1>4. ~ToolHolder(r) /\ ~SavedHolder(r) /\ ~Holds(r) /\ req[r].at \notin {"apply", "record"}
    BY ArrivalIs
  <1>5. ApprovalsDiffer'
    <2> SUFFICES ASSUME NEW s \in Requests, NEW u \in Requests, s # u, req'[s] # Idle, req'[u] # Idle,
                        req'[s].kind \in Approvals, req'[u].kind \in Approvals
                 PROVE  req'[s].key # req'[u].key
      BY DEF ApprovalsDiffer
    <2>1. CASE s = r
      <3>1. req'[u] = req[u]
        BY <1>2, <2>1
      <3> QED  BY <2>1, <3>1 DEF NormalArrival
    <2>2. CASE u = r
      <3>1. req'[s] = req[s]
        BY <1>2, <2>2
      <3> QED  BY <2>2, <3>1 DEF NormalArrival
    <2>3. CASE s # r /\ u # r
      <3>1. req'[s] = req[s] /\ req'[u] = req[u]
        BY <1>2, <2>3
      <3> QED  BY <3>1 DEF ApprovalsDiffer
    <2> QED  BY <2>1, <2>2, <2>3
  <1>6. LateApprovalsFail'
    <2> SUFFICES ASSUME NEW s \in Requests, req'[s].at \in Early, req'[s].kind = "approve",
                        Engaged, action.key = req'[s].key
                 PROVE  Over(action)
      BY <1>1 DEF LateApprovalsFail, Engaged
    <2>1. CASE s = r
      BY <2>1 DEF NormalArrival
    <2>2. CASE s # r
      BY <1>2, <2>2 DEF LateApprovalsFail
    <2> QED  BY <2>1, <2>2
  <1>7. ClaimIsClean'
    <2> SUFFICES ASSUME action.status = "applying", plan.cells \/ \A s \in Requests : ~Holds(s)'
                 PROVE  NoEffects(book)
      BY <1>1 DEF ClaimIsClean
    <2>1. plan.cells \/ \A s \in Requests : ~Holds(s)
      BY <1>3, <1>4
    <2> QED  BY <2>1 DEF ClaimIsClean
  <1>8. ClaimIsHeld'
    <2> SUFFICES ASSUME action.status = "applying", plan.cells
                 PROVE  \E s \in Requests : req'[s].at \in {"apply", "record"}
      BY <1>1 DEF ClaimIsHeld
    <2>1. PICK s \in Requests : req[s].at \in {"apply", "record"}
      BY DEF ClaimIsHeld
    <2>2. req'[s] = req[s]
      BY <1>2, <1>4, <2>1
    <2> QED  BY <2>1, <2>2
  <1>9. HolderKnows'
    <2> SUFFICES ASSUME NEW s \in Requests, ToolHolder(s)'
                 PROVE  Names(req'[s].tools, book, plan)
      BY <1>1 DEF HolderKnows
    <2>1. CASE s = r
      BY <2>1 DEF NormalArrival
    <2>2. CASE s # r
      <3>1. req'[s] = req[s] /\ ToolHolder(s)
        BY <1>2, <1>3, <2>2
      <3> QED  BY <3>1 DEF HolderKnows
    <2> QED  BY <2>1, <2>2
  <1>10. SavedKnows'
    <2> SUFFICES ASSUME NEW s \in Requests, SavedHolder(s)'
                 PROVE  Names(action.tools, book, plan)
      BY <1>1 DEF SavedKnows
    <2>1. s # r
      BY DEF NormalArrival
    <2>2. SavedHolder(s)
      BY <1>3, <2>1
    <2> QED  BY <2>2 DEF SavedKnows
  <1>11. RowKnows'
    <2> SUFFICES ASSUME action.status = "applied", \A s \in Requests : ~ToolHolder(s)'
                 PROVE  Names(action.tools, book, plan)
      BY <1>1 DEF RowKnows
    <2>1. \A s \in Requests : ~ToolHolder(s)
      BY <1>3, <1>4
    <2> QED  BY <2>1 DEF RowKnows
  <1> QED  BY <1>5, <1>6, <1>7, <1>8, <1>9, <1>10, <1>11

LEMMA ArrivalKeepsUsual ==
    ASSUME Inv, RequestsAreSound, UsualInv, NEW r \in Requests, Arrival(r), UsualArrival(r)
    PROVE  UsualInv'
  <1> USE DEF UsualInv
  <1>1. plan' = plan /\ action' = action /\ book' = book
    BY ArrivalIs
  <1>2. \A s \in Requests : s # r => req'[s] = req[s]
    BY ArrivalIs
  <1>3. \A s \in Requests : s # r => (Holds(s)' <=> Holds(s)) /\ (HoldsUndo(s)' <=> HoldsUndo(s))
    BY ArrivalIs
  <1>4. ~Holds(r) /\ ~HoldsUndo(r)
    BY ArrivalIs
  <1>5. UndoWaits'
    <2> SUFFICES ASSUME NEW u \in Requests, req'[u] # Idle, req'[u].kind \in {"rollback", "undoCells"}
                 PROVE  /\ req'[u].rev >= 2 => \A s \in Requests : ~Holds(s)'
                        /\ req'[u].kind = "undoCells" => DOMAIN plan.tools = {}
      BY <1>1 DEF UndoWaits
    <2>1. CASE u = r
      <3>1. ~Holds(r)'
        BY <2>1 DEF Holds, Approvals
      <3> QED  BY <1>3, <2>1, <3>1 DEF UsualArrival
    <2>2. CASE u # r
      <3>1. req'[u] = req[u]
        BY <1>2, <2>2
      <3>2. req[u].kind = "undoCells" => DOMAIN plan.tools = {}
        BY <3>1 DEF UndoWaits
      <3>3. req[u].kind = "rollback" => Done(action)
        BY <3>1 DEF RequestsAreSound, PhaseOK
      <3>4. ~Holds(r)'
        BY <3>1, <3>2, <3>3, NoToolsMeansCells DEF UsualArrival, Done
      <3>5. req[u].rev >= 2 => \A s \in Requests : ~Holds(s)
        BY <3>1 DEF UndoWaits
      <3> QED  BY <1>3, <3>1, <3>2, <3>4, <3>5
    <2> QED  BY <2>1, <2>2
  <1>6. HolderIsAlone'
    <2> SUFFICES ASSUME NEW s \in Requests, Holds(s)'
                 PROVE  HolderOK(req'[s], action)
      BY <1>1 DEF HolderIsAlone
    <2>1. CASE s = r
      BY <2>1 DEF UsualArrival
    <2>2. CASE s # r
      <3>1. req'[s] = req[s] /\ Holds(s)
        BY <1>2, <1>3, <2>2
      <3> QED  BY <3>1 DEF HolderIsAlone
    <2> QED  BY <2>1, <2>2
  <1>7. RollbackKnows'
    <2> SUFFICES ASSUME NEW s \in Requests, req'[s].at \in {"check", "undoTools"}, req'[s].kind = "rollback"
                 PROVE  Names(req'[s].tools, book, plan)
      BY <1>1 DEF RollbackKnows
    <2>1. CASE s = r
      BY <2>1 DEF UsualArrival
    <2>2. CASE s # r
      BY <1>2, <2>2 DEF RollbackKnows
    <2> QED  BY <2>1, <2>2
  <1>8. UndoIsClean'
    <2> SUFFICES ASSUME NEW s \in Requests, req'[s].at \in UndoPhases \cup {"close"}
                 PROVE  NoEffects(book)
      BY <1>1 DEF UndoIsClean
    <2>1. CASE s = r
      BY <2>1 DEF UsualArrival
    <2>2. CASE s # r
      BY <1>2, <2>2 DEF UndoIsClean
    <2> QED  BY <2>1, <2>2
  <1>9. EndIsClean'
    BY <1>1 DEF EndIsClean, Arrival
  <1>10. UndoIsHeld'
    <2> SUFFICES ASSUME action.status = "undoing"
                 PROVE  action.operation /\ \E s \in Requests : HoldsUndo(s)'
      BY <1>1 DEF UndoIsHeld
    <2>1. PICK s \in Requests : HoldsUndo(s)
      BY DEF UndoIsHeld
    <2>2. HoldsUndo(s)'
      BY <1>3, <1>4, <2>1
    <2> QED  BY <2>2 DEF UndoIsHeld
  <1> QED  BY <1>5, <1>6, <1>7, <1>8, <1>9, <1>10

-----------------------------------------------------------------------------
\* What an arrival that is not unusual tells of the others.
LEMMA NotUnusual ==
    ASSUME NEW kind, NEW k \in Keys, unusual' = Unusual(kind, k), Normal'
    PROVE  /\ Normal
           /\ kind \in Approvals =>
                \A s \in Requests : req[s] # Idle /\ req[s].kind \in Approvals => req[s].key # k
           /\ kind \notin Approvals /\ Inv => \A s \in Requests : req[s] # Idle => req[s].kind \notin Approvals
           /\ Usual' => Usual /\ (kind = "undoCells" => plan.tools = <<>>)
  <1>1. Normal
    BY DEF Unusual, Normal
  <1>2. kind \in Approvals => ~Approving({k})
    BY DEF Unusual, Normal, Approvals
  <1>3. kind \notin Approvals => ~Approving(Keys)
    BY DEF Unusual, Normal, Approvals
  <1>4. Usual' => Usual /\ (kind = "undoCells" => plan.tools = <<>>)
    BY DEF Unusual, Usual
  <1>5. Inv => \A s \in Requests : req[s] # Idle => req[s].key \in Keys
    BY RequestFields DEF Inv
  <1> QED  BY <1>1, <1>2, <1>3, <1>4, <1>5 DEF Approving, Approvals, Busy

\* Everybody who holds the claim approves under its key.
LEMMA HolderApproves ==
    ASSUME RequestsAreSound, NEW s \in Requests, Holds(s)
    PROVE  req[s] # Idle /\ req[s].kind \in Approvals /\ req[s].key = action.key
  <1>1. req[s] # Idle
    BY DEF Holds, Held, UndoPhases, Idle
  <1> QED  BY <1>1 DEF RequestsAreSound, PhaseOK, Holds

LEMMA ApplierHolds ==
    ASSUME RequestsAreSound, NEW s \in Requests, req[s].at \in {"apply", "record"}
    PROVE  Holds(s)
  <1>1. req[s] # Idle
    BY DEF Idle
  <1> QED  BY <1>1 DEF RequestsAreSound, PhaseOK, Holds, Held

LEMMA ApproveRunKnows ==
    ASSUME Known, NEW r \in Requests, NEW k \in Keys, NEW revision, ApproveRun(r, k, revision), Normal'
    PROVE  NormalArrival(r) /\ (Usual' => UsualArrival(r))
  <1> USE DEF Known
  <1> PICK phase : phase = CASE plan.cells -> "approve"
                             [] ~plan.cells /\ action.status = "applying" /\ action.key = k -> "tools"
                             [] OTHER -> "version"
    OBVIOUS
  <1>0. plan.cells \in BOOLEAN
    BY RowFields
  <1>1. /\ phase \in {"approve", "tools", "version"} /\ phase \in Phases
        /\ phase = "tools" => ~plan.cells /\ action.status = "applying" /\ action.key = k
        /\ phase # "tools" /\ action.status = "applying" /\ action.key = k => plan.cells
    BY <1>0 DEF Phases
  <1>2. Arrives(r, "approve", k, revision, phase) /\ ~(action.status = "applied" /\ action.key = k)
    BY DEF ApproveRun
  <1>3. /\ req'[r].at = phase /\ req'[r].kind = "approve" /\ req'[r].key = k
        /\ req'[r].tools = action.tools /\ unusual' = Unusual("approve", k)
    BY <1>1, <1>2, ArrivesIs
  <1>4. /\ NormalInv
        /\ \A s \in Requests : req[s] # Idle /\ req[s].kind \in Approvals => req[s].key # k
    BY <1>3, NotUnusual DEF Approvals
  <1>5. action.key = k => \A s \in Requests : ~Holds(s)
    BY <1>4, HolderApproves
  <1>6. ~(action.status = "applying" /\ action.key = k /\ plan.cells)
    BY <1>4, <1>5, ApplierHolds DEF NormalInv, ClaimIsHeld
  <1>7. phase = "tools" => Names(action.tools, book, plan)
    BY <1>1, <1>4, <1>5, NothingToName DEF NormalInv, ClaimIsClean
  <1>8. phase # "tools" /\ Engaged /\ action.key = k => Over(action)
    BY <1>1, <1>2, <1>6, RowFields DEF Engaged, Claimed, Over, RunStatuses
  <1>9. ~SavedHolder(r)' /\ req'[r].at # "undoRecord" /\ (ToolHolder(r)' => phase = "tools")
        /\ (Holds(r)' => phase = "tools")
    BY <1>1, <1>3 DEF SavedHolder, ToolHolder, Holds, Held, UndoPhases
  <1>10. NormalArrival(r)
    BY <1>1, <1>3, <1>4, <1>7, <1>8, <1>9 DEF NormalArrival, Early
  <1>11. UsualArrival(r)
    <2>1. Holds(r)' => action.status = "applying" /\ ~plan.cells /\ HolderOK(req'[r], action)
      BY <1>1, <1>3, <1>9 DEF HolderOK, Over
    <2>2. req'[r].at \notin UndoPhases \cup {"close"}
      BY <1>1, <1>3 DEF UndoPhases
    <2> QED  BY <1>3, <2>1, <2>2 DEF UsualArrival
  <1> QED  BY <1>10, <1>11

LEMMA ApproveActionKnows ==
    ASSUME Known, NEW r \in Requests, NEW k \in Keys, NEW revision, ApproveAction(r, k, revision), Normal'
    PROVE  NormalArrival(r) /\ (Usual' => UsualArrival(r))
  <1> USE DEF Known
  <1>1. Arrives(r, "approveCells", k, revision, "approve") /\ "approve" \in Phases
    BY DEF ApproveAction, Phases
  <1>2. /\ req'[r].at = "approve" /\ req'[r].kind = "approveCells" /\ req'[r].key = k
        /\ unusual' = Unusual("approveCells", k)
    BY <1>1, ArrivesIs
  <1>3. \A s \in Requests : req[s] # Idle /\ req[s].kind \in Approvals => req[s].key # k
    BY <1>2, NotUnusual DEF Approvals
  <1>4. ~SavedHolder(r)' /\ ~ToolHolder(r)' /\ ~Holds(r)' /\ req'[r].at \notin UndoPhases \cup {"close"}
    BY <1>2 DEF SavedHolder, ToolHolder, Holds, Held, UndoPhases
  <1> QED  BY <1>2, <1>3, <1>4 DEF NormalArrival, UsualArrival

LEMMA RollbackKnowsTheRow ==
    ASSUME Known, NEW r \in Requests, NEW k \in Keys, NEW revision, RollbackChangeSet(r, k, revision), Normal'
    PROVE  NormalArrival(r) /\ (Usual' => UsualArrival(r))
  <1> USE DEF Known
  <1>1. Arrives(r, "rollback", k, revision, "check") /\ "check" \in Phases /\ action.status = "applied"
    BY DEF RollbackChangeSet, Phases
  <1>2. /\ req'[r].at = "check" /\ req'[r].kind = "rollback" /\ req'[r].tools = action.tools
        /\ unusual' = Unusual("rollback", k)
    BY <1>1, ArrivesIs
  <1>3. NormalInv /\ \A s \in Requests : req[s] # Idle => req[s].kind \notin Approvals
    BY <1>2, NotUnusual DEF Approvals
  <1>4. ~SavedHolder(r)' /\ ~ToolHolder(r)' /\ ~Holds(r)' /\ req'[r].at \notin UndoPhases \cup {"close"}
        /\ req'[r].kind \notin Approvals
    BY <1>2 DEF SavedHolder, ToolHolder, Holds, Held, UndoPhases, Approvals
  <1>5. \A s \in Requests : ~Holds(s)
    BY <1>3, HolderApproves
  <1>6. Names(action.tools, book, plan)
    BY <1>1, <1>3, <1>5, ToolHolderHolds DEF NormalInv, RowKnows
  <1> QED  BY <1>2, <1>4, <1>5, <1>6 DEF NormalArrival, UsualArrival

LEMMA UndoActionKnows ==
    ASSUME Known, NEW r \in Requests, NEW k \in Keys, NEW revision, UndoAction(r, k, revision), Normal'
    PROVE  NormalArrival(r) /\ (Usual' => UsualArrival(r))
  <1> USE DEF Known
  <1>1. Arrives(r, "undoCells", k, revision, "undo") /\ "undo" \in Phases
    BY DEF UndoAction, Phases
  <1>2. /\ req'[r].at = "undo" /\ req'[r].kind = "undoCells"
        /\ unusual' = Unusual("undoCells", k)
    BY <1>1, ArrivesIs
  <1>3. /\ \A s \in Requests : req[s] # Idle => req[s].kind \notin Approvals
        /\ Usual' => plan.tools = <<>>
    BY <1>2, NotUnusual DEF Approvals
  <1>4. ~SavedHolder(r)' /\ ~ToolHolder(r)' /\ ~Holds(r)' /\ req'[r].at \notin {"close", "check", "undoTools"}
        /\ req'[r].kind \notin Approvals
    BY <1>2 DEF SavedHolder, ToolHolder, Holds, Held, UndoPhases, Approvals
  <1>5. \A s \in Requests : ~Holds(s)
    BY <1>3, HolderApproves
  <1>6. plan.tools = <<>> => DOMAIN plan.tools = {}
    OBVIOUS
  <1>7. DOMAIN plan.tools = {} => NoEffects(book)
    BY BookFacts DEF NoEffects, RecordsAreSound, BookOK, Things
  <1> QED  BY <1>2, <1>3, <1>4, <1>5, <1>6, <1>7 DEF NormalArrival, UsualArrival, Early, UndoPhases

LEMMA ArrivalKnows ==
    ASSUME Known, Inv', NEW r \in Requests, NEW k \in Keys, NEW revision \in 1..action.revision,
           \/ ApproveRun(r, k, revision) \/ RollbackChangeSet(r, k, revision)
           \/ ApproveAction(r, k, revision) \/ UndoAction(r, k, revision)
    PROVE  Known'
  <1> USE DEF Known
  <1>1. Arrival(r)
    BY EveryArrival
  <1>2. RequestsAreSound'
    BY <1>1, ArrivalKeepsRequests
  <1>3. plan' = plan /\ action' = action /\ book' = book /\ unusual \subseteq unusual' /\ Only(r)
        /\ req'[r].tools = action.tools
    BY <1>1 DEF Arrival
  <1>4. (Normal' => Normal /\ NormalArrival(r)) /\ (Usual' => Usual /\ UsualArrival(r))
    <2>1. (Normal' => Normal) /\ (Usual' => Usual /\ Normal')
      BY <1>3 DEF Normal, Usual
    <2> QED  BY <2>1, ApproveRunKnows, RollbackKnowsTheRow, ApproveActionKnows, UndoActionKnows
  <1>5. RecordsAreSound'
    <2>1. ASSUME NEW s \in Requests, req'[s] # Idle PROVE Recorded(req'[s].tools)
      BY <1>3, <2>1 DEF Recorded, Only
    <2>2. Recorded(action'.tools) /\ Shrinks(book, book')
      BY <1>3, SameShrinks DEF Recorded
    <2> QED  BY <1>3, <2>1, <2>2, ShrinkKeepsRecords
  <1>6. CellsAreSound'
    <2>1. Onward(action, action') /\ Cautious(book, book')
      BY <1>3, SameIsCautious DEF Onward
    <2>2. req'[r].at # "undoRecord"
      <3>1. ASSUME NEW kind, NEW phase \in Phases \ {"undoRecord"}, Arrives(r, kind, k, revision, phase)
            PROVE  req'[r].at # "undoRecord"
        BY <3>1, ArrivesIs
      <3> QED  BY <3>1 DEF ApproveRun, RollbackChangeSet, ApproveAction, UndoAction, Phases
    <2>3. ASSUME NEW s \in Requests, req'[s].at = "undoRecord"
          PROVE  <<"undo", UndoKey(s)'>> \in book'.ops
      <3>1. req'[s] = req[s]
        BY <1>3, <2>2, <2>3 DEF Only
      <3>2. UndoKey(s)' = UndoKey(s)
        BY <3>1 DEF UndoKey
      <3> QED  BY <1>3, <2>3, <3>1, <3>2 DEF CellsAreSound
    <2> QED  BY <1>3, <2>1, <2>3, CautionKeepsCells
  <1>7. Normal' => NormalInv'
    BY <1>1, <1>4, ArrivalKeepsNormal
  <1>8. Usual' => UsualInv'
    BY <1>1, <1>4, ArrivalKeepsUsual
  <1> QED  BY <1>2, <1>5, <1>6, <1>7, <1>8

-----------------------------------------------------------------------------
(***************************************************************************)
(* What else happens, and the invariant                                    *)
(***************************************************************************)

\* A run is cancelled, or others write.
Meanwhile ==
    /\ plan' = plan /\ req' = req /\ unusual' = unusual /\ Shrinks(book, book')
    /\ book'.cells = "agent" => book.cells = "agent"
    /\ \/ action' = action
       \/ action.status = "planned" /\ action'.status = "cancelled" /\ action'.tools = action.tools

LEMMA MeanwhileNormal ==
    ASSUME NormalInv, Meanwhile
    PROVE  NormalInv'
  <1> USE DEF NormalInv, Meanwhile
  <1> PICK c : c = book'
    OBVIOUS
  <1> PICK a : a = action'
    OBVIOUS
  <1>1. \A tools : Names(tools, book, plan) => Names(tools, c, plan)
    BY ShrinkKeepsNames
  <1>2. NoEffects(book) => NoEffects(c)
    BY ShrinkKeepsNothing
  <1>3. a.tools = action.tools /\ (a = action \/ ~Claimed(a))
    BY DEF Claimed
  <1>4. a.status \in {"applying", "applied"} => a = action
    BY <1>3 DEF Claimed
  <1>5. \A s \in Requests : (ToolHolder(s)' <=> ToolHolder(s)) /\ (Holds(s)' <=> Holds(s))
                            /\ (SavedHolder(s)' <=> SavedHolder(s))
    BY DEF ToolHolder, Holds, SavedHolder
  <1>6. ApprovalsDiffer'
    BY DEF ApprovalsDiffer
  <1>7. LateApprovalsFail'
    <2> SUFFICES ASSUME NEW s \in Requests, req[s].at \in Early, req[s].kind = "approve",
                        Claimed(a), a.key = req[s].key
                 PROVE  Over(a)
      BY DEF LateApprovalsFail, Engaged
    <2> QED  BY <1>3 DEF LateApprovalsFail, Engaged
  <1>8. ClaimIsClean' /\ ClaimIsHeld'
    BY <1>2, <1>4, <1>5 DEF ClaimIsClean, ClaimIsHeld
  <1>9. HolderKnows' /\ SavedKnows' /\ RowKnows'
    BY <1>1, <1>3, <1>4, <1>5 DEF HolderKnows, SavedKnows, RowKnows
  <1> QED  BY <1>6, <1>7, <1>8, <1>9

LEMMA MeanwhileUsual ==
    ASSUME RequestsAreSound, UsualInv, Meanwhile
    PROVE  UsualInv'
  <1> USE DEF UsualInv, Meanwhile
  <1> PICK c : c = book'
    OBVIOUS
  <1> PICK a : a = action'
    OBVIOUS
  <1>1. \A tools : Names(tools, book, plan) => Names(tools, c, plan)
    BY ShrinkKeepsNames
  <1>2. NoEffects(book) => NoEffects(c)
    BY ShrinkKeepsNothing
  <1>3. Over(a) => a = action
    BY DEF Over
  <1>4. \A s \in Requests : (Holds(s)' <=> Holds(s))
    BY DEF Holds
  <1>5. UndoWaits'
    BY <1>4 DEF UndoWaits
  <1>6. HolderIsAlone'
    <2> SUFFICES ASSUME NEW s \in Requests, Holds(s)
                 PROVE  HolderOK(req[s], a)
      BY <1>4 DEF HolderIsAlone
    <2>1. req[s] # Idle
      BY DEF Holds, Held, UndoPhases, Idle
    <2>2. action.status # "planned"
      BY <2>1 DEF RequestsAreSound, PhaseOK, Holds, Claimed
    <2> QED  BY <2>2 DEF HolderIsAlone
  <1>7. RollbackKnows' /\ UndoIsClean'
    BY <1>1, <1>2 DEF RollbackKnows, UndoIsClean
  <1>8. EndIsClean'
    BY <1>2, <1>3 DEF EndIsClean, Over
  <1>9. UndoIsHeld'
    <2> SUFFICES ASSUME a.status = "undoing"
                 PROVE  a.operation /\ \E s \in Requests : HoldsUndo(s)'
      BY DEF UndoIsHeld
    <2>1. a = action
      BY <1>3 DEF Over
    <2>2. PICK s \in Requests : HoldsUndo(s)
      BY <2>1 DEF UndoIsHeld
    <2>3. HoldsUndo(s)'
      BY <2>1, <2>2 DEF HoldsUndo, UndoKey
    <2> QED  BY <2>1, <2>3 DEF UndoIsHeld
  <1> QED  BY <1>5, <1>6, <1>7, <1>8, <1>9

LEMMA MeanwhileKnows ==
    ASSUME Known, Inv', RequestsAreSound', Meanwhile, Onward(action, action'), Cautious(book, book')
    PROVE  Known'
  <1> USE DEF Known
  <1>1. RecordsAreSound'
    <2>1. action'.tools = action.tools
      BY DEF Meanwhile
    <2>2. Recorded(action'.tools) /\ \A s \in Requests : req'[s] # Idle => Recorded(req'[s].tools)
      BY <2>1 DEF Meanwhile, Recorded
    <2> QED  BY <2>2, ShrinkKeepsRecords DEF Meanwhile
  <1>2. CellsAreSound'
    <2>1. ASSUME NEW s \in Requests, req'[s].at = "undoRecord"
          PROVE  <<"undo", UndoKey(s)'>> \in book'.ops
      <3>1. UndoKey(s)' = UndoKey(s) /\ req'[s] = req[s]
        BY DEF UndoKey, Meanwhile
      <3> QED  BY <2>1, <3>1 DEF CellsAreSound, Cautious
    <2> QED  BY <2>1, CautionKeepsCells DEF Meanwhile
  <1>3. (Normal' <=> Normal) /\ (Usual' <=> Usual)
    BY DEF Meanwhile, Normal, Usual
  <1> QED  BY <1>1, <1>2, <1>3, MeanwhileNormal, MeanwhileUsual

LEMMA CancelKnows ==
    ASSUME Known, Inv', RequestsAreSound',
           (\E n \in 1..action.revision : CancelRun(n)) \/ supersedePendingAgentRuns
    PROVE  Known'
  <1>1. /\ action.status = "planned" /\ action'.status = "cancelled" /\ action'.tools = action.tools
        /\ plan' = plan /\ book' = book /\ req' = req /\ unusual' = unusual
        /\ Onward(action, action')
    BY CancelIs DEF Known
  <1>2. Meanwhile /\ Cautious(book, book')
    BY <1>1, SameShrinks, SameIsCautious DEF Meanwhile
  <1> QED  BY <1>1, <1>2, MeanwhileKnows

LEMMA OthersKnow ==
    ASSUME Known, Inv', RequestsAreSound', OthersWrite \/ OthersEdit \/ OthersRestructure
    PROVE  Known'
  <1>1. plan' = plan /\ action' = action /\ req' = req /\ unusual' = unusual
    BY OthersAre
  <1>2. /\ Shrinks(book, book') /\ (book'.cells = "agent" => book.cells = "agent")
        /\ book'.ops = book.ops /\ book'.version = book.version + 1
    BY OthersShrink DEF Known
  <1>3. Meanwhile
    BY <1>1, <1>2 DEF Meanwhile
  <1>4. Cautious(book, book')
    BY <1>2, BookFacts DEF Cautious, Known
  <1>5. Onward(action, action')
    BY <1>1 DEF Onward
  <1> QED  BY <1>3, <1>4, <1>5, MeanwhileKnows

LEMMA NextKnows ==
    ASSUME Known, [Next]_vars
    PROVE  Known'
  <1>1. Inv'
    BY NextKeepsInv DEF Known
  <1>2. RequestsAreSound'
    BY NextKeepsRequests DEF Known
  <1>3. CASE UNCHANGED vars
    <2>1. Meanwhile /\ Onward(action, action') /\ Cautious(book, book')
      BY <1>3, SameShrinks, SameIsCautious DEF vars, Meanwhile, Onward
    <2> QED  BY <1>1, <1>2, <2>1, MeanwhileKnows
  <1>4. CASE Next
    BY <1>1, <1>2, <1>4, ArrivalKnows, StepKnows, CancelKnows, OthersKnow DEF Next
  <1> QED  BY <1>3, <1>4

LEMMA InitKnows ==
    ASSUME Init
    PROVE  Known
  <1>1. Inv
    BY InitEstablishesInv
  <1>2. /\ action.status = "planned" /\ action.operation = FALSE
        /\ action.tools = [i \in DOMAIN plan.tools |-> Pending]
    BY DEF Init
  <1>3. /\ book.cells = "before" /\ book.range = "plain" /\ book.chart.rev = 1 /\ book.chart.by = "before"
        /\ book.things = {} /\ book.ops = {}
    BY DEF Init
  <1>4. \A r \in Requests : req[r] = Idle /\ req[r].at = "idle"
    BY DEF Init, Idle
  <1>5. RequestsAreSound
    BY <1>2, <1>4 DEF RequestsAreSound, RowOK
  <1>6. RecordsAreSound
    <2>1. BookOK(book, plan)
      BY <1>3 DEF BookOK
    <2>2. RecordOK(action.tools, book, plan, unusual)
      BY <1>2 DEF RecordOK, OutcomeOK, Pending
    <2> QED  BY <1>4, <2>1, <2>2 DEF RecordsAreSound
  <1>7. CellsAreSound
    BY <1>3, <1>4 DEF CellsAreSound
  <1>8. NoEffects(book)
    BY <1>3 DEF NoEffects
  <1>9. \A r \in Requests : ~ToolHolder(r) /\ ~SavedHolder(r) /\ ~Holds(r)
    BY <1>4 DEF ToolHolder, SavedHolder, Holds, Held, UndoPhases
  <1>10. NormalInv
    BY <1>2, <1>4, <1>9 DEF NormalInv, ApprovalsDiffer, LateApprovalsFail, ClaimIsClean, ClaimIsHeld,
                            HolderKnows, SavedKnows, RowKnows, Early
  <1>11. UsualInv
    BY <1>2, <1>4, <1>9 DEF UsualInv, UndoWaits, HolderIsAlone, RollbackKnows, UndoIsClean, EndIsClean,
                            UndoIsHeld, UndoPhases, Over
  <1> QED  BY <1>1, <1>5, <1>6, <1>7, <1>10, <1>11 DEF Known

LEMMA KnownAlways == Spec => []Known
  <1>1. Init => Known
    BY InitKnows
  <1>2. Known /\ [Next]_vars => Known'
    BY NextKnows
  <1> QED  BY <1>1, <1>2, PTL DEF Spec

-----------------------------------------------------------------------------
\* A run whose row says undone has left nothing in the workbook that it could find again,
\* neither its cells nor anything its tools have made, whatever others write, edit and move,
\* unless a request was cut off, two overlapped, an undo was refused or took the cells only
\* (RollbackChangeSet, the compensation of ApproveRun).
THEOREM UndoneRunsLeaveNothing == Spec => []UndoneLeavesNothing
  <1>1. Known => UndoneLeavesNothing
    BY DEF Known, UsualInv, Usual, EndIsClean, Over, NoEffects, UndoneLeavesNothing, ToolsLeft
  <1> QED  BY <1>1, KnownAlways, PTL

\* A run that failed has left nothing of its tools in the workbook once its requests have
\* ended, and its cells as it wrote them only if the workbook refused to put them back; or its
\* row is applied and it can be rolled back, with the exceptions above but the refusal
\* (executeAgentTools, the undo of the tools that completed; markFailed; the compensation of
\* ApproveRun).
THEOREM FailedRunsLeaveNothing == Spec => []FailedLeavesNothing
  <1>1. Known => FailedLeavesNothing
    <2> SUFFICES ASSUME Known, Busy = {}, Usual, action.status # "applied"
                 PROVE  ~ToolsLeft /\ (book.cells = "agent" => "refused" \in unusual)
      BY DEF FailedLeavesNothing, Usual
    <2>1. \A r \in Requests : req[r] = Idle /\ req[r].at = "idle"
      BY DEF Busy, Idle
    <2>2. \A r \in Requests : ~Holds(r) /\ ~HoldsUndo(r) /\ req[r].at \notin {"apply", "record"}
      BY <2>1 DEF Holds, Held, UndoPhases, HoldsUndo
    <2>3. NormalInv /\ UsualInv
      BY UsualIsNormal DEF Known
    <2>4. CASE action.status \in {"planned", "cancelled"}
      BY <2>4 DEF Known, Inv, NothingWithoutApproval, Left
    <2>5. CASE action.status = "applying"
      <3>1. NoEffects(book) /\ ~plan.cells
        BY <2>2, <2>3, <2>5 DEF NormalInv, ClaimIsClean, ClaimIsHeld
      <3>2. book.cells # "agent"
        BY <3>1 DEF Known, CellsAreSound
      <3> QED  BY <3>1, <3>2 DEF NoEffects, ToolsLeft
    <2>6. action.status # "undoing"
      BY <2>2, <2>3 DEF UsualInv, UndoIsHeld
    <2>7. CASE action.status \in {"undone", "failed"}
      BY <2>3, <2>7 DEF UsualInv, EndIsClean, Over, NoEffects, ToolsLeft
    <2> QED  BY <2>4, <2>5, <2>6, <2>7, RowFields DEF Known, RunStatuses
  <1> QED  BY <1>1, KnownAlways, PTL

-----------------------------------------------------------------------------
(***************************************************************************)
(* What others have made of it                                             *)
(***************************************************************************)

\* What a step from workbook b to workbook c leaves to the others.
Respects(b, c, p, u) ==
    /\ u \in SUBSET {"cellsOnly"} =>
         \A t \in b.things \ c.things : p.tools[t.tool] = "object" => t.rev = 1
    /\ b.chart.by = "other" => c.chart.by = "other"
    /\ b.cells = "other" => c.cells = "other"
    /\ b.range = "theirs" => c.range # "plain"

LEMMA SameRespects ==
    ASSUME NEW b, NEW c, NEW p, NEW u, c = b
    PROVE  Respects(b, c, p, u)
  BY DEF Respects

\* A tool adds, and update_chart needs the chart nobody has edited.
LEMMA RunToolRespects ==
    ASSUME Inv, RecordsAreSound, NEW r \in Requests, RunTool(r)
    PROVE  Respects(book, book', plan, unusual)
  <1> PICK i : i = Min(Open(r))
    OBVIOUS
  <1> PICK o : o = RanTool(i).outcome
    OBVIOUS
  <1> PICK b : b = book'
    OBVIOUS
  <1>1. Open(r) # {} /\ b = RanTool(i).book /\ MayRun(i)
    BY DEF RunTool
  <1>2. Open(r) \in SUBSET DOMAIN plan.tools
    BY DEF Open
  <1>3. i \in DOMAIN plan.tools
    BY <1>1, <1>2, MinIsIn DEF Inv, Types
  <1>4. MadeAnew(i, b, o) \/ Found(i, b, o) \/ Sorted(i, b, o) \/ Updated(i, b, o)
    BY <1>1, <1>3, RanToolIs
  <1>5. b.cells = book.cells
    BY <1>1, <1>3, ToolsKeepCells
  <1>6. book.things \subseteq b.things /\ (book.range = "theirs" => b.range # "plain")
    BY <1>4 DEF MadeAnew, Found, Sorted, Updated
  <1>7. book.chart.by = "other" => b.chart = book.chart
    <2>1. CASE Updated(i, b, o)
      <3>1. book.chart.rev = 1
        BY <1>1, <2>1 DEF Updated, MayRun
      <3> QED  BY <3>1 DEF RecordsAreSound, BookOK
    <2>2. CASE MadeAnew(i, b, o) \/ Found(i, b, o) \/ Sorted(i, b, o)
      BY <2>2 DEF MadeAnew, Found, Sorted
    <2> QED  BY <1>4, <2>1, <2>2
  <1> QED  BY <1>5, <1>6, <1>7 DEF Respects

\* The undo of a tool takes what its stored result names, at the stored revision.
LEMMA UndoToolRespects ==
    ASSUME Inv, RecordsAreSound, NEW r \in Requests, UndoTool(r)
    PROVE  Respects(book, book', plan, unusual)
  <1> PICK b : b = book'
    OBVIOUS
  <1>1. PICK i \in DOMAIN plan.tools :
          /\ req[r].tools[i].done /\ MayUndo(i, req[r].tools[i]) /\ req[r].at = "undoTools"
          /\ b \in UndoneTool(i, req[r].tools[i])
    BY UndoToolIs
  <1> PICK o : o = req[r].tools[i]
    OBVIOUS
  <1>2. OutcomeOK(i, o, book, plan, unusual) /\ o.done
    BY <1>1 DEF RecordsAreSound, RecordOK, Idle
  <1>3. b.cells = book.cells
    BY <1>1, ToolsKeepCells
  <1>4. CASE plan.tools[i] \in {"object", "report"}
    <2>1. b.things = book.things \ ThingOf(o) /\ b.range = book.range /\ b.chart = book.chart
      BY <1>1, <1>4, DeletedIs DEF UndoneTool
    <2>2. ASSUME unusual \in SUBSET {"cellsOnly"}, NEW t \in book.things \ b.things,
                 plan.tools[t.tool] = "object"
          PROVE  t.rev = 1
      <3>1. t \in ThingOf(o) /\ t.id = o.id
        BY <2>1, <2>2 DEF ThingOf
      <3>2. plan.tools[i] = "object"
        BY <1>2, <2>2, <3>1 DEF OutcomeOK
      <3>3. t.rev = o.rev
        BY <1>1, <3>1, <3>2 DEF MayUndo
      <3>4. o.rev = 1
        BY <1>2, <2>2, <3>2 DEF OutcomeOK
      <3> QED  BY <3>3, <3>4
    <2> QED  BY <1>3, <2>1, <2>2 DEF Respects
  <1>5. CASE plan.tools[i] = "sort"
    <2>1. b.things = book.things /\ b.chart = book.chart /\ (book.range = "theirs" => b.range = "theirs")
      BY <1>1, <1>5, UnsortedIs DEF UndoneTool
    <2> QED  BY <1>3, <2>1 DEF Respects
  <1>6. CASE plan.tools[i] = "update"
    <2>1. b.things = book.things /\ b.range = book.range
      BY <1>1, <1>6, RestoredIs DEF UndoneTool
    <2>2. book.chart.rev = o.rev
      BY <1>1, <1>6 DEF MayUndo
    <2>3. book.chart.by # "other"
      BY <1>2, <1>6, <2>2 DEF OutcomeOK
    <2> QED  BY <1>3, <2>1, <2>3 DEF Respects
  <1> QED  BY <1>4, <1>5, <1>6, ToolKind

\* An approval writes the cells it has seen, an undo those the run has written.
LEMMA CellsRespect ==
    ASSUME Inv, NEW r \in Requests, ApplyApproved(r) \/ ApplyUndo(r)
    PROVE  Respects(book, book', plan, unusual)
  <1> PICK c : c = book'
    OBVIOUS
  <1> PICK n : n = book.version + 1
    OBVIOUS
  <1>1. c = book \/ \E kind, x, m :
          (book.cells = "other" => x = "other") /\ CellsSet(c, kind, m, n, x)
    <2>1. CASE ApplyApproved(r)
      <3> PICK m : m = req[r].key
        OBVIOUS
      <3> PICK x : x = IF book.cells = "before" THEN "agent" ELSE book.cells
        OBVIOUS
      <3> PICK kind : kind = "approve"
        OBVIOUS
      <3>1. c = book \/ CellsSet(c, kind, m, n, x)
        BY <2>1 DEF ApplyApproved, CellsSet
      <3> QED  BY <3>1
    <2>2. CASE ApplyUndo(r)
      <3> PICK m : m = UndoKey(r)
        OBVIOUS
      <3> PICK kind : kind = "undo"
        OBVIOUS
      <3>1. ASSUME NEW x \in PutBack(book.cells, "agent", "before"),
                   c = [book EXCEPT !.version = n, !.ops = book.ops \cup {<<"undo", m>>}, !.cells = x]
            PROVE  (book.cells = "other" => x = "other") /\ CellsSet(c, kind, m, n, x)
        BY <3>1, PutBackCells DEF CellsSet
      <3> QED  BY <2>2, <3>1 DEF ApplyUndo
    <2> QED  BY <2>1, <2>2
  <1>2. ASSUME NEW kind, NEW x, NEW m, book.cells = "other" => x = "other", CellsSet(c, kind, m, n, x)
        PROVE  Respects(book, c, plan, unusual)
    <2>1. c.things = book.things /\ c.range = book.range /\ c.chart = book.chart /\ c.cells = x
      BY <1>2, BookFacts DEF Books, CellsSet
    <2> QED  BY <1>2, <2>1 DEF Respects
  <1> QED  BY <1>1, <1>2, SameRespects

LEMMA StepRespects ==
    ASSUME Inv, RecordsAreSound, NEW r \in Requests, Step(r) \/ CutOff(r)
    PROVE  Respects(book, book', plan, unusual)
  <1>1. book' = book \/ RunTool(r) \/ UndoTool(r) \/ ApplyApproved(r) \/ ApplyUndo(r)
    BY DEF Step, CutOff, ReadForApproval, ReadVersion, Claim, ApplyRefused, completeApproval, ReadForUndo,
           ClaimUndo, UndoRefused, completeUndo, ToolFails, SaveToolCalls, completeToolOnlyApproval,
           ValidateExecution, completeAgentValidation, CheckVersion, UndoToolFails, ToolsUndone,
           CloseRun, FinishRollback
  <1> QED  BY <1>1, SameRespects, RunToolRespects, UndoToolRespects, CellsRespect

\* Whatever others have made of it stays: no approval, compensation, rollback or undo
\* takes an edited object (with the exceptions above but the last), or an edited
\* chart, overwritten cells or a rewritten range ever (undoCompletedTools: the stored
\* revisions; UndoOperation: the expected cells).
THEOREM UndoesTakeOnlyTheirOwn == Spec => UndoTakesOnlyItsOwn
  <1>1. ASSUME Known, [Next]_vars, \E r \in Requests : req[r] # Idle /\ req'[r] # req[r]
        PROVE  Respects(book, book', plan, unusual)
    <2>1. CASE \E r \in Requests : Step(r) \/ CutOff(r)
      BY <1>1, <2>1, StepRespects DEF Known
    <2>2. CASE req' = req
      BY <1>1, <2>2
    <2>3. CASE \E r \in Requests, k \in Keys, revision \in 1..action.revision :
                 \/ ApproveRun(r, k, revision) \/ RollbackChangeSet(r, k, revision)
                 \/ ApproveAction(r, k, revision) \/ UndoAction(r, k, revision)
      <3>1. book' = book
        BY <2>3 DEF ApproveRun, RollbackChangeSet, ApproveAction, UndoAction, Arrives
      <3> QED  BY <3>1, SameRespects
    <2> QED
      BY <1>1, <2>1, <2>2, <2>3
      DEF Next, vars, CancelRun, supersedePendingAgentRuns, OthersWrite, OthersEdit, OthersRestructure
  <1>2. Known /\ [Next]_vars
        => ((\E r \in Requests : req[r] # Idle /\ req'[r] # req[r]) =>
              /\ unusual \in SUBSET {"cellsOnly"} =>
                   \A t \in book.things \ book'.things : plan.tools[t.tool] = "object" => t.rev = 1
              /\ book.chart.by = "other" => book'.chart.by = "other"
              /\ book.cells = "other" => book'.cells = "other"
              /\ book.range = "theirs" => book'.range # "plain")
    BY <1>1 DEF Respects
  <1> QED  BY <1>2, KnownAlways, PTL DEF Spec, UndoTakesOnlyItsOwn

=============================================================================
