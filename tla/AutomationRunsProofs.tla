------------------------ MODULE AutomationRunsProofs ------------------------
(***************************************************************************)
(* For any number of automations, servers, requests and runs: the history  *)
(* of runs tells the truth, a run writes on the version it was computed    *)
(* from, a cause is served once and the rate limit is kept.  With one      *)
(* scheduler, a due time is given up only when its run is finished, or     *)
(* when the lookup of the run has failed.                                  *)
(***************************************************************************)
EXTENDS AutomationRuns, TLAPS, FiniteSetTheorems, WellFoundedInduction

\* A row that counts was computed from what it read, a manual one from what was
\* reviewed; rows of schedules and only these carry a due time and its key.
RowIsSound(r) ==
    /\ r.status = "running" => r.counts
    /\ r.counts => /\ r.base <= r.read /\ r.read <= version
                   /\ r.kind = "manual" => r.preview = r.base
    /\ r.kind = "schedule" => r.due # None /\ r.key = Key("schedule", r.due)
    /\ r.key.use = "schedule" \/ r.due # None => r.kind = "schedule"

RowsAreSound == \A i \in DOMAIN runs : RowIsSound(runs[i])

\* The unique indexes of automation_runs.
DifferentCause(r, s) ==
    r.auto = s.auto =>
        /\ r.key # s.key
        /\ r.due # s.due \/ r.due = None
        /\ r.op # s.op \/ r.op = 0

RowsAreDistinct ==
    \A i, j \in DOMAIN runs : i # j => DifferentCause(runs[i], runs[j])

\* The log names runs that were executed, each of them once for each purpose, and a run on
\* the version it read.
EntriesAreSound ==
    /\ \A v \in DOMAIN log : log[v].by # "user" =>
          /\ log[v].run \in DOMAIN runs
          /\ log[v].by = "run" =>
                /\ runs[log[v].run].counts /\ runs[log[v].run].status # "skipped"
                /\ runs[log[v].run].read = v - 1
                /\ runs[log[v].run].kind = "manual" => runs[log[v].run].preview = v - 1
    /\ \A v, u \in DOMAIN log : v # u /\ log[v].by # "user" => log[v] # log[u]

\* Run i has not written and never will.
Spent(i) == ~Logged("run", i) /\ (runs[i].base < version \/ runs[i].base \in Refused)

\* What a recorded outcome says about the log.
OutcomeIsTrue(i) ==
    /\ runs[i].status \in {"succeeded", "undoing", "undone"} => Logged("run", i)
    /\ runs[i].status = "failed" /\ runs[i].counts /\ present => Spent(i)
    /\ runs[i].status = "undone" => Logged("undo", i)

Outcomes == \A i \in DOMAIN runs : OutcomeIsTrue(i)

\* Which worker makes which call, and which steps a call of each kind takes.
OfWorker(w, c) ==
    /\ c.kind = "schedule" => /\ w \in Schedulers /\ c.due # None /\ c.due <= c.at
                              /\ c.key = Key("schedule", c.due) /\ c.op = 0
    /\ c.kind # "schedule" => w \in Callers /\ c.due = None /\ c.key.use # "schedule"
    /\ (c.kind = "undo") <=> (c.phase \in {"undoing", "undone", "notundone"})
    /\ c.phase \in {"ok", "unrecorded"} => c.kind = "schedule"
    /\ c.phase = "error" => c.kind \in {"schedule", "cell_change"}
    /\ c.phase = "list" => c.kind = "cell_change"

\* What a call has read so far.
Reads(c) ==
    /\ c.phase \in {"read", "range", "insert"} /\ c.kind = "manual" => c.preview = c.base
    /\ c.phase = "range" => c.base <= version
    /\ c.phase = "insert" => c.base <= c.read /\ c.read <= version

\* The run a call executes or undoes, and what it has found out about it.
Executes(c) ==
    /\ c.phase \in {"execute", "record", "refused"} =>
          /\ c.run \in DOMAIN runs
          /\ runs[c.run].counts /\ runs[c.run].status # "skipped"
          /\ c.kind = "schedule" => runs[c.run].auto = c.auto /\ runs[c.run].due = c.due
    /\ c.phase \in {"undoing", "undone", "notundone"} => c.run \in DOMAIN runs
    /\ c.phase = "record" => Logged("run", c.run)
    /\ c.phase = "refused" /\ present => Spent(c.run)
    /\ c.phase = "undone" => Logged("undo", c.run)

OneScheduler == \A v, w \in Schedulers : v = w

\* A due time that a call may pass: its run is finished, or it is on record and the call
\* could not look at it.
Passable(c) == Finished(c.auto, c.due) \/ (c.why = "blind" /\ Recorded(c.auto, c.due))

\* Where there is one scheduler, a due time that it is done with may be passed, and one
\* whose run it has looked for in vain has none.
Settles(c) ==
    OneScheduler =>
        /\ c.phase = "ok" => Passable(c)
        /\ c.phase = "unrecorded" => c.why = "blind" \/ SameDue(c) = {}

Sound(w, c) == OfWorker(w, c) /\ Reads(c) /\ Executes(c) /\ Settles(c)

CallsAreSound == \A w \in Workers : call[w] # Idle => Sound(w, call[w])

Tables ==
    /\ RowsAreSound
    /\ RowsAreDistinct
    /\ EntriesAreSound
    /\ Outcomes
    /\ RateIsKept

\* The inductive invariant.
Inv == TypeOK /\ Tables /\ CallsAreSound

-----------------------------------------------------------------------------
(***************************************************************************)
(* What every step leaves true                                             *)
(***************************************************************************)

\* A row stays what it is but for its outcome, which is never taken back.
SameRow(r, s) ==
    /\ s.auto = r.auto /\ s.kind = r.kind /\ s.key = r.key /\ s.op = r.op /\ s.due = r.due
    /\ s.base = r.base /\ s.started = r.started /\ s.admitted = r.admitted /\ s.counts = r.counts
    /\ s.preview = r.preview /\ s.read = r.read
    /\ s.status = r.status \/ (r.status # "skipped" /\ s.status \notin {"skipped", "running"})

\* Rows and entries are kept, the sheet does not come back, and a run writes only
\* on its own version.
Later ==
    /\ \A i \in DOMAIN runs : i \in DOMAIN runs' /\ SameRow(runs[i], runs'[i])
    /\ \A v \in DOMAIN log : v \in DOMAIN log' /\ log'[v] = log[v]
    /\ present' => present
    /\ Len(log) <= Len(log')
    /\ \A i \in DOMAIN runs : Logged("run", i)' /\ ~Logged("run", i) =>
          runs[i].base = version /\ version \notin Refused

\* What the log says it says for ever,
LEMMA LoggedIsKept ==
    ASSUME Later, NEW by, NEW i, Logged(by, i)
    PROVE  Logged(by, i)'
  BY DEF Later, Logged

\* and a run that has missed its chance has missed it for ever.
LEMMA SpentIsKept ==
    ASSUME TypeOK, Later, NEW i \in DOMAIN runs, Spent(i)
    PROVE  Spent(i)'
  <1>1. ~Logged("run", i)'
    <2> SUFFICES ASSUME Logged("run", i)' PROVE FALSE
      OBVIOUS
    <2>1. runs[i].base = version /\ version \notin Refused
      BY DEF Later, Spent
    <2> QED  BY <2>1 DEF Spent, version, TypeOK
  <1>2. runs'[i].base = runs[i].base /\ runs[i].base \in Nat
    <2>1. runs[i] \in Runs
      BY DEF TypeOK
    <2> QED  BY <2>1 DEF Later, SameRow, Runs
  <1>3. version \in Int /\ version' \in Int /\ version <= version'
    BY DEF Later, version, TypeOK
  <1> QED  BY <1>1, <1>2, <1>3 DEF Spent

\* A finished run stays finished, and a due time that may be passed stays so.
LEMMA FinishedIsKept ==
    ASSUME Later, NEW a, NEW due
    PROVE  /\ Finished(a, due) => Finished(a, due)'
           /\ Recorded(a, due) => Recorded(a, due)'
  BY DEF Finished, Recorded, Later, SameRow

LEMMA PassableIsKept ==
    ASSUME Later, NEW c, Passable(c)
    PROVE  Passable(c)'
  BY FinishedIsKept DEF Passable

\* Rows of schedules are only added by w.
DueRowsOnlyBy(w) ==
    \A i \in DOMAIN runs' : i \in DOMAIN runs \/ runs'[i].due = None \/ w \in Schedulers

\* What a call knows stays true while others act.
LEMMA SoundIsKept ==
    ASSUME TypeOK, Later, Len(log') \in Int, NEW w, NEW c \in Calls, Sound(w, c),
           NEW v, DueRowsOnlyBy(v), v # w \/ runs' = runs
    PROVE  Sound(w, c)'
  <1>1. /\ c.base \in Nat /\ c.read \in Nat /\ version \in Nat /\ version' \in Int
        /\ version <= version'
    <2>1. c.base \in Nat /\ c.read \in Nat
      BY DEF Calls
    <2> QED  BY <2>1 DEF TypeOK, Later, version
  <1>2. OfWorker(w, c)' /\ Reads(c)'
    BY <1>1 DEF Sound, OfWorker, Reads
  <1>3. Executes(c)'
    <2> DEFINE i == c.run
    <2>1. CASE i \in DOMAIN runs
      <3>1. i \in DOMAIN runs' /\ SameRow(runs[i], runs'[i])
        BY <2>1 DEF Later
      <3>2. \A by : Logged(by, i) => Logged(by, i)'
        BY LoggedIsKept
      <3>3. Spent(i) => Spent(i)'
        BY <2>1, SpentIsKept
      <3>4. present' => present
        BY DEF Later
      <3> QED  BY <2>1, <3>1, <3>2, <3>3, <3>4 DEF Sound, Executes, SameRow
    <2>2. CASE i \notin DOMAIN runs
      <3>1. c.phase \notin {"execute", "record", "refused", "undoing", "undone", "notundone"}
        BY <2>2 DEF Sound, Executes
      <3> QED  BY <3>1 DEF Executes
    <2> QED  BY <2>1, <2>2
  <1>4. Settles(c)'
    <2> SUFFICES ASSUME OneScheduler PROVE Settles(c)'
      BY DEF Settles
    <2>1. c.phase = "ok" => Passable(c)'
      BY PassableIsKept DEF Sound, Settles
    <2>2. ASSUME c.phase = "unrecorded", c.why # "blind" PROVE SameDue(c)' = {}
      <3>1. w \in Schedulers /\ SameDue(c) = {}
        BY <2>2 DEF Sound, OfWorker, Settles
      <3>2. \A i \in DOMAIN runs' : i \in DOMAIN runs \/ runs'[i].due = None
        BY <3>1 DEF DueRowsOnlyBy, OneScheduler
      <3>3. \A i \in DOMAIN runs : runs'[i].auto = runs[i].auto /\ runs'[i].due = runs[i].due
        BY DEF Later, SameRow
      <3> QED  BY <3>1, <3>2, <3>3 DEF SameDue
    <2> QED  BY <2>1, <2>2 DEF Settles
  <1> QED  BY <1>2, <1>3, <1>4 DEF Sound

\* One worker's call changes; the others go on.
LEMMA OthersGoOn ==
    ASSUME Inv, Later, Len(log') \in Int, NEW w \in Workers, NEW c \in Calls \cup {Idle},
           call' = [call EXCEPT ![w] = c], c # Idle => Sound(w, c)', DueRowsOnlyBy(w)
    PROVE  CallsAreSound' /\ call' \in [Workers -> Calls \cup {Idle}]
  <1>1. call \in [Workers -> Calls \cup {Idle}]
    BY DEF Inv, TypeOK
  <1>2. call' \in [Workers -> Calls \cup {Idle}]
    BY <1>1
  <1>3. ASSUME NEW v \in Workers, call'[v] # Idle
        PROVE  Sound(v, call[v])'
    <2>1. CASE v = w
      <3>1. call'[v] = c
        BY <1>1, <2>1
      <3> QED  BY <1>3, <2>1, <3>1
    <2>2. CASE v # w
      <3>1. call'[v] = call[v]
        BY <1>1, <2>2
      <3>2. call[v] \in Calls /\ Sound(v, call[v])
        BY <1>1, <1>3, <3>1 DEF Inv, CallsAreSound
      <3> DEFINE d == call[v]
      <3>3. \A x : x = d => Sound(v, x)'
        BY <2>2, <3>2, SoundIsKept DEF Inv
      <3> QED  BY <3>1, <3>3
    <2> QED  BY <2>1, <2>2
  <1>4. CallsAreSound'
    BY <1>3 DEF CallsAreSound
  <1> QED  BY <1>2, <1>4

-----------------------------------------------------------------------------
(***************************************************************************)
(* What a step may do to the tables                                        *)
(***************************************************************************)

\* The tables in numbers.
LEMMA TableTypes ==
    ASSUME TypeOK
    PROVE  /\ runs \in Seq(Runs) /\ Len(runs) \in Nat /\ DOMAIN runs = 1..Len(runs)
           /\ \A i \in DOMAIN runs : runs[i] \in Runs
           /\ log \in Seq(Entries) /\ version \in Nat /\ DOMAIN log = 1..version
           /\ \A v \in DOMAIN log : log[v] \in Entries
  BY DEF TypeOK, version

\* Nothing is written.
LEMMA NothingWritten ==
    ASSUME Inv, UNCHANGED <<runs, log>>, present' => present
    PROVE  Later /\ Tables'
  <1>1. \A by, i : Logged(by, i)' <=> Logged(by, i)
    BY DEF Logged
  <1>2. Later
    BY <1>1, TableTypes DEF Later, SameRow, Inv, version
  <1>3. Outcomes'
    BY <1>1 DEF Inv, Tables, Outcomes, OutcomeIsTrue, Spent, version
  <1>4. RowsAreSound' /\ RowsAreDistinct' /\ EntriesAreSound' /\ RateIsKept'
    BY DEF Inv, Tables, RowsAreSound, RowIsSound, RowsAreDistinct, EntriesAreSound, RateIsKept, version
  <1> QED  BY <1>2, <1>3, <1>4 DEF Tables

\* The runs stamped at t or later and admitted within the hour after t.
InWindow(r, t) == r.counts /\ r.started >= t /\ r.admitted <= t + Hour

Window(t) == {i \in DOMAIN runs : InWindow(runs[i], t)}

\* A new row whose cause is new.
LEMMA RowInserted ==
    ASSUME Inv, NEW r \in Runs, runs' = Append(runs, r), UNCHANGED <<log, present>>,
           r.status \in {"running", "skipped", "failed"}, r.status = "failed" => ~r.counts,
           RowIsSound(r), \A i \in DOMAIN runs : DifferentCause(runs[i], r),
           r.counts => Cardinality(Recent(r.admitted)) < RunsPerHour
    PROVE  /\ Later /\ Tables' /\ runs' \in Seq(Runs)
           /\ Len(runs) + 1 \in Nat /\ runs'[Len(runs) + 1] = r
           /\ DOMAIN runs' = DOMAIN runs \cup {Len(runs) + 1}
  <1> DEFINE n == Len(runs) + 1
  <1>1. /\ runs \in Seq(Runs) /\ Len(runs) \in Nat /\ DOMAIN runs = 1..Len(runs)
        /\ version \in Nat /\ \A i \in DOMAIN runs : runs[i] \in Runs
    BY TableTypes DEF Inv
  <1>2. /\ runs' \in Seq(Runs) /\ DOMAIN runs' = DOMAIN runs \cup {n} /\ n \notin DOMAIN runs
        /\ runs'[n] = r /\ \A i \in DOMAIN runs : runs'[i] = runs[i]
    BY <1>1
  <1>3. \A by, i : Logged(by, i)' <=> Logged(by, i)
    BY DEF Logged
  <1>4. Later
    BY <1>1, <1>2, <1>3 DEF Later, SameRow, version
  <1>5. RowsAreSound'
    BY <1>2 DEF Inv, Tables, RowsAreSound, RowIsSound, version
  <1>6. RowsAreDistinct'
    BY <1>2 DEF Inv, Tables, RowsAreDistinct, DifferentCause
  <1>7. EntriesAreSound'
    BY <1>2 DEF Inv, Tables, EntriesAreSound
  <1>8. Outcomes'
    <2>1. \A i \in DOMAIN runs : OutcomeIsTrue(i)'
      BY <1>2, <1>3 DEF Inv, Tables, Outcomes, OutcomeIsTrue, Spent, version
    <2>2. \A i : i = n => OutcomeIsTrue(i)'
      BY <1>2 DEF OutcomeIsTrue
    <2> QED  BY <1>2, <2>1, <2>2 DEF Outcomes
  <1>9. RateIsKept'
    <2> SUFFICES ASSUME NEW t \in 0..MaxTime
                 PROVE  Cardinality(Window(t)') <= RunsPerHour
      BY DEF RateIsKept, Window, InWindow
    <2>1. /\ t \in Nat /\ Hour \in Nat \ {0} /\ RunsPerHour \in Nat \ {0}
      BY NumbersAssumption
    <2>2. Cardinality(Window(t)) <= RunsPerHour
      BY DEF Inv, Tables, RateIsKept, Window, InWindow
    <2>3. IsFiniteSet(DOMAIN runs)
      BY <1>1, FS_Interval
    <2>4. IsFiniteSet(Window(t)) /\ IsFiniteSet(Recent(r.admitted))
      BY <2>3, FS_Subset DEF Window, Recent
    <2>5. CASE ~InWindow(r, t)
      <3>1. Window(t)' = Window(t)
        BY <1>2, <2>5 DEF Window, InWindow
      <3> QED  BY <2>2, <3>1
    <2>6. CASE InWindow(r, t)
      <3>1. Window(t)' = Window(t) \cup {n} /\ n \notin Window(t)
        BY <1>2, <2>6 DEF Window, InWindow
      <3>2. Cardinality(Window(t)') = Cardinality(Window(t)) + 1
        BY <2>4, <3>1, FS_AddElement
      <3>3. Window(t) \subseteq Recent(r.admitted)
        <4>1. ASSUME NEW i \in Window(t)
              PROVE  i \in Recent(r.admitted)
          <5>1. i \in DOMAIN runs /\ runs[i].counts /\ runs[i].started >= t
            BY DEF Window, InWindow
          <5>2. r.admitted <= t + Hour
            BY <2>6 DEF InWindow
          <5>3. r.admitted \in Int /\ runs[i].started \in Int
            BY <1>1, <5>1, NumbersAssumption DEF Runs
          <5>4. runs[i].started >= r.admitted - Hour
            BY <2>1, <5>1, <5>2, <5>3
          <5> QED  BY <5>1, <5>4 DEF Recent
        <4> QED  BY <4>1
      <3>4. Cardinality(Window(t)) <= Cardinality(Recent(r.admitted))
        BY <2>4, <3>3, FS_Subset
      <3>5. Cardinality(Window(t)) \in Nat /\ Cardinality(Recent(r.admitted)) \in Nat
        BY <2>4, FS_CardinalityType
      <3>6. Cardinality(Recent(r.admitted)) < RunsPerHour
        BY <2>6 DEF InWindow
      <3> QED  BY <2>1, <3>2, <3>4, <3>5, <3>6
    <2> QED  BY <2>5, <2>6
  <1> QED  BY <1>1, <1>2, <1>4, <1>5, <1>6, <1>7, <1>8, <1>9 DEF Tables

\* A new outcome of run i that the log bears out.
LEMMA OutcomeRecorded ==
    ASSUME Inv, NEW i \in DOMAIN runs, NEW r \in Runs, runs' = [runs EXCEPT ![i] = r],
           SameRow(runs[i], r), UNCHANGED <<log, present>>,
           r.status \in {"succeeded", "undoing", "undone"} => Logged("run", i),
           r.status = "failed" /\ r.counts /\ present => Spent(i),
           r.status = "undone" => Logged("undo", i)
    PROVE  Later /\ Tables' /\ runs' \in Seq(Runs)
  <1>1. /\ runs \in Seq(Runs) /\ Len(runs) \in Nat /\ DOMAIN runs = 1..Len(runs)
        /\ version \in Nat
    BY TableTypes DEF Inv
  <1>2. /\ runs' \in Seq(Runs) /\ DOMAIN runs' = DOMAIN runs /\ runs'[i] = r
        /\ \A j \in DOMAIN runs : j # i => runs'[j] = runs[j]
    BY <1>1
  <1>3. \A j \in DOMAIN runs : SameRow(runs[j], runs'[j])
    BY <1>2 DEF SameRow
  <1>4. \A by, j : Logged(by, j)' <=> Logged(by, j)
    BY DEF Logged
  <1>5. Later
    BY <1>1, <1>2, <1>3, <1>4 DEF Later, version
  <1>6. RowsAreSound' /\ RowsAreDistinct'
    BY <1>2, <1>3 DEF Inv, Tables, RowsAreSound, RowIsSound, RowsAreDistinct, DifferentCause,
                      SameRow, version
  <1>7. EntriesAreSound'
    BY <1>2, <1>3 DEF Inv, Tables, EntriesAreSound, SameRow
  <1>8. Outcomes'
    <2>1. ASSUME NEW j \in DOMAIN runs PROVE Spent(j)' <=> Spent(j)
      BY <1>3, <1>4 DEF Spent, SameRow, version
    <2>2. ASSUME NEW j \in DOMAIN runs PROVE OutcomeIsTrue(j)'
      <3>1. CASE j = i
        BY <1>2, <1>4, <2>1, <3>1 DEF OutcomeIsTrue
      <3>2. CASE j # i
        BY <1>2, <1>4, <2>1, <3>2 DEF OutcomeIsTrue, Inv, Tables, Outcomes
      <3> QED  BY <3>1, <3>2
    <2> QED  BY <1>2, <2>2 DEF Outcomes
  <1>9. RateIsKept'
    <2>1. \A t : Window(t)' = Window(t)
      BY <1>2, <1>3 DEF Window, InWindow, SameRow
    <2> QED  BY <2>1 DEF Inv, Tables, RateIsKept, Window, InWindow
  <1> QED  BY <1>2, <1>5, <1>6, <1>7, <1>8, <1>9 DEF Tables

\* A new entry of the log: a run on the version it was computed from, or an undo, each
\* for the first time, or an operation of a user.
LEMMA EntryAppended ==
    ASSUME Inv, NEW by \in {"user", "run", "undo"}, NEW k \in Nat,
           log' = Append(log, [by |-> by, run |-> k]),
           UNCHANGED runs, present' => present,
           by # "user" => k \in DOMAIN runs /\ ~Logged(by, k),
           by = "run" => /\ runs[k].counts /\ runs[k].status # "skipped"
                         /\ runs[k].base = version /\ version \notin Refused
    PROVE  /\ Later /\ Tables' /\ log' \in Seq(Entries)
           /\ \A i : i = k => Logged(by, i)'
  <1> DEFINE e == [by |-> by, run |-> k]
             n == version + 1
  <1>1. /\ log \in Seq(Entries) /\ version \in Nat /\ DOMAIN log = 1..version
        /\ \A v \in DOMAIN log : log[v] \in Entries
        /\ \A i \in DOMAIN runs : runs[i] \in Runs
    BY TableTypes DEF Inv
  <1>2. e \in Entries /\ e.by = by /\ e.run = k
    BY DEF Entries
  <1> HIDE DEF e
  <1>3. /\ log' \in Seq(Entries) /\ DOMAIN log' = DOMAIN log \cup {n} /\ n \notin DOMAIN log
        /\ log'[n] = e /\ \A v \in DOMAIN log : log'[v] = log[v]
        /\ version' = n
    BY <1>1, <1>2 DEF version, e
  <1>4. \A by1, i : Logged(by1, i)' <=> Logged(by1, i) \/ e = [by |-> by1, run |-> i]
    BY <1>3 DEF Logged
  <1>5. \A by1, i : e = [by |-> by1, run |-> i] => by1 = by /\ i = k
    BY <1>2
  <1>6. Later
    <2>1. \A i \in DOMAIN runs : Logged("run", i)' /\ ~Logged("run", i) =>
             runs[i].base = version /\ version \notin Refused
      BY <1>4, <1>5
    <2> QED  BY <1>1, <1>3, <2>1 DEF Later, SameRow, version
  <1>7. RowsAreSound' /\ RowsAreDistinct' /\ RateIsKept'
    <2>1. \A i \in DOMAIN runs : runs[i].read \in Nat
      BY <1>1 DEF Runs
    <2> QED  BY <1>1, <1>3, <2>1 DEF Inv, Tables, RowsAreSound, RowIsSound, RowsAreDistinct, RateIsKept
  <1>8. EntriesAreSound'
    <2>1. \A v \in DOMAIN log' : log'[v].by # "user" =>
             /\ log'[v].run \in DOMAIN runs
             /\ log'[v].by = "run" =>
                   /\ runs[log'[v].run].counts /\ runs[log'[v].run].status # "skipped"
                   /\ runs[log'[v].run].read = v - 1
                   /\ runs[log'[v].run].kind = "manual" => runs[log'[v].run].preview = v - 1
      <3>1. by = "run" => runs[k].read = n - 1 /\ (runs[k].kind = "manual" => runs[k].preview = n - 1)
        <4> SUFFICES ASSUME by = "run" PROVE runs[k].read = n - 1 /\ (runs[k].kind = "manual" => runs[k].preview = n - 1)
          OBVIOUS
        <4>1. RowIsSound(runs[k]) /\ runs[k] \in Runs
          BY <1>1 DEF Inv, Tables, RowsAreSound
        <4>2. runs[k].read \in Nat
          BY <4>1 DEF Runs
        <4> QED  BY <1>1, <4>1, <4>2 DEF RowIsSound
      <3> QED  BY <1>1, <1>2, <1>3, <3>1 DEF Inv, Tables, EntriesAreSound
    <2>2. ASSUME by # "user", NEW v \in DOMAIN log PROVE log[v] # e
      BY <2>2 DEF Logged, e
    <2>3. \A v, u \in DOMAIN log' : v # u /\ log'[v].by # "user" => log'[v] # log'[u]
      BY <1>2, <1>3, <2>2 DEF Inv, Tables, EntriesAreSound
    <2> QED  BY <2>1, <2>3 DEF EntriesAreSound
  <1>9. Outcomes'
    <2>1. ASSUME NEW i \in DOMAIN runs PROVE OutcomeIsTrue(i)'
      <3>1. OutcomeIsTrue(i)
        BY DEF Inv, Tables, Outcomes
      <3>2. Spent(i) => Spent(i)'
        BY <1>6, SpentIsKept DEF Inv
      <3> QED  BY <1>4, <3>1, <3>2 DEF OutcomeIsTrue
    <2> QED  BY <2>1 DEF Outcomes
  <1>10. \A i : i = k => Logged(by, i)'
    BY <1>4 DEF e
  <1> QED  BY <1>3, <1>6, <1>7, <1>8, <1>9, <1>10 DEF Tables

-----------------------------------------------------------------------------
(***************************************************************************)
(* What a call turns into                                                  *)
(***************************************************************************)

Reasons == {"", "quiet", "rate", "other"}

LEMMA ZeroTime == 0 \in 0..MaxTime /\ 0 \in Nat
  BY NumbersAssumption

\* Calls that hold nothing but their cause are sound whatever the tables say.
LEMMA LightCall ==
    ASSUME NEW w, NEW c, OfWorker(w, c), c.phase \in {"list", "error"}
    PROVE  Sound(w, c) /\ Sound(w, c)'
  BY DEF Sound, OfWorker, Reads, Executes, Settles

\* A scheduler is done with a due time whose run is finished.
LEMMA DoneCall ==
    ASSUME NEW w, NEW c, OfWorker(w, c), c.phase = "ok",
           OneScheduler => Passable(c)'
    PROVE  Sound(w, c)'
  BY DEF Sound, OfWorker, Reads, Executes, Settles

\* A step of a call to another phase, nothing else changed.
LEMMA PhaseFields ==
    ASSUME NEW c \in Calls, NEW p \in Phases
    PROVE  LET d == [c EXCEPT !.phase = p]
           IN  /\ d \in Calls /\ d # Idle /\ d.phase = p /\ d.kind = c.kind /\ d.auto = c.auto
               /\ d.key = c.key /\ d.base = c.base /\ d.due = c.due /\ d.op = c.op /\ d.run = c.run
               /\ d.at = c.at /\ d.why = c.why
               /\ d.preview = c.preview /\ d.read = c.read /\ d.skip = c.skip
  <1> DEFINE d == [c EXCEPT !.phase = p]
  <1>1. /\ d \in Calls /\ d.phase = p /\ d.kind = c.kind /\ d.auto = c.auto
        /\ d.key = c.key /\ d.base = c.base /\ d.due = c.due /\ d.op = c.op /\ d.run = c.run
        /\ d.at = c.at /\ d.why = c.why
        /\ d.preview = c.preview /\ d.read = c.read /\ d.skip = c.skip
    BY DEF Calls
  <1>2. d # Idle
    BY <1>1 DEF Calls, Idle, Phases
  <1> QED  BY <1>1, <1>2

\* A call that has failed,
LEMMA FailedCallIs ==
    ASSUME NEW w, NEW c \in Calls, OfWorker(w, c), NEW why \in Reasons
    PROVE  LET d == FailedCall(c, why)
           IN  \/ d = Idle
               \/ /\ d \in Calls /\ OfWorker(w, d) /\ d.phase = "error"
                  /\ d.kind = c.kind /\ d.auto = c.auto /\ d.due = c.due
  <1> DEFINE d == [c EXCEPT !.phase = "error", !.why = why, !.base = 0, !.preview = 0,
                            !.read = 0, !.stamp = 0, !.skip = FALSE]
  <1>1. /\ d \in Calls /\ d.phase = "error" /\ d.kind = c.kind /\ d.key = c.key
        /\ d.due = c.due /\ d.op = c.op /\ d.at = c.at /\ d.auto = c.auto
    BY ZeroTime DEF Calls, Phases, Reasons
  <1> HIDE DEF d
  <1>2. CASE c.kind = "schedule" \/ (c.kind = "cell_change" /\ why # "quiet")
    <2>1. FailedCall(c, why) = d
      BY <1>2 DEF FailedCall, d
    <2>2. OfWorker(w, d)
      BY <1>1, <1>2 DEF OfWorker
    <2> QED  BY <1>1, <2>1, <2>2
  <1>3. CASE ~(c.kind = "schedule" \/ (c.kind = "cell_change" /\ why # "quiet"))
    BY <1>3 DEF FailedCall
  <1> QED  BY <1>2, <1>3

\* one that has succeeded,
LEMMA SucceededIs ==
    ASSUME NEW w, NEW c \in Calls, OfWorker(w, c)
    PROVE  LET d == Succeeded(c)
           IN  \/ d = Idle
               \/ /\ d \in Calls /\ OfWorker(w, d) /\ d.phase = "ok"
                  /\ d.kind = c.kind /\ d.auto = c.auto /\ d.due = c.due /\ d.why = c.why
  <1> DEFINE d == [c EXCEPT !.phase = "ok"]
  <1>1. /\ d \in Calls /\ d.phase = "ok" /\ d.kind = c.kind /\ d.key = c.key
        /\ d.due = c.due /\ d.op = c.op /\ d.at = c.at /\ d.auto = c.auto /\ d.why = c.why
    BY DEF Calls, Phases
  <1> HIDE DEF d
  <1>2. c.kind = "schedule" => OfWorker(w, d)
    BY <1>1 DEF OfWorker
  <1> QED  BY <1>1, <1>2 DEF Succeeded, d

\* and one that goes on to execute run i.
LEMMA ExecutingIs ==
    ASSUME NEW w, NEW c \in Calls, OfWorker(w, c), c.kind # "undo", NEW i \in Nat
    PROVE  LET d == Executing(c, i)
           IN  /\ d \in Calls /\ OfWorker(w, d) /\ d.phase = "execute" /\ d.run = i
               /\ d.kind = c.kind /\ d.auto = c.auto /\ d.due = c.due
  <1> DEFINE d == Executing(c, i)
  <1>1. /\ d \in Calls /\ d.phase = "execute" /\ d.kind = c.kind /\ d.key = c.key
        /\ d.due = c.due /\ d.op = c.op /\ d.at = c.at /\ d.auto = c.auto /\ d.run = i
    BY ZeroTime DEF Calls, Phases, Executing
  <1> HIDE DEF d
  <1>2. OfWorker(w, d)
    BY <1>1 DEF OfWorker
  <1> QED  BY <1>1, <1>2 DEF d

\* The run that a call finds has its cause.
LEMMA FoundRun ==
    ASSUME Inv, NEW w, NEW c \in Calls, OfWorker(w, c), NEW i \in SameCause(c)
    PROVE  /\ i \in DOMAIN runs /\ i \in Nat /\ runs[i] \in Runs /\ runs[i].auto = c.auto
           /\ c.kind = "schedule" => runs[i].due = c.due
           /\ runs[i].status = "running" => runs[i].counts
  <1>1. i \in DOMAIN runs /\ i \in Nat /\ runs[i] \in Runs /\ runs[i].auto = c.auto
    BY TableTypes DEF SameCause, SameKey, SameDue, SameOp, Inv
  <1>2. RowIsSound(runs[i])
    BY <1>1 DEF Inv, Tables, RowsAreSound
  <1>3. c.kind = "schedule" => runs[i].due = c.due
    <2> SUFFICES ASSUME c.kind = "schedule", runs[i].due # c.due PROVE FALSE
      OBVIOUS
    <2>1. c.key = Key("schedule", c.due) /\ c.op = 0
      BY DEF OfWorker
    <2>2. runs[i].key = c.key
      BY <2>1 DEF SameCause, SameKey, SameDue, SameOp
    <2>3. c.key.use = "schedule" /\ c.key.n = c.due
      BY <2>1 DEF Key
    <2>4. runs[i].key = Key("schedule", runs[i].due)
      BY <1>2, <2>2, <2>3 DEF RowIsSound
    <2>5. runs[i].key.n = runs[i].due
      BY <2>4 DEF Key
    <2> QED  BY <2>2, <2>3, <2>5
  <1> QED  BY <1>1, <1>2, <1>3 DEF RowIsSound

\* Going on with a run that was found, or repeating its answer.
LEMMA ResumedIs ==
    ASSUME Inv, NEW w, NEW c \in Calls, OfWorker(w, c), c.kind # "undo", NEW i \in SameCause(c)
    PROVE  LET d == Resumed(c, i)
           IN  \/ d = Idle
               \/ /\ d \in Calls /\ Sound(w, d) /\ d.phase \in {"execute", "error", "ok"}
                  /\ d.phase = "ok" => Passable(d)
  <1> DEFINE d == Resumed(c, i)
  <1>1. /\ i \in DOMAIN runs /\ i \in Nat /\ runs[i].auto = c.auto
        /\ c.kind = "schedule" => runs[i].due = c.due
        /\ runs[i].status = "running" => runs[i].counts
    BY FoundRun
  <1>2. CASE runs[i].status = "running"
    <2>1. d = Executing(c, i)
      BY <1>2 DEF Resumed
    <2>2. /\ d \in Calls /\ OfWorker(w, d) /\ d.phase = "execute" /\ d.run = i
          /\ d.kind = c.kind /\ d.auto = c.auto /\ d.due = c.due
      BY <1>1, <2>1, ExecutingIs
    <2> HIDE DEF d
    <2>3. Sound(w, d)
      BY <1>1, <1>2, <2>2 DEF Sound, Reads, Executes, Settles
    <2> QED  BY <2>2, <2>3 DEF d
  <1>3. CASE runs[i].status = "failed"
    <2>1. d = FailedCall(c, "other")
      BY <1>3 DEF Resumed
    <2>2. \/ d = Idle
          \/ d \in Calls /\ OfWorker(w, d) /\ d.phase = "error"
      BY <2>1, FailedCallIs DEF Reasons
    <2> HIDE DEF d
    <2>3. d # Idle => Sound(w, d)
      BY <2>2 DEF Sound, Reads, Executes, Settles
    <2> QED  BY <2>2, <2>3 DEF d
  <1>4. CASE runs[i].status \notin {"running", "failed"}
    <2>1. d = Succeeded(c)
      BY <1>4 DEF Resumed
    <2>2. \/ d = Idle
          \/ /\ d \in Calls /\ OfWorker(w, d) /\ d.phase = "ok"
             /\ d.kind = c.kind /\ d.auto = c.auto /\ d.due = c.due
      BY <2>1, SucceededIs
    <2> HIDE DEF d
    <2>3. d # Idle => Finished(d.auto, d.due)
      BY <1>1, <1>4, <2>2 DEF Finished, OfWorker
    <2>4. d # Idle => Sound(w, d)
      BY <2>2, <2>3 DEF Sound, Reads, Executes, Settles, Passable
    <2> QED  BY <2>2, <2>3, <2>4 DEF d, Passable
  <1> QED  BY <1>2, <1>3, <1>4

\* Looking for an earlier run of the same cause.
LEMMA LookedUpIs ==
    ASSUME Inv, NEW w, NEW c \in Calls, Sound(w, c), c.kind # "undo"
    PROVE  LET d == LookedUp(c)
           IN  \/ d = Idle
               \/ d = c /\ SameCause(c) = {}
               \/ /\ d \in Calls /\ Sound(w, d) /\ d.phase \in {"execute", "error", "ok"}
                  /\ d.phase = "ok" => Passable(d)
  <1> DEFINE d == LookedUp(c)
             i == CHOOSE i \in SameCause(c) : TRUE
  <1>1. CASE SameCause(c) = {}
    BY <1>1 DEF LookedUp
  <1>2. CASE SameCause(c) # {}
    <2>1. i \in SameCause(c)
      BY <1>2
    <2>2. d = IF runs[i].kind = c.kind THEN Resumed(c, i) ELSE FailedCall(c, "other")
      BY <1>2 DEF LookedUp
    <2> HIDE DEF i
    <2>3. CASE d = Resumed(c, i)
      <3>1. OfWorker(w, c)
        BY DEF Sound
      <3> HIDE DEF d
      <3> QED  BY <2>1, <2>3, <3>1, ResumedIs DEF d
    <2>4. CASE d = FailedCall(c, "other")
      <3>1. \/ d = Idle
            \/ d \in Calls /\ OfWorker(w, d) /\ d.phase = "error"
        BY <2>4, FailedCallIs DEF Reasons, Sound
      <3> HIDE DEF d
      <3>2. d # Idle => Sound(w, d)
        BY <3>1 DEF Sound, Reads, Executes, Settles
      <3> QED  BY <3>1, <3>2 DEF d
    <2> QED  BY <2>2, <2>3, <2>4
  <1> QED  BY <1>1, <1>2

-----------------------------------------------------------------------------
(***************************************************************************)
(* The shapes of the steps                                                 *)
(***************************************************************************)

\* The types of what is not a table or a call.
SmallTypes ==
    /\ auto \in [Automations -> Definitions]
    /\ settled \subseteq Automations
    /\ present \in BOOLEAN
    /\ now \in 0..MaxTime
    /\ faults \in 0..MaxFaults

\* A step of one call.
LEMMA CallSteps ==
    ASSUME Inv, SmallTypes', Later, Tables', runs' \in Seq(Runs), log' \in Seq(Entries),
           NEW w \in Workers, DueRowsOnlyBy(w), NEW c \in Calls \cup {Idle},
           call' = [call EXCEPT ![w] = c], c # Idle => Sound(w, c)'
    PROVE  Inv'
  <1>1. Len(log') \in Int
    OBVIOUS
  <1>2. CallsAreSound' /\ call' \in [Workers -> Calls \cup {Idle}]
    BY <1>1, OthersGoOn
  <1> QED  BY <1>2 DEF Inv, TypeOK, SmallTypes

\* A step of one call that writes nothing.
LEMMA CallReads ==
    ASSUME Inv, SmallTypes', UNCHANGED <<runs, log, present>>,
           NEW w \in Workers, NEW c \in Calls \cup {Idle},
           call' = [call EXCEPT ![w] = c], c # Idle => Sound(w, c)
    PROVE  Inv'
  <1>1. Later /\ Tables' /\ runs' \in Seq(Runs) /\ log' \in Seq(Entries)
    BY NothingWritten DEF Inv, TypeOK
  <1>2. DueRowsOnlyBy(w) /\ Len(log') \in Int
    BY <1>1 DEF DueRowsOnlyBy
  <1>3. c # Idle => Sound(w, c)'
    BY <1>1, <1>2, SoundIsKept DEF Inv
  <1> QED  BY <1>1, <1>2, <1>3, CallSteps

\* A step outside the calls.
LEMMA NoCallSteps ==
    ASSUME Inv, SmallTypes', Later, Tables', log' \in Seq(Entries), UNCHANGED <<runs, call>>
    PROVE  Inv'
  <1>1. Len(log') \in Int /\ DueRowsOnlyBy(0)
    BY DEF DueRowsOnlyBy
  <1>2. call \in [Workers -> Calls \cup {Idle}] /\ runs \in Seq(Runs)
    BY DEF Inv, TypeOK
  <1>3. ASSUME NEW v \in Workers, call[v] # Idle
        PROVE  \A x : x = call[v] => Sound(v, x)'
    <2>1. call[v] \in Calls /\ Sound(v, call[v])
      BY <1>2, <1>3 DEF Inv, CallsAreSound
    <2> QED  BY <1>1, <2>1, SoundIsKept DEF Inv
  <1>4. CallsAreSound'
    BY <1>3 DEF CallsAreSound
  <1> QED  BY <1>2, <1>4 DEF Inv, TypeOK, SmallTypes

\* The call of a worker that is at some step.
LEMMA AtCall ==
    ASSUME Inv, NEW w \in Workers, NEW p, At(w, p)
    PROVE  /\ call[w] \in Calls /\ Sound(w, call[w]) /\ OfWorker(w, call[w])
           /\ call[w].phase = p /\ call[w].auto \in Automations
  <1>1. call[w] \in Calls /\ Sound(w, call[w]) /\ call[w].phase = p
    BY DEF Inv, TypeOK, CallsAreSound, At
  <1> QED  BY <1>1 DEF Sound, Calls

\* A call that fails leaves its worker sound in any state.
LEMMA FailSteps ==
    ASSUME NEW w, NEW c \in Calls, OfWorker(w, c), NEW why \in Reasons
    PROVE  LET d == FailedCall(c, why)
           IN  /\ d \in Calls \cup {Idle}
               /\ d # Idle => Sound(w, d) /\ Sound(w, d)'
  <1> DEFINE d == FailedCall(c, why)
  <1>1. \/ d = Idle
        \/ d \in Calls /\ OfWorker(w, d) /\ d.phase = "error"
    BY FailedCallIs
  <1> HIDE DEF d
  <1>2. d # Idle => Sound(w, d) /\ Sound(w, d)'
    BY <1>1, LightCall
  <1> QED  BY <1>1, <1>2 DEF d

-----------------------------------------------------------------------------
(***************************************************************************)
(* Definitions, other users, time                                          *)
(***************************************************************************)

\* There is a next slot, and it lies ahead.
LEMMA NextSlotIs ==
    ASSUME NEW t \in 0..MaxTime
    PROVE  NextSlot(t) \in Slots /\ NextSlot(t) > t
  <1> DEFINE S == {s \in Slots : s > t}
             R == OpToRel(<, Nat)
  <1>1. S \subseteq Nat /\ S # {}
    <2>1. MaxTime + 1 \in S
      BY SlotsAssumption, NumbersAssumption
    <2> QED  BY <2>1, SlotsAssumption
  <1>2. IsWellFoundedOn(R, Nat)
    BY NatLessThanWellFounded
  <1> HIDE DEF S, R
  <1>3. PICK x \in S : \A y \in S : ~(<<y, x>> \in R)
    BY <1>1, <1>2, WFMin
  <1>4. ASSUME NEW y \in S PROVE x <= y
    <2>1. x \in Nat /\ y \in Nat
      BY <1>1
    <2>2. y < x => <<y, x>> \in R
      BY <2>1 DEF R, OpToRel
    <2> QED  BY <1>3, <2>1, <2>2
  <1>5. Min(S) \in S
    BY <1>3, <1>4 DEF Min
  <1> QED  BY <1>5 DEF S, NextSlot

\* Changing and deleting an automation, deleting the sheet, and the clock.
LEMMA SurroundingsKeepInv ==
    ASSUME Inv,
           \/ \E a \in Automations, t \in Updated, e \in BOOLEAN : Update(a, t, e)
           \/ \E a \in Automations : Delete(a)
           \/ DeleteSheet
           \/ Tick
    PROVE  Inv'
  <1>0. SmallTypes /\ MaxRevision \in Nat /\ MaxTime \in Nat
    BY NumbersAssumption DEF Inv, TypeOK, SmallTypes
  <1>1. ASSUME NEW a \in Automations, NEW t \in Updated, NEW e \in BOOLEAN, Update(a, t, e)
        PROVE  Inv'
    <2>1. UNCHANGED <<runs, log, present, now, call, faults>>
      BY <1>1 DEF Update
    <2>2. Later /\ Tables' /\ log' \in Seq(Entries)
      BY <2>1, NothingWritten DEF Inv, TypeOK
    <2>3. auto' \in [Automations -> Definitions]
      <3>1. NextRun(t, e) \in Slots \cup {None}
        BY <1>0, NextSlotIs DEF NextRun, SmallTypes
      <3>2. auto[a].revision + 1 \in 1..MaxRevision
        BY <1>0, <1>1 DEF Update, SmallTypes, Definitions
      <3>3. [trigger |-> t, enabled |-> e, deleted |-> FALSE,
             revision |-> auto[a].revision + 1, next |-> NextRun(t, e)] \in Definitions
        BY <3>1, <3>2, CreatedAssumption DEF Definitions, Triggers
      <3> QED  BY <1>0, <1>1, <3>3 DEF Update, SmallTypes
    <2>4. SmallTypes'
      BY <1>0, <1>1, <2>1, <2>3 DEF Update, SmallTypes
    <2> QED  BY <2>1, <2>2, <2>4, NoCallSteps
  <1>2. ASSUME NEW a \in Automations, Delete(a)
        PROVE  Inv'
    <2>1. UNCHANGED <<runs, log, settled, present, now, call, faults>>
      BY <1>2 DEF Delete
    <2>2. Later /\ Tables' /\ log' \in Seq(Entries)
      BY <2>1, NothingWritten DEF Inv, TypeOK
    <2>3. auto' \in [Automations -> Definitions]
      <3>0. auto[a] \in Definitions /\ auto[a].revision < MaxRevision
        BY <1>0, <1>2 DEF Delete, SmallTypes
      <3>1. auto[a].revision \in 1..MaxRevision /\ auto[a].revision + 1 \in 1..MaxRevision
        BY <1>0, <3>0 DEF Definitions
      <3>2. [auto[a] EXCEPT !.deleted = TRUE, !.enabled = FALSE, !.revision = @ + 1] \in Definitions
        BY <3>0, <3>1 DEF Definitions
      <3> QED  BY <1>0, <1>2, <3>0, <3>2 DEF Delete, SmallTypes, Definitions
    <2>4. SmallTypes'
      BY <1>0, <2>1, <2>3 DEF SmallTypes
    <2> QED  BY <2>1, <2>2, <2>4, NoCallSteps
  <1>3. CASE DeleteSheet
    <2>1. /\ log' = Append(log, [by |-> "user", run |-> None]) /\ present' = FALSE
          /\ UNCHANGED <<auto, runs, settled, now, call, faults>>
      BY <1>3 DEF DeleteSheet
    <2>2. Later /\ Tables' /\ log' \in Seq(Entries)
      BY <2>1, EntryAppended DEF None
    <2>3. SmallTypes'
      BY <1>0, <2>1 DEF SmallTypes
    <2> QED  BY <2>1, <2>2, <2>3, NoCallSteps
  <1>4. CASE Tick
    <2>1. /\ now' = now + 1 /\ now < MaxTime
          /\ UNCHANGED <<auto, runs, log, settled, present, call, faults>>
      BY <1>4 DEF Tick
    <2>2. Later /\ Tables' /\ log' \in Seq(Entries)
      BY <2>1, NothingWritten DEF Inv, TypeOK
    <2>3. SmallTypes'
      BY <1>0, <2>1 DEF SmallTypes
    <2> QED  BY <2>1, <2>2, <2>3, NoCallSteps
  <1> QED  BY <1>1, <1>2, <1>3, <1>4

-----------------------------------------------------------------------------
(***************************************************************************)
(* Calls of Run: the reads                                                 *)
(***************************************************************************)

\* Every field but the calls stays.
OnlyCalls == UNCHANGED <<auto, runs, log, settled, present, now, faults>>

\* A call that looks for its cause.
LEMMA LookUpKeepsInv ==
    ASSUME Inv, OnlyCalls, NEW w \in Workers, NEW c \in Calls, Sound(w, c), c.kind # "undo",
           call' = [call EXCEPT ![w] = LookedUp(c)]
    PROVE  Inv'
  <1> DEFINE d == LookedUp(c)
  <1>1. \/ d = Idle
        \/ d = c
        \/ d \in Calls /\ Sound(w, d)
    BY LookedUpIs
  <1>2. SmallTypes' /\ UNCHANGED <<runs, log, present>>
    BY DEF Inv, TypeOK, SmallTypes, OnlyCalls
  <1>3. call' = [call EXCEPT ![w] = d]
    OBVIOUS
  <1> HIDE DEF d
  <1>4. d \in Calls \cup {Idle} /\ (d # Idle => Sound(w, d))
    BY <1>1
  <1> QED  BY <1>2, <1>3, <1>4, CallReads

\* A call that fails while it reads.
LEMMA FailKeepsInv ==
    ASSUME Inv, SmallTypes', UNCHANGED <<runs, log, present>>, NEW w \in Workers, call[w] \in Calls,
           OfWorker(w, call[w]), NEW why \in Reasons, Fail(w, why)
    PROVE  Inv'
  <1> DEFINE d == FailedCall(call[w], why)
  <1>1. d \in Calls \cup {Idle} /\ (d # Idle => Sound(w, d))
    BY FailSteps
  <1>2. call' = [call EXCEPT ![w] = d]
    BY DEF Fail, Become
  <1> HIDE DEF d
  <1> QED  BY <1>1, <1>2, CallReads

\* Requests, cell changes and due schedules.
LEMMA StartsKeepInv ==
    ASSUME Inv, NEW a \in Automations,
           \/ \E w \in Callers, k \in ClientKeys : RunManually(w, a, k)
           \/ \E w \in Callers, k \in ClientKeys : InvokeWebhook(w, a, k)
           \/ \E w \in Schedulers : RunDueSchedules(w, a)
    PROVE  Inv'
  <1>0. /\ auto[a] \in Definitions /\ auto[a].revision \in 0..MaxRevision /\ version \in Nat
        /\ auto[a].next \in Slots \cup {None}
        /\ now \in 0..MaxTime /\ 0 \in 0..MaxTime /\ 0 \in 0..MaxRevision /\ None \in Slots \cup {None}
    <2>1. auto[a] \in Definitions /\ now \in 0..MaxTime /\ version \in Nat
      BY TableTypes DEF Inv, TypeOK
    <2>2. MaxTime \in Nat /\ MaxRevision \in Nat
      BY NumbersAssumption
    <2> QED  BY <2>1, <2>2 DEF Definitions
  <1>1. ASSUME NEW w \in Callers, NEW k \in ClientKeys, RunManually(w, a, k)
        PROVE  Inv'
    <2> DEFINE c == NewCall("read", "manual", a, Key("client", k), auto[a].revision, version, None, 0, 0)
    <2>1. /\ Key("client", k) \in Keys /\ Key("client", k).use = "client" /\ 0 \in Nat
          /\ "read" \in Phases /\ "manual" \in Triggers /\ "webhook" \in Triggers
      BY NumbersAssumption DEF Key, Keys, Phases, Triggers
    <2>2. /\ c \in Calls /\ c.phase = "read" /\ c.kind = "manual" /\ c.due = None
          /\ c.key = Key("client", k) /\ c.preview = version /\ c.base = version
      BY <1>0, <2>1 DEF NewCall, Calls
    <2>3. call' = [call EXCEPT ![w] = LookedUp(c)] /\ OnlyCalls
      BY <1>1 DEF RunManually, Begin, OnlyCalls
    <2> HIDE DEF c
    <2>4. Sound(w, c)
      BY <2>1, <2>2 DEF Sound, OfWorker, Reads, Executes, Settles
    <2> QED  BY <2>2, <2>3, <2>4, LookUpKeepsInv DEF Workers
  <1>2. ASSUME NEW w \in Callers, NEW k \in ClientKeys, InvokeWebhook(w, a, k)
        PROVE  Inv'
    <2> DEFINE c == NewCall("read", "webhook", a, Key("client", k), 0, 0, None, 0, 0)
    <2>1. /\ Key("client", k) \in Keys /\ Key("client", k).use = "client" /\ 0 \in Nat
          /\ "read" \in Phases /\ "manual" \in Triggers /\ "webhook" \in Triggers
      BY NumbersAssumption DEF Key, Keys, Phases, Triggers
    <2>2. /\ c \in Calls /\ c.phase = "read" /\ c.kind = "webhook" /\ c.due = None
          /\ c.key = Key("client", k)
      BY <1>0, <2>1 DEF NewCall, Calls
    <2>3. call' = [call EXCEPT ![w] = LookedUp(c)] /\ OnlyCalls
      BY <1>2 DEF InvokeWebhook, Begin, OnlyCalls
    <2> HIDE DEF c
    <2>4. Sound(w, c)
      BY <2>1, <2>2 DEF Sound, OfWorker, Reads, Executes, Settles
    <2> QED  BY <2>2, <2>3, <2>4, LookUpKeepsInv DEF Workers
  <1>3. ASSUME NEW w \in Schedulers, RunDueSchedules(w, a)
        PROVE  Inv'
    <2> DEFINE due == auto[a].next
               c == NewCall("read", "schedule", a, Key("schedule", due), auto[a].revision, 0, due, 0, now)
    <2>0. due \in Nat /\ due # None /\ due <= now
      BY <1>0, <1>3, SlotsAssumption DEF RunDueSchedules, None
    <2>1. Key("schedule", due) \in Keys /\ "read" \in Phases /\ "schedule" \in Triggers /\ 0 \in Nat
      BY <2>0 DEF Key, Keys, Phases, Triggers
    <2>2. /\ c \in Calls /\ c.phase = "read" /\ c.kind = "schedule" /\ c.due = due
          /\ c.key = Key("schedule", due) /\ c.op = 0 /\ c.at = now
      BY <1>0, <2>1 DEF NewCall, Calls
    <2>3. call' = [call EXCEPT ![w] = LookedUp(c)] /\ OnlyCalls
      BY <1>3 DEF RunDueSchedules, Begin, OnlyCalls
    <2> HIDE DEF c
    <2>4. Sound(w, c)
      BY <2>0, <2>2 DEF Sound, OfWorker, Reads, Executes, Settles
    <2> QED  BY <2>2, <2>3, <2>4, LookUpKeepsInv DEF Workers
  <1> QED  BY <1>1, <1>2, <1>3

\* A user's write, which may trigger the automation.
LEMMA WriteCellsKeepsInv ==
    ASSUME Inv, NEW a \in Automations, NEW w \in Callers, WriteCells(w, a)
    PROVE  Inv'
  <1>0. /\ version \in Nat /\ 0 \in 0..MaxTime /\ 0 \in 0..MaxRevision /\ None \in Slots \cup {None}
        /\ w \in Workers
    BY TableTypes, NumbersAssumption DEF Inv, Workers
  <1> PICK c : c = NewCall("list", "cell_change", a, Key("trigger", version + 1), 0, 0, None, version + 1, 0)
    OBVIOUS
  <1>1. /\ Key("trigger", version + 1) \in Keys /\ Key("trigger", version + 1).use = "trigger"
        /\ version + 1 \in Nat /\ "list" \in Phases /\ "cell_change" \in Triggers
    BY <1>0 DEF Key, Keys, Phases, Triggers
  <1>2. /\ c \in Calls /\ c.phase = "list" /\ c.kind = "cell_change" /\ c.due = None
        /\ c.key = Key("trigger", version + 1)
    BY <1>0, <1>1 DEF NewCall, Calls
  <1>3. /\ log' = Append(log, [by |-> "user", run |-> None]) /\ UNCHANGED <<runs, present>>
        /\ call' = [call EXCEPT ![w] = c] /\ SmallTypes'
    BY DEF WriteCells, Begin, Inv, TypeOK, SmallTypes
  <1>4. Later /\ Tables' /\ log' \in Seq(Entries)
    BY <1>3, EntryAppended DEF None
  <1>5. runs' \in Seq(Runs) /\ DueRowsOnlyBy(w)
    BY <1>3 DEF Inv, TypeOK, DueRowsOnlyBy
  <1>6. Sound(w, c)'
    <2>1. OfWorker(w, c)
      BY <1>1, <1>2 DEF OfWorker
    <2> QED  BY <1>2, <2>1, LightCall
  <1> QED  BY <1>0, <1>2, <1>3, <1>4, <1>5, <1>6, CallSteps

\* The automation that a change triggers.
LEMMA TriggerCellChangeKeepsInv ==
    ASSUME Inv, NEW w \in Workers, TriggerCellChange(w)
    PROVE  Inv'
  <1> DEFINE d == auto[call[w].auto]
             c == [call[w] EXCEPT !.phase = "read", !.rev = d.revision]
  <1>1. /\ call[w] \in Calls /\ OfWorker(w, call[w]) /\ call[w].phase = "list"
        /\ call[w].auto \in Automations
    BY AtCall DEF TriggerCellChange
  <1>2. OnlyCalls
    BY DEF TriggerCellChange, OnlyCalls
  <1>3. d.revision \in 0..MaxRevision
    <2>1. d \in Definitions
      BY <1>1 DEF Inv, TypeOK
    <2> QED  BY <2>1, NumbersAssumption DEF Definitions
  <1> HIDE DEF d
  <1>4. /\ c \in Calls /\ c.phase = "read" /\ c.kind = call[w].kind /\ c.due = call[w].due
        /\ c.key = call[w].key /\ c.op = call[w].op /\ c.at = call[w].at
    BY <1>1, <1>3 DEF Calls, Phases
  <1>5. call[w].kind = "cell_change"
    BY <1>1 DEF OfWorker
  <1>6. \/ call' = [call EXCEPT ![w] = LookedUp(c)]
        \/ call' = [call EXCEPT ![w] = Idle]
    BY DEF TriggerCellChange, Become, d
  <1> HIDE DEF c
  <1>7. Sound(w, c)
    BY <1>1, <1>4, <1>5 DEF Sound, OfWorker, Reads, Executes, Settles
  <1>8. SmallTypes' /\ UNCHANGED <<runs, log, present>>
    BY <1>2 DEF Inv, TypeOK, SmallTypes, OnlyCalls
  <1>9. CASE call' = [call EXCEPT ![w] = Idle]
    BY <1>8, <1>9, CallReads
  <1> QED  BY <1>2, <1>4, <1>5, <1>6, <1>7, <1>9, LookUpKeepsInv

\* The definition and the version are read.
LEMMA ReadDefinitionKeepsInv ==
    ASSUME Inv, NEW w \in Workers, ReadDefinition(w)
    PROVE  Inv'
  <1> DEFINE d == auto[call[w].auto]
             c == [call[w] EXCEPT !.phase = "range", !.rev = d.revision, !.base = version]
  <1>1. /\ call[w] \in Calls /\ Sound(w, call[w]) /\ OfWorker(w, call[w]) /\ call[w].phase = "read"
        /\ call[w].auto \in Automations
    BY AtCall DEF ReadDefinition
  <1>2. SmallTypes' /\ UNCHANGED <<runs, log, present>>
    BY DEF Inv, TypeOK, SmallTypes, ReadDefinition
  <1>3. \/ \E why \in Reasons : Fail(w, why)
        \/ /\ call' = [call EXCEPT ![w].phase = "range", ![w].rev = d.revision, ![w].base = version]
           /\ call[w].kind = "manual" => call[w].base = version
    BY DEF ReadDefinition, Reasons
  <1>4. d.revision \in 0..MaxRevision /\ version \in Nat
    <2>1. d \in Definitions
      BY <1>1 DEF Inv, TypeOK
    <2> QED  BY <2>1, NumbersAssumption, TableTypes DEF Definitions, Inv
  <1>5. CASE \E why \in Reasons : Fail(w, why)
    BY <1>1, <1>2, <1>5, FailKeepsInv
  <1>6. CASE /\ call' = [call EXCEPT ![w].phase = "range", ![w].rev = d.revision, ![w].base = version]
             /\ call[w].kind = "manual" => call[w].base = version
    <2> HIDE DEF d
    <2>1. /\ c \in Calls /\ c.phase = "range" /\ c.kind = call[w].kind /\ c.due = call[w].due
          /\ c.key = call[w].key /\ c.op = call[w].op /\ c.at = call[w].at
          /\ c.base = version /\ c.preview = call[w].preview
      BY <1>1, <1>4 DEF Calls, Phases
    <2>2. call' = [call EXCEPT ![w] = c]
      BY <1>6 DEF Inv, TypeOK
    <2> HIDE DEF c
    <2>3. Sound(w, c)
      BY <1>1, <1>4, <1>6, <2>1 DEF Sound, OfWorker, Reads, Executes, Settles
    <2> QED  BY <1>2, <2>1, <2>2, <2>3, CallReads
  <1> QED  BY <1>3, <1>5, <1>6

\* The range is read.
LEMMA ReadRangeKeepsInv ==
    ASSUME Inv, NEW w \in Workers, ReadRange(w)
    PROVE  Inv'
  <1> DEFINE nothing == call[w].auto \in settled
             c == [call[w] EXCEPT !.phase = "insert", !.skip = nothing, !.read = version, !.stamp = now]
  <1>0. nothing \in BOOLEAN
    OBVIOUS
  <1>1. /\ call[w] \in Calls /\ Sound(w, call[w]) /\ OfWorker(w, call[w]) /\ call[w].phase = "range"
    BY AtCall DEF ReadRange
  <1>2. SmallTypes' /\ UNCHANGED <<runs, log, present>> /\ version \in Nat /\ now \in 0..MaxTime
    BY TableTypes DEF Inv, TypeOK, SmallTypes, ReadRange
  <1>3. \/ \E why \in Reasons : Fail(w, why)
        \/ call' = [call EXCEPT ![w].phase = "insert", ![w].skip = nothing, ![w].read = version,
                               ![w].stamp = now]
    BY DEF ReadRange, Reasons
  <1>5. CASE \E why \in Reasons : Fail(w, why)
    BY <1>1, <1>2, <1>5, FailKeepsInv
  <1>6. CASE call' = [call EXCEPT ![w].phase = "insert", ![w].skip = nothing, ![w].read = version,
                                  ![w].stamp = now]
    <2> HIDE DEF nothing
    <2>1. /\ c \in Calls /\ c.phase = "insert" /\ c.kind = call[w].kind /\ c.due = call[w].due
          /\ c.key = call[w].key /\ c.op = call[w].op /\ c.at = call[w].at
          /\ c.base = call[w].base /\ c.preview = call[w].preview /\ c.read = version
      BY <1>0, <1>1, <1>2 DEF Calls, Phases
    <2>2. call' = [call EXCEPT ![w] = c]
      BY <1>6 DEF Inv, TypeOK
    <2> HIDE DEF c
    <2>3. Sound(w, c)
      BY <1>1, <1>2, <2>1 DEF Sound, OfWorker, Reads, Executes, Settles
    <2> QED  BY <1>2, <2>1, <2>2, <2>3, CallReads
  <1> QED  BY <1>3, <1>5, <1>6

-----------------------------------------------------------------------------
(***************************************************************************)
(* Calls of Run: the writes                                                *)
(***************************************************************************)

\* A row whose cause nobody else has.
LEMMA CauseIsNew ==
    ASSUME NEW c, NEW r, r.auto = c.auto, r.key = c.key, r.due = c.due, r.op = c.op \/ r.op = 0,
           SameCause(c) = {}
    PROVE  \A i \in DOMAIN runs : DifferentCause(runs[i], r)
  BY DEF SameCause, SameKey, SameDue, SameOp, DifferentCause

\* insertRun
LEMMA InsertRunKeepsInv ==
    ASSUME Inv, NEW w \in Workers, InsertRun(w)
    PROVE  Inv'
  <1> PICK c : c = call[w]
    OBVIOUS
  <1>1. /\ c \in Calls /\ Sound(w, c) /\ OfWorker(w, c) /\ c.phase = "insert"
    BY AtCall DEF InsertRun
  <1>2. UNCHANGED <<log, present>> /\ SmallTypes'
    BY DEF Inv, TypeOK, SmallTypes, InsertRun
  <1>3. c.kind \in Triggers /\ c.kind # "undo"
    BY <1>1 DEF OfWorker, Calls
  <1>4. \/ UNCHANGED runs /\ \E why \in Reasons : Fail(w, why)
        \/ UNCHANGED runs /\ \E i \in SameCause(c) : Become(w, Resumed(c, i))
        \/ \E t \in DatabaseTimes :
              /\ ~RefusedByRate(c, t) /\ SameCause(c) = {}
              /\ runs' = Append(runs, Row(c, IF c.skip THEN "skipped" ELSE "running", c.key, c.op, TRUE, t))
              /\ Become(w, IF c.skip THEN Succeeded(c) ELSE Executing(c, Len(runs) + 1))
    BY DEF InsertRun, Reasons
  <1>5. CASE UNCHANGED runs /\ \E why \in Reasons : Fail(w, why)
    BY <1>1, <1>2, <1>5, FailKeepsInv
  <1>6. CASE UNCHANGED runs /\ \E i \in SameCause(c) : Become(w, Resumed(c, i))
    <2>1. PICK i \in SameCause(c) : Become(w, Resumed(c, i))
      BY <1>6
    <2> PICK d : d = Resumed(c, i)
      OBVIOUS
    <2>2. d = Idle \/ (d \in Calls /\ Sound(w, d))
      BY <1>1, <1>3, ResumedIs
    <2> QED  BY <1>2, <1>6, <2>1, <2>2, CallReads DEF Become
  <1>7. ASSUME NEW t \in DatabaseTimes,
               ~RefusedByRate(c, t) /\ SameCause(c) = {},
               runs' = Append(runs, Row(c, IF c.skip THEN "skipped" ELSE "running", c.key, c.op, TRUE, t)),
               Become(w, IF c.skip THEN Succeeded(c) ELSE Executing(c, Len(runs) + 1))
        PROVE  Inv'
    <2> PICK status, r, n : /\ status = (IF c.skip THEN "skipped" ELSE "running")
                            /\ r = Row(c, status, c.key, c.op, TRUE, t) /\ n = Len(runs) + 1
      OBVIOUS
    <2>1. c.key \in Keys /\ c.op \in Nat /\ c.skip \in BOOLEAN /\ status \in Statuses
      BY <1>1 DEF Calls, Statuses
    <2>2. /\ r \in Runs /\ r.auto = c.auto /\ r.kind = c.kind /\ r.key = c.key /\ r.op = c.op
          /\ r.due = c.due /\ r.status = status /\ r.base = c.base /\ r.admitted = t
          /\ r.counts = TRUE /\ r.preview = c.preview /\ r.read = c.read
      <3>1. t \in 0..MaxTime
        BY DEF DatabaseTimes
      <3> QED  BY <1>1, <1>3, <2>1, <3>1 DEF Row, Runs, Calls
    <2>3. runs' = Append(runs, r)
      BY <1>7
    <2>4. RowIsSound(r)
      BY <1>1, <2>2 DEF RowIsSound, OfWorker, Sound, Reads
    <2>5. \A i \in DOMAIN runs : DifferentCause(runs[i], r)
      BY <1>7, <2>2, CauseIsNew
    <2>6. Cardinality(Recent(t)) < RunsPerHour
      <3>1. SameKey(c) = {}
        BY <1>7 DEF SameCause
      <3>2. IsFiniteSet(Recent(t))
        <4>1. IsFiniteSet(DOMAIN runs)
          BY TableTypes, FS_Interval DEF Inv
        <4> QED  BY <4>1, FS_Subset DEF Recent
      <3>3. Cardinality(Recent(t)) \in Nat
        BY <3>2, FS_CardinalityType
      <3> QED  BY <1>7, <3>1, <3>3, NumbersAssumption DEF RefusedByRate
    <2>7. status \in {"running", "skipped"}
      OBVIOUS
    <2>8. /\ Later /\ Tables' /\ runs' \in Seq(Runs)
          /\ Len(runs) + 1 \in Nat /\ runs'[Len(runs) + 1] = r
          /\ DOMAIN runs' = DOMAIN runs \cup {Len(runs) + 1}
      BY <1>2, <2>2, <2>3, <2>4, <2>5, <2>6, <2>7, RowInserted
    <2>9. n \in DOMAIN runs' /\ runs'[n] = r /\ n \in Nat /\ DOMAIN runs' = DOMAIN runs \cup {n}
      BY <2>8
    <2>10. log' \in Seq(Entries) /\ DueRowsOnlyBy(w)
      BY <1>1, <1>2, <2>2, <2>9 DEF Inv, TypeOK, DueRowsOnlyBy, OfWorker
    <2>11. CASE c.skip
      <3> PICK d : d = Succeeded(c)
        OBVIOUS
      <3>1. \/ d = Idle
            \/ /\ d \in Calls /\ OfWorker(w, d) /\ d.phase = "ok"
               /\ d.kind = c.kind /\ d.auto = c.auto /\ d.due = c.due
        BY <1>1, SucceededIs
      <3>2. Finished(c.auto, c.due)'
        BY <2>2, <2>9, <2>11 DEF Finished
      <3>3. d # Idle => Sound(w, d)'
        BY <3>1, <3>2, DoneCall DEF Passable
      <3>4. call' = [call EXCEPT ![w] = d]
        BY <1>7, <2>11 DEF Become
      <3> QED  BY <1>2, <2>8, <2>10, <3>1, <3>3, <3>4, CallSteps
    <2>12. CASE ~c.skip
      <3> PICK d : d = Executing(c, n)
        OBVIOUS
      <3>1. /\ d \in Calls /\ OfWorker(w, d) /\ d.phase = "execute" /\ d.run = n
            /\ d.kind = c.kind /\ d.auto = c.auto /\ d.due = c.due
        BY <1>1, <1>3, <2>9, ExecutingIs
      <3>2. status = "running"
        BY <2>12
      <3>3. Sound(w, d)'
        <4>1. OfWorker(w, d)'
          BY <3>1 DEF OfWorker
        <4>2. Reads(d)' /\ Settles(d)'
          BY <3>1 DEF Reads, Settles
        <4>3. d.run \in DOMAIN runs' /\ runs'[d.run] = r
          BY <2>9, <3>1, Zenon
        <4>4. r.counts /\ r.status = "running" /\ r.auto = d.auto /\ r.due = d.due
          BY <2>2, <3>1, <3>2, Zenon
        <4>5. Executes(d)'
          BY <3>1, <4>3, <4>4 DEF Executes
        <4> QED  BY <4>1, <4>2, <4>5 DEF Sound
      <3>4. call' = [call EXCEPT ![w] = d]
        BY <1>7, <2>12 DEF Become
      <3> QED  BY <1>2, <2>8, <2>10, <3>1, <3>3, <3>4, CallSteps
    <2> QED  BY <2>11, <2>12
  <1> QED  BY <1>4, <1>5, <1>6, <1>7

\* A call goes to another step.
LEMMA GotoIs ==
    ASSUME Inv, NEW w \in Workers, NEW p \in Phases, call[w] \in Calls, OfWorker(w, call[w]),
           NEW d, d = [call[w] EXCEPT !.phase = p], Goto(w, p)
    PROVE  /\ call' = [call EXCEPT ![w] = d]
           /\ d \in Calls /\ d # Idle /\ d.phase = p /\ d.kind = call[w].kind /\ d.auto = call[w].auto
           /\ d.key = call[w].key /\ d.due = call[w].due /\ d.op = call[w].op /\ d.at = call[w].at
           /\ d.run = call[w].run /\ d.why = call[w].why
  BY PhaseFields DEF Goto, Inv, TypeOK

\* The run that is executed: it was computed from some version up to now.
LEMMA ExecutedRun ==
    ASSUME Inv, NEW w, NEW c \in Calls, Sound(w, c), c.phase \in {"execute", "record", "refused"}
    PROVE  /\ c.run \in DOMAIN runs /\ runs[c.run] \in Runs /\ c.run \in Nat
           /\ runs[c.run].counts /\ runs[c.run].status # "skipped"
           /\ runs[c.run].base \in Nat /\ runs[c.run].base <= version /\ version \in Nat
           /\ c.kind = "schedule" => runs[c.run].auto = c.auto /\ runs[c.run].due = c.due
           /\ c.kind # "undo"
  <1>1. /\ c.run \in DOMAIN runs /\ runs[c.run].counts /\ runs[c.run].status # "skipped"
        /\ c.kind = "schedule" => runs[c.run].auto = c.auto /\ runs[c.run].due = c.due
    BY DEF Sound, Executes
  <1>2. runs[c.run] \in Runs /\ c.run \in Nat /\ version \in Nat
    BY <1>1, TableTypes DEF Inv
  <1>3. RowIsSound(runs[c.run])
    BY <1>1 DEF Inv, Tables, RowsAreSound
  <1>4. runs[c.run].base \in Nat /\ runs[c.run].read \in Nat
    BY <1>2 DEF Runs
  <1>5. c.kind # "undo"
    BY DEF Sound, OfWorker
  <1> QED  BY <1>1, <1>2, <1>3, <1>4, <1>5 DEF RowIsSound

\* ApplyCells, as executeRun calls it
LEMMA ApplyCellsKeepsInv ==
    ASSUME Inv, NEW w \in Workers, ApplyCells(w)
    PROVE  Inv'
  <1> PICK c : c = call[w]
    OBVIOUS
  <1>1. /\ c \in Calls /\ Sound(w, c) /\ OfWorker(w, c) /\ c.phase = "execute"
    BY AtCall DEF ApplyCells
  <1> PICK i : i = c.run
    OBVIOUS
  <1>2. /\ i \in DOMAIN runs /\ runs[i] \in Runs /\ i \in Nat /\ runs[i].counts
        /\ runs[i].status # "skipped" /\ runs[i].auto \in Automations
        /\ runs[i].base \in Nat /\ runs[i].base <= version /\ version \in Nat
        /\ c.kind = "schedule" => runs[i].auto = c.auto /\ runs[i].due = c.due
        /\ c.kind # "undo"
    <2>1. runs[i] \in Runs
      BY <1>1, ExecutedRun
    <2>2. runs[i].auto \in Automations
      BY <2>1 DEF Runs
    <2> QED  BY <1>1, <2>2, ExecutedRun
  <1>3. UNCHANGED <<runs, present>> /\ SmallTypes'
    BY <1>2 DEF Inv, TypeOK, SmallTypes, ApplyCells
  <1>4. \/ ~present /\ Goto(w, "refused") /\ UNCHANGED log
        \/ present /\ Logged("run", i) /\ Goto(w, "record") /\ UNCHANGED log
        \/ /\ present /\ ~Logged("run", i) /\ (runs[i].base # version \/ version \in Refused)
           /\ Goto(w, "refused") /\ UNCHANGED log
        \/ /\ ~Logged("run", i) /\ runs[i].base = version /\ version \notin Refused
           /\ Goto(w, "record") /\ log' = Append(log, [by |-> "run", run |-> i])
    BY DEF ApplyCells
  <1>5. ASSUME NEW p \in {"refused", "record"}, NEW d, d = [c EXCEPT !.phase = p]
        PROVE  /\ d \in Calls /\ d.phase = p /\ d.run = i /\ OfWorker(w, d) /\ Reads(d) /\ Reads(d)'
               /\ Settles(d) /\ Settles(d)' /\ d.kind = c.kind /\ d.auto = c.auto /\ d.due = c.due
    <2>1. p \in Phases
      BY DEF Phases
    <2>2. /\ d \in Calls /\ d.phase = p /\ d.kind = c.kind /\ d.auto = c.auto
          /\ d.key = c.key /\ d.due = c.due /\ d.op = c.op /\ d.at = c.at /\ d.run = i
      BY <1>1, <1>5, <2>1, PhaseFields
    <2> QED  BY <1>1, <1>2, <2>2 DEF OfWorker, Reads, Settles
  <1>6. CASE Goto(w, "refused") /\ UNCHANGED log /\ (present => Spent(i))
    <2> PICK d : d = [c EXCEPT !.phase = "refused"]
      OBVIOUS
    <2>1. call' = [call EXCEPT ![w] = d]
      BY <1>1, <1>6, GotoIs DEF Phases
    <2>2. /\ d \in Calls /\ d.phase = "refused" /\ d.run = i /\ OfWorker(w, d) /\ Reads(d)
          /\ Settles(d) /\ d.kind = c.kind /\ d.auto = c.auto /\ d.due = c.due
      BY <1>5
    <2>3. Sound(w, d)
      BY <1>2, <1>6, <2>2 DEF Sound, Executes
    <2> QED  BY <1>3, <1>6, <2>1, <2>2, <2>3, CallReads
  <1>7. CASE Goto(w, "record") /\ Logged("run", i) /\ UNCHANGED log
    <2> PICK d : d = [c EXCEPT !.phase = "record"]
      OBVIOUS
    <2>1. call' = [call EXCEPT ![w] = d]
      BY <1>1, <1>7, GotoIs DEF Phases
    <2>2. /\ d \in Calls /\ d.phase = "record" /\ d.run = i /\ OfWorker(w, d) /\ Reads(d)
          /\ Settles(d) /\ d.kind = c.kind /\ d.auto = c.auto /\ d.due = c.due
      BY <1>5
    <2>3. Sound(w, d)
      BY <1>2, <1>7, <2>2 DEF Sound, Executes
    <2> QED  BY <1>3, <1>7, <2>1, <2>2, <2>3, CallReads
  <1>8. CASE /\ ~Logged("run", i) /\ runs[i].base = version /\ version \notin Refused
             /\ Goto(w, "record") /\ log' = Append(log, [by |-> "run", run |-> i])
    <2> PICK d : d = [c EXCEPT !.phase = "record"]
      OBVIOUS
    <2>1. call' = [call EXCEPT ![w] = d]
      BY <1>1, <1>8, GotoIs DEF Phases
    <2>2. /\ d \in Calls /\ d.phase = "record" /\ d.run = i /\ OfWorker(w, d) /\ Reads(d)'
          /\ Settles(d)' /\ d.kind = c.kind /\ d.auto = c.auto /\ d.due = c.due
      BY <1>5
    <2>3. Later /\ Tables' /\ log' \in Seq(Entries) /\ Logged("run", i)'
      BY <1>2, <1>3, <1>8, EntryAppended
    <2>4. Sound(w, d)'
      BY <1>2, <1>3, <2>2, <2>3 DEF Sound, Executes, OfWorker
    <2>5. runs' \in Seq(Runs) /\ DueRowsOnlyBy(w)
      BY <1>3 DEF Inv, TypeOK, DueRowsOnlyBy
    <2> QED  BY <1>3, <2>1, <2>2, <2>3, <2>4, <2>5, CallSteps
  <1>9. ~Logged("run", i) /\ (runs[i].base # version \/ version \in Refused) => Spent(i)
    BY <1>2 DEF Spent
  <1> QED  BY <1>4, <1>6, <1>7, <1>8, <1>9

\* SetStatus gives one run a new outcome and changes nothing else.
LEMMA SetStatusIs ==
    ASSUME Inv, NEW i \in DOMAIN runs, NEW status \in {"succeeded", "failed", "undone"},
           runs[i].status # "skipped", SetStatus(i, status),
           UNCHANGED <<log, present>>,
           status \in {"succeeded", "undone"} => Logged("run", i),
           status = "failed" /\ present => Spent(i),
           status = "undone" => Logged("undo", i)
    PROVE  /\ Later /\ Tables' /\ runs' \in Seq(Runs) /\ DOMAIN runs' = DOMAIN runs
           /\ runs'[i].status = status /\ runs'[i].auto = runs[i].auto /\ runs'[i].due = runs[i].due
  <1> PICK r : r = [runs[i] EXCEPT !.status = status]
    OBVIOUS
  <1>1. runs[i] \in Runs /\ runs \in Seq(Runs)
    BY TableTypes DEF Inv
  <1>2. r \in Runs /\ r.status = status /\ SameRow(runs[i], r)
    BY <1>1 DEF Runs, Statuses, SameRow
  <1>3. runs' = [runs EXCEPT ![i] = r]
    BY <1>1 DEF SetStatus
  <1>4. Later /\ Tables' /\ runs' \in Seq(Runs)
    BY <1>2, <1>3, OutcomeRecorded
  <1>5. DOMAIN runs' = DOMAIN runs /\ runs'[i] = r
    BY <1>1, <1>3
  <1> QED  BY <1>2, <1>4, <1>5 DEF SameRow

\* The rows of the schedules are the same when the rows are the same.
LEMMA NoNewRows ==
    ASSUME NEW w, DOMAIN runs' = DOMAIN runs
    PROVE  DueRowsOnlyBy(w)
  BY DEF DueRowsOnlyBy

\* The end of executeRun
LEMMA RecordSuccessKeepsInv ==
    ASSUME Inv, NEW w \in Workers, RecordSuccess(w)
    PROVE  Inv'
  <1> PICK c : c = call[w]
    OBVIOUS
  <1>1. /\ c \in Calls /\ Sound(w, c) /\ OfWorker(w, c) /\ c.phase = "record"
    BY AtCall DEF RecordSuccess
  <1> PICK i : i = c.run
    OBVIOUS
  <1>2. /\ i \in DOMAIN runs /\ runs[i].status # "skipped" /\ Logged("run", i)
        /\ c.kind = "schedule" => runs[i].auto = c.auto /\ runs[i].due = c.due
    BY <1>1, ExecutedRun DEF Sound, Executes
  <1>3. UNCHANGED <<log, present>> /\ SmallTypes' /\ log' \in Seq(Entries)
    BY DEF Inv, TypeOK, SmallTypes, RecordSuccess
  <1>4. \/ SetStatus(i, "succeeded") /\ Become(w, Succeeded(c))
        \/ runs[i].status = "succeeded" /\ UNCHANGED runs /\ Become(w, Succeeded(c))
        \/ UNCHANGED runs /\ Fail(w, "other")
    BY DEF RecordSuccess
  <1>5. CASE UNCHANGED runs /\ Fail(w, "other")
    BY <1>1, <1>3, <1>5, FailKeepsInv DEF Reasons
  <1> PICK d : d = Succeeded(c)
    OBVIOUS
  <1>6. \/ d = Idle
        \/ /\ d \in Calls /\ OfWorker(w, d) /\ d.phase = "ok"
           /\ d.kind = c.kind /\ d.auto = c.auto /\ d.due = c.due
    BY <1>1, SucceededIs
  <1>7. d # Idle => runs[i].auto = d.auto /\ runs[i].due = d.due
    BY <1>2, <1>6 DEF OfWorker
  <1>8. CASE SetStatus(i, "succeeded") /\ Become(w, d)
    <2>1. /\ Later /\ Tables' /\ runs' \in Seq(Runs) /\ DOMAIN runs' = DOMAIN runs
          /\ runs'[i].status = "succeeded" /\ runs'[i].auto = runs[i].auto /\ runs'[i].due = runs[i].due
      BY <1>2, <1>3, <1>8, SetStatusIs
    <2>2. d # Idle => Finished(d.auto, d.due)'
      BY <1>2, <1>7, <2>1 DEF Finished
    <2>3. d # Idle => Sound(w, d)'
      BY <1>6, <2>2, DoneCall DEF Passable
    <2>4. DueRowsOnlyBy(w)
      BY <2>1, NoNewRows
    <2> QED  BY <1>3, <1>6, <1>8, <2>1, <2>3, <2>4, CallSteps DEF Become
  <1>9. CASE runs[i].status = "succeeded" /\ UNCHANGED runs /\ Become(w, d)
    <2>1. d # Idle => Finished(d.auto, d.due)
      BY <1>2, <1>7, <1>9 DEF Finished
    <2>2. d # Idle => Sound(w, d)
      BY <1>6, <2>1 DEF Sound, OfWorker, Reads, Executes, Settles, Passable
    <2> QED  BY <1>3, <1>6, <1>9, <2>2, CallReads DEF Become
  <1> QED  BY <1>4, <1>5, <1>8, <1>9

\* A step that fails after it has written an outcome.
LEMMA FailAfterOutcome ==
    ASSUME Inv, SmallTypes', Later, Tables', runs' \in Seq(Runs), log' \in Seq(Entries),
           DOMAIN runs' = DOMAIN runs, NEW w \in Workers, call[w] \in Calls, OfWorker(w, call[w]),
           NEW why \in Reasons, Fail(w, why)
    PROVE  Inv'
  <1> PICK d : d = FailedCall(call[w], why)
    OBVIOUS
  <1>1. d \in Calls \cup {Idle} /\ (d # Idle => Sound(w, d)')
    BY FailSteps
  <1>2. call' = [call EXCEPT ![w] = d] /\ DueRowsOnlyBy(w)
    BY NoNewRows DEF Fail, Become
  <1> QED  BY <1>1, <1>2, CallSteps

\* markRunFailed
LEMMA MarkRunFailedKeepsInv ==
    ASSUME Inv, NEW w \in Workers, MarkRunFailed(w)
    PROVE  Inv'
  <1> PICK c : c = call[w]
    OBVIOUS
  <1>1. /\ c \in Calls /\ Sound(w, c) /\ OfWorker(w, c) /\ c.phase = "refused"
    BY AtCall DEF MarkRunFailed
  <1> PICK i : i = c.run
    OBVIOUS
  <1>2. /\ i \in DOMAIN runs /\ runs[i].status # "skipped" /\ (present => Spent(i))
    BY <1>1, ExecutedRun DEF Sound, Executes
  <1>3. UNCHANGED <<log, present>> /\ SmallTypes' /\ log' \in Seq(Entries) /\ Fail(w, "other")
    BY DEF Inv, TypeOK, SmallTypes, MarkRunFailed
  <1>4. SetStatus(i, "failed") \/ UNCHANGED runs
    BY DEF MarkRunFailed
  <1>5. CASE UNCHANGED runs
    BY <1>1, <1>3, <1>5, FailKeepsInv DEF Reasons
  <1>6. CASE SetStatus(i, "failed")
    <2>1. Later /\ Tables' /\ runs' \in Seq(Runs) /\ DOMAIN runs' = DOMAIN runs
      BY <1>2, <1>3, <1>6, SetStatusIs
    <2> QED  BY <1>1, <1>3, <2>1, FailAfterOutcome DEF Reasons
  <1> QED  BY <1>4, <1>5, <1>6

-----------------------------------------------------------------------------
(***************************************************************************)
(* After Run                                                               *)
(***************************************************************************)

\* recordTriggerFailure
LEMMA RecordTriggerFailureKeepsInv ==
    ASSUME Inv, NEW w \in Workers, RecordTriggerFailure(w)
    PROVE  Inv'
  <1> DEFINE rate == call[w].why = "rate"
  <1>0. PICK c : c = [call[w] EXCEPT !.key = IF rate THEN Key("trigger-rate", now \div Hour)
                                                      ELSE Key("trigger-failed", @.n),
                                      !.op = IF rate THEN 0 ELSE @,
                                      !.base = call[w].op, !.preview = 0, !.read = 0]
    OBVIOUS
  <1>1. /\ call[w] \in Calls /\ OfWorker(w, call[w]) /\ call[w].phase = "error"
    BY AtCall DEF RecordTriggerFailure
  <1>2. call[w].kind = "cell_change" /\ call[w].due = None
    <2>1. w \in Callers
      BY DEF RecordTriggerFailure
    <2> QED  BY <1>1, <2>1, WorkersAssumption DEF OfWorker
  <1>3. UNCHANGED <<log, present>> /\ SmallTypes' /\ log' \in Seq(Entries) /\ now \in 0..MaxTime
    BY DEF Inv, TypeOK, SmallTypes, RecordTriggerFailure
  <1>4. now \div Hour \in Nat
    <2>1. now \in Nat /\ Hour \in Nat \ {0}
      BY <1>3, NumbersAssumption
    <2> QED  BY <2>1
  <1>key. PICK key : key = IF rate THEN Key("trigger-rate", now \div Hour)
                                 ELSE Key("trigger-failed", call[w].key.n)
    OBVIOUS
  <1>5. key \in Keys /\ key.use # "schedule"
    <2>1. call[w].key.n \in Nat
      BY <1>1 DEF Calls, Keys
    <2> QED  BY <1>key, <1>4, <2>1 DEF Keys, Key
  <1>6. /\ c.kind = "cell_change" /\ c.due = None /\ c.key = key
        /\ c.auto = call[w].auto /\ c.auto \in Automations /\ c.op \in Nat
        /\ c.base = call[w].op /\ c.base \in Nat /\ c.preview = 0 /\ c.read = 0
        /\ c.stamp \in 0..MaxTime
    BY <1>0, <1>key, <1>1, <1>2 DEF Calls
  <1>row. PICK r : r = Row(c, "failed", c.key, c.op, FALSE, 0)
    OBVIOUS
  <1>7. /\ r \in Runs /\ r.auto = c.auto /\ r.kind = "cell_change" /\ r.key = key /\ r.op = c.op
        /\ r.due = None /\ r.status = "failed" /\ r.counts = FALSE
    BY <1>row, <1>3, <1>5, <1>6, ZeroTime DEF Row, Runs, Triggers, Statuses
  <1>8. \/ SameCause(c) = {} /\ runs' = Append(runs, r)
        \/ UNCHANGED runs
    BY <1>0, <1>row DEF RecordTriggerFailure
  <1>9. call' = [call EXCEPT ![w] = Idle]
    BY DEF RecordTriggerFailure, Become
  <1>10. CASE UNCHANGED runs
    BY <1>3, <1>9, <1>10, CallReads
  <1>11. CASE SameCause(c) = {} /\ runs' = Append(runs, r)
    <2>1. RowIsSound(r)
      BY <1>5, <1>7 DEF RowIsSound
    <2>2. \A i \in DOMAIN runs : DifferentCause(runs[i], r)
      BY <1>6, <1>7, <1>11, CauseIsNew
    <2>3. /\ Later /\ Tables' /\ runs' \in Seq(Runs)
          /\ runs'[Len(runs) + 1] = r
          /\ DOMAIN runs' = DOMAIN runs \cup {Len(runs) + 1}
      BY <1>3, <1>7, <1>11, <2>1, <2>2, RowInserted
    <2>4. DueRowsOnlyBy(w)
      BY <1>7, <2>3 DEF DueRowsOnlyBy
    <2> QED  BY <1>3, <1>9, <2>3, <2>4, CallSteps
  <1> QED  BY <1>8, <1>10, <1>11

\* RunDueSchedules after an error
LEMMA FindFailedRunKeepsInv ==
    ASSUME Inv, NEW w \in Workers, FindFailedRun(w)
    PROVE  Inv'
  <1> PICK c : c = call[w]
    OBVIOUS
  <1>1. /\ c \in Calls /\ Sound(w, c) /\ OfWorker(w, c) /\ c.phase = "error"
    BY AtCall DEF FindFailedRun
  <1>2. UNCHANGED <<runs, log, present>> /\ SmallTypes'
    BY DEF Inv, TypeOK, SmallTypes, FindFailedRun
  <1>3. c.kind = "schedule"
    BY <1>1, WorkersAssumption DEF FindFailedRun, OfWorker
  <1>4. \/ Become(w, Idle)
        \/ (\E i \in SameDue(c) : runs[i].status # "running") /\ Become(w, Succeeded(c))
        \/ SameDue(c) = {} /\ Goto(w, "unrecorded")
    BY DEF FindFailedRun
  <1>5. CASE Become(w, Idle)
    BY <1>2, <1>5, CallReads DEF Become
  <1>6. CASE (\E i \in SameDue(c) : runs[i].status # "running") /\ Become(w, Succeeded(c))
    <2> PICK d : d = Succeeded(c)
      OBVIOUS
    <2>1. \/ d = Idle
          \/ /\ d \in Calls /\ OfWorker(w, d) /\ d.phase = "ok"
             /\ d.kind = c.kind /\ d.auto = c.auto /\ d.due = c.due
      BY <1>1, SucceededIs
    <2>2. Finished(c.auto, c.due)
      BY <1>6 DEF SameDue, Finished
    <2>3. d # Idle => Sound(w, d)
      BY <2>1, <2>2 DEF Sound, OfWorker, Reads, Executes, Settles, Passable
    <2> QED  BY <1>2, <1>6, <2>1, <2>3, CallReads DEF Become
  <1>7. CASE SameDue(c) = {} /\ Goto(w, "unrecorded")
    <2> PICK d : d = [c EXCEPT !.phase = "unrecorded"]
      OBVIOUS
    <2>1. /\ call' = [call EXCEPT ![w] = d]
          /\ d \in Calls /\ d # Idle /\ d.phase = "unrecorded" /\ d.kind = c.kind /\ d.auto = c.auto
          /\ d.key = c.key /\ d.due = c.due /\ d.op = c.op /\ d.at = c.at
      BY <1>1, <1>7, GotoIs DEF Phases
    <2>2. SameDue(d) = {}
      BY <1>7, <2>1 DEF SameDue
    <2>3. Sound(w, d)
      BY <1>1, <1>3, <2>1, <2>2 DEF Sound, OfWorker, Reads, Executes, Settles
    <2> QED  BY <1>2, <2>1, <2>3, CallReads
  <1> QED  BY <1>4, <1>5, <1>6, <1>7

\* The failed run that takes the place of one that was never inserted
LEMMA RecordScheduledFailureKeepsInv ==
    ASSUME Inv, NEW w \in Workers, RecordScheduledFailure(w)
    PROVE  Inv'
  <1> PICK c : c = call[w]
    OBVIOUS
  <1>1. /\ c \in Calls /\ Sound(w, c) /\ OfWorker(w, c) /\ c.phase = "unrecorded"
    BY AtCall DEF RecordScheduledFailure
  <1>2. UNCHANGED <<log, present>> /\ SmallTypes' /\ log' \in Seq(Entries) /\ now \in 0..MaxTime
    BY DEF Inv, TypeOK, SmallTypes, RecordScheduledFailure
  <1>3. c.kind = "schedule" /\ c.op = 0 /\ c.key = Key("schedule", c.due) /\ c.due # None
    BY <1>1 DEF OfWorker
  <1> PICK b : b = [c EXCEPT !.base = version, !.read = 0]
    OBVIOUS
  <1>4. /\ b \in Calls /\ b.kind = "schedule" /\ b.auto = c.auto /\ b.key = c.key /\ b.due = c.due
        /\ b.op = 0 /\ OfWorker(w, b)
    <2>1. version \in Nat
      BY TableTypes DEF Inv
    <2>2. /\ b \in Calls /\ b.kind = "schedule" /\ b.auto = c.auto /\ b.key = c.key /\ b.due = c.due
          /\ b.op = 0 /\ b.at = c.at /\ b.phase = c.phase
      BY <1>1, <1>3, <2>1 DEF Calls
    <2> QED  BY <1>1, <2>2 DEF OfWorker
  <1> PICK r : r = Row(b, "failed", b.key, 0, FALSE, 0)
    OBVIOUS
  <1>5. /\ r \in Runs /\ r.auto = c.auto /\ r.kind = "schedule" /\ r.key = c.key /\ r.op = 0
        /\ r.due = c.due /\ r.status = "failed" /\ r.counts = FALSE
    BY <1>2, <1>4, ZeroTime DEF Row, Runs, Triggers, Statuses, Calls
  <1>6. \/ SameCause(b) = {} /\ runs' = Append(runs, r)
        \/ SameCause(b) # {} /\ UNCHANGED runs
    BY DEF RecordScheduledFailure
  <1> PICK d : d = Succeeded(c)
    OBVIOUS
  <1>7. \/ d = Idle
        \/ /\ d \in Calls /\ OfWorker(w, d) /\ d.phase = "ok"
           /\ d.kind = c.kind /\ d.auto = c.auto /\ d.due = c.due /\ d.why = c.why
    BY <1>1, SucceededIs
  <1>8. call' = [call EXCEPT ![w] = d]
    BY DEF RecordScheduledFailure, Become
  <1>9. CASE SameCause(b) = {} /\ runs' = Append(runs, r)
    <2>1. RowIsSound(r)
      BY <1>3, <1>5 DEF RowIsSound
    <2>2. \A i \in DOMAIN runs : DifferentCause(runs[i], r)
      BY <1>4, <1>5, <1>9, CauseIsNew
    <2>3. /\ Later /\ Tables' /\ runs' \in Seq(Runs)
          /\ runs'[Len(runs) + 1] = r
          /\ DOMAIN runs' = DOMAIN runs \cup {Len(runs) + 1}
      BY <1>2, <1>5, <1>9, <2>1, <2>2, RowInserted
    <2>4. DueRowsOnlyBy(w)
      BY <1>1, <1>3 DEF DueRowsOnlyBy, OfWorker
    <2>5. Finished(c.auto, c.due)'
      BY <1>5, <2>3 DEF Finished
    <2>6. d # Idle => Sound(w, d)'
      BY <1>7, <2>5, DoneCall DEF Passable
    <2> QED  BY <1>2, <1>7, <1>8, <2>3, <2>4, <2>6, CallSteps
  <1>10. CASE SameCause(b) # {} /\ UNCHANGED runs
    <2>1. PICK i \in SameCause(b) : TRUE
      BY <1>10
    <2>2. i \in DOMAIN runs /\ runs[i].auto = c.auto /\ runs[i].due = c.due
      BY <1>4, <2>1, FoundRun
    <2>3. OneScheduler => c.why = "blind"
      BY <1>1, <1>3, <2>2 DEF Sound, Settles, SameDue
    <2>4. Recorded(c.auto, c.due)
      BY <2>2 DEF Recorded
    <2>5. d # Idle => Sound(w, d)
      BY <1>7, <2>3, <2>4 DEF Sound, OfWorker, Reads, Executes, Settles, Passable
    <2> QED  BY <1>2, <1>7, <1>8, <1>10, <2>5, CallReads
  <1> QED  BY <1>6, <1>9, <1>10

\* advanceSchedule
LEMMA AdvanceScheduleKeepsInv ==
    ASSUME Inv, NEW w \in Workers, AdvanceSchedule(w)
    PROVE  Inv'
  <1> PICK c : c = call[w]
    OBVIOUS
  <1>1. /\ c \in Calls /\ OfWorker(w, c) /\ c.phase = "ok" /\ c.auto \in Automations
    BY AtCall DEF AdvanceSchedule
  <1>2. /\ UNCHANGED <<runs, log, settled, present, now, faults>>
        /\ call' = [call EXCEPT ![w] = Idle]
    BY DEF AdvanceSchedule, Become
  <1>3. /\ auto \in [Automations -> Definitions] /\ settled \subseteq Automations
        /\ present \in BOOLEAN /\ now \in 0..MaxTime /\ faults \in 0..MaxFaults
    BY DEF Inv, TypeOK
  <1>4. NextSlot(Max({c.at, c.due})) \in Slots
    <2>1. c.due <= c.at /\ c.due \in Nat /\ c.at \in 0..MaxTime /\ c.at \in Nat
      <3>1. c.due \in Slots \cup {None} /\ c.at \in 0..MaxTime
        BY <1>1 DEF Calls
      <3>2. c.due # None /\ c.due <= c.at
        BY <1>1 DEF OfWorker
      <3>3. c.due \in Nat
        BY <3>1, <3>2, SlotsAssumption
      <3>4. c.at \in Nat
        BY <3>1, NumbersAssumption
      <3> QED  BY <3>1, <3>2, <3>3, <3>4
    <2>2. Max({c.at, c.due}) = c.at
      BY <2>1 DEF Max
    <2> QED  BY <2>1, <2>2, NextSlotIs
  <1>5. auto' \in [Automations -> Definitions]
    <2> PICK s : s = NextSlot(Max({c.at, c.due}))
      OBVIOUS
    <2>1. \/ auto' = [auto EXCEPT ![c.auto].next = s]
          \/ auto' = auto
      BY DEF AdvanceSchedule
    <2>2. [auto[c.auto] EXCEPT !.next = s] \in Definitions
      BY <1>1, <1>3, <1>4 DEF Definitions
    <2> QED  BY <1>1, <1>3, <2>1, <2>2
  <1>6. SmallTypes'
    BY <1>2, <1>3, <1>5 DEF SmallTypes
  <1> QED  BY <1>2, <1>6, CallReads

-----------------------------------------------------------------------------
(***************************************************************************)
(* Undo                                                                    *)
(***************************************************************************)

\* A call of Undo that holds nothing but its run.
LEMMA UndoCall ==
    ASSUME NEW w \in Callers, NEW c \in Calls, c.kind = "undo", c.due = None,
           c.key.use # "schedule", c.phase \in {"undoing", "notundone"}, c.run \in DOMAIN runs
    PROVE  OfWorker(w, c) /\ Sound(w, c)
  BY DEF Sound, OfWorker, Reads, Executes, Settles

\* The call of an undo under way.
LEMMA UndoUnderWay ==
    ASSUME NEW w, NEW c \in Calls, Sound(w, c), c.phase \in {"undoing", "undone", "notundone"}
    PROVE  /\ c.kind = "undo" /\ w \in Callers /\ c.due = None /\ c.key.use # "schedule"
           /\ c.run \in DOMAIN runs
  BY DEF Sound, OfWorker, Executes

\* Undo takes the run,
LEMMA UndoRunKeepsInv ==
    ASSUME Inv, NEW w \in Callers, NEW i \in DOMAIN runs, NEW k \in ClientKeys, UndoRun(w, i, k)
    PROVE  Inv'
  <1>1. /\ runs[i] \in Runs /\ runs \in Seq(Runs) /\ runs[i].auto \in Automations /\ i \in Nat
        /\ k \in Nat
    <2>1. runs[i] \in Runs /\ runs \in Seq(Runs) /\ i \in Nat
      BY TableTypes DEF Inv
    <2> QED  BY <2>1, NumbersAssumption DEF Runs
  <1>2. UNCHANGED <<log, present>> /\ SmallTypes' /\ log' \in Seq(Entries)
    BY DEF Inv, TypeOK, SmallTypes, UndoRun
  <1>3. runs[i].status \in {"succeeded", "undoing"} /\ Logged("run", i)
    BY DEF UndoRun, Inv, Tables, Outcomes, OutcomeIsTrue
  <1> PICK r : r = [runs[i] EXCEPT !.status = "undoing", !.undoKey = k]
    OBVIOUS
  <1>4. r \in Runs /\ r.status = "undoing" /\ SameRow(runs[i], r)
    BY <1>1, <1>3 DEF Runs, Statuses, SameRow
  <1>5. runs' = [runs EXCEPT ![i] = r]
    BY <1>1 DEF UndoRun
  <1>6. Later /\ Tables' /\ runs' \in Seq(Runs)
    BY <1>2, <1>3, <1>4, <1>5, OutcomeRecorded
  <1> PICK a : a = runs[i].auto
    OBVIOUS
  <1> PICK c : c = [NewCall("undoing", "undo", a, Key("client", k), 0, 0, None, 0, 0) EXCEPT !.run = i]
    OBVIOUS
  <1>7. /\ c \in Calls /\ c.kind = "undo" /\ c.due = None /\ c.key = Key("client", k)
        /\ c.phase = "undoing" /\ c.run = i
    <2>1. /\ Key("client", k) \in Keys /\ 0 \in Nat /\ 0 \in 0..MaxRevision /\ 0 \in 0..MaxTime
          /\ "undoing" \in Phases /\ None \in Slots \cup {None} /\ a \in Automations
      BY <1>1, NumbersAssumption DEF Key, Keys, Phases
    <2> QED  BY <1>1, <2>1 DEF NewCall, Calls
  <1>8. call' = [call EXCEPT ![w] = c]
    BY DEF UndoRun, Begin
  <1>9. DOMAIN runs' = DOMAIN runs
    BY <1>5
  <1>10. Sound(w, c)'
    <2>1. c.run \in DOMAIN runs' /\ c.key.use # "schedule"
      BY <1>7, <1>9 DEF Key
    <2> QED  BY <1>7, <2>1 DEF Sound, OfWorker, Reads, Executes, Settles
  <1> QED  BY <1>2, <1>6, <1>7, <1>8, <1>9, <1>10, NoNewRows, CallSteps DEF Workers

\* undoes its operation,
LEMMA UndoOperationKeepsInv ==
    ASSUME Inv, NEW w \in Workers, UndoOperation(w)
    PROVE  Inv'
  <1> PICK c : c = call[w]
    OBVIOUS
  <1>1. /\ c \in Calls /\ Sound(w, c) /\ OfWorker(w, c) /\ c.phase = "undoing"
    BY AtCall DEF UndoOperation
  <1> PICK i : i = c.run
    OBVIOUS
  <1>2. /\ c.kind = "undo" /\ w \in Callers /\ c.due = None /\ c.key.use # "schedule"
        /\ i \in DOMAIN runs
    BY <1>1, UndoUnderWay
  <1>3. UNCHANGED <<runs, present>> /\ SmallTypes' /\ i \in Nat
    BY <1>2, TableTypes DEF Inv, TypeOK, SmallTypes, UndoOperation
  <1>4. \/ Goto(w, "notundone") /\ UNCHANGED log
        \/ Logged("undo", i) /\ Goto(w, "undone") /\ UNCHANGED log
        \/ /\ ~Logged("undo", i) /\ Goto(w, "undone")
           /\ log' = Append(log, [by |-> "undo", run |-> i])
    BY DEF UndoOperation
  <1>5. CASE Goto(w, "notundone") /\ UNCHANGED log
    <2> PICK d : d = [c EXCEPT !.phase = "notundone"]
      OBVIOUS
    <2>1. /\ call' = [call EXCEPT ![w] = d]
          /\ d \in Calls /\ d.phase = "notundone" /\ d.kind = c.kind
          /\ d.key = c.key /\ d.due = c.due /\ d.run = i
      BY <1>1, <1>5, GotoIs DEF Phases
    <2>2. Sound(w, d)
      BY <1>2, <2>1, UndoCall
    <2> QED  BY <1>3, <1>5, <2>1, <2>2, CallReads
  <1>6. CASE Goto(w, "undone")
    <2> PICK d : d = [c EXCEPT !.phase = "undone"]
      OBVIOUS
    <2>1. /\ call' = [call EXCEPT ![w] = d]
          /\ d \in Calls /\ d.phase = "undone" /\ d.kind = c.kind
          /\ d.key = c.key /\ d.due = c.due /\ d.run = i
      BY <1>1, <1>6, GotoIs DEF Phases
    <2>2. CASE Logged("undo", i) /\ UNCHANGED log
      <3>1. Sound(w, d)
        BY <1>2, <2>1, <2>2 DEF Sound, OfWorker, Reads, Executes, Settles
      <3> QED  BY <1>3, <2>1, <2>2, <3>1, CallReads
    <2>3. CASE ~Logged("undo", i) /\ log' = Append(log, [by |-> "undo", run |-> i])
      <3>1. Later /\ Tables' /\ log' \in Seq(Entries) /\ Logged("undo", i)'
        BY <1>2, <1>3, <2>3, EntryAppended
      <3>2. Sound(w, d)'
        BY <1>2, <1>3, <2>1, <3>1 DEF Sound, OfWorker, Reads, Executes, Settles
      <3>3. runs' \in Seq(Runs) /\ DueRowsOnlyBy(w)
        BY <1>3 DEF Inv, TypeOK, DueRowsOnlyBy
      <3> QED  BY <1>3, <2>1, <3>1, <3>2, <3>3, CallSteps
    <2>4. ~Goto(w, "notundone")
      <3>1. ASSUME Goto(w, "notundone") PROVE FALSE
        <4>1. call'[w].phase = "notundone" /\ call'[w].phase = "undone"
          <5> PICK e : e = [c EXCEPT !.phase = "notundone"]
            OBVIOUS
          <5>1. call' = [call EXCEPT ![w] = e] /\ e.phase = "notundone"
            BY <1>1, <3>1, GotoIs DEF Phases
          <5> QED  BY <2>1, <5>1 DEF Inv, TypeOK
        <4> QED  BY <4>1
      <3> QED  BY <3>1
    <2> QED  BY <1>4, <2>2, <2>3, <2>4
  <1> QED  BY <1>4, <1>5, <1>6

\* gives it back when that fails,
LEMMA ResetUndoKeepsInv ==
    ASSUME Inv, NEW w \in Workers, ResetUndo(w)
    PROVE  Inv'
  <1> PICK c : c = call[w]
    OBVIOUS
  <1>1. /\ c \in Calls /\ Sound(w, c) /\ OfWorker(w, c) /\ c.phase = "notundone"
    BY AtCall DEF ResetUndo
  <1> PICK i : i = c.run
    OBVIOUS
  <1>2. i \in DOMAIN runs
    BY <1>1, UndoUnderWay
  <1>3. UNCHANGED <<log, present>> /\ SmallTypes' /\ log' \in Seq(Entries) /\ Fail(w, "other")
    BY DEF Inv, TypeOK, SmallTypes, ResetUndo
  <1>4. (runs[i].status = "undoing" /\ SetStatus(i, "succeeded")) \/ UNCHANGED runs
    BY DEF ResetUndo
  <1>5. CASE UNCHANGED runs
    BY <1>1, <1>3, <1>5, FailKeepsInv DEF Reasons
  <1>6. CASE runs[i].status = "undoing" /\ SetStatus(i, "succeeded")
    <2>1. Logged("run", i)
      BY <1>2, <1>6 DEF Inv, Tables, Outcomes, OutcomeIsTrue
    <2>2. Later /\ Tables' /\ runs' \in Seq(Runs) /\ DOMAIN runs' = DOMAIN runs
      BY <1>2, <1>3, <1>6, <2>1, SetStatusIs
    <2> QED  BY <1>1, <1>3, <2>2, FailAfterOutcome DEF Reasons
  <1> QED  BY <1>4, <1>5, <1>6

\* and records the outcome.
LEMMA RecordUndoKeepsInv ==
    ASSUME Inv, NEW w \in Workers, RecordUndo(w)
    PROVE  Inv'
  <1> PICK c : c = call[w]
    OBVIOUS
  <1>1. /\ c \in Calls /\ Sound(w, c) /\ OfWorker(w, c) /\ c.phase = "undone"
    BY AtCall DEF RecordUndo
  <1> PICK i : i = c.run
    OBVIOUS
  <1>2. i \in DOMAIN runs /\ c.kind = "undo" /\ Logged("undo", i)
    BY <1>1, UndoUnderWay DEF Sound, Executes
  <1>3. UNCHANGED <<log, present>> /\ SmallTypes' /\ log' \in Seq(Entries)
    BY DEF Inv, TypeOK, SmallTypes, RecordUndo
  <1>4. \/ /\ runs[i].status = "undoing" /\ SetStatus(i, "undone")
           /\ call' = [call EXCEPT ![w] = Idle]
        \/ UNCHANGED runs /\ Fail(w, "other")
    BY <1>2 DEF RecordUndo, Become, Succeeded
  <1>5. CASE UNCHANGED runs /\ Fail(w, "other")
    BY <1>1, <1>3, <1>5, FailKeepsInv DEF Reasons
  <1>6. CASE /\ runs[i].status = "undoing" /\ SetStatus(i, "undone")
             /\ call' = [call EXCEPT ![w] = Idle]
    <2>1. Logged("run", i)
      BY <1>2, <1>6 DEF Inv, Tables, Outcomes, OutcomeIsTrue
    <2>2. Later /\ Tables' /\ runs' \in Seq(Runs) /\ DOMAIN runs' = DOMAIN runs
      BY <1>2, <1>3, <1>6, <2>1, SetStatusIs
    <2> QED  BY <1>3, <1>6, <2>2, NoNewRows, CallSteps
  <1> QED  BY <1>4, <1>5, <1>6

-----------------------------------------------------------------------------
(***************************************************************************)
(* Faults                                                                  *)
(***************************************************************************)

\* A scheduler that could not look for its failed run
LEMMA BlindIs ==
    ASSUME NEW w, NEW c \in Calls, OfWorker(w, c), c.kind = "schedule"
    PROVE  LET d == Blind(c)
           IN  d \in Calls /\ Sound(w, d)
  <1> DEFINE d == Blind(c)
  <1>1. /\ d \in Calls /\ d.phase = "unrecorded" /\ d.why = "blind" /\ d.kind = c.kind /\ d.key = c.key
        /\ d.due = c.due /\ d.op = c.op /\ d.at = c.at
    BY DEF Blind, Calls, Phases
  <1> HIDE DEF d
  <1>2. Sound(w, d)
    BY <1>1 DEF Sound, OfWorker, Reads, Executes, Settles
  <1> QED  BY <1>1, <1>2 DEF d

\* A server stops, or cannot reach the database.
LEMMA FaultsKeepInv ==
    ASSUME Inv, NEW w \in Workers, Crash(w) \/ Unavailable(w)
    PROVE  Inv'
  <1> PICK c : c = call[w]
    OBVIOUS
  <1>1. c \in Calls /\ Sound(w, c) /\ OfWorker(w, c)
    BY DEF Inv, TypeOK, CallsAreSound, Crash, Unavailable, Sound
  <1>2. UNCHANGED <<runs, log, present>> /\ SmallTypes'
    <2>1. UNCHANGED <<auto, runs, log, settled, present, now>> /\ faults' = faults + 1 /\ faults < MaxFaults
      BY DEF Crash, Unavailable
    <2> QED  BY <2>1, NumbersAssumption DEF Inv, TypeOK, SmallTypes
  <1>3. \/ Become(w, Idle)
        \/ Fail(w, "other")
        \/ c.phase = "undoing" /\ Goto(w, "notundone")
        \/ w \in Schedulers /\ Become(w, Blind(FailedCall(c, "other")))
        \/ w \in Schedulers /\ Become(w, Blind(c))
    BY DEF Crash, Unavailable
  <1>4. CASE Become(w, Idle)
    BY <1>2, <1>4, CallReads DEF Become
  <1>5. CASE Fail(w, "other")
    BY <1>1, <1>2, <1>5, FailKeepsInv DEF Reasons
  <1>6. CASE c.phase = "undoing" /\ Goto(w, "notundone")
    <2> PICK d : d = [c EXCEPT !.phase = "notundone"]
      OBVIOUS
    <2>1. /\ call' = [call EXCEPT ![w] = d]
          /\ d \in Calls /\ d.phase = "notundone" /\ d.kind = c.kind
          /\ d.key = c.key /\ d.due = c.due /\ d.run = c.run
      BY <1>1, <1>6, GotoIs DEF Phases
    <2>2. Sound(w, d)
      BY <1>1, <1>6, <2>1, UndoUnderWay, UndoCall
    <2> QED  BY <1>2, <2>1, <2>2, CallReads
  <1>7. ASSUME w \in Schedulers, NEW b \in Calls, OfWorker(w, b), Become(w, Blind(b))
        PROVE  Inv'
    <2>1. b.kind = "schedule"
      BY <1>7, WorkersAssumption DEF OfWorker
    <2> PICK d : d = Blind(b)
      OBVIOUS
    <2>2. d \in Calls /\ Sound(w, d)
      BY <1>7, <2>1, BlindIs
    <2> QED  BY <1>2, <1>7, <2>2, CallReads DEF Become
  <1>8. CASE w \in Schedulers /\ Become(w, Blind(FailedCall(c, "other")))
    <2> PICK b : b = FailedCall(c, "other")
      OBVIOUS
    <2>1. c.kind = "schedule"
      BY <1>1, <1>8, WorkersAssumption DEF OfWorker
    <2>2. b # Idle
      <3>1. b = [c EXCEPT !.phase = "error", !.why = "other", !.base = 0, !.preview = 0, !.read = 0,
                          !.stamp = 0, !.skip = FALSE]
        BY <2>1 DEF FailedCall
      <3>2. b.phase = "error"
        BY <1>1, <3>1 DEF Calls
      <3> QED  BY <3>2 DEF Idle
    <2>3. b \in Calls /\ OfWorker(w, b)
      BY <1>1, <2>2, FailedCallIs DEF Reasons
    <2> QED  BY <1>7, <1>8, <2>3
  <1> QED  BY <1>1, <1>3, <1>4, <1>5, <1>6, <1>7, <1>8

-----------------------------------------------------------------------------
(***************************************************************************)
(* The invariant                                                           *)
(***************************************************************************)

\* It holds at the start
LEMMA InitInv ==
    ASSUME Init
    PROVE  Inv
  <1>1. TypeOK
    <2>1. \A t \in Created : [trigger |-> t, enabled |-> TRUE, deleted |-> FALSE, revision |-> 1,
                              next |-> IF t = "schedule" THEN NextSlot(0) ELSE None] \in Definitions
      <3>1. 0 \in 0..MaxTime /\ 1 \in 1..MaxRevision
        BY NumbersAssumption
      <3>2. NextSlot(0) \in Slots
        BY <3>1, NextSlotIs
      <3> QED  BY <3>1, <3>2, CreatedAssumption DEF Definitions, Triggers
    <2>2. auto \in [Automations -> Definitions]
      BY <2>1 DEF Init
    <2>3. [by |-> "user", run |-> None] \in Entries
      BY DEF Entries, None
    <2>4. runs \in Seq(Runs) /\ log \in Seq(Entries)
      BY <2>3 DEF Init
    <2>5. now \in 0..MaxTime /\ faults \in 0..MaxFaults
      BY NumbersAssumption DEF Init
    <2> QED  BY <2>2, <2>4, <2>5 DEF Init, TypeOK
  <1>2. runs = <<>> /\ DOMAIN runs = {}
    BY DEF Init
  <1>3. RowsAreSound /\ RowsAreDistinct /\ Outcomes
    BY <1>2 DEF RowsAreSound, RowsAreDistinct, Outcomes
  <1>4. EntriesAreSound
    BY DEF Init, EntriesAreSound
  <1>5. RateIsKept
    <2> SUFFICES ASSUME NEW t \in 0..MaxTime PROVE Cardinality(Window(t)) <= RunsPerHour
      BY DEF RateIsKept, Window, InWindow
    <2>1. Window(t) = {}
      BY <1>2 DEF Window
    <2> QED  BY <2>1, FS_EmptySet, NumbersAssumption
  <1>6. CallsAreSound
    BY DEF Init, CallsAreSound
  <1> QED  BY <1>1, <1>3, <1>4, <1>5, <1>6 DEF Inv, Tables

\* and every step keeps it.
LEMMA NextInv ==
    ASSUME Inv, [Next]_vars
    PROVE  Inv'
  <1>1. CASE UNCHANGED vars
    <2>1. UNCHANGED <<runs, log, present, call>> /\ SmallTypes'
      BY <1>1 DEF vars, Inv, TypeOK, SmallTypes
    <2>2. Later /\ Tables' /\ log' \in Seq(Entries)
      BY <2>1, NothingWritten DEF Inv, TypeOK
    <2> QED  BY <2>1, <2>2, NoCallSteps
  <1>2. CASE \/ \E a \in Automations, t \in Updated, e \in BOOLEAN : Update(a, t, e)
             \/ \E a \in Automations : Delete(a)
             \/ DeleteSheet
             \/ Tick
    BY <1>2, SurroundingsKeepInv
  <1>3. ASSUME NEW w \in Callers, Request(w)
        PROVE  Inv'
    BY <1>3, StartsKeepInv, WriteCellsKeepsInv, UndoRunKeepsInv DEF Request
  <1>4. ASSUME NEW w \in Schedulers, NEW a \in Automations, RunDueSchedules(w, a)
        PROVE  Inv'
    BY <1>4, StartsKeepInv
  <1>5. ASSUME NEW w \in Workers, Step(w)
        PROVE  Inv'
    BY <1>5, TriggerCellChangeKeepsInv, ReadDefinitionKeepsInv, ReadRangeKeepsInv, InsertRunKeepsInv,
       ApplyCellsKeepsInv, RecordSuccessKeepsInv, MarkRunFailedKeepsInv, RecordTriggerFailureKeepsInv,
       FindFailedRunKeepsInv, RecordScheduledFailureKeepsInv, AdvanceScheduleKeepsInv,
       UndoOperationKeepsInv, ResetUndoKeepsInv, RecordUndoKeepsInv DEF Step
  <1>6. ASSUME NEW w \in Workers, Crash(w) \/ Unavailable(w)
        PROVE  Inv'
    BY <1>6, FaultsKeepInv
  <1> QED  BY <1>1, <1>2, <1>3, <1>4, <1>5, <1>6 DEF Next

\* So it holds always.
LEMMA InvAlways == Spec => []Inv
  <1> QED  BY InitInv, NextInv, PTL DEF Spec

-----------------------------------------------------------------------------
(***************************************************************************)
(* The theorems                                                            *)
(***************************************************************************)

\* The tables, the log and the calls are well formed in every reachable state (TypeOK).
THEOREM TypeCorrect == Spec => []TypeOK
  <1>1. Inv => TypeOK
    BY DEF Inv
  <1> QED  BY <1>1, InvAlways, PTL

\* The history of runs tells the truth about the cells, for any number of requests,
\* servers and faults (StatusTellsTheTruth; executeRun, markRunFailed, Undo, recordUndo).
THEOREM HistoryIsTrue == Spec => []StatusTellsTheTruth
  <1>1. ASSUME Inv PROVE StatusTellsTheTruth
    <2> SUFFICES ASSUME NEW i \in DOMAIN runs
                 PROVE  /\ runs[i].status \in {"succeeded", "undoing", "undone"} => Logged("run", i)
                        /\ runs[i].status \in {"failed", "skipped"} /\ present => ~Logged("run", i)
                        /\ runs[i].status = "undone" => Logged("undo", i)
      BY DEF StatusTellsTheTruth
    <2>1. OutcomeIsTrue(i)
      BY <1>1 DEF Inv, Tables, Outcomes
    <2>2. Logged("run", i) => runs[i].counts /\ runs[i].status # "skipped"
      BY <1>1 DEF Inv, Tables, EntriesAreSound, Logged
    <2> QED  BY <2>1, <2>2 DEF OutcomeIsTrue, Spent
  <1> QED  BY <1>1, InvAlways, PTL

\* A run writes only on the version that it read and its user reviewed
\* (AppliedToWhatItRead; buildExecution, ApplyCells with RequireExactVersion).
THEOREM RunsWriteOnWhatTheyRead == Spec => []AppliedToWhatItRead
  <1>1. ASSUME Inv PROVE AppliedToWhatItRead
    BY <1>1 DEF Inv, Tables, EntriesAreSound, AppliedToWhatItRead
  <1> QED  BY <1>1, InvAlways, PTL

\* Every cause is served by one write at most, and every run undone at most once
\* (OncePerCause; the unique indexes of automation_runs and the keys of its operations).
THEOREM CausesAreServedOnce == Spec => []OncePerCause
  <1>1. ASSUME Inv PROVE OncePerCause
    <2> SUFFICES ASSUME NEW v \in DOMAIN log, NEW u \in DOMAIN log, v < u, log[v].by = log[u].by,
                        log[v].by # "user"
                 PROVE  /\ log[v].run # log[u].run
                        /\ DifferentCause(runs[log[v].run], runs[log[u].run])
      BY DEF OncePerCause, DifferentCause
    <2>1. log[v] \in Entries /\ log[u] \in Entries /\ v # u
      BY <1>1, TableTypes DEF Inv
    <2>2. log[v] # log[u] /\ log[v].run \in DOMAIN runs /\ log[u].run \in DOMAIN runs
      BY <1>1, <2>1 DEF Inv, Tables, EntriesAreSound
    <2>3. log[v].run # log[u].run
      BY <2>1, <2>2 DEF Entries
    <2> QED  BY <1>1, <2>2, <2>3 DEF Inv, Tables, RowsAreDistinct
  <1> QED  BY <1>1, InvAlways, PTL

\* From any time on, no more runs than the limit are stamped and admitted within an hour,
\* however many servers admit them and however far their clocks are apart (RateIsKept; the
\* count and the insert are one transaction of insertRun, behind a lock of the workbook).
THEOREM TheRateIsKept == Spec => []RateIsKept
  <1>1. Inv => RateIsKept
    BY DEF Inv, Tables
  <1> QED  BY <1>1, InvAlways, PTL

\* With one scheduler, next_run_at leaves a due time only when its run is finished, or
\* when the lookup of its run has failed and the run is on record (DueIsKept;
\* RunDueSchedules, recordScheduledFailure, advanceSchedule).  Two schedulers may not keep
\* this: one that has found no run may record nothing when the other inserts the row
\* meanwhile, and advances although that row is still running.
THEOREM DueTimesAreKept ==
    ASSUME OneScheduler
    PROVE  Spec => DueIsKept
  <1> DEFINE Kept(a) == \/ auto[a].next \in {None, auto'[a].next}
                        \/ auto'[a].revision # auto[a].revision
                        \/ Finished(a, auto[a].next)
                        \/ PassedBlindly(a) /\ Recorded(a, auto[a].next)
  <1>1. ASSUME Inv, [Next]_vars, NEW a \in Automations
        PROVE  Kept(a)
    <2>1. auto \in [Automations -> Definitions] /\ auto[a] \in Definitions
      BY <1>1 DEF Inv, TypeOK
    <2>2. CASE auto' = auto
      BY <2>2
    <2>3. ASSUME NEW b \in Automations, NEW t \in Updated, NEW e \in BOOLEAN, Update(b, t, e)
          PROVE  Kept(a)
      <3>1. auto[b].revision \in Nat
        BY <1>1, NumbersAssumption DEF Inv, TypeOK, Definitions
      <3>2. a = b => auto'[a].revision = auto[a].revision + 1
        BY <2>1, <2>3 DEF Update
      <3>3. a # b => auto'[a] = auto[a]
        BY <2>1, <2>3 DEF Update
      <3> QED  BY <3>1, <3>2, <3>3
    <2>4. ASSUME NEW b \in Automations, Delete(b)
          PROVE  Kept(a)
      <3>1. auto'[a].next = auto[a].next
        BY <2>1, <2>4 DEF Delete, Definitions
      <3> QED  BY <3>1
    <2>5. ASSUME NEW w \in Workers, AdvanceSchedule(w)
          PROVE  Kept(a)
      <3>1. /\ call[w].phase = "ok" /\ Sound(w, call[w]) /\ call[w].auto \in Automations
            /\ w \in Schedulers /\ At(w, "ok")
        BY <1>1, <2>5, AtCall DEF AdvanceSchedule
      <3>2. Passable(call[w])
        BY <3>1 DEF Sound, Settles
      <3>3. CASE auto[call[w].auto].next = call[w].due /\ a = call[w].auto
        <4>1. CASE Finished(a, auto[a].next)
          BY <4>1
        <4>2. CASE call[w].why = "blind" /\ Recorded(a, auto[a].next)
          <5>1. PassedBlindly(a)
            BY <3>1, <3>3, <4>2 DEF PassedBlindly
          <5> QED  BY <4>2, <5>1
        <4> QED  BY <3>2, <3>3, <4>1, <4>2 DEF Passable
      <3>4. CASE ~(auto[call[w].auto].next = call[w].due /\ a = call[w].auto)
        <4>1. auto'[a] = auto[a]
          BY <2>1, <2>5, <3>4 DEF AdvanceSchedule
        <4> QED  BY <4>1
      <3> QED  BY <3>3, <3>4
    <2>6. ASSUME NEW w \in Workers, Step(w), ~AdvanceSchedule(w)
          PROVE  auto' = auto
      BY <2>6 DEF Step, TriggerCellChange, ReadDefinition, ReadRange, InsertRun, ApplyCells, RecordSuccess,
         MarkRunFailed, RecordTriggerFailure, FindFailedRun, RecordScheduledFailure, UndoOperation,
         ResetUndo, RecordUndo
    <2>7. CASE \/ UNCHANGED vars \/ DeleteSheet \/ Tick
               \/ \E w \in Callers : Request(w)
               \/ \E w \in Schedulers, b \in Automations : RunDueSchedules(w, b)
               \/ \E w \in Workers : Crash(w) \/ Unavailable(w)
      <3>1. auto' = auto
        BY <2>7 DEF vars, DeleteSheet, Tick, Request, WriteCells, RunManually, InvokeWebhook, UndoRun,
           RunDueSchedules, Crash, Unavailable
      <3> QED  BY <2>2, <3>1
    <2> QED  BY <1>1, <2>2, <2>3, <2>4, <2>5, <2>6, <2>7 DEF Next
  <1>2. ASSUME Inv, [Next]_vars
        PROVE  [\A a \in Automations : Kept(a)]_vars
    BY <1>1, <1>2
  <1>3. Inv /\ [Next]_vars => [\A a \in Automations : Kept(a)]_vars
    BY <1>2
  <1> QED  BY <1>3, InvAlways, PTL DEF Spec, DueIsKept

=============================================================================
