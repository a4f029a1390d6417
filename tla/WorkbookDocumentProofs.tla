----------------------- MODULE WorkbookDocumentProofs -----------------------
(***************************************************************************)
(* For any number of workbooks, sheets, versions and operations: tabs are  *)
(* numbered without gaps, a version of things that can be written anew can *)
(* be restored, and all versions are restored exactly but for the ranges   *)
(* of lists, formulas follow their sheets, deletions are backed up and     *)
(* copies are complete.                                                    *)
(***************************************************************************)
EXTENDS WorkbookDocument, TLAPS, FiniteSetTheorems

\* The positions of the sheets S of table T are different, and none before one is free.
Numbered(T, S) ==
    /\ \A s, t \in S : T[s].position = T[t].position => s = t
    /\ \A s \in S : \A q \in 0..T[s].position : \E t \in S : T[t].position = q

\* No two have one name.
Named(T, S) == \A s, t \in S : T[s].name = T[t].name => s = t

\* A formula names the sheet that it meant when this is one of them.
Linked(T, S) == \A s \in S : T[s].formula.meant \in S => T[T[s].formula.meant].name = T[s].formula.names

\* The sheets S of table T, with ids up to n, make up a workbook.
IsWorkbook(T, S, n) ==
    /\ S # {} /\ S \subseteq 1..n
    /\ \A s \in S : T[s].formula.meant <= n
    /\ Numbered(T, S) /\ Named(T, S) /\ Linked(T, S)

\* Every workbook has its sheets.
BooksAreSound ==
    /\ sheets \in [DOMAIN sheets -> Sheets]
    /\ books \in [DOMAIN books -> [title : Titles, live : BOOLEAN]]
    /\ \A b \in DOMAIN books : IsWorkbook(sheets, SheetsOf(b), used)

\* What hangs on a sheet hangs on one that exists, and charts draw from their own workbook.
PartsAreSound ==
    /\ rules \subseteq Rules /\ charts \subseteq Charts /\ views \subseteq Views
    /\ \A r \in rules : r.sheet \in DOMAIN sheets
    /\ \A v \in views : v.sheet \in DOMAIN sheets
    /\ \A c \in charts : /\ c.sheet \in DOMAIN sheets
                         /\ c.source # Ref => /\ c.source \in DOMAIN sheets
                                              /\ sheets[c.source].book = sheets[c.sheet].book

\* A version holds a whole workbook, as it was; one of an earlier release holds no rules and views.
VersionIsSound(v, n) ==
    LET d == v.snapshot
        D == DOMAIN d.sheets
    IN  /\ v.of = d
        /\ v.schema = CurrentSchema \/ (v.schema \in 2..8 /\ d.rules = {} /\ d.views = {})
        /\ d = [title |-> d.title, sheets |-> d.sheets, rules |-> d.rules, charts |-> d.charts,
                views |-> d.views]
        /\ d.title \in Titles /\ d.sheets \in [D -> Sheets] /\ \A s \in D : d.sheets[s].book = v.book
        /\ IsWorkbook(d.sheets, D, n)
        /\ d.rules \subseteq Rules /\ d.charts \subseteq Charts /\ d.views \subseteq Views
        /\ \A r \in d.rules : r.kind # "image" /\ r.sheet \in D
        /\ \A w \in d.views : w.sheet \in D
        /\ \A c \in d.charts : c.sheet \in D /\ c.source \in D \cup {Ref}

\* A sheet never changes its workbook, not even while only versions hold it.
Homes(versns, T) ==
    \A i \in DOMAIN versns : \A s \in DOMAIN versns[i].snapshot.sheets :
        /\ s \in DOMAIN T => T[s].book = versns[i].book
        /\ \A j \in DOMAIN versns :
              s \in DOMAIN versns[j].snapshot.sheets => versns[j].book = versns[i].book

VersionsAreSound ==
    /\ DOMAIN versions \subseteq 1..MaxVersions
    /\ \A i \in DOMAIN versions : VersionIsSound(versions[i], used)
    /\ Homes(versions, sheets)

\* The document of a workbook with these filter views.
DocumentWith(b, V) ==
    [title |-> books[b].title, sheets |-> Restrict(sheets, SheetsOf(b)),
     rules |-> {r \in On(rules, SheetsOf(b)) : r.kind # "image"},
     charts |-> On(charts, SheetsOf(b)), views |-> V]

\* An operation between its backup and its change: the backup is the document as it still is,
\* but for filter views, and of those it lacks none but the ones written since.
BackupIsSound(b, x) ==
    LET V == x.snapshot.views
    IN  /\ Live(b)
        /\ x = [snapshot |-> x.snapshot, of |-> x.of, seen |-> x.seen, since |-> x.since]
        /\ x.of = x.snapshot /\ x.snapshot = DocumentWith(b, V)
        /\ V \subseteq Views /\ x.seen \subseteq Views
        /\ \A v \in V : v.sheet \in SheetsOf(b)
        /\ \A v \in x.seen : v.sheet \in SheetsOf(b)
        /\ On(views, SheetsOf(b)) \subseteq V \cup x.since

BackupsAreSound == \A b \in DOMAIN backups : \A x : x = backups[b] => BackupIsSound(b, x)

\* The inductive invariant: of the tables, and with the operations under way.
Core == TypeOK /\ BooksAreSound /\ PartsAreSound /\ VersionsAreSound
Inv == Core /\ BackupsAreSound

-----------------------------------------------------------------------------
(***************************************************************************)
(* Positions                                                               *)
(***************************************************************************)

\* Numbered sheets have the positions 0, 1, ... up to their number.
LEMMA NumberedIs ==
    ASSUME NEW T, NEW S, IsFiniteSet(S), \A s \in S : T[s].position \in Nat, Numbered(T, S)
    PROVE  /\ Cardinality(S) \in Nat
           /\ {T[s].position : s \in S} = 0..(Cardinality(S) - 1)
  <1> PICK n : n = Cardinality(S)
    OBVIOUS
  <1> PICK P : P = {T[s].position : s \in S}
    OBVIOUS
  <1> PICK f : f = [s \in S |-> T[s].position]
    OBVIOUS
  <1>1. n \in Nat
    BY FS_CardinalityType
  <1>2. f \in Surjection(S, P) /\ f \in Injection(S, P)
    <2>1. f \in [S -> P] /\ \A s \in S : f[s] = T[s].position
      OBVIOUS
    <2>2. \A p \in P : \E s \in S : f[s] = p
      BY <2>1
    <2>3. \A s, t \in S : f[s] = f[t] => s = t
      BY <2>1 DEF Numbered
    <2> QED  BY <2>1, <2>2, <2>3 DEF Surjection, Injection, IsInjective
  <1>3. IsFiniteSet(P) /\ Cardinality(P) = n
    BY <1>2, FS_Surjection
  <1>4. \A p \in P : p \in Nat /\ 0..p \subseteq P
    BY DEF Numbered
  <1>5. ASSUME NEW p \in P PROVE p \in 0..(n - 1)
    <2>1. p \in Nat /\ 0..p \subseteq P
      BY <1>4
    <2>2. Cardinality(0..p) = p + 1
      BY <2>1, FS_Interval
    <2>3. Cardinality(0..p) <= n
      BY <1>3, <2>1, FS_Subset
    <2> QED  BY <1>1, <2>1, <2>2, <2>3
  <1>6. IsFiniteSet(0..(n - 1)) /\ Cardinality(0..(n - 1)) = n
    <2>1. n - 1 \in Int
      BY <1>1
    <2> QED  BY <1>1, <2>1, FS_Interval
  <1>7. P = 0..(n - 1)
    <2>1. P \in SUBSET (0..(n - 1))
      BY <1>5
    <2> QED  BY <1>3, <1>6, <2>1, FS_Subset
  <1> QED  BY <1>1, <1>7

\* Ids up to n make a finite set, of n at most.
LEMMA IdsAreFinite ==
    ASSUME NEW n \in Nat, NEW S, S \subseteq 1..n
    PROVE  IsFiniteSet(S) /\ Cardinality(S) \in Nat /\ Cardinality(S) <= n
  <1>1. IsFiniteSet(1..n) /\ Cardinality(1..n) = n
    BY FS_Interval
  <1>2. S \in SUBSET (1..n)
    OBVIOUS
  <1> QED  BY <1>1, <1>2, FS_Subset, FS_CardinalityType

\* A position up to one that is taken is taken.
LEMMA TakenIs ==
    ASSUME NEW T, NEW S, Numbered(T, S), NEW s \in S, T[s].position \in Nat,
           NEW q \in Nat, q <= T[s].position
    PROVE  \E t \in S : T[t].position = q
  BY DEF Numbered

\* A sheet is put in: those from its position on move one to the right,
LEMMA InsertedNumbered ==
    ASSUME NEW T, NEW U, NEW S, NEW x, x \notin S, NEW q \in Nat,
           \A s \in S : T[s].position \in Nat, Numbered(T, S),
           \A r \in 0..(q - 1) : \E t \in S : T[t].position = r,
           U[x].position = q,
           \A s \in S : U[s].position = IF T[s].position >= q THEN T[s].position + 1 ELSE T[s].position
    PROVE  Numbered(U, S \cup {x})
  <1>1. \A s \in S : T[s].position \in Nat /\ U[s].position \in Nat /\ U[s].position # q
    OBVIOUS
  <1>2. ASSUME NEW s \in S, NEW t \in S, U[s].position = U[t].position PROVE s = t
    <2>1. T[s].position = T[t].position
      BY <1>1, <1>2
    <2> QED  BY <2>1 DEF Numbered
  <1>3. ASSUME NEW s \in S \cup {x}, NEW r \in 0..U[s].position
        PROVE  \E t \in S \cup {x} : U[t].position = r
    <2>1. r \in Nat
      BY <1>1, <1>3
    <2>2. CASE r = q
      BY <2>2
    <2>3. CASE r < q
      <3>1. PICK t \in S : T[t].position = r
        BY <2>1, <2>3
      <3> QED  BY <2>1, <2>3, <3>1
    <2>4. CASE r > q
      <3>1. s \in S /\ r - 1 \in Nat /\ r - 1 >= q /\ r - 1 <= T[s].position
        BY <1>1, <1>3, <2>1, <2>4
      <3>2. PICK t \in S : T[t].position = r - 1
        BY <1>1, <3>1, TakenIs
      <3> QED  BY <2>1, <2>4, <3>1, <3>2
    <2> QED  BY <2>1, <2>2, <2>3, <2>4
  <1> QED  BY <1>1, <1>2, <1>3 DEF Numbered

\* is taken out: those on its right move one to the left,
LEMMA RemovedNumbered ==
    ASSUME NEW T, NEW U, NEW S, NEW x \in S,
           \A s \in S : T[s].position \in Nat, Numbered(T, S),
           \A s \in S \ {x} : U[s].position =
               IF T[s].position > T[x].position THEN T[s].position - 1 ELSE T[s].position
    PROVE  Numbered(U, S \ {x})
  <1> PICK p : p = T[x].position
    OBVIOUS
  <1>1. p \in Nat /\ \A s \in S \ {x} : T[s].position \in Nat /\ T[s].position # p
    BY DEF Numbered
  <1>2. \A s \in S \ {x} : U[s].position \in Nat
    BY <1>1
  <1>3. ASSUME NEW s \in S \ {x}, NEW t \in S \ {x}, U[s].position = U[t].position PROVE s = t
    <2>1. T[s].position = T[t].position
      BY <1>1, <1>3
    <2> QED  BY <2>1 DEF Numbered
  <1>4. ASSUME NEW s \in S \ {x}, NEW r \in 0..U[s].position
        PROVE  \E t \in S \ {x} : U[t].position = r
    <2>1. r \in Nat /\ T[s].position \in Nat
      BY <1>1, <1>2, <1>4
    <2>2. CASE r < p
      <3>1. r <= T[x].position
        BY <1>1, <2>1, <2>2
      <3>2. PICK t \in S : T[t].position = r
        BY <1>1, <2>1, <3>1, TakenIs
      <3> QED  BY <1>1, <2>1, <2>2, <3>2
    <2>3. CASE r >= p
      <3>1. r + 1 \in Nat /\ r + 1 > p /\ r + 1 <= T[s].position
        BY <1>1, <1>4, <2>1, <2>3
      <3>2. PICK t \in S : T[t].position = r + 1
        BY <2>1, <3>1, TakenIs
      <3>3. t \in S \ {x}
        BY <1>1, <3>1, <3>2
      <3> QED  BY <1>1, <2>1, <3>1, <3>2, <3>3
    <2> QED  BY <1>1, <2>1, <2>2, <2>3
  <1> QED  BY <1>3, <1>4 DEF Numbered

\* or goes to another place: those in between make room.
LEMMA MovedNumbered ==
    ASSUME NEW T, NEW U, NEW S, NEW x \in S, NEW q \in Nat, NEW p, p = T[x].position,
           \A s \in S : T[s].position \in Nat, Numbered(T, S),
           \E t \in S : T[t].position = q,
           U[x].position = q,
           \A s \in S \ {x} : U[s].position =
               IF p < q THEN IF T[s].position \in (p + 1)..q THEN T[s].position - 1 ELSE T[s].position
               ELSE IF T[s].position \in q..(p - 1) THEN T[s].position + 1 ELSE T[s].position
    PROVE  Numbered(U, S)
  <1>1. p \in Nat /\ \A s \in S \ {x} : T[s].position \in Nat /\ T[s].position # p
    BY DEF Numbered
  <1>2. \A s \in S \ {x} : U[s].position \in Nat /\ U[s].position # q
    BY <1>1
  <1>3. ASSUME NEW s \in S \ {x}, NEW t \in S \ {x}, U[s].position = U[t].position PROVE s = t
    <2>1. T[s].position = T[t].position
      BY <1>1, <1>3
    <2> QED  BY <2>1 DEF Numbered
  <1>4. \A r \in Nat : (\E s \in S : r <= U[s].position) => \E s \in S : r <= T[s].position
    <2>1. ASSUME NEW r \in Nat, NEW s \in S, r <= U[s].position
          PROVE  \E t \in S : r <= T[t].position
      <3>1. CASE s = x
        BY <2>1, <3>1
      <3>2. CASE s # x
        <4>1. U[s].position <= T[s].position \/ U[s].position <= p
          BY <1>1, <3>2
        <4>2. T[s].position \in Nat /\ U[s].position \in Nat
          BY <1>1, <1>2, <3>2
        <4> QED  BY <1>1, <2>1, <4>1, <4>2
      <3> QED  BY <3>1, <3>2
    <2> QED  BY <2>1
  <1>5. \A r \in Nat : (\E s \in S : r <= T[s].position) => \E s \in S : T[s].position = r
    BY TakenIs
  <1>6. ASSUME NEW s \in S, NEW r \in 0..U[s].position
        PROVE  \E t \in S : U[t].position = r
    <2>1. r \in Nat /\ U[s].position \in Nat /\ r <= U[s].position
      BY <1>2, <1>6
    <2>2. PICK t \in S : T[t].position = r
      BY <1>4, <1>5, <2>1
    <2>3. CASE r = q
      BY <2>3
    <2>4. CASE p < q /\ r \in p..(q - 1)
      <3>1. PICK u \in S : T[u].position = q
        OBVIOUS
      <3>2. r + 1 \in Nat /\ r + 1 <= T[u].position
        BY <2>1, <2>4, <3>1
      <3>3. PICK w \in S : T[w].position = r + 1
        BY <3>1, <3>2, TakenIs
      <3>4. w \in S \ {x} /\ T[w].position \in (p + 1)..q
        BY <1>1, <2>1, <2>4, <3>3
      <3> QED  BY <1>1, <2>1, <2>4, <3>3, <3>4
    <2>5. CASE ~(p < q) /\ r \in (q + 1)..p
      <3>1. r - 1 \in Nat /\ r - 1 <= T[x].position
        BY <1>1, <2>1, <2>5
      <3>2. PICK w \in S : T[w].position = r - 1
        BY <1>1, <3>1, TakenIs
      <3>3. w \in S \ {x} /\ T[w].position \in q..(p - 1)
        BY <1>1, <2>1, <2>5, <3>2
      <3> QED  BY <1>1, <2>1, <2>5, <3>2, <3>3
    <2>6. CASE r # q /\ ~(p < q /\ r \in p..(q - 1)) /\ ~(~(p < q) /\ r \in (q + 1)..p)
      <3>1. r # p /\ t # x
        BY <1>1, <2>1, <2>2, <2>6
      <3>2. t \in S \ {x} /\ U[t].position = r
        BY <1>1, <2>1, <2>2, <2>6, <3>1
      <3> QED  BY <3>2
    <2> QED  BY <2>3, <2>4, <2>5, <2>6
  <1> QED  BY <1>2, <1>3, <1>6 DEF Numbered

-----------------------------------------------------------------------------
(***************************************************************************)
(* Workbooks                                                               *)
(***************************************************************************)

\* A workbook is made up by its own rows.
LEMMA SameWorkbook ==
    ASSUME NEW T, NEW U, NEW S, NEW n \in Nat, NEW m \in Nat, n <= m, IsWorkbook(T, S, n),
           \A s \in S : U[s] = T[s] /\ T[s] \in Sheets
    PROVE  IsWorkbook(U, S, m)
  <1>1. S # {} /\ S \subseteq 1..m
    BY DEF IsWorkbook
  <1>2. \A s \in S : U[s].formula.meant <= m
    <2>1. \A s \in S : T[s].formula.meant \in Int
      BY DEF Sheets, Formulas, NoSheet, SheetIds
    <2> QED  BY <2>1 DEF IsWorkbook
  <1>3. Numbered(U, S)
    BY DEF IsWorkbook, Numbered
  <1>4. Named(U, S)
    BY DEF IsWorkbook, Named
  <1>5. Linked(U, S)
    BY DEF IsWorkbook, Linked
  <1> QED  BY <1>1, <1>2, <1>3, <1>4, <1>5 DEF IsWorkbook

\* The types of a row.
LEMMA RowIs ==
    ASSUME NEW r \in Sheets
    PROVE  /\ r.book \in BookIds /\ r.name \in Names /\ r.position \in Nat /\ r.hidden \in BOOLEAN
           /\ r.formula \in Formulas /\ r.formula.meant \in Nat /\ r.formula.names \in Names \cup {NoName}
           /\ r.formula.meant \in {NoSheet} \cup SheetIds
  BY DEF Sheets, Formulas, NoSheet, SheetIds

\* A sheet with a new id is put into a workbook.
LEMMA InsertedWorkbook ==
    ASSUME NEW T, NEW U, NEW S, NEW n \in Nat, IsWorkbook(T, S, n),
           NEW x, x = n + 1, Numbered(U, S \cup {x}),
           \A s \in S : T[s] \in Sheets /\ U[s].name = T[s].name /\ U[s].formula = T[s].formula,
           \A s \in S : T[s].name # U[x].name,
           U[x].formula.meant \in 0..n, U[x].formula.meant \in S => T[U[x].formula.meant].name = U[x].formula.names
    PROVE  IsWorkbook(U, S \cup {x}, x)
  <1>1. x \notin S /\ S \cup {x} \subseteq 1..x /\ S \cup {x} # {}
    BY DEF IsWorkbook
  <1>2. \A s \in S : U[s].formula.meant \in Nat /\ U[s].formula.meant <= n
    BY RowIs DEF IsWorkbook
  <1>3. \A s \in S \cup {x} : U[s].formula.meant <= x /\ U[s].formula.meant # x
    BY <1>2
  <1>4. Named(U, S \cup {x})
    BY DEF IsWorkbook, Named
  <1>5. Linked(U, S \cup {x})
    <2>1. ASSUME NEW s \in S \cup {x}, U[s].formula.meant \in S \cup {x}
          PROVE  U[U[s].formula.meant].name = U[s].formula.names
      <3>1. U[s].formula.meant \in S
        BY <1>3, <2>1
      <3> QED  BY <1>1, <2>1, <3>1 DEF IsWorkbook, Linked
    <2> QED  BY <2>1 DEF Linked
  <1> QED  BY <1>1, <1>3, <1>4, <1>5 DEF IsWorkbook

\* Some of its sheets are taken out, others move.
LEMMA RemovedWorkbook ==
    ASSUME NEW T, NEW U, NEW S, NEW n \in Nat, IsWorkbook(T, S, n),
           NEW V, V \subseteq S, V # {}, Numbered(U, V),
           \A s \in V : U[s].name = T[s].name /\ U[s].formula = T[s].formula
    PROVE  IsWorkbook(U, V, n)
  <1>1. /\ V \subseteq 1..n /\ \A s \in V : T[s].formula.meant <= n
        /\ Named(T, S) /\ Linked(T, S)
    BY DEF IsWorkbook
  <1>2. \A s \in V : U[s].formula.meant <= n
    BY <1>1
  <1>3. Named(U, V)
    BY <1>1 DEF Named
  <1>4. Linked(U, V)
    <2> SUFFICES ASSUME NEW s \in V, U[s].formula.meant \in V
                 PROVE  U[U[s].formula.meant].name = U[s].formula.names
      BY DEF Linked
    <2>1. U[s].formula = T[s].formula /\ s \in S /\ T[s].formula.meant \in S
      OBVIOUS
    <2>2. T[T[s].formula.meant].name = T[s].formula.names
      BY <1>1, <2>1 DEF Linked
    <2> QED  BY <2>1, <2>2
  <1> QED  BY <1>1, <1>2, <1>3, <1>4 DEF IsWorkbook

\* A sheet of it is renamed and the formulas follow.
LEMMA RenamedWorkbook ==
    ASSUME NEW T, NEW U, NEW S, NEW n \in Nat, IsWorkbook(T, S, n),
           NEW x \in S, NEW old, old = T[x].name, NEW new, Numbered(U, S),
           U[x].name = new, \A s \in S \ {x} : U[s].name = T[s].name /\ T[s].name # new,
           \A s \in S : /\ U[s].formula.meant = T[s].formula.meant
                        /\ U[s].formula.names = IF T[s].formula.names = old THEN new ELSE T[s].formula.names
    PROVE  IsWorkbook(U, S, n)
  <1>1. Named(U, S)
    BY DEF IsWorkbook, Named
  <1>2. ASSUME NEW s \in S, U[s].formula.meant \in S
        PROVE  U[U[s].formula.meant].name = U[s].formula.names
    <2> PICK m : m = T[s].formula.meant
      OBVIOUS
    <2>1. m \in S /\ U[s].formula.meant = m /\ T[m].name = T[s].formula.names
      BY <1>2 DEF IsWorkbook, Linked
    <2>2. m = x <=> T[m].name = old
      BY <2>1 DEF IsWorkbook, Named
    <2> QED  BY <2>1, <2>2
  <1> QED  BY <1>1, <1>2 DEF IsWorkbook, Linked

-----------------------------------------------------------------------------
(***************************************************************************)
(* The tables                                                              *)
(***************************************************************************)

\* What the invariant says of the tables.
LEMMA InvMeans ==
    ASSUME Inv
    PROVE  /\ used \in Nat /\ used \in SheetIds /\ used <= MaxSheets
           /\ DOMAIN sheets \subseteq 1..used /\ DOMAIN books \subseteq BookIds
           /\ sheets \in [DOMAIN sheets -> Sheets]
           /\ books \in [DOMAIN books -> [title : Titles, live : BOOLEAN]]
           /\ \A s \in DOMAIN sheets : sheets[s] \in Sheets /\ sheets[s].book \in DOMAIN books
           /\ \A b \in DOMAIN books : IsWorkbook(sheets, SheetsOf(b), used)
           /\ \A i \in DOMAIN versions : versions[i].book \in DOMAIN books /\ VersionIsSound(versions[i], used)
  <1>1. used \in Nat /\ used \in SheetIds /\ used <= MaxSheets
    BY BoundsAssumption DEF Inv, Core, TypeOK, SheetIds
  <1>2. \A i \in DOMAIN versions : versions[i].book \in DOMAIN books /\ VersionIsSound(versions[i], used)
    BY DEF Inv, Core, TypeOK, VersionsAreSound
  <1> QED  BY <1>1, <1>2 DEF Inv, Core, TypeOK, BooksAreSound

\* The parts of the next state make up the invariant.
LEMMA Assembled ==
    ASSUME Inv, Operation, DOMAIN books' \subseteq BookIds, BooksAreSound',
           DOMAIN sheets' \subseteq 1..used', used' \in SheetIds,
           \A s \in DOMAIN sheets' : sheets'[s].book \in DOMAIN books',
           PartsAreSound', VersionsAreSound',
           \A i \in DOMAIN versions' : versions'[i].book \in DOMAIN books'
    PROVE  Core'
  <1>1. done' \in 0..MaxOperations
    BY BoundsAssumption DEF Operation, Inv, Core, TypeOK
  <1>2. \A s \in DOMAIN sheets' : sheets'[s] \in Sheets
    BY DEF BooksAreSound
  <1>3. \A b \in DOMAIN books' : books'[b] \in [title : Titles, live : BOOLEAN]
    BY DEF BooksAreSound
  <1>4. TypeOK'
    BY <1>1, <1>2, <1>3 DEF TypeOK, PartsAreSound
  <1> QED  BY <1>4 DEF Core

\* A step touches the sheets of one workbook.
Touches(b) ==
    /\ \A s \in DOMAIN sheets' :
          sheets'[s].book # b => s \in DOMAIN sheets /\ sheets'[s] = sheets[s]
    /\ \A s \in DOMAIN sheets :
          sheets[s].book # b => s \in DOMAIN sheets' /\ sheets'[s] = sheets[s]

\* The others stay as they are.
LEMMA OthersStay ==
    ASSUME Inv, NEW b, Touches(b), used' \in Nat, used <= used', NEW c \in DOMAIN books, c # b
    PROVE  SheetsOf(c)' = SheetsOf(c) /\ IsWorkbook(sheets', SheetsOf(c)', used')
  <1>1. SheetsOf(c)' = SheetsOf(c) /\ \A s \in SheetsOf(c) : sheets'[s] = sheets[s] /\ sheets[s] \in Sheets
    <2>1. \A s \in SheetsOf(c) : s \in SheetsOf(c)' /\ sheets'[s] = sheets[s] /\ sheets[s] \in Sheets
      BY InvMeans DEF Touches, SheetsOf
    <2>2. \A s \in SheetsOf(c)' : s \in SheetsOf(c)
      BY DEF Touches, SheetsOf
    <2> QED  BY <2>1, <2>2
  <1>2. IsWorkbook(sheets, SheetsOf(c), used) /\ used \in Nat
    BY InvMeans
  <1>3. IsWorkbook(sheets', SheetsOf(c), used')
    BY <1>1, <1>2, SameWorkbook
  <1> QED  BY <1>1, <1>3

\* A step that touches one workbook, which is whole afterwards.
LEMMA BookStep ==
    ASSUME Inv, NEW b, Touches(b), used' \in Nat, used <= used',
           sheets' \in [DOMAIN sheets' -> Sheets],
           books' \in [DOMAIN books' -> [title : Titles, live : BOOLEAN]],
           DOMAIN books' = DOMAIN books \cup {b}, IsWorkbook(sheets', SheetsOf(b)', used')
    PROVE  /\ BooksAreSound'
           /\ DOMAIN sheets' \subseteq 1..used'
           /\ \A s \in DOMAIN sheets' : sheets'[s].book \in DOMAIN books'
  <1>1. \A c \in DOMAIN books' : IsWorkbook(sheets', SheetsOf(c)', used')
    BY OthersStay
  <1>2. BooksAreSound'
    BY <1>1 DEF BooksAreSound
  <1>3. \A s \in DOMAIN sheets' : sheets'[s].book \in DOMAIN books'
    BY InvMeans DEF Touches
  <1>4. DOMAIN sheets' \subseteq 1..used'
    <2>1. ASSUME NEW s \in DOMAIN sheets' PROVE s \in 1..used'
      <3> PICK c : c = sheets'[s].book
        OBVIOUS
      <3>1. c \in DOMAIN books' /\ s \in SheetsOf(c)'
        BY <1>3 DEF SheetsOf
      <3>2. SheetsOf(c)' \subseteq 1..used'
        BY <1>1, <3>1 DEF IsWorkbook
      <3> QED  BY <3>1, <3>2
    <2> QED  BY <2>1
  <1> QED  BY <1>2, <1>3, <1>4

\* The versions stay, and sheets that are new have ids that are new.
LEMMA VersionsStay ==
    ASSUME Inv, UNCHANGED versions, used' \in Nat, used <= used', DOMAIN books \subseteq DOMAIN books',
           \A s \in DOMAIN sheets' : \/ s \in DOMAIN sheets /\ sheets'[s].book = sheets[s].book
                                     \/ s > used
    PROVE  VersionsAreSound' /\ \A i \in DOMAIN versions' : versions'[i].book \in DOMAIN books'
  <1>1. ASSUME NEW i \in DOMAIN versions
        PROVE  /\ VersionIsSound(versions[i], used') /\ versions[i].book \in DOMAIN books'
               /\ DOMAIN versions[i].snapshot.sheets \subseteq 1..used
    <2> PICK v : v = versions[i]
      OBVIOUS
    <2> PICK T : T = v.snapshot.sheets
      OBVIOUS
    <2>1. VersionIsSound(v, used) /\ v.book \in DOMAIN books' /\ used \in Nat
      BY InvMeans
    <2>2. IsWorkbook(T, DOMAIN T, used) /\ \A s \in DOMAIN T : T[s] \in Sheets
      BY <2>1 DEF VersionIsSound
    <2>3. IsWorkbook(T, DOMAIN T, used')
      BY <2>1, <2>2, SameWorkbook
    <2>4. VersionIsSound(v, used')
      BY <2>1, <2>3 DEF VersionIsSound
    <2> QED  BY <2>1, <2>2, <2>4 DEF IsWorkbook
  <1>2. Homes(versions', sheets')
    <2>1. used \in Nat
      BY InvMeans
    <2>2. ASSUME NEW i \in DOMAIN versions, NEW s \in DOMAIN versions[i].snapshot.sheets, s \in DOMAIN sheets'
          PROVE  sheets'[s].book = versions[i].book
      <3>1. s \in Nat /\ ~(s > used)
        BY <1>1, <2>1, <2>2
      <3>2. s \in DOMAIN sheets /\ sheets'[s].book = sheets[s].book
        BY <2>2, <3>1
      <3> QED  BY <2>2, <3>2 DEF Inv, Core, VersionsAreSound, Homes
    <2> QED  BY <2>2 DEF Inv, Core, VersionsAreSound, Homes
  <1> QED  BY <1>1, <1>2 DEF Inv, Core, VersionsAreSound

\* The greatest of some ids.
LEMMA GreatestIs ==
    ASSUME NEW n \in Nat, NEW S, S \subseteq 0..n, S # {}
    PROVE  Max(S) \in S /\ \A v \in S : v <= Max(S)
  <1> PICK T : T = {n - v : v \in S}
    OBVIOUS
  <1>1. T \subseteq Nat /\ T # {}
    <2>1. \A v \in 0..n : n - v \in Nat
      OBVIOUS
    <2> QED  BY <2>1, Zenon
  <1>2. PICK x \in T : \A y \in T : ~ (<<y, x>> \in OpToRel(<, Nat))
    BY <1>1, NatLessThanWellFounded, WFMin
  <1>3. \A y \in T : ~ (y < x)
    BY <1>1, <1>2 DEF OpToRel
  <1>4. PICK m \in S : x = n - m
    BY <1>2
  <1>5. \A v \in S : m >= v
    <2>1. ASSUME NEW v \in S PROVE m >= v
      <3>1. n - v \in T /\ ~ (n - v < n - m)
        BY <1>3, <1>4
      <3> QED  BY <3>1
    <2> QED  BY <2>1
  <1>6. Max(S) \in S /\ \A v \in S : Max(S) >= v
    BY <1>4, <1>5 DEF Max
  <1> QED  BY <1>6

\* A version is stored under a new id.
LEMMA InsertedIs ==
    ASSUME DOMAIN versions \subseteq 1..MaxVersions, NEW b, NEW d, NEW e, insertSnapshot(b, d, e)
    PROVE  \E i \in 1..MaxVersions :
             /\ i \notin DOMAIN versions /\ DOMAIN versions' = DOMAIN versions \cup {i}
             /\ versions'[i] = [book |-> b, schema |-> CurrentSchema, snapshot |-> d, of |-> e]
             /\ \A j \in DOMAIN versions : versions'[j] = versions[j]
  <1> PICK S : S = DOMAIN versions \cup {0}
    OBVIOUS
  <1> PICK m : m = Max(S)
    OBVIOUS
  <1>1. m \in S /\ \A v \in S : v <= m
    <2>1. S \subseteq 0..MaxVersions /\ MaxVersions \in Nat /\ S # {}
      BY BoundsAssumption
    <2> QED  BY <2>1, GreatestIs
  <1> PICK i : i = m + 1
    OBVIOUS
  <1>2. i \in 1..MaxVersions /\ i \notin DOMAIN versions
    <2>1. m \in Nat /\ i <= MaxVersions
      BY <1>1 DEF insertSnapshot
    <2> QED  BY <1>1, <2>1, BoundsAssumption
  <1>3. versions' = Put(Row(i, [book |-> b, schema |-> CurrentSchema, snapshot |-> d, of |-> e]), versions)
    BY DEF insertSnapshot
  <1> PICK v : v = [book |-> b, schema |-> CurrentSchema, snapshot |-> d, of |-> e]
    OBVIOUS
  <1>4. /\ DOMAIN versions' = DOMAIN versions \cup {i} /\ versions'[i] = v
        /\ \A j \in DOMAIN versions : versions'[j] = versions[j]
    BY <1>2, <1>3 DEF Put, Row
  <1> QED  BY <1>2, <1>4

\* These make up a sound version of the workbook, with its sheets.
IsRecord(b, d, e) ==
    /\ VersionIsSound([book |-> b, schema |-> CurrentSchema, snapshot |-> d, of |-> e], used)
    /\ DOMAIN d.sheets = SheetsOf(b)

\* The document of a workbook is whole.
LEMMA DocumentIs ==
    ASSUME Inv, NEW b \in DOMAIN books, NEW V, V \subseteq Views, \A v \in V : v.sheet \in SheetsOf(b),
           NEW d, d = DocumentWith(b, V)
    PROVE  IsRecord(b, d, d)
  <1> PICK T : T = d.sheets
    OBVIOUS
  <1> PICK S : S = SheetsOf(b)
    OBVIOUS
  <1>2. /\ d.title = books[b].title /\ T = Restrict(sheets, S)
        /\ d.rules = {r \in On(rules, S) : r.kind # "image"}
        /\ d.charts = On(charts, S) /\ d.views = V
        /\ d = [title |-> d.title, sheets |-> d.sheets, rules |-> d.rules, charts |-> d.charts,
                views |-> d.views]
    BY DEF DocumentWith
  <1>3. /\ DOMAIN T = S /\ T \in [S -> Sheets] /\ d.title \in Titles
        /\ \A s \in S : T[s] = sheets[s] /\ sheets[s].book = b /\ sheets[s] \in Sheets
    <2>1. \A s \in S : s \in DOMAIN sheets /\ sheets[s].book = b /\ sheets[s] \in Sheets
      BY InvMeans DEF SheetsOf
    <2>2. books[b].title \in Titles
      BY InvMeans
    <2> QED  BY <1>2, <2>1, <2>2 DEF Restrict
  <1>4. IsWorkbook(T, S, used)
    <2>1. IsWorkbook(sheets, S, used) /\ used \in Nat
      BY InvMeans
    <2> QED  BY <1>3, <2>1, SameWorkbook
  <1>5. /\ d.rules \subseteq Rules /\ d.charts \subseteq Charts /\ d.views \subseteq Views
        /\ \A r \in d.rules : r.kind # "image" /\ r.sheet \in S
        /\ \A w \in d.views : w.sheet \in S
    BY <1>2 DEF Inv, Core, PartsAreSound, On
  <1>6. \A c \in d.charts : c.sheet \in S /\ c.source \in S \cup {Ref}
    BY <1>2 DEF Inv, Core, PartsAreSound, On, SheetsOf
  <1> PICK v : v = [book |-> b, schema |-> CurrentSchema, snapshot |-> d, of |-> d]
    OBVIOUS
  <1>7. v.book = b /\ v.schema = CurrentSchema /\ v.snapshot = d /\ v.of = d
    OBVIOUS
  <1>8. VersionIsSound(v, used)
    BY <1>2, <1>3, <1>4, <1>5, <1>6, <1>7 DEF VersionIsSound
  <1> QED  BY <1>3, <1>8 DEF IsRecord

\* A snapshot is the document.
LEMMA SnapshotIs ==
    ASSUME Inv, NEW b \in DOMAIN books, NEW V, V = On(views, SheetsOf(b))
    PROVE  /\ buildSnapshot(b) = DocumentWith(b, V) /\ Document(b) = DocumentWith(b, V)
           /\ V \subseteq Views /\ \A v \in V : v.sheet \in SheetsOf(b)
           /\ IsRecord(b, buildSnapshot(b), Document(b))
  <1>1. \A r \in rules : r.kind \in Validations \cup {"protection"} <=> r.kind # "image"
    BY DEF Inv, Core, PartsAreSound, Rules, Kinds, Validations
  <1>2. buildSnapshot(b) = DocumentWith(b, V) /\ Document(b) = DocumentWith(b, V)
    BY <1>1 DEF buildSnapshot, Document, DocumentWith, On
  <1>3. V \subseteq Views /\ \A v \in V : v.sheet \in SheetsOf(b)
    BY DEF Inv, Core, PartsAreSound, On
  <1> PICK d : d = DocumentWith(b, V)
    OBVIOUS
  <1>4. IsRecord(b, d, d)
    BY <1>3, DocumentIs
  <1> QED  BY <1>2, <1>3, <1>4

\* What Saved stores is sound.
LEMMA BackupIs ==
    ASSUME Inv, NEW b, ~ Free(b), NEW x, x = backups[b]
    PROVE  b \in DOMAIN books /\ BackupIsSound(b, x) /\ IsRecord(b, x.snapshot, x.of)
  <1>1. BackupIsSound(b, x) /\ b \in DOMAIN books
    BY DEF Inv, BackupsAreSound, Free, BackupIsSound, Live
  <1> PICK d : d = x.snapshot
    OBVIOUS
  <1> PICK V : V = d.views
    OBVIOUS
  <1>2. /\ d = DocumentWith(b, V) /\ x.of = d /\ V \subseteq Views
        /\ \A v \in V : v.sheet \in SheetsOf(b)
    BY <1>1 DEF BackupIsSound
  <1>3. IsRecord(b, d, d)
    BY <1>1, <1>2, DocumentIs
  <1> QED  BY <1>1, <1>2, <1>3

\* A version is added; a sheet that comes back comes from a version.
LEMMA VersionAdded ==
    ASSUME Inv, NEW b \in DOMAIN books, NEW d, NEW e, insertSnapshot(b, d, e), IsRecord(b, d, e),
           used' = used, DOMAIN books' = DOMAIN books,
           \A s \in DOMAIN sheets' :
              \/ s \in DOMAIN sheets /\ sheets'[s].book = sheets[s].book
              \/ \E k \in DOMAIN versions : /\ s \in DOMAIN versions[k].snapshot.sheets
                                            /\ sheets'[s].book = versions[k].book
    PROVE  VersionsAreSound' /\ \A i \in DOMAIN versions' : versions'[i].book \in DOMAIN books'
  <1>0. DOMAIN versions \subseteq 1..MaxVersions /\ Homes(versions, sheets)
    BY DEF Inv, Core, VersionsAreSound
  <1>1. PICK i \in 1..MaxVersions :
             /\ i \notin DOMAIN versions /\ DOMAIN versions' = DOMAIN versions \cup {i}
             /\ versions'[i] = [book |-> b, schema |-> CurrentSchema, snapshot |-> d, of |-> e]
             /\ \A j \in DOMAIN versions : versions'[j] = versions[j]
    BY <1>0, InsertedIs
  <1> PICK v : v = [book |-> b, schema |-> CurrentSchema, snapshot |-> d, of |-> e]
    OBVIOUS
  <1>2. v = versions'[i] /\ VersionIsSound(v, used) /\ DOMAIN v.snapshot.sheets = SheetsOf(b) /\ v.book = b
    BY <1>1 DEF IsRecord
  <1>3. \A j \in DOMAIN versions' : VersionIsSound(versions'[j], used') /\ versions'[j].book \in DOMAIN books'
    BY <1>1, <1>2, InvMeans
  <1>4. ASSUME NEW j \in DOMAIN versions', NEW s \in DOMAIN versions'[j].snapshot.sheets
        PROVE  /\ s \in DOMAIN sheets' => sheets'[s].book = versions'[j].book
               /\ \A k \in DOMAIN versions' :
                     s \in DOMAIN versions'[k].snapshot.sheets => versions'[k].book = versions'[j].book
    <2>1. s \in DOMAIN sheets => sheets[s].book = versions'[j].book
      BY <1>0, <1>1, <1>2, <1>4 DEF Homes, SheetsOf
    <2>2. \A k \in DOMAIN versions : s \in DOMAIN versions[k].snapshot.sheets => versions[k].book = versions'[j].book
      <3>1. CASE j = i
        BY <1>0, <1>2, <1>4, <3>1 DEF Homes, SheetsOf
      <3>2. CASE j # i
        BY <1>0, <1>1, <1>4, <3>2 DEF Homes
      <3> QED  BY <3>1, <3>2
    <2>3. s \in SheetsOf(b) => b = versions'[j].book
      BY <2>1 DEF SheetsOf
    <2> QED  BY <1>1, <1>2, <2>1, <2>2, <2>3
  <1> QED  BY <1>1, <1>3, <1>4, <1>0 DEF VersionsAreSound, Homes

\* A step that leaves the sheets as they are.
LEMMA PartsStep ==
    ASSUME Inv, Operation, UNCHANGED <<sheets, used>>, PartsAreSound',
           DOMAIN books' = DOMAIN books, books' \in [DOMAIN books' -> [title : Titles, live : BOOLEAN]],
           \/ UNCHANGED versions
           \/ \E b \in DOMAIN books : insertSnapshot(b, buildSnapshot(b), Document(b))
    PROVE  Core'
  <1>1. BooksAreSound' /\ used' \in SheetIds /\ used' \in Nat /\ used <= used'
    BY InvMeans DEF BooksAreSound, SheetsOf
  <1>2. VersionsAreSound' /\ \A i \in DOMAIN versions' : versions'[i].book \in DOMAIN books'
    <2>1. CASE UNCHANGED versions
      BY <1>1, <2>1, VersionsStay
    <2>2. ASSUME NEW b \in DOMAIN books, insertSnapshot(b, buildSnapshot(b), Document(b))
          PROVE  VersionsAreSound' /\ \A i \in DOMAIN versions' : versions'[i].book \in DOMAIN books'
      <3> PICK d : d = buildSnapshot(b)
        OBVIOUS
      <3> PICK e : e = Document(b)
        OBVIOUS
      <3>1. insertSnapshot(b, d, e) /\ IsRecord(b, d, e)
        BY <2>2, SnapshotIs DEF insertSnapshot
      <3> QED  BY <2>2, <3>1, VersionAdded
    <2> QED  BY <2>1, <2>2
  <1>3. DOMAIN books' \subseteq BookIds /\ DOMAIN sheets' \subseteq 1..used'
        /\ \A s \in DOMAIN sheets' : sheets'[s].book \in DOMAIN books'
    BY InvMeans
  <1> QED  BY <1>1, <1>2, <1>3, Assembled

-----------------------------------------------------------------------------
(***************************************************************************)
(* The operations                                                          *)
(***************************************************************************)

\* UpdateWorkbook, DeleteWorkbook, RestoreWorkbook: the row of a workbook.
LEMMA BookRowKeepsInv ==
    ASSUME Inv, Operation, NEW b \in DOMAIN books,
           \/ \E title \in Titles : UpdateWorkbook(b, title)
           \/ DeleteWorkbook(b) \/ RestoreWorkbook(b)
    PROVE  Core'
  <1>1. UNCHANGED <<sheets, used, rules, charts, views, versions>>
    BY DEF UpdateWorkbook, DeleteWorkbook, RestoreWorkbook, parts
  <1>2. books \in [DOMAIN books -> [title : Titles, live : BOOLEAN]]
    BY InvMeans
  <1>3. DOMAIN books' = DOMAIN books /\ books' \in [DOMAIN books' -> [title : Titles, live : BOOLEAN]]
    BY <1>2 DEF UpdateWorkbook, DeleteWorkbook, RestoreWorkbook
  <1>4. PartsAreSound'
    BY <1>1 DEF Inv, Core, PartsAreSound
  <1> QED  BY <1>1, <1>3, <1>4, PartsStep

\* CreateVersion
LEMMA CreateVersionKeepsInv ==
    ASSUME Inv, Operation, NEW b \in DOMAIN books, CreateVersion(b)
    PROVE  Core'
  <1>1. UNCHANGED <<books, sheets, used, rules, charts, views>>
    BY DEF CreateVersion, parts
  <1>2. PartsAreSound'
    BY <1>1 DEF Inv, Core, PartsAreSound
  <1> QED  BY <1>1, <1>2, PartsStep, InvMeans DEF CreateVersion

\* What hangs on a sheet is made, changed and deleted.
OnParts ==
    \/ \E s \in DOMAIN sheets :
          \/ \E kind \in Kinds : CreateRule(s, kind)
          \/ \E source \in DOMAIN sheets : CreateChart(s, source)
    \/ \E rule \in rules : DeleteRule(rule) \/ \E kind \in Kinds : UpdateDataValidation(rule, kind)
    \/ \E chart \in charts, s, source \in DOMAIN sheets : UpdateChart(chart, s, source)
    \/ \E chart \in charts : DeleteChart(chart)

\* Filter views are: those that are written are of one sheet.
OnViews ==
    \E s \in DOMAIN sheets, table \in SUBSET Views :
        WriteViews(s, table) /\ \A v \in table : v \in views \/ v.sheet = s

LEMMA ViewsAreOn ==
    ASSUME Inv,
           \/ \E s \in DOMAIN sheets, owner \in Actors, active \in BOOLEAN : CreateFilterView(s, owner, active)
           \/ \E view \in views : DeleteFilterView(view) \/ \E active \in BOOLEAN : UpdateFilterView(view, active)
    PROVE  OnViews
  <1>1. views \subseteq Views /\ DOMAIN sheets \subseteq SheetIds /\ \A v \in views : v.sheet \in DOMAIN sheets
    <2>1. DOMAIN sheets \subseteq 1..used /\ used \in Nat /\ used <= MaxSheets
      BY InvMeans
    <2> QED  BY <2>1, BoundsAssumption DEF Inv, Core, PartsAreSound, SheetIds
  <1>2. ASSUME NEW s \in DOMAIN sheets, NEW owner \in Actors, NEW v \in Inactive(s, owner)
        PROVE  v \in Views /\ (v \in views \/ v.sheet = s)
    <2>1. PICK w \in views : v = [w EXCEPT !.active = @ /\ ~ (w.sheet = s /\ w.owner = owner)]
      BY DEF Inactive
    <2>2. w \in Views /\ v \in Views
      BY <1>1, <2>1 DEF Views
    <2>3. CASE w.sheet = s /\ w.owner = owner
      BY <2>1, <2>2, <2>3 DEF Views
    <2>4. CASE ~ (w.sheet = s /\ w.owner = owner)
      <3>1. v = [w EXCEPT !.active = w.active]
        BY <2>1, <2>2, <2>4 DEF Views
      <3> QED  BY <2>2, <3>1 DEF Views
    <2> QED  BY <2>2, <2>3, <2>4
  <1>3. ASSUME NEW s \in DOMAIN sheets, NEW owner \in Actors, NEW active \in BOOLEAN,
               CreateFilterView(s, owner, active)
        PROVE  OnViews
    <2>1. PICK view : view = [sheet |-> s, owner |-> owner, active |-> active]
      OBVIOUS
    <2>2. PICK table : table = (IF active THEN Inactive(s, owner) ELSE views) \cup {view}
      OBVIOUS
    <2>3. view \in Views /\ view.sheet = s
      BY <1>1, <2>1 DEF Views
    <2>4. table \in SUBSET Views /\ \A v \in table : v \in views \/ v.sheet = s
      BY <1>1, <1>2, <2>2, <2>3
    <2>5. WriteViews(s, table)
      BY <1>3, <2>1, <2>2 DEF CreateFilterView
    <2> QED  BY <2>4, <2>5 DEF OnViews
  <1>4. ASSUME NEW view \in views, DeleteFilterView(view) PROVE OnViews
    <2>1. PICK table : table = views \ {view}
      OBVIOUS
    <2>2. WriteViews(view.sheet, table)
      BY <1>4, <2>1 DEF DeleteFilterView
    <2> QED  BY <1>1, <2>1, <2>2 DEF OnViews
  <1>5. ASSUME NEW view \in views, NEW active \in BOOLEAN, UpdateFilterView(view, active) PROVE OnViews
    <2>1. PICK others : others = IF active THEN Inactive(view.sheet, view.owner) ELSE views
      OBVIOUS
    <2>2. PICK new : new = [view EXCEPT !.active = active]
      OBVIOUS
    <2>3. PICK table : table = (others \ {view}) \cup {new}
      OBVIOUS
    <2>4. view.sheet \in DOMAIN sheets /\ view.owner \in Actors /\ new \in Views /\ new.sheet = view.sheet
      BY <1>1, <2>2 DEF Views
    <2>5. table \in SUBSET Views /\ \A v \in table : v \in views \/ v.sheet = view.sheet
      BY <1>1, <1>2, <2>1, <2>3, <2>4
    <2>6. WriteViews(view.sheet, table)
      BY <1>5, <2>1, <2>2, <2>3 DEF UpdateFilterView
    <2> QED  BY <2>4, <2>5, <2>6 DEF OnViews
  <1> QED  BY <1>3, <1>4, <1>5

LEMMA PartsKeepInv ==
    ASSUME Inv, Operation, OnParts \/ OnViews
    PROVE  Core'
  <1>1. UNCHANGED <<books, sheets, used, versions>>
    BY DEF OnParts, OnViews, CreateRule, CreateChart, DeleteRule, UpdateDataValidation, UpdateChart, DeleteChart,
           WriteViews
  <1>2. /\ PartsAreSound /\ DOMAIN sheets \subseteq SheetIds
        /\ \A s \in DOMAIN sheets : s # Ref /\ s # Dangling
    <2>1. DOMAIN sheets \subseteq 1..used /\ used \in Nat /\ used <= MaxSheets
      BY InvMeans
    <2> QED  BY <2>1, BoundsAssumption DEF Inv, Core, SheetIds, Ref, Dangling
  <1>3. PartsAreSound'
    <2>1. ASSUME NEW s \in DOMAIN sheets, NEW kind \in Kinds, CreateRule(s, kind) PROVE PartsAreSound'
      BY <1>1, <1>2, <2>1 DEF PartsAreSound, CreateRule, Rules
    <2>2. ASSUME NEW s \in DOMAIN sheets, NEW source \in DOMAIN sheets, CreateChart(s, source)
          PROVE  PartsAreSound'
      <3>1. PICK new : new = [sheet |-> s, source |-> source, fit |-> TRUE]
        OBVIOUS
      <3>2. new \in Charts /\ new.sheet = s /\ new.source = source
        BY <1>2, <3>1 DEF Charts
      <3>3. charts' = charts \cup {new} /\ UNCHANGED <<rules, views>> /\ sheets[source].book = sheets[s].book
        BY <2>2, <3>1 DEF CreateChart
      <3> QED  BY <1>1, <1>2, <3>2, <3>3 DEF PartsAreSound
    <2>3. ASSUME OnViews PROVE PartsAreSound'
      <3>1. PICK s \in DOMAIN sheets, table \in SUBSET Views :
               views' = table /\ UNCHANGED <<rules, charts>> /\ \A v \in table : v \in views \/ v.sheet = s
        BY <2>3 DEF OnViews, WriteViews
      <3> QED  BY <1>1, <1>2, <3>1 DEF PartsAreSound
    <2>4. ASSUME NEW rule \in rules, DeleteRule(rule) PROVE PartsAreSound'
      BY <1>1, <1>2, <2>4 DEF PartsAreSound, DeleteRule
    <2>5. ASSUME NEW chart \in charts, NEW s \in DOMAIN sheets, NEW source \in DOMAIN sheets,
                 UpdateChart(chart, s, source)
          PROVE  PartsAreSound'
      <3>1. sheets[s].book = sheets[source].book
        BY <2>5 DEF UpdateChart
      <3>2. PICK new : new = [sheet |-> s, source |-> source, fit |-> TRUE]
        OBVIOUS
      <3>3. new \in Charts /\ new.sheet = s /\ new.source = source
        BY <1>2, <3>2 DEF Charts
      <3>4. charts' = (charts \ {chart}) \cup {new} /\ UNCHANGED <<rules, views>>
        BY <2>5, <3>2 DEF UpdateChart
      <3> QED  BY <1>1, <1>2, <3>1, <3>3, <3>4 DEF PartsAreSound
    <2>6. ASSUME NEW chart \in charts, DeleteChart(chart) PROVE PartsAreSound'
      BY <1>1, <1>2, <2>6 DEF PartsAreSound, DeleteChart
    <2>7. ASSUME NEW rule \in rules, NEW kind \in Kinds, UpdateDataValidation(rule, kind) PROVE PartsAreSound'
      <3>1. PICK new : new = [rule EXCEPT !.kind = kind]
        OBVIOUS
      <3>2. rule \in Rules /\ rule.sheet \in DOMAIN sheets
        BY <1>2 DEF PartsAreSound
      <3>3. new \in Rules /\ new.sheet = rule.sheet
        BY <3>1, <3>2 DEF Rules
      <3> QED  BY <1>1, <1>2, <2>7, <3>1, <3>2, <3>3 DEF PartsAreSound, UpdateDataValidation
    <2> QED  BY <2>1, <2>2, <2>3, <2>4, <2>5, <2>6, <2>7 DEF OnParts
  <1> QED  BY <1>1, <1>3, PartsStep, InvMeans

\* What hangs on the sheets stays, and so do the sheets.
LEMMA PartsStay ==
    ASSUME Inv, UNCHANGED <<rules, charts, views>>,
           \A s \in DOMAIN sheets : s \in DOMAIN sheets' /\ sheets'[s].book = sheets[s].book
    PROVE  PartsAreSound'
  BY DEF Inv, Core, PartsAreSound

\* The tabs of a workbook.
LEMMA TabsAre ==
    ASSUME Inv, NEW b \in DOMAIN books, NEW S, S = SheetsOf(b), NEW n, n = Cardinality(S)
    PROVE  /\ n \in Nat /\ n <= used
           /\ \A s \in S : sheets[s].position \in Nat /\ sheets[s].position < n /\ sheets[s].position < MaxSheets
           /\ \A q \in 0..(n - 1) : \E s \in S : sheets[s].position = q
  <1>1. /\ used \in Nat /\ IsWorkbook(sheets, S, used) /\ used <= MaxSheets
        /\ \A s \in S : sheets[s] \in Sheets
    BY InvMeans DEF SheetsOf
  <1>2. S \subseteq 1..used /\ Numbered(sheets, S)
    BY <1>1 DEF IsWorkbook
  <1>3. IsFiniteSet(S) /\ n \in Nat /\ n <= used
    BY <1>1, <1>2, IdsAreFinite
  <1>4. \A s \in S : sheets[s].position \in Nat
    BY <1>1, RowIs
  <1> PICK P : P = {sheets[s].position : s \in S}
    OBVIOUS
  <1>5. P = 0..(n - 1)
    BY <1>2, <1>3, <1>4, NumberedIs
  <1>6. \A s \in S : sheets[s].position \in 0..(n - 1)
    BY <1>5
  <1>7. \A q \in 0..(n - 1) : \E s \in S : sheets[s].position = q
    BY <1>5
  <1>8. \A s \in S : sheets[s].position < n /\ sheets[s].position < MaxSheets
    BY <1>1, <1>3, <1>6, BoundsAssumption
  <1> QED  BY <1>3, <1>4, <1>7, <1>8

\* The last tab of a workbook.
LEMMA LastTabIs ==
    ASSUME Inv, NEW b \in DOMAIN books, NEW n, n = Cardinality(SheetsOf(b))
    PROVE  Max({sheets[s].position : s \in SheetsOf(b)} \cup {-1}) = n - 1
  <1>a. PICK S : S = SheetsOf(b)
    OBVIOUS
  <1>b. PICK P : P = {sheets[s].position : s \in S}
    OBVIOUS
  <1>1. n \in Nat /\ \A y \in P : y \in Int /\ y <= n - 1
    <2>1. n \in Nat /\ \A s \in S : sheets[s].position \in Nat /\ sheets[s].position < n
      BY <1>a, TabsAre
    <2> QED  BY <1>b, <2>1
  <1>2. \A q \in 0..(n - 1) : q \in P
    <2>1. \A q \in 0..(n - 1) : \E s \in S : sheets[s].position = q
      BY <1>a, TabsAre
    <2> QED  BY <1>b, <2>1
  <1>3. n - 1 \in P \/ n - 1 = -1
    <2>1. n - 1 \in 0..(n - 1) \/ n - 1 = -1
      BY <1>1
    <2> QED  BY <1>2, <2>1, Zenon
  <1>4. PICK Q : Q = P \cup {-1}
    OBVIOUS
  <1>5. n - 1 \in Q
    BY <1>3, <1>4
  <1>6. \A y \in Q : y \in Int /\ n - 1 >= y
    BY <1>1, <1>4
  <1>7. Max(Q) \in Q /\ \A y \in Q : Max(Q) >= y
    BY <1>5, <1>6 DEF Max
  <1>8. Max(Q) = n - 1
    BY <1>5, <1>6, <1>7
  <1> QED  BY <1>a, <1>b, <1>4, <1>8

\* Rules that are inserted anew stay where they are, and of their kind but for lists.
LEMMA ReinsertedIs ==
    ASSUME NEW table, \A r \in table : r \in Rules, NEW new \in Reinserted(table)
    PROVE  /\ new \in Rules
           /\ \E r \in table : new = [r EXCEPT !.kind = Inserted(r.kind)] /\ new.sheet = r.sheet
                              /\ new.kind = Inserted(r.kind)
  <1>1. PICK r \in table : new = [r EXCEPT !.kind = Inserted(@)]
    BY DEF Reinserted
  <1>2. r \in Rules /\ Inserted(r.kind) \in Kinds
    BY DEF Rules, Inserted, Kinds, Validations
  <1> QED  BY <1>1, <1>2 DEF Rules

\* Every sheet stays in its workbook.
SheetsStay == \A s \in DOMAIN sheets : s \in DOMAIN sheets' /\ sheets'[s].book = sheets[s].book

\* A sheet with a new id is put into a workbook.
LEMMA AddedSheet ==
    ASSUME Inv, Operation, NEW b \in DOMAIN books, NEW x, x = used + 1, x \in SheetIds, used' = x,
           UNCHANGED <<books, versions>>, PartsAreSound',
           NEW U, sheets' = U, U = [s \in DOMAIN U |-> U[s]], DOMAIN U = DOMAIN sheets \cup {x},
           U[x] \in Sheets, U[x].book = b,
           \A s \in DOMAIN sheets : /\ U[s] \in Sheets /\ U[s].book = sheets[s].book
                                    /\ U[s].name = sheets[s].name /\ U[s].formula = sheets[s].formula
                                    /\ sheets[s].book # b => U[s] = sheets[s],
           Numbered(U, SheetsOf(b) \cup {x}), U[x].name \notin NamesIn(b),
           U[x].formula.meant \in 0..used,
           U[x].formula.meant \in SheetsOf(b) => sheets[U[x].formula.meant].name = U[x].formula.names
    PROVE  Core' /\ SheetsStay /\ Touches(b)
  <1> PICK S : S = SheetsOf(b)
    OBVIOUS
  <1>1. /\ used \in Nat /\ IsWorkbook(sheets, S, used) /\ x \in Nat /\ used < x /\ x \notin DOMAIN sheets
        /\ S \subseteq DOMAIN sheets /\ \A s \in S : sheets[s] \in Sheets
    BY InvMeans DEF SheetsOf
  <1>2. SheetsOf(b)' = S \cup {x}
    BY DEF SheetsOf
  <1>3. IsWorkbook(U, S \cup {x}, x)
    <2>1. \A s \in S : sheets[s].name # U[x].name
      BY DEF NamesIn
    <2>2. \A s \in S : U[s].name = sheets[s].name /\ U[s].formula = sheets[s].formula
      BY <1>1
    <2>3. Numbered(U, S \cup {x}) /\ U[x].formula.meant \in 0..used
          /\ (U[x].formula.meant \in S => sheets[U[x].formula.meant].name = U[x].formula.names)
      OBVIOUS
    <2>4. PICK T : T = sheets
      OBVIOUS
    <2>5. PICK n : n = used
      OBVIOUS
    <2>6. IsWorkbook(T, S, n) /\ n \in Nat /\ x = n + 1 /\ U[x].formula.meant \in 0..n
          /\ (U[x].formula.meant \in S => T[U[x].formula.meant].name = U[x].formula.names)
          /\ \A s \in S : /\ T[s] \in Sheets /\ U[s].name = T[s].name /\ U[s].formula = T[s].formula
                          /\ T[s].name # U[x].name
      BY <1>1, <2>1, <2>2, <2>3, <2>4, <2>5
    <2> QED  BY <2>3, <2>6, InsertedWorkbook
  <1>4. Touches(b)
    BY DEF Touches
  <1>5. sheets' \in [DOMAIN sheets' -> Sheets]
    <2>1. \A s \in DOMAIN U : U[s] \in Sheets
      OBVIOUS
    <2> QED  BY <2>1
  <1>6. /\ BooksAreSound' /\ DOMAIN sheets' \subseteq 1..used'
        /\ \A s \in DOMAIN sheets' : sheets'[s].book \in DOMAIN books'
    <2>1. /\ IsWorkbook(sheets', SheetsOf(b)', used') /\ used' \in Nat /\ used <= used'
      BY <1>1, <1>2, <1>3
    <2>2. DOMAIN books' = DOMAIN books \cup {b} /\ books' \in [DOMAIN books' -> [title : Titles, live : BOOLEAN]]
      BY InvMeans
    <2> QED  BY <1>4, <1>5, <2>1, <2>2, BookStep
  <1>7. VersionsAreSound' /\ \A i \in DOMAIN versions' : versions'[i].book \in DOMAIN books'
    <2>1. \A s \in DOMAIN sheets' : (s \in DOMAIN sheets /\ sheets'[s].book = sheets[s].book) \/ s > used
      BY <1>1
    <2> QED  BY <1>1, <2>1, VersionsStay
  <1>8. DOMAIN books' \subseteq BookIds /\ used' \in SheetIds
    BY InvMeans
  <1>s. SheetsStay
    BY DEF SheetsStay
  <1> QED  BY <1>s, <1>4, <1>6, <1>7, <1>8, Assembled

\* A row is put in under a new id as the last sheet of a workbook.
LEMMA AppendedSheet ==
    ASSUME Inv, Operation, NEW b \in DOMAIN books, NEW x, x = used + 1, used < MaxSheets, used' = x,
           NEW row \in Sheets, row.book = b, row.position = Cardinality(SheetsOf(b)),
           row.name \notin NamesIn(b), row.formula.meant \in 0..used,
           row.formula.meant \in SheetsOf(b) => sheets[row.formula.meant].name = row.formula.names,
           sheets' = Put(Row(x, row), sheets),
           UNCHANGED <<books, versions, rules, charts, views>>
    PROVE  Core' /\ SheetsStay /\ Touches(b)
  <1>a. PICK S : S = SheetsOf(b)
    OBVIOUS
  <1>b. PICK n : n = Cardinality(S)
    OBVIOUS
  <1>e. PICK U : U = Put(Row(x, row), sheets)
    OBVIOUS
  <1>1. /\ used \in Nat /\ x \notin DOMAIN sheets /\ S \subseteq DOMAIN sheets
        /\ \A s \in DOMAIN sheets : sheets[s] \in Sheets
    BY <1>a, InvMeans DEF SheetsOf
  <1>2. /\ n \in Nat
        /\ \A s \in S : sheets[s].position \in Nat /\ sheets[s].position < n
        /\ \A q \in 0..(n - 1) : \E s \in S : sheets[s].position = q
    BY <1>a, <1>b, TabsAre
  <1>3. sheets' = U
    BY <1>e
  <1>5. /\ DOMAIN U = DOMAIN sheets \cup {x} /\ U[x] = row /\ \A s \in DOMAIN sheets : U[s] = sheets[s]
        /\ U = [s \in DOMAIN U |-> U[s]]
    BY <1>1, <1>e DEF Put, Row
  <1>6. Numbered(U, S \cup {x})
    <2>1. x \notin S /\ Numbered(sheets, S)
      BY <1>1, <1>a, InvMeans DEF IsWorkbook
    <2>2. \A s \in S : U[s].position =
             IF sheets[s].position >= n THEN sheets[s].position + 1 ELSE sheets[s].position
      BY <1>1, <1>2, <1>5
    <2>3. \A s \in S : sheets[s].position \in Nat
      BY <1>2
    <2>4. PICK T : T = sheets
      OBVIOUS
    <2>5. \A s \in S : /\ T[s].position \in Nat
                       /\ U[s].position = IF T[s].position >= n THEN T[s].position + 1 ELSE T[s].position
      BY <2>2, <2>3, <2>4
    <2>6. Numbered(T, S) /\ U[x].position = n /\ \A r \in 0..(n - 1) : \E t \in S : T[t].position = r
      BY <1>2, <1>5, <1>a, <1>b, <2>1, <2>4
    <2> QED  BY <1>2, <2>1, <2>5, <2>6, InsertedNumbered
  <1>7. x \in SheetIds
    BY <1>1, BoundsAssumption DEF SheetIds
  <1>8. PartsAreSound'
    BY <1>3, <1>5, PartsStay
  <1>10. /\ U[x] \in Sheets /\ U[x].book = b /\ U[x].name \notin NamesIn(b)
         /\ U[x].formula.meant \in 0..used
         /\ (U[x].formula.meant \in SheetsOf(b) => sheets[U[x].formula.meant].name = U[x].formula.names)
    BY <1>5
  <1>11. \A s \in DOMAIN sheets : /\ U[s] \in Sheets /\ U[s].book = sheets[s].book
                                  /\ U[s].name = sheets[s].name /\ U[s].formula = sheets[s].formula
                                  /\ sheets[s].book # b => U[s] = sheets[s]
    BY <1>1, <1>5
  <1>12. Numbered(U, SheetsOf(b) \cup {x})
    BY <1>6, <1>a
  <1> QED  BY <1>3, <1>5, <1>7, <1>8, <1>10, <1>11, <1>12, AddedSheet

\* No sheet has the id that means none.
LEMMA NoSheetIsNone ==
    ASSUME Inv
    PROVE  0 \in 0..used /\ 0 \notin DOMAIN sheets /\ \A b : 0 \notin SheetsOf(b)
  BY InvMeans DEF SheetsOf

\* CreateSheet
LEMMA CreateSheetKeepsInv ==
    ASSUME Inv, Operation, NEW b \in DOMAIN books, NEW name \in Names, CreateSheet(b, name)
    PROVE  Core' /\ SheetsStay /\ Touches(b)
  <1>a. PICK n : n = Cardinality(SheetsOf(b))
    OBVIOUS
  <1>b. PICK x : x = used + 1
    OBVIOUS
  <1>c. PICK row : row = [FirstSheet(b, name) EXCEPT !.position = n]
    OBVIOUS
  <1>1. b \in BookIds
    BY InvMeans
  <1>2. n \in Nat /\ Max({sheets[s].position : s \in SheetsOf(b)} \cup {-1}) = n - 1
    BY <1>a, TabsAre, LastTabIs
  <1>3. sheets' = Put(Row(x, row), sheets)
    <2>1. used' = x
      BY <1>b DEF CreateSheet
    <2>2. Max({sheets[s].position : s \in SheetsOf(b)} \cup {-1}) + 1 = n
      BY <1>2
    <2>4. sheets' = Put(Row(used', [FirstSheet(b, name) EXCEPT
                         !.position = Max({sheets[s].position : s \in SheetsOf(b)} \cup {-1}) + 1]), sheets)
      BY DEF CreateSheet
    <2> QED  BY <1>c, <2>1, <2>2, <2>4, Zenon
  <1>4. /\ row \in Sheets /\ row.book = b /\ row.name = name /\ row.position = n
        /\ row.formula.meant = 0
    <2>1. PICK f : f = NoFormula
      OBVIOUS
    <2>2. f \in Formulas /\ f.meant = 0
      BY <2>1 DEF NoFormula, Formulas, NoSheet
    <2>3. FirstSheet(b, name) \in Sheets
      BY <1>1, <2>1, <2>2 DEF FirstSheet, Sheets
    <2>4. row \in Sheets
      BY <1>2, <1>c, <2>3 DEF Sheets
    <2>5. row.book = b /\ row.name = name /\ row.position = n /\ row.formula = f
      BY <1>c, <2>1 DEF FirstSheet
    <2> QED  BY <2>2, <2>4, <2>5
  <1>5. /\ used < MaxSheets /\ used' = x /\ UNCHANGED <<books, versions, rules, charts, views>>
        /\ name \notin NamesIn(b)
    BY <1>b DEF CreateSheet, parts
  <1> QED  BY <1>3, <1>4, <1>5, <1>a, <1>b, NoSheetIsNone, AppendedSheet

\* CopySheetToWorkbook
LEMMA CopySheetKeepsInv ==
    ASSUME Inv, Operation, NEW s \in DOMAIN sheets, NEW b \in DOMAIN books, NEW name \in Names,
           CopySheetToWorkbook(s, b, name)
    PROVE  Core' /\ SheetsStay /\ Touches(b)
  <1>a. PICK n : n = Cardinality(SheetsOf(b))
    OBVIOUS
  <1>b. PICK x : x = used + 1
    OBVIOUS
  <1>c. PICK row : row = [sheets[s] EXCEPT !.book = b, !.name = name, !.hidden = FALSE, !.position = n,
                             !.formula.meant = IF sheets[s].book = b THEN @ ELSE NoSheet]
    OBVIOUS
  <1>d. PICK src : src = sheets[s]
    OBVIOUS
  <1>1. b \in BookIds /\ n \in Nat /\ src \in Sheets /\ s \in SheetsOf(src.book) /\ src.book \in DOMAIN books
    BY <1>a, <1>d, InvMeans, TabsAre DEF SheetsOf
  <1>3. sheets' = Put(Row(x, row), sheets)
    BY <1>a, <1>b, <1>c DEF CopySheetToWorkbook
  <1>4. PICK m : m = IF src.book = b THEN src.formula.meant ELSE NoSheet
    OBVIOUS
  <1>5. m \in {NoSheet} \cup SheetIds
    BY <1>1, <1>4, RowIs
  <1>6. row \in Sheets /\ row.book = b /\ row.name = name /\ row.position = n
    BY <1>1, <1>c, <1>d, <1>4, <1>5 DEF Sheets, Formulas
  <1>7. row.formula.meant = m /\ row.formula.names = src.formula.names
    BY <1>1, <1>c, <1>d, <1>4 DEF Sheets, Formulas
  <1>8. m \in 0..used /\ (m \in SheetsOf(b) => sheets[m].name = row.formula.names)
    <2>1. CASE src.book = b
      <3>1. m = src.formula.meant /\ m \in Nat /\ m <= used /\ used \in Nat
        BY <1>1, <1>4, <1>d, <2>1, InvMeans, RowIs DEF IsWorkbook
      <3>2. m \in SheetsOf(b) => sheets[m].name = src.formula.names
        BY <1>1, <1>d, <2>1, <3>1, InvMeans DEF IsWorkbook, Linked
      <3> QED  BY <1>7, <3>1, <3>2
    <2>2. CASE src.book # b
      BY <1>4, <2>2, NoSheetIsNone DEF NoSheet
    <2> QED  BY <2>1, <2>2
  <1>9. /\ used < MaxSheets /\ used' = x /\ UNCHANGED <<books, versions, rules, charts, views>>
        /\ name \notin NamesIn(b)
    BY <1>b DEF CopySheetToWorkbook, parts
  <1> QED  BY <1>3, <1>6, <1>7, <1>8, <1>9, <1>a, <1>b, AppendedSheet

\* Sheets of a workbook move, and stay what they are.
LEMMA ShiftedIs ==
    ASSUME Inv, NEW b, NEW at, NEW by \in Int, NEW U, U = Shifted(b, at, by),
           \A s \in DOMAIN sheets :
              (sheets[s].book = b /\ sheets[s].position \in at) => sheets[s].position + by \in Nat
    PROVE  /\ DOMAIN U = DOMAIN sheets /\ U = [s \in DOMAIN U |-> U[s]]
           /\ \A s \in DOMAIN sheets :
                 /\ U[s] \in Sheets /\ U[s].book = sheets[s].book /\ U[s].name = sheets[s].name
                 /\ U[s].hidden = sheets[s].hidden /\ U[s].formula = sheets[s].formula
                 /\ sheets[s].book # b => U[s] = sheets[s]
                 /\ U[s].position = IF sheets[s].book = b /\ sheets[s].position \in at
                                    THEN sheets[s].position + by ELSE sheets[s].position
  <1>1. DOMAIN U = DOMAIN sheets /\ U = [s \in DOMAIN U |-> U[s]]
    BY DEF Shifted
  <1>2. ASSUME NEW s \in DOMAIN sheets
        PROVE  /\ U[s] \in Sheets /\ U[s].book = sheets[s].book /\ U[s].name = sheets[s].name
               /\ U[s].hidden = sheets[s].hidden /\ U[s].formula = sheets[s].formula
               /\ sheets[s].book # b => U[s] = sheets[s]
               /\ U[s].position = IF sheets[s].book = b /\ sheets[s].position \in at
                                  THEN sheets[s].position + by ELSE sheets[s].position
    <2>1. sheets[s] \in Sheets
      BY InvMeans
    <2>2. CASE sheets[s].book = b /\ sheets[s].position \in at
      <3>1. U[s] = [sheets[s] EXCEPT !.position = sheets[s].position + by]
        BY <2>2 DEF Shifted
      <3>2. sheets[s].position + by \in Nat
        BY <2>2
      <3> QED  BY <2>1, <2>2, <3>1, <3>2 DEF Sheets
    <2>3. CASE ~(sheets[s].book = b /\ sheets[s].position \in at)
      <3>1. U[s] = sheets[s]
        BY <2>3 DEF Shifted
      <3> QED  BY <2>1, <2>3, <3>1
    <2> QED  BY <2>2, <2>3
  <1> QED  BY <1>1, <1>2

\* DuplicateSheet: the sheets on the right of the source make room.
LEMMA DuplicateSheetKeepsInv ==
    ASSUME Inv, Operation, NEW s \in DOMAIN sheets, NEW name \in Names, DuplicateSheet(s, name)
    PROVE  Core' /\ SheetsStay /\ Touches(sheets[s].book)
  <1>a. PICK src : src = sheets[s]
    OBVIOUS
  <1>b. PICK b : b = src.book
    OBVIOUS
  <1>c. PICK S : S = SheetsOf(b)
    OBVIOUS
  <1>d. PICK n : n = Cardinality(S)
    OBVIOUS
  <1>e. PICK x : x = used + 1
    OBVIOUS
  <1>f. PICK p : p = src.position
    OBVIOUS
  <1>g. PICK row : row = [src EXCEPT !.name = name, !.position = p + 1]
    OBVIOUS
  <1>h. PICK T : T = Shifted(b, (p + 1)..MaxSheets, 1)
    OBVIOUS
  <1>i. PICK U : U = Put(Row(x, row), T)
    OBVIOUS
  <1>1. /\ used \in Nat /\ x \notin DOMAIN sheets /\ b \in DOMAIN books /\ S \subseteq DOMAIN sheets
        /\ s \in S /\ src \in Sheets /\ IsWorkbook(sheets, S, used)
    BY <1>a, <1>b, <1>c, <1>e, InvMeans DEF SheetsOf
  <1>2. /\ n \in Nat /\ n <= used
        /\ \A t \in S : sheets[t].position \in Nat /\ sheets[t].position < n
                        /\ sheets[t].position < MaxSheets
        /\ \A q \in 0..(n - 1) : \E t \in S : sheets[t].position = q
    BY <1>1, <1>c, <1>d, TabsAre
  <1>3. sheets' = U
    BY <1>a, <1>b, <1>e, <1>f, <1>g, <1>h, <1>i DEF DuplicateSheet
  <1>4. /\ row \in Sheets /\ row.book = b /\ row.name = name /\ row.position = p + 1
        /\ row.formula = src.formula /\ p \in Nat /\ p < n
    <2>1. p \in Nat /\ p < n
      BY <1>1, <1>2, <1>a, <1>f
    <2>2. PICK q : q = p + 1
      OBVIOUS
    <2>3. q \in Nat
      BY <2>1, <2>2
    <2>4. row = [src EXCEPT !.name = name, !.position = q]
      BY <1>g, <2>2
    <2>5. /\ row \in Sheets /\ row.book = src.book /\ row.name = name /\ row.position = q
          /\ row.formula = src.formula
      BY <1>1, <2>3, <2>4 DEF Sheets
    <2> QED  BY <1>b, <2>1, <2>2, <2>5
  <1>5. /\ DOMAIN T = DOMAIN sheets
        /\ \A t \in DOMAIN sheets :
              /\ T[t] \in Sheets /\ T[t].book = sheets[t].book /\ T[t].name = sheets[t].name
              /\ T[t].formula = sheets[t].formula
              /\ sheets[t].book # b => T[t] = sheets[t]
              /\ T[t].position = IF sheets[t].book = b /\ sheets[t].position \in (p + 1)..MaxSheets
                                 THEN sheets[t].position + 1 ELSE sheets[t].position
    <2>1. PICK at : at = (p + 1)..MaxSheets
      OBVIOUS
    <2>2. PICK by : by = 1
      OBVIOUS
    <2>3. T = Shifted(b, at, by)
      BY <1>h, <2>1, <2>2
    <2>4. by \in Int /\ \A t \in DOMAIN sheets : sheets[t].position + by \in Nat
      BY <2>2, InvMeans, RowIs
    <2>5. /\ DOMAIN T = DOMAIN sheets
          /\ \A t \in DOMAIN sheets :
                /\ T[t] \in Sheets /\ T[t].book = sheets[t].book /\ T[t].name = sheets[t].name
                /\ T[t].formula = sheets[t].formula
                /\ sheets[t].book # b => T[t] = sheets[t]
                /\ T[t].position = IF sheets[t].book = b /\ sheets[t].position \in at
                                   THEN sheets[t].position + by ELSE sheets[t].position
      BY <2>3, <2>4, ShiftedIs
    <2> QED  BY <2>1, <2>2, <2>5
  <1>6. /\ DOMAIN U = DOMAIN sheets \cup {x} /\ U[x] = row /\ \A t \in DOMAIN sheets : U[t] = T[t]
        /\ U = [t \in DOMAIN U |-> U[t]]
    BY <1>1, <1>5, <1>i DEF Put, Row
  <1>7. Numbered(U, S \cup {x})
    <2>1. x \notin S /\ Numbered(sheets, S) /\ U[x].position = p + 1 /\ p + 1 \in Nat
      BY <1>1, <1>4, <1>6 DEF IsWorkbook
    <2>2. \A t \in S : U[t].position =
             IF sheets[t].position >= p + 1 THEN sheets[t].position + 1 ELSE sheets[t].position
      <3>1. ASSUME NEW t \in S
            PROVE  U[t].position = IF sheets[t].position >= p + 1 THEN sheets[t].position + 1
                                                                  ELSE sheets[t].position
        <4>1. t \in DOMAIN sheets /\ sheets[t].book = b /\ U[t] = T[t]
          BY <1>1, <1>6, <1>c DEF SheetsOf
        <4>2. sheets[t].position \in (p + 1)..MaxSheets <=> sheets[t].position >= p + 1
          BY <1>2, <1>4, BoundsAssumption
        <4> QED  BY <1>5, <4>1, <4>2
      <3> QED  BY <3>1
    <2>3. \A r \in 0..((p + 1) - 1) : \E t \in S : sheets[t].position = r
      BY <1>2, <1>4
    <2>4. PICK T0 : T0 = sheets
      OBVIOUS
    <2>5. PICK q : q = p + 1
      OBVIOUS
    <2>6. /\ q \in Nat /\ Numbered(T0, S) /\ U[x].position = q
          /\ \A t \in S : T0[t].position \in Nat
          /\ \A r \in 0..(q - 1) : \E t \in S : T0[t].position = r
      BY <1>2, <2>1, <2>3, <2>4, <2>5
    <2>7. \A t \in S : U[t].position = IF T0[t].position >= q THEN T0[t].position + 1 ELSE T0[t].position
      BY <2>2, <2>4, <2>5
    <2> QED  BY <2>1, <2>6, <2>7, InsertedNumbered
  <1>8. /\ x \in SheetIds /\ used' = x /\ UNCHANGED <<books, versions, views>> /\ name \notin NamesIn(b)
    BY <1>a, <1>b, <1>e DEF DuplicateSheet
  <1>9. PartsAreSound'
    <2>1. \A t \in DOMAIN sheets : t \in DOMAIN U /\ U[t].book = sheets[t].book
      BY <1>5, <1>6
    <2>2. rules' \subseteq Rules /\ \A r \in rules' : r.sheet \in DOMAIN U
      <3>1. rules' = rules \cup {[r EXCEPT !.sheet = x] :
                        r \in Reinserted({r \in On(rules, {s}) : r.kind \in Validations})}
        BY <1>e DEF DuplicateSheet
      <3>2. \A r \in rules : r \in Rules /\ r.sheet \in DOMAIN U
        BY <2>1 DEF Inv, Core, PartsAreSound
      <3>3. \A r \in Reinserted({r \in On(rules, {s}) : r.kind \in Validations}) : r \in Rules
        BY <3>2, ReinsertedIs DEF On
      <3>4. \A r \in Rules : [r EXCEPT !.sheet = x] \in Rules /\ [r EXCEPT !.sheet = x].sheet \in DOMAIN U
        BY <1>6, <1>8 DEF Rules
      <3> QED  BY <3>1, <3>2, <3>3, <3>4
    <2>3. views' \subseteq Views /\ \A v \in views' : v.sheet \in DOMAIN U
      BY <1>6, <1>8, <2>1 DEF Inv, Core, PartsAreSound
    <2>4. ASSUME NEW c \in charts
          PROVE  /\ c \in Charts /\ c.sheet \in DOMAIN U
                 /\ c.source # Ref => c.source \in DOMAIN U /\ U[c.source].book = U[c.sheet].book
      BY <2>1 DEF Inv, Core, PartsAreSound
    <2>5. ASSUME NEW c \in On(charts, {s}), NEW d, d = [c EXCEPT !.sheet = x, !.source = IF @ = s THEN x ELSE @]
          PROVE  /\ d \in Charts /\ d.sheet \in DOMAIN U
                 /\ d.source # Ref => d.source \in DOMAIN U /\ U[d.source].book = U[d.sheet].book
      <3>1. c \in Charts /\ c \in charts /\ c.sheet = s
        BY DEF Inv, Core, PartsAreSound, On
      <3>2. d \in Charts /\ d.sheet = x /\ d.source = IF c.source = s THEN x ELSE c.source
        BY <1>8, <2>5, <3>1 DEF Charts
      <3>3. U[x].book = b /\ U[s].book = b /\ x \in DOMAIN U
        BY <1>4, <1>6, <2>1, <1>a, <1>b
      <3> QED  BY <2>4, <3>1, <3>2, <3>3
    <2>6. ASSUME NEW d \in charts'
          PROVE  /\ d \in Charts /\ d.sheet \in DOMAIN U
                 /\ d.source # Ref => d.source \in DOMAIN U /\ U[d.source].book = U[d.sheet].book
      <3>1. charts' = charts \cup {[c EXCEPT !.sheet = x, !.source = IF @ = s THEN x ELSE @] :
                                      c \in On(charts, {s})}
        BY <1>e DEF DuplicateSheet
      <3> QED  BY <2>4, <2>5, <3>1
    <2> QED  BY <1>3, <2>2, <2>3, <2>6 DEF PartsAreSound
  <1>10. /\ U[x] \in Sheets /\ U[x].book = b /\ U[x].name \notin NamesIn(b)
         /\ U[x].formula.meant \in 0..used
         /\ (U[x].formula.meant \in SheetsOf(b) => sheets[U[x].formula.meant].name = U[x].formula.names)
    <2>1. src.formula.meant \in Nat /\ src.formula.meant <= used
          /\ (src.formula.meant \in S => sheets[src.formula.meant].name = src.formula.names)
      BY <1>1, <1>a, RowIs DEF IsWorkbook, Linked
    <2> QED  BY <1>1, <1>4, <1>6, <1>8, <1>c, <2>1
  <1>11. \A t \in DOMAIN sheets : /\ U[t] \in Sheets /\ U[t].book = sheets[t].book
                                  /\ U[t].name = sheets[t].name /\ U[t].formula = sheets[t].formula
                                  /\ sheets[t].book # b => U[t] = sheets[t]
    BY <1>5, <1>6
  <1>12. Numbered(U, SheetsOf(b) \cup {x})
    BY <1>7, <1>c
  <1> QED  BY <1>1, <1>3, <1>6, <1>8, <1>9, <1>10, <1>11, <1>12, <1>a, <1>b, <1>e, AddedSheet

\* Rows of a workbook change, none comes and none goes.
LEMMA ReworkedBook ==
    ASSUME Inv, Operation, NEW b \in DOMAIN books,
           UNCHANGED <<books, used>>, PartsAreSound',
           UNCHANGED versions \/ \E d, e : insertSnapshot(b, d, e) /\ IsRecord(b, d, e),
           NEW U, sheets' = U, U = [t \in DOMAIN U |-> U[t]], DOMAIN U = DOMAIN sheets,
           \A t \in DOMAIN sheets : /\ U[t] \in Sheets /\ U[t].book = sheets[t].book
                                    /\ sheets[t].book # b => U[t] = sheets[t],
           IsWorkbook(U, SheetsOf(b), used)
    PROVE  Core' /\ SheetsStay /\ Touches(b)
  <1>1. SheetsOf(b)' = SheetsOf(b) /\ Touches(b)
    BY DEF SheetsOf, Touches
  <1>2. sheets' \in [DOMAIN sheets' -> Sheets] /\ used \in Nat /\ used' \in SheetIds
        /\ DOMAIN books' \subseteq BookIds
    BY InvMeans
  <1>3. /\ IsWorkbook(sheets', SheetsOf(b)', used')
        /\ DOMAIN books' = DOMAIN books \cup {b} /\ books' \in [DOMAIN books' -> [title : Titles, live : BOOLEAN]]
    BY <1>1, InvMeans
  <1>u. used' \in Nat /\ used <= used'
    BY <1>2
  <1>4. /\ BooksAreSound' /\ DOMAIN sheets' \subseteq 1..used'
        /\ \A s \in DOMAIN sheets' : sheets'[s].book \in DOMAIN books'
    BY <1>1, <1>2, <1>3, <1>u, BookStep
  <1>5. VersionsAreSound' /\ \A i \in DOMAIN versions' : versions'[i].book \in DOMAIN books'
    <2>1. CASE UNCHANGED versions
      BY <1>2, <2>1, VersionsStay
    <2>2. ASSUME NEW d, NEW e, insertSnapshot(b, d, e), IsRecord(b, d, e)
          PROVE  VersionsAreSound' /\ \A i \in DOMAIN versions' : versions'[i].book \in DOMAIN books'
      BY <1>2, <2>2, VersionAdded
    <2> QED  BY <2>1, <2>2
  <1>s. SheetsStay
    BY DEF SheetsStay
  <1> QED  BY <1>s, <1>1, <1>2, <1>4, <1>5, Assembled

\* WriteFormula
LEMMA WriteFormulaKeepsInv ==
    ASSUME Inv, Operation, NEW s \in DOMAIN sheets, NEW formula \in Formulas, WriteFormula(s, formula)
    PROVE  Core' /\ SheetsStay /\ Touches(sheets[s].book)
  <1>a. PICK b : b = sheets[s].book
    OBVIOUS
  <1>b. PICK S : S = SheetsOf(b)
    OBVIOUS
  <1>c. PICK U : U = [sheets EXCEPT ![s].formula = formula]
    OBVIOUS
  <1>1. /\ b \in DOMAIN books /\ s \in S /\ S \subseteq DOMAIN sheets /\ used \in Nat
        /\ IsWorkbook(sheets, S, used) /\ \A t \in DOMAIN sheets : sheets[t] \in Sheets
    BY <1>a, <1>b, InvMeans DEF SheetsOf
  <1>2. sheets' = U /\ UNCHANGED <<books, used, versions, rules, charts, views>>
    BY <1>c DEF WriteFormula, parts
  <1>3. /\ DOMAIN U = DOMAIN sheets /\ U = [t \in DOMAIN U |-> U[t]]
        /\ \A t \in DOMAIN sheets \ {s} : U[t] = sheets[t]
        /\ U[s] = [sheets[s] EXCEPT !.formula = formula]
    BY <1>1, <1>c, InvMeans
  <1>4. /\ U[s] \in Sheets /\ U[s].book = b /\ U[s].name = sheets[s].name
        /\ U[s].position = sheets[s].position /\ U[s].formula = formula
    BY <1>1, <1>3, <1>a DEF Sheets
  <1>5. /\ formula.meant \in S => sheets[formula.meant].name = formula.names
        /\ formula.meant <= used
    <2>1. CASE formula = NoFormula
      <3>1. formula.meant = 0
        BY <2>1 DEF NoFormula, NoSheet
      <3> QED  BY <1>1, <1>b, <3>1, NoSheetIsNone
    <2>2. CASE formula # NoFormula
      <3>1. PICK t \in S : formula = [names |-> sheets[t].name, meant |-> t]
        BY <1>a, <1>b, <2>2 DEF WriteFormula
      <3>2. t \in 1..used
        BY <1>1, InvMeans
      <3> QED  BY <1>1, <3>1, <3>2
    <2> QED  BY <2>1, <2>2
  <1>6. IsWorkbook(U, S, used)
    <2>1. \A t \in S : U[t].name = sheets[t].name /\ U[t].position = sheets[t].position
      BY <1>1, <1>3, <1>4
    <2>2. \A t \in S : U[t].formula.meant <= used
      BY <1>1, <1>3, <1>4, <1>5 DEF IsWorkbook
    <2>3. Numbered(U, S) /\ Named(U, S)
      BY <1>1, <2>1 DEF IsWorkbook, Numbered, Named
    <2>4. Linked(U, S)
      <3>1. ASSUME NEW t \in S, U[t].formula.meant \in S
            PROVE  U[U[t].formula.meant].name = U[t].formula.names
        <4>1. sheets[U[t].formula.meant].name = U[t].formula.names
          <5>1. CASE t = s
            BY <1>4, <1>5, <3>1, <5>1
          <5>2. CASE t # s
            BY <1>1, <1>3, <3>1, <5>2 DEF IsWorkbook, Linked
          <5> QED  BY <5>1, <5>2
        <4> QED  BY <2>1, <3>1, <4>1
      <3> QED  BY <3>1 DEF Linked
    <2> QED  BY <1>1, <2>2, <2>3, <2>4 DEF IsWorkbook
  <1>7. \A t \in DOMAIN sheets : /\ U[t] \in Sheets /\ U[t].book = sheets[t].book
                                 /\ sheets[t].book # b => U[t] = sheets[t]
    BY <1>1, <1>3, <1>4, <1>a
  <1>8. PartsAreSound'
    BY <1>2, <1>3, <1>7, PartsStay
  <1> QED  BY <1>1, <1>2, <1>3, <1>6, <1>7, <1>8, <1>a, <1>b, ReworkedBook

\* The parts after rows or columns of a sheet changed: the new ones are on this sheet, or draw
\* from it as others did.
ChangedParts(s) ==
    /\ \A r \in rules' : r \in rules \/ (r \in Rules /\ r.sheet = s)
    /\ \A v \in views' : v \in views \/ (v \in Views /\ v.sheet = s)
    /\ \A d \in charts' :
          \/ d \in charts /\ d.source # s
          \/ d \in Charts /\ \E c \in charts : c.source = s /\ d.sheet = c.sheet /\ d.source \in {c.source, Ref}
    /\ \A r \in rules : r.sheet # s => r \in rules'
    /\ \A v \in views : v.sheet # s => v \in views'
    /\ \A c \in charts : c.source # s => c \in charts'

LEMMA ChangedPartsAre ==
    ASSUME Inv, NEW s \in DOMAIN sheets, NEW gone, NEW lost, NEW fitting, NEW left, NEW broken,
           ChangeStructure(s, gone, lost, fitting, left, broken)
    PROVE  ChangedParts(s)
  <1>a. PICK b : b = sheets[s].book
    OBVIOUS
  <1>b. PICK stay : stay = {r \in On(rules, {s}) \ gone : r.kind # "sourceless"}
    OBVIOUS
  <1>c. PICK drawn : drawn = {c \in charts : c.source = s}
    OBVIOUS
  <1>d. PICK x : x = backups[b]
    OBVIOUS
  <1>1. /\ ~ Free(b) /\ left \subseteq On(x.seen, {s})
        /\ rules' = OffSheets(rules, {s}) \cup Reinserted(stay)
        /\ charts' = (charts \ drawn) \cup {WithoutSource(c) : c \in lost \cap drawn}
                         \cup {[c EXCEPT !.fit = c \in fitting] : c \in drawn \ lost}
        /\ views' = OffSheets(views, {s}) \cup left
    BY <1>a, <1>b, <1>c, <1>d DEF ChangeStructure, Saved
  <1>2. rules \subseteq Rules /\ charts \subseteq Charts /\ views \subseteq Views
    BY DEF Inv, Core, PartsAreSound
  <1>3. x.seen \subseteq Views
    BY <1>1, <1>d, BackupIs DEF BackupIsSound
  <1>4. ASSUME NEW r \in rules' PROVE r \in rules \/ (r \in Rules /\ r.sheet = s)
    <2>1. CASE r \in Reinserted(stay)
      <3>1. \A o \in stay : o \in Rules /\ o.sheet = s
        BY <1>2, <1>b DEF On
      <3> QED  BY <2>1, <3>1, ReinsertedIs
    <2> QED  BY <1>1, <2>1 DEF OffSheets
  <1>5. ASSUME NEW v \in views' PROVE v \in views \/ (v \in Views /\ v.sheet = s)
    BY <1>1, <1>3 DEF OffSheets, On
  <1>6. ASSUME NEW d \in charts'
        PROVE  \/ d \in charts /\ d.source # s
               \/ d \in Charts /\ \E c \in charts : c.source = s /\ d.sheet = c.sheet /\ d.source \in {c.source, Ref}
    <2>1. CASE d \in charts \ drawn
      BY <1>c, <2>1
    <2>2. ASSUME NEW c \in lost \cap drawn, d = WithoutSource(c)
          PROVE  d \in Charts /\ d.sheet = c.sheet /\ d.source = Ref /\ c \in charts /\ c.source = s
      BY <1>2, <1>c, <2>2 DEF WithoutSource, Charts
    <2>3. ASSUME NEW c \in drawn \ lost, d = [c EXCEPT !.fit = c \in fitting]
          PROVE  d \in Charts /\ d.sheet = c.sheet /\ d.source = c.source /\ c \in charts /\ c.source = s
      <3>1. c \in Charts /\ c \in charts /\ c.source = s
        BY <1>2, <1>c, <2>3
      <3>2. CASE c \in fitting
        <4>1. d = [c EXCEPT !.fit = TRUE]
          BY <2>3, <3>2
        <4> QED  BY <3>1, <4>1 DEF Charts
      <3>3. CASE c \notin fitting
        <4>a. (c \in fitting) = FALSE
          BY <3>3
        <4>1. d = [c EXCEPT !.fit = FALSE]
          BY <2>3, <4>a, Zenon
        <4> QED  BY <3>1, <4>1 DEF Charts
      <3> QED  BY <3>2, <3>3
    <2> QED  BY <1>1, <2>1, <2>2, <2>3
  <1>7. \A c \in charts : c.source # s => c \in charts'
    BY <1>1, <1>c
  <1>8. \A r \in rules : r.sheet # s => r \in rules'
    BY <1>1 DEF OffSheets
  <1>9. \A v \in views : v.sheet # s => v \in views'
    BY <1>1 DEF OffSheets
  <1> QED  BY <1>4, <1>5, <1>6, <1>7, <1>8, <1>9 DEF ChangedParts

\* ChangeStructure: some formulas are lost, and what draws from the sheet changes.
LEMMA ChangeStructureKeepsInv ==
    ASSUME Inv, Operation, NEW s \in DOMAIN sheets, NEW gone, NEW lost, NEW fitting, NEW left, NEW broken,
           ChangeStructure(s, gone, lost, fitting, left, broken)
    PROVE  Core' /\ SheetsStay /\ Touches(sheets[s].book)
  <1>a. PICK b : b = sheets[s].book
    OBVIOUS
  <1>b. PICK S : S = SheetsOf(b)
    OBVIOUS
  <1>c. PICK U : U = [t \in DOMAIN sheets |->
                         IF t \in broken THEN [sheets[t] EXCEPT !.formula = NoFormula] ELSE sheets[t]]
    OBVIOUS
  <1>1. /\ b \in DOMAIN books /\ S \subseteq DOMAIN sheets /\ used \in Nat
        /\ IsWorkbook(sheets, S, used) /\ \A t \in DOMAIN sheets : sheets[t] \in Sheets
    BY <1>a, <1>b, InvMeans DEF SheetsOf
  <1>2. /\ sheets' = U /\ UNCHANGED <<books, used>> /\ Saved(b)
        /\ \A t \in broken : sheets[t].book = b
    BY <1>a, <1>c DEF ChangeStructure
  <1>3. /\ DOMAIN U = DOMAIN sheets /\ U = [t \in DOMAIN U |-> U[t]]
        /\ \A t \in DOMAIN sheets \ broken : U[t] = sheets[t]
    BY <1>c
  <1>4. \A t \in DOMAIN sheets :
           /\ U[t] \in Sheets /\ U[t].book = sheets[t].book /\ U[t].name = sheets[t].name
           /\ U[t].position = sheets[t].position
           /\ U[t].formula = IF t \in broken THEN NoFormula ELSE sheets[t].formula
    <2>1. ASSUME NEW t \in DOMAIN sheets
          PROVE  /\ U[t] \in Sheets /\ U[t].book = sheets[t].book /\ U[t].name = sheets[t].name
                 /\ U[t].position = sheets[t].position
                 /\ U[t].formula = IF t \in broken THEN NoFormula ELSE sheets[t].formula
      <3>1. PICK f : f = NoFormula
        OBVIOUS
      <3>2. f \in Formulas
        BY <3>1 DEF NoFormula, Formulas
      <3>3. CASE t \in broken
        <4>1. U[t] = [sheets[t] EXCEPT !.formula = f]
          BY <1>c, <3>1, <3>3
        <4> QED  BY <1>1, <3>1, <3>2, <3>3, <4>1 DEF Sheets
      <3>4. CASE t \notin broken
        BY <1>1, <1>3, <3>4
      <3> QED  BY <3>3, <3>4
    <2> QED  BY <2>1
  <1>5. NoFormula.meant = 0 /\ 0 \notin S /\ 0 <= used
    BY <1>1, <1>b, NoSheetIsNone DEF NoFormula, NoSheet
  <1>6. IsWorkbook(U, S, used)
    <2>1. Numbered(U, S) /\ Named(U, S)
      BY <1>1, <1>4 DEF IsWorkbook, Numbered, Named
    <2>2. \A t \in S : U[t].formula.meant <= used
      BY <1>1, <1>4, <1>5 DEF IsWorkbook
    <2>3. Linked(U, S)
      <3>1. ASSUME NEW t \in S, U[t].formula.meant \in S
            PROVE  U[U[t].formula.meant].name = U[t].formula.names
        <4>1. U[t].formula = sheets[t].formula
          BY <1>1, <1>4, <1>5, <3>1
        <4>2. sheets[sheets[t].formula.meant].name = sheets[t].formula.names
          BY <1>1, <3>1, <4>1 DEF IsWorkbook, Linked
        <4> QED  BY <1>1, <1>4, <3>1, <4>1, <4>2
      <3> QED  BY <3>1 DEF Linked
    <2> QED  BY <1>1, <2>1, <2>2, <2>3 DEF IsWorkbook
  <1>7. \A t \in DOMAIN sheets : /\ U[t] \in Sheets /\ U[t].book = sheets[t].book
                                 /\ sheets[t].book # b => U[t] = sheets[t]
    BY <1>2, <1>3, <1>4
  <1>8. PartsAreSound'
    <2>1. ChangedParts(s)
      BY ChangedPartsAre
    <2>2. \A t \in DOMAIN sheets : t \in DOMAIN sheets' /\ sheets'[t].book = sheets[t].book
      BY <1>2, <1>3, <1>4
    <2>3. rules' \subseteq Rules /\ \A r \in rules' : r.sheet \in DOMAIN sheets'
      BY <2>1, <2>2 DEF ChangedParts, Inv, Core, PartsAreSound
    <2>4. views' \subseteq Views /\ \A v \in views' : v.sheet \in DOMAIN sheets'
      BY <2>1, <2>2 DEF ChangedParts, Inv, Core, PartsAreSound
    <2>5. ASSUME NEW d \in charts'
          PROVE  /\ d \in Charts /\ d.sheet \in DOMAIN sheets'
                 /\ d.source # Ref => d.source \in DOMAIN sheets' /\ sheets'[d.source].book = sheets'[d.sheet].book
      BY <2>1, <2>2 DEF ChangedParts, Inv, Core, PartsAreSound
    <2> QED  BY <2>3, <2>4, <2>5 DEF PartsAreSound
  <1>9. \E d, e : insertSnapshot(b, d, e) /\ IsRecord(b, d, e)
    <2>1. PICK x : x = backups[b]
      OBVIOUS
    <2>2. PICK d : d = x.snapshot
      OBVIOUS
    <2>3. PICK e : e = x.of
      OBVIOUS
    <2>4. ~ Free(b) /\ insertSnapshot(b, d, e)
      BY <1>2, <2>1, <2>2, <2>3 DEF Saved, insertSnapshot
    <2>5. IsRecord(b, d, e)
      BY <2>1, <2>2, <2>3, <2>4, BackupIs
    <2> QED  BY <2>4, <2>5
  <1> QED  BY <1>1, <1>2, <1>3, <1>6, <1>7, <1>8, <1>9, <1>a, <1>b, ReworkedBook

\* A sheet goes to another position of its workbook.
LEMMA MovedIs ==
    ASSUME Inv, NEW s \in DOMAIN sheets, NEW q \in Nat, NEW M, M = Moved(s, q), NEW p, p = sheets[s].position
    PROVE  /\ DOMAIN M = DOMAIN sheets
           /\ \A t \in DOMAIN sheets :
                 /\ M[t] \in Sheets /\ M[t].book = sheets[t].book /\ M[t].name = sheets[t].name
                 /\ M[t].formula = sheets[t].formula
                 /\ sheets[t].book # sheets[s].book => M[t] = sheets[t]
                 /\ sheets[t].book = sheets[s].book =>
                       M[t].position =
                          IF p < q THEN IF sheets[t].position \in (p + 1)..q THEN sheets[t].position - 1
                                                                             ELSE sheets[t].position
                          ELSE IF sheets[t].position \in q..(p - 1) THEN sheets[t].position + 1
                                                                    ELSE sheets[t].position
  <1>a. PICK b : b = sheets[s].book
    OBVIOUS
  <1>1. p \in Nat /\ \A t \in DOMAIN sheets : sheets[t].position \in Nat
    BY InvMeans, RowIs
  <1>2. CASE p < q
    <2>a. PICK at : at = (p + 1)..q
      OBVIOUS
    <2>b. PICK by : by = -1
      OBVIOUS
    <2>1. M = Shifted(b, at, by)
      BY <1>2, <1>a, <2>a, <2>b DEF Moved
    <2>2. /\ by \in Int
          /\ \A t \in DOMAIN sheets : sheets[t].position \in at => sheets[t].position + by \in Nat
      BY <1>1, <2>a, <2>b
    <2>3. /\ DOMAIN M = DOMAIN sheets
          /\ \A t \in DOMAIN sheets :
                /\ M[t] \in Sheets /\ M[t].book = sheets[t].book /\ M[t].name = sheets[t].name
                /\ M[t].formula = sheets[t].formula
                /\ sheets[t].book # b => M[t] = sheets[t]
                /\ M[t].position = IF sheets[t].book = b /\ sheets[t].position \in at
                                   THEN sheets[t].position + by ELSE sheets[t].position
      BY <2>1, <2>2, ShiftedIs
    <2>4. \A t \in DOMAIN sheets : sheets[t].position + by = sheets[t].position - 1
      BY <1>1, <2>b
    <2> QED  BY <1>2, <1>a, <2>3, <2>4, <2>a
  <1>3. CASE ~(p < q)
    <2>a. PICK at : at = q..(p - 1)
      OBVIOUS
    <2>b. PICK by : by = 1
      OBVIOUS
    <2>1. M = Shifted(b, at, by)
      BY <1>3, <1>a, <2>a, <2>b DEF Moved
    <2>2. by \in Int /\ \A t \in DOMAIN sheets : sheets[t].position + by \in Nat
      BY <1>1, <2>b
    <2>3. /\ DOMAIN M = DOMAIN sheets
          /\ \A t \in DOMAIN sheets :
                /\ M[t] \in Sheets /\ M[t].book = sheets[t].book /\ M[t].name = sheets[t].name
                /\ M[t].formula = sheets[t].formula
                /\ sheets[t].book # b => M[t] = sheets[t]
                /\ M[t].position = IF sheets[t].book = b /\ sheets[t].position \in at
                                   THEN sheets[t].position + by ELSE sheets[t].position
      BY <2>1, <2>2, ShiftedIs
    <2> QED  BY <1>3, <1>a, <2>3, <2>a, <2>b
  <1> QED  BY <1>2, <1>3

\* UpdateSheet: a sheet moves, and the formulas follow its new name.
LEMMA UpdateSheetKeepsInv ==
    ASSUME Inv, Operation, NEW s \in DOMAIN sheets, NEW name \in Names, NEW q \in Nat, NEW hidden \in BOOLEAN,
           UpdateSheet(s, name, q, hidden)
    PROVE  Core' /\ SheetsStay /\ Touches(sheets[s].book)
  <1>a. PICK b : b = sheets[s].book
    OBVIOUS
  <1>b. PICK S : S = SheetsOf(b)
    OBVIOUS
  <1>c. PICK p : p = sheets[s].position
    OBVIOUS
  <1>d. PICK old : old = sheets[s].name
    OBVIOUS
  <1>e. PICK row : row = [sheets[s] EXCEPT !.name = name, !.position = q, !.hidden = hidden]
    OBVIOUS
  <1>f. PICK M : M = Moved(s, q)
    OBVIOUS
  <1>g. PICK W : W = [M EXCEPT ![s] = row]
    OBVIOUS
  <1>h. PICK U : U = Renamed(W, b, old, name)
    OBVIOUS
  <1>1. /\ b \in DOMAIN books /\ s \in S /\ S \subseteq DOMAIN sheets /\ used \in Nat
        /\ IsWorkbook(sheets, S, used) /\ \A t \in DOMAIN sheets : sheets[t] \in Sheets
    BY <1>a, <1>b, InvMeans DEF SheetsOf
  <1>2. sheets' = U /\ UNCHANGED <<books, used, versions, rules, charts, views>>
    BY <1>a, <1>d, <1>e, <1>f, <1>g, <1>h DEF UpdateSheet, parts
  <1>3. \A t \in S \ {s} : sheets[t].name # name
    BY <1>a, <1>b DEF UpdateSheet
  <1>4. /\ row \in Sheets /\ row.book = b /\ row.name = name /\ row.position = q
        /\ row.formula = sheets[s].formula
    BY <1>1, <1>a, <1>e DEF Sheets
  <1>5. /\ DOMAIN M = DOMAIN sheets
        /\ \A t \in DOMAIN sheets :
              /\ M[t] \in Sheets /\ M[t].book = sheets[t].book /\ M[t].name = sheets[t].name
              /\ M[t].formula = sheets[t].formula
              /\ sheets[t].book # b => M[t] = sheets[t]
              /\ sheets[t].book = b =>
                    M[t].position =
                       IF p < q THEN IF sheets[t].position \in (p + 1)..q THEN sheets[t].position - 1
                                                                          ELSE sheets[t].position
                       ELSE IF sheets[t].position \in q..(p - 1) THEN sheets[t].position + 1
                                                                 ELSE sheets[t].position
    BY <1>a, <1>c, <1>f, MovedIs
  <1>6. /\ DOMAIN W = DOMAIN sheets /\ W[s] = row /\ \A t \in DOMAIN sheets \ {s} : W[t] = M[t]
    <2>1. M = [t \in DOMAIN M |-> M[t]]
      BY <1>f DEF Moved, Shifted
    <2> QED  BY <1>5, <1>g, <2>1
  <1>7. \A t \in DOMAIN sheets :
           /\ W[t] \in Sheets /\ W[t].book = sheets[t].book
           /\ W[t].formula = sheets[t].formula
           /\ sheets[t].book # b => W[t] = sheets[t]
    BY <1>1, <1>4, <1>5, <1>6, <1>a
  <1>8. /\ DOMAIN U = DOMAIN sheets /\ U = [t \in DOMAIN U |-> U[t]]
        /\ \A t \in DOMAIN sheets :
              U[t] = IF W[t].book = b /\ W[t].formula.names = old
                     THEN [W[t] EXCEPT !.formula.names = name] ELSE W[t]
    BY <1>6, <1>h DEF Renamed
  <1>9. \A t \in DOMAIN sheets :
           /\ U[t] \in Sheets /\ U[t].book = W[t].book /\ U[t].name = W[t].name
           /\ U[t].position = W[t].position /\ U[t].formula.meant = W[t].formula.meant
           /\ U[t].formula.names = IF W[t].book = b /\ W[t].formula.names = old THEN name ELSE W[t].formula.names
           /\ W[t].book # b => U[t] = W[t]
    <2>1. ASSUME NEW t \in DOMAIN sheets
          PROVE  /\ U[t] \in Sheets /\ U[t].book = W[t].book /\ U[t].name = W[t].name
                 /\ U[t].position = W[t].position /\ U[t].formula.meant = W[t].formula.meant
                 /\ U[t].formula.names = IF W[t].book = b /\ W[t].formula.names = old
                                         THEN name ELSE W[t].formula.names
                 /\ W[t].book # b => U[t] = W[t]
      <3>1. W[t] \in Sheets
        BY <1>7
      <3>2. CASE W[t].book = b /\ W[t].formula.names = old
        <4>1. U[t] = [W[t] EXCEPT !.formula.names = name]
          BY <1>8, <3>2
        <4> QED  BY <3>1, <3>2, <4>1 DEF Sheets, Formulas
      <3>3. CASE ~(W[t].book = b /\ W[t].formula.names = old)
        <4>1. U[t] = W[t]
          BY <1>8, <3>3
        <4> QED  BY <3>1, <3>3, <4>1
      <3> QED  BY <3>2, <3>3
    <2> QED  BY <2>1
  <1>10. Numbered(U, S)
    <2>1. \E t \in S : sheets[t].position = q
      <3>1. q \in 0..(Cardinality(S) - 1)
        BY <1>a, <1>b DEF UpdateSheet
      <3>2. PICK n : n = Cardinality(S)
        OBVIOUS
      <3>3. \A r \in 0..(n - 1) : \E t \in S : sheets[t].position = r
        BY <1>1, <1>b, <3>2, TabsAre
      <3> QED  BY <3>1, <3>2, <3>3
    <2>2. PICK T : T = sheets
      OBVIOUS
    <2>3. \A t \in S : T[t].position \in Nat
      BY <1>1, <2>2, RowIs
    <2>4. /\ Numbered(T, S) /\ \E t \in S : T[t].position = q
          /\ U[s].position = q /\ p = T[s].position
      BY <1>1, <1>4, <1>6, <1>9, <1>c, <2>1, <2>2 DEF IsWorkbook
    <2>5. \A t \in S \ {s} : U[t].position =
             IF p < q THEN IF T[t].position \in (p + 1)..q THEN T[t].position - 1 ELSE T[t].position
             ELSE IF T[t].position \in q..(p - 1) THEN T[t].position + 1 ELSE T[t].position
      <3>1. \A t \in S \ {s} : t \in DOMAIN sheets /\ sheets[t].book = b /\ U[t].position = M[t].position
        BY <1>1, <1>6, <1>9, <1>b DEF SheetsOf
      <3> QED  BY <1>5, <2>2, <3>1
    <2> QED  BY <1>1, <2>3, <2>4, <2>5, MovedNumbered
  <1>11. IsWorkbook(U, S, used)
    <2>1. PICK T : T = sheets
      OBVIOUS
    <2>2. IsWorkbook(T, S, used) /\ old = T[s].name
      BY <1>1, <1>d, <2>1
    <2>3. U[s].name = name
      BY <1>4, <1>6, <1>9
    <2>4. \A t \in S \ {s} : U[t].name = T[t].name /\ T[t].name # name
      BY <1>1, <1>3, <1>5, <1>6, <1>9, <2>1
    <2>5. \A t \in S : /\ U[t].formula.meant = T[t].formula.meant
                       /\ U[t].formula.names = IF T[t].formula.names = old THEN name ELSE T[t].formula.names
      <3>1. \A t \in S : t \in DOMAIN sheets /\ W[t].book = b
        BY <1>1, <1>7, <1>b DEF SheetsOf
      <3> QED  BY <1>7, <1>9, <2>1, <3>1
    <2> QED  BY <1>1, <1>10, <2>2, <2>3, <2>4, <2>5, RenamedWorkbook
  <1>12. \A t \in DOMAIN sheets : /\ U[t] \in Sheets /\ U[t].book = sheets[t].book
                                  /\ sheets[t].book # b => U[t] = sheets[t]
    BY <1>7, <1>9
  <1>13. PartsAreSound'
    BY <1>2, <1>8, <1>12, PartsStay
  <1> QED  BY <1>1, <1>2, <1>8, <1>11, <1>12, <1>13, <1>a, <1>b, ReworkedBook

\* The charts after a sheet was deleted: on sheets that stay, drawing from sheets that stay.
LEMMA DroppedChartsAre ==
    ASSUME Inv, NEW s \in DOMAIN sheets, NEW d \in DroppedSheet(s, Unsourced(s))
    PROVE  /\ d \in Charts /\ d.sheet \in DOMAIN sheets \ {s}
           /\ d.source # Ref => d.source \in DOMAIN sheets \ {s} /\ sheets[d.source].book = sheets[d.sheet].book
           /\ \E c \in charts : d.sheet = c.sheet /\ d = IF c.source = s THEN WithoutSource(c) ELSE c
  <1>1. PICK e \in OffSheets(Unsourced(s), {s}) : d = [e EXCEPT !.source = IF @ = s THEN Dangling ELSE @]
    BY DEF DroppedSheet
  <1>2. e \in Unsourced(s) /\ e.sheet # s
    BY DEF OffSheets
  <1>3. PICK c \in charts : e = IF c.source = s /\ c.sheet # s THEN WithoutSource(c) ELSE c
    BY <1>2 DEF Unsourced
  <1>4. /\ c \in Charts /\ c.sheet \in DOMAIN sheets
        /\ c.source # Ref => c.source \in DOMAIN sheets /\ sheets[c.source].book = sheets[c.sheet].book
    BY DEF Inv, Core, PartsAreSound
  <1>5. s # Ref
    BY InvMeans DEF Ref
  <1>6. WithoutSource(c) \in Charts /\ WithoutSource(c).sheet = c.sheet /\ WithoutSource(c).source = Ref
    BY <1>4 DEF Charts, WithoutSource
  <1>7. c.sheet # s /\ e.source # s /\ e \in Charts /\ e.sheet = c.sheet
    BY <1>2, <1>3, <1>4, <1>5, <1>6
  <1>8. d = [e EXCEPT !.source = e.source]
    BY <1>1, <1>7 DEF Charts
  <1>9. d = e
    BY <1>7, <1>8 DEF Charts
  <1> QED  BY <1>3, <1>4, <1>6, <1>7, <1>9

\* DeleteSheet
LEMMA DeleteSheetKeepsInv ==
    ASSUME Inv, Operation, NEW s \in DOMAIN sheets, DeleteSheet(s)
    PROVE  Core' /\ Touches(sheets[s].book)
  <1>a. PICK b : b = sheets[s].book
    OBVIOUS
  <1>b. PICK S : S = SheetsOf(b)
    OBVIOUS
  <1>c. PICK p : p = sheets[s].position
    OBVIOUS
  <1>d. PICK M : M = Shifted(b, (p + 1)..MaxSheets, -1)
    OBVIOUS
  <1>e. PICK U : U = Restrict(M, DOMAIN sheets \ {s})
    OBVIOUS
  <1>f. PICK V : V = S \ {s}
    OBVIOUS
  <1>1. /\ b \in DOMAIN books /\ s \in S /\ S \subseteq DOMAIN sheets /\ used \in Nat
        /\ IsWorkbook(sheets, S, used) /\ \A t \in DOMAIN sheets : sheets[t] \in Sheets
    BY <1>a, <1>b, InvMeans DEF SheetsOf
  <1>2. /\ sheets' = U /\ UNCHANGED <<books, used>> /\ Cardinality(S) > 1
        /\ Saved(b)
        /\ rules' = OffSheets(rules, {s}) /\ views' = OffSheets(views, {s})
        /\ charts' = DroppedSheet(s, Unsourced(s))
    BY <1>a, <1>b, <1>c, <1>d, <1>e DEF DeleteSheet
  <1>3. \A t \in DOMAIN sheets : sheets[t].position \in Nat
    BY <1>1, RowIs
  <1>4. \A t \in S : sheets[t].position < MaxSheets
    <2>1. PICK n : n = Cardinality(S)
      OBVIOUS
    <2> QED  BY <1>1, <1>b, <2>1, TabsAre
  <1>5. /\ DOMAIN M = DOMAIN sheets
        /\ \A t \in DOMAIN sheets :
              /\ M[t] \in Sheets /\ M[t].book = sheets[t].book /\ M[t].name = sheets[t].name
              /\ M[t].formula = sheets[t].formula
              /\ sheets[t].book # b => M[t] = sheets[t]
              /\ M[t].position = IF sheets[t].book = b /\ sheets[t].position \in (p + 1)..MaxSheets
                                 THEN sheets[t].position - 1 ELSE sheets[t].position
    <2>1. PICK at : at = (p + 1)..MaxSheets
      OBVIOUS
    <2>2. PICK by : by = -1
      OBVIOUS
    <2>3. M = Shifted(b, at, by)
      BY <1>d, <2>1, <2>2
    <2>4. by \in Int /\ \A t \in DOMAIN sheets : sheets[t].position \in at => sheets[t].position + by \in Nat
      <3>1. p \in Nat
        BY <1>3, <1>c
      <3> QED  BY <1>3, <2>1, <2>2, <3>1
    <2>5. /\ DOMAIN M = DOMAIN sheets
          /\ \A t \in DOMAIN sheets :
                /\ M[t] \in Sheets /\ M[t].book = sheets[t].book /\ M[t].name = sheets[t].name
                /\ M[t].formula = sheets[t].formula
                /\ sheets[t].book # b => M[t] = sheets[t]
                /\ M[t].position = IF sheets[t].book = b /\ sheets[t].position \in at
                                   THEN sheets[t].position + by ELSE sheets[t].position
      BY <2>3, <2>4, ShiftedIs
    <2>6. \A t \in DOMAIN sheets : sheets[t].position + by = sheets[t].position - 1
      BY <1>3, <2>2
    <2> QED  BY <2>1, <2>5, <2>6
  <1>6. /\ DOMAIN U = DOMAIN sheets \ {s} /\ U = [t \in DOMAIN U |-> U[t]]
        /\ \A t \in DOMAIN U : U[t] = M[t]
    BY <1>e DEF Restrict
  <1>7. Numbered(U, V)
    <2>1. PICK T : T = sheets
      OBVIOUS
    <2>2. \A t \in S : T[t].position \in Nat
      BY <1>1, <1>3, <2>1
    <2>3. Numbered(T, S)
      BY <1>1, <2>1 DEF IsWorkbook
    <2>4. \A t \in S \ {s} : U[t].position = IF T[t].position > T[s].position THEN T[t].position - 1
                                                                            ELSE T[t].position
      <3>1. ASSUME NEW t \in S \ {s}
            PROVE  U[t].position = IF T[t].position > T[s].position THEN T[t].position - 1 ELSE T[t].position
        <4>1. t \in DOMAIN sheets /\ sheets[t].book = b /\ U[t] = M[t]
          BY <1>1, <1>6, <1>b DEF SheetsOf
        <4>2. sheets[t].position \in (p + 1)..MaxSheets <=> sheets[t].position > p
          BY <1>1, <1>3, <1>4, <1>c, BoundsAssumption
        <4> QED  BY <1>5, <1>c, <2>1, <4>1, <4>2
      <3> QED  BY <3>1
    <2> QED  BY <1>1, <1>f, <2>2, <2>3, <2>4, RemovedNumbered
  <1>8. V \subseteq S /\ V # {}
    <2>1. CASE V = {}
      <3>1. S = {s}
        BY <1>1, <1>f, <2>1
      <3>2. Cardinality({s}) = 1
        BY FS_Singleton
      <3> QED  BY <1>2, <3>1, <3>2
    <2> QED  BY <1>f, <2>1
  <1>9. IsWorkbook(U, V, used)
    <2>1. \A t \in V : U[t].name = sheets[t].name /\ U[t].formula = sheets[t].formula
      BY <1>1, <1>5, <1>6, <1>f
    <2>2. PICK T : T = sheets
      OBVIOUS
    <2>3. IsWorkbook(T, S, used) /\ \A t \in V : U[t].name = T[t].name /\ U[t].formula = T[t].formula
      BY <1>1, <2>1, <2>2
    <2> QED  BY <1>1, <1>7, <1>8, <2>3, RemovedWorkbook
  <1>10. SheetsOf(b)' = V /\ Touches(b)
    BY <1>2, <1>5, <1>6, <1>a, <1>b, <1>f DEF SheetsOf, Touches
  <1>11. /\ sheets' \in [DOMAIN sheets' -> Sheets]
         /\ DOMAIN books' = DOMAIN books \cup {b} /\ books' \in [DOMAIN books' -> [title : Titles, live : BOOLEAN]]
         /\ DOMAIN books' \subseteq BookIds
    <2>1. \A t \in DOMAIN U : U[t] \in Sheets
      BY <1>5, <1>6
    <2> QED  BY <1>1, <1>2, <1>6, <2>1, InvMeans
  <1>12. used' \in Nat /\ used <= used' /\ used' \in SheetIds
    BY <1>1, <1>2, InvMeans
  <1>13. IsWorkbook(sheets', SheetsOf(b)', used')
    BY <1>2, <1>9, <1>10
  <1>14. /\ BooksAreSound' /\ DOMAIN sheets' \subseteq 1..used'
         /\ \A t \in DOMAIN sheets' : sheets'[t].book \in DOMAIN books'
    BY <1>10, <1>11, <1>12, <1>13, BookStep
  <1>15. VersionsAreSound' /\ \A i \in DOMAIN versions' : versions'[i].book \in DOMAIN books'
    <2>1. \A t \in DOMAIN sheets' : t \in DOMAIN sheets /\ sheets'[t].book = sheets[t].book
      BY <1>2, <1>5, <1>6
    <2>2. PICK x : x = backups[b]
      OBVIOUS
    <2>3. PICK d : d = x.snapshot
      OBVIOUS
    <2>4. PICK e : e = x.of
      OBVIOUS
    <2>5. ~ Free(b) /\ insertSnapshot(b, d, e)
      BY <1>2, <2>2, <2>3, <2>4 DEF Saved, insertSnapshot
    <2>6. IsRecord(b, d, e)
      BY <2>2, <2>3, <2>4, <2>5, BackupIs
    <2> QED  BY <1>1, <1>2, <2>1, <2>5, <2>6, VersionAdded
  <1>16. PartsAreSound'
    <2>1. \A t \in DOMAIN sheets \ {s} : t \in DOMAIN U /\ U[t].book = sheets[t].book
      BY <1>5, <1>6
    <2>2. rules' \subseteq Rules /\ \A r \in rules' : r.sheet \in DOMAIN U
      BY <1>2, <2>1 DEF Inv, Core, PartsAreSound, OffSheets
    <2>3. views' \subseteq Views /\ \A v \in views' : v.sheet \in DOMAIN U
      BY <1>2, <2>1 DEF Inv, Core, PartsAreSound, OffSheets
    <2>4. ASSUME NEW d \in charts'
          PROVE  /\ d \in Charts /\ d.sheet \in DOMAIN U
                 /\ d.source # Ref => d.source \in DOMAIN U /\ U[d.source].book = U[d.sheet].book
      <3>1. d \in DroppedSheet(s, Unsourced(s))
        BY <1>2
      <3> QED  BY <2>1, <3>1, DroppedChartsAre
    <2> QED  BY <1>2, <2>2, <2>3, <2>4 DEF PartsAreSound
  <1> QED  BY <1>10, <1>11, <1>12, <1>14, <1>15, <1>16, <1>a, Assembled

\* The sheets after a version was restored: those of the version, and those of other workbooks.
ReplacedBy(T, others, b) ==
    /\ DOMAIN sheets' = DOMAIN T \cup others /\ sheets' = [t \in DOMAIN sheets' |-> sheets'[t]]
    /\ \A t \in DOMAIN T : sheets'[t] = T[t] /\ T[t] \in Sheets /\ T[t].book = b
    /\ \A t \in others : t \notin DOMAIN T /\ sheets'[t] = sheets[t] /\ sheets[t].book # b

LEMMA RestoredSheetsAre ==
    ASSUME Inv, NEW i \in DOMAIN versions, RestoreVersion(i), NEW b, b = versions[i].book,
           NEW T, T = versions[i].snapshot.sheets, NEW others, others = DOMAIN sheets \ SheetsOf(b)
    PROVE  ReplacedBy(T, others, b)
  <1>0. PICK U : U = Put(T, Restrict(sheets, others))
    OBVIOUS
  <1>a. sheets' = U
    BY <1>0 DEF RestoreVersion
  <1>1. DOMAIN U = DOMAIN T \cup others /\ U = [t \in DOMAIN U |-> U[t]]
    BY <1>0 DEF Put, Restrict
  <1>2. \A t \in DOMAIN T : U[t] = T[t]
    BY <1>0 DEF Put, Restrict
  <1>3. \A t \in others : t \notin DOMAIN T => U[t] = sheets[t]
    BY <1>0 DEF Put, Restrict
  <1>4. VersionIsSound(versions[i], used) /\ Homes(versions, sheets)
    BY InvMeans DEF Inv, Core, VersionsAreSound
  <1>5. \A t \in DOMAIN T : T[t] \in Sheets /\ T[t].book = b
    BY <1>4 DEF VersionIsSound
  <1>6. \A t \in DOMAIN T : t \in DOMAIN sheets => sheets[t].book = b
    BY <1>4 DEF Homes
  <1>7. \A t \in others : t \in DOMAIN sheets /\ sheets[t].book # b
    BY DEF SheetsOf
  <1>8. \A t \in others : t \notin DOMAIN T
    BY <1>6, <1>7
  <1>9. \A t \in others : t \notin DOMAIN T /\ U[t] = sheets[t] /\ sheets[t].book # b
    BY <1>3, <1>7, <1>8, Zenon
  <1>10. \A t \in DOMAIN T : U[t] = T[t] /\ T[t] \in Sheets /\ T[t].book = b
    BY <1>2, <1>5, Zenon
  <1> QED  BY <1>a, <1>1, <1>9, <1>10, Zenon DEF ReplacedBy

\* RestoreVersion
LEMMA RestoreVersionKeepsInv ==
    ASSUME Inv, Operation, NEW i \in DOMAIN versions, RestoreVersion(i), NEW b, b = versions[i].book,
           NEW D, D = DOMAIN versions[i].snapshot.sheets
    PROVE  Core' /\ Touches(b) /\ SheetsOf(b)' = D
  <1>a. PICK d : d = versions[i].snapshot
    OBVIOUS
  <1>b. b = versions[i].book
    OBVIOUS
  <1>c. PICK own : own = SheetsOf(b)
    OBVIOUS
  <1>d. D = DOMAIN d.sheets
    BY <1>a
  <1>e. PICK U : U = Put(d.sheets, Restrict(sheets, DOMAIN sheets \ own))
    OBVIOUS
  <1>s. Saved(b)
    BY <1>b DEF RestoreVersion
  <1>1. /\ sheets' = U /\ UNCHANGED used /\ b \in DOMAIN books
        /\ books' = [books EXCEPT ![b].title = d.title]
    <2>1. b \in DOMAIN books
      BY <1>s, BackupIs DEF Saved
    <2> QED  BY <1>a, <1>b, <1>c, <1>e, <2>1 DEF RestoreVersion
  <1>2. /\ U = [t \in DOMAIN U |-> U[t]] /\ DOMAIN U = D \cup (DOMAIN sheets \ own)
        /\ \A t \in D : U[t] = d.sheets[t] /\ U[t] \in Sheets /\ U[t].book = b
        /\ \A t \in DOMAIN sheets \ own : t \notin D /\ U[t] = sheets[t] /\ sheets[t].book # b
    <2>1. PICK T : T = d.sheets
      OBVIOUS
    <2>2. PICK others : others = DOMAIN sheets \ own
      OBVIOUS
    <2>3. /\ DOMAIN U = DOMAIN T \cup others /\ U = [t \in DOMAIN U |-> U[t]]
          /\ \A t \in DOMAIN T : U[t] = T[t] /\ T[t] \in Sheets /\ T[t].book = b
          /\ \A t \in others : t \notin DOMAIN T /\ U[t] = sheets[t] /\ sheets[t].book # b
      <3>1. T = versions[i].snapshot.sheets /\ others = DOMAIN sheets \ SheetsOf(b) /\ b = versions[i].book
        BY <1>a, <1>b, <1>c, <2>1, <2>2
      <3>2. sheets' = U
        BY <1>1
      <3>3. ReplacedBy(T, others, b)
        BY <3>1, RestoredSheetsAre
      <3> QED  BY <3>2, <3>3, Zenon DEF ReplacedBy
    <2>4. D = DOMAIN T
      BY <1>d, <2>1
    <2>5. \A t \in D : U[t] = d.sheets[t] /\ U[t] \in Sheets /\ U[t].book = b
      BY <2>1, <2>3, <2>4
    <2>6. \A t \in DOMAIN sheets \ own : t \notin D /\ U[t] = sheets[t] /\ sheets[t].book # b
      BY <2>2, <2>3, <2>4
    <2> QED  BY <2>2, <2>3, <2>4, <2>5, <2>6
  <1>3. VersionIsSound(versions[i], used) /\ used \in Nat
    BY InvMeans
  <1>4. /\ IsWorkbook(d.sheets, D, used) /\ d.title \in Titles
        /\ d.rules \subseteq Rules /\ d.charts \subseteq Charts /\ d.views \subseteq Views
        /\ \A r \in d.rules : r.sheet \in D
        /\ \A w \in d.views : w.sheet \in D
        /\ \A c \in d.charts : c.sheet \in D /\ c.source \in D \cup {Ref}
    BY <1>3, <1>a, <1>d DEF VersionIsSound
  <1>5. \A t \in D : d.sheets[t] \in Sheets
    BY <1>2
  <1>6. IsWorkbook(U, D, used)
    <2>1. PICK T : T = d.sheets
      OBVIOUS
    <2>2. IsWorkbook(T, D, used) /\ \A t \in D : U[t] = T[t] /\ T[t] \in Sheets
      BY <1>2, <1>4, <1>5, <2>1
    <2> QED  BY <1>3, <2>2, SameWorkbook
  <1>7. SheetsOf(b)' = D /\ Touches(b)
    <2>1. \A t \in DOMAIN U : U[t].book = b <=> t \in D
      BY <1>2
    <2>2. \A t \in DOMAIN sheets : sheets[t].book # b => t \in DOMAIN sheets \ own
      BY <1>c DEF SheetsOf
    <2> QED  BY <1>1, <1>2, <2>1, <2>2 DEF SheetsOf, Touches
  <1>8. sheets' \in [DOMAIN sheets' -> Sheets]
    <2>1. \A t \in DOMAIN U : U[t] \in Sheets
      BY <1>2, InvMeans
    <2> QED  BY <1>1, <1>2, <2>1
  <1>9. /\ DOMAIN books' = DOMAIN books \cup {b} /\ DOMAIN books' = DOMAIN books
        /\ books' \in [DOMAIN books' -> [title : Titles, live : BOOLEAN]]
        /\ DOMAIN books' \subseteq BookIds
    BY <1>1, <1>4, InvMeans
  <1>10. used' \in Nat /\ used <= used' /\ used' \in SheetIds
    BY <1>1, <1>3, InvMeans
  <1>11. IsWorkbook(sheets', SheetsOf(b)', used')
    BY <1>1, <1>6, <1>7
  <1>12. /\ BooksAreSound' /\ DOMAIN sheets' \subseteq 1..used'
         /\ \A t \in DOMAIN sheets' : sheets'[t].book \in DOMAIN books'
    BY <1>7, <1>8, <1>9, <1>10, <1>11, BookStep
  <1>13. VersionsAreSound' /\ \A j \in DOMAIN versions' : versions'[j].book \in DOMAIN books'
    <2>1. ASSUME NEW t \in DOMAIN sheets'
          PROVE  \/ t \in DOMAIN sheets /\ sheets'[t].book = sheets[t].book
                 \/ \E k \in DOMAIN versions : /\ t \in DOMAIN versions[k].snapshot.sheets
                                               /\ sheets'[t].book = versions[k].book
      <3>1. CASE t \in D
        BY <1>1, <1>2, <1>a, <1>b, <1>d, <3>1
      <3>2. CASE t \notin D
        BY <1>1, <1>2, <3>2
      <3> QED  BY <3>1, <3>2
    <2>2. PICK x : x = backups[b]
      OBVIOUS
    <2>3. PICK old : old = x.snapshot
      OBVIOUS
    <2>4. PICK e : e = x.of
      OBVIOUS
    <2>5. ~ Free(b) /\ insertSnapshot(b, old, e)
      BY <1>s, <2>2, <2>3, <2>4 DEF Saved, insertSnapshot
    <2>6. IsRecord(b, old, e)
      BY <2>2, <2>3, <2>4, <2>5, BackupIs
    <2> QED  BY <1>1, <1>9, <2>1, <2>5, <2>6, VersionAdded
  <1>14. PartsAreSound'
    <2>1. rules' \subseteq Rules /\ \A r \in rules' : r.sheet \in DOMAIN U
      <3>1. rules' = OffSheets(rules, own) \cup KeptRules(b, versions[i]) \cup Reinserted(d.rules)
        BY <1>a, <1>b, <1>c DEF RestoreVersion
      <3>2. \A r \in OffSheets(rules, own) : r \in Rules /\ r.sheet \in DOMAIN U
        BY <1>2 DEF Inv, Core, PartsAreSound, OffSheets
      <3>3. \A r \in KeptRules(b, versions[i]) : r \in Rules /\ r.sheet \in DOMAIN U
        BY <1>2, <1>a, <1>d DEF Inv, Core, PartsAreSound, KeptRules, On
      <3>4. \A r \in Reinserted(d.rules) : r \in Rules /\ r.sheet \in DOMAIN U
        BY <1>2, <1>4, ReinsertedIs
      <3> QED  BY <3>1, <3>2, <3>3, <3>4
    <2>2. views' \subseteq Views /\ \A v \in views' : v.sheet \in DOMAIN U
      <3>1. views' = OffSheets(views, own) \cup RestoredViews(b, versions[i])
        BY <1>b, <1>c DEF RestoreVersion
      <3>2. \A v \in OffSheets(views, own) : v \in Views /\ v.sheet \in DOMAIN U
        BY <1>2 DEF Inv, Core, PartsAreSound, OffSheets
      <3>3. \A v \in RestoredViews(b, versions[i]) : v \in Views /\ v.sheet \in DOMAIN U
        BY <1>2, <1>4, <1>a, <1>d DEF Inv, Core, PartsAreSound, RestoredViews, On
      <3> QED  BY <3>1, <3>2, <3>3
    <2>3. ASSUME NEW c \in charts'
          PROVE  /\ c \in Charts /\ c.sheet \in DOMAIN U
                 /\ c.source # Ref => c.source \in DOMAIN U /\ U[c.source].book = U[c.sheet].book
      <3>1. charts' = OffSheets(charts, own) \cup d.charts
        BY <1>a, <1>b, <1>c DEF RestoreVersion
      <3>2. CASE c \in OffSheets(charts, own)
        <4>1. /\ c \in Charts /\ c.sheet \in DOMAIN sheets \ own
              /\ c.source # Ref => c.source \in DOMAIN sheets /\ sheets[c.source].book = sheets[c.sheet].book
          BY <3>2 DEF Inv, Core, PartsAreSound, OffSheets
        <4>2. c.source # Ref => c.source \in DOMAIN sheets \ own
          BY <1>2, <1>c, <4>1 DEF SheetsOf
        <4> QED  BY <1>2, <4>1, <4>2
      <3>3. CASE c \in d.charts
        BY <1>2, <1>4, <3>3
      <3> QED  BY <3>1, <3>2, <3>3
    <2> QED  BY <1>1, <2>1, <2>2, <2>3 DEF PartsAreSound
  <1> QED  BY <1>7, <1>9, <1>10, <1>12, <1>13, <1>14, <1>a, <1>b, <1>d, Assembled

\* CreateWorkbook: a workbook of one sheet.
LEMMA CreateWorkbookKeepsInv ==
    ASSUME Inv, Operation, NEW title \in Titles, NEW name \in Names, CreateWorkbook(title, name)
    PROVE  Core' /\ SheetsStay /\ \E b \in BookIds : b \notin DOMAIN books /\ Touches(b)
  <1>a. PICK b : b = Cardinality(DOMAIN books) + 1
    OBVIOUS
  <1>b. PICK x : x = used + 1
    OBVIOUS
  <1>c. PICK row : row = FirstSheet(b, name)
    OBVIOUS
  <1>d. PICK U : U = Put(Row(x, row), sheets)
    OBVIOUS
  <1>e. PICK entry : entry = [title |-> title, live |-> TRUE]
    OBVIOUS
  <1>1. /\ b \in BookIds /\ b \notin DOMAIN books /\ used < MaxSheets /\ used' = x /\ sheets' = U
        /\ books' = Put(Row(b, entry), books) /\ UNCHANGED <<rules, charts, views, versions>>
    BY <1>a, <1>b, <1>c, <1>d, <1>e DEF CreateWorkbook, NewBook, parts
  <1>2. used \in Nat /\ x \in Nat /\ used <= x /\ x > used /\ x \notin DOMAIN sheets /\ x \in SheetIds
    BY <1>1, <1>b, InvMeans, BoundsAssumption DEF SheetIds
  <1>3. row \in Sheets /\ row.book = b /\ row.position = 0 /\ row.formula.meant = 0
    <2>1. NoFormula \in Formulas /\ NoFormula.meant = 0
      BY DEF NoFormula, Formulas, NoSheet
    <2>2. PICK f : f = NoFormula
      OBVIOUS
    <2> QED  BY <1>1, <1>c, <2>1, <2>2 DEF FirstSheet, Sheets
  <1>4. /\ DOMAIN U = DOMAIN sheets \cup {x} /\ U[x] = row /\ \A s \in DOMAIN sheets : U[s] = sheets[s]
        /\ U = [s \in DOMAIN U |-> U[s]]
    BY <1>2, <1>d DEF Put, Row
  <1>5. /\ DOMAIN books' = DOMAIN books \cup {b}
        /\ books' \in [DOMAIN books' -> [title : Titles, live : BOOLEAN]]
        /\ DOMAIN books' \subseteq BookIds
    <2>1. entry \in [title : Titles, live : BOOLEAN]
      BY <1>e
    <2>2. /\ DOMAIN books' = DOMAIN books \cup {b} /\ books'[b] = entry
          /\ \A c \in DOMAIN books : books'[c] = books[c]
          /\ books' = [c \in DOMAIN books' |-> books'[c]]
      BY <1>1 DEF Put, Row
    <2>3. \A c \in DOMAIN books : books[c] \in [title : Titles, live : BOOLEAN]
      BY InvMeans
    <2>4. \A c \in DOMAIN books' : books'[c] \in [title : Titles, live : BOOLEAN]
      BY <2>1, <2>2, <2>3
    <2> QED  BY <1>1, <2>2, <2>4, InvMeans
  <1>6. SheetsOf(b)' = {x} /\ Touches(b)
    <2>1. \A s \in DOMAIN sheets : sheets[s].book # b
      BY <1>1, InvMeans
    <2> QED  BY <1>1, <1>3, <1>4, <2>1 DEF SheetsOf, Touches
  <1>7. IsWorkbook(U, {x}, x)
    <2>1. Numbered(U, {x})
      BY <1>3, <1>4 DEF Numbered
    <2>2. Named(U, {x}) /\ {x} \subseteq 1..x /\ {x} # {}
      BY <1>2 DEF Named, SheetIds
    <2>3. U[x].formula.meant <= x /\ U[x].formula.meant # x
      BY <1>2, <1>3, <1>4 DEF SheetIds
    <2> QED  BY <2>1, <2>2, <2>3 DEF IsWorkbook, Linked
  <1>8. sheets' \in [DOMAIN sheets' -> Sheets]
    <2>1. \A t \in DOMAIN U : U[t] \in Sheets
      BY <1>3, <1>4, InvMeans
    <2> QED  BY <1>1, <1>4, <2>1
  <1>9. IsWorkbook(sheets', SheetsOf(b)', used') /\ used' \in Nat /\ used <= used'
    BY <1>1, <1>2, <1>6, <1>7
  <1>10. /\ BooksAreSound' /\ DOMAIN sheets' \subseteq 1..used'
         /\ \A t \in DOMAIN sheets' : sheets'[t].book \in DOMAIN books'
    BY <1>5, <1>6, <1>8, <1>9, BookStep
  <1>11. VersionsAreSound' /\ \A i \in DOMAIN versions' : versions'[i].book \in DOMAIN books'
    <2>1. \A s \in DOMAIN sheets' : (s \in DOMAIN sheets /\ sheets'[s].book = sheets[s].book) \/ s > used
      BY <1>1, <1>2, <1>4
    <2> QED  BY <1>1, <1>5, <1>9, <2>1, VersionsStay
  <1>12. PartsAreSound'
    BY <1>1, <1>4, PartsStay
  <1>13. used' \in SheetIds
    BY <1>1, <1>2
  <1>s. SheetsStay
    BY <1>1, <1>4 DEF SheetsStay
  <1> QED  BY <1>s, <1>1, <1>5, <1>6, <1>10, <1>11, <1>12, <1>13, Assembled

\* PurgeWorkbook: everything of the workbook goes with it.
LEMMA PurgeWorkbookKeepsInv ==
    ASSUME Inv, Operation, NEW b \in DOMAIN books, PurgeWorkbook(b)
    PROVE  Core' /\ Touches(b)
  <1>a. PICK gone : gone = SheetsOf(b)
    OBVIOUS
  <1>1. /\ books' = Restrict(books, DOMAIN books \ {b}) /\ sheets' = Restrict(sheets, DOMAIN sheets \ gone)
        /\ rules' = OffSheets(rules, gone) /\ charts' = OffSheets(charts, gone)
        /\ views' = OffSheets(views, gone) /\ UNCHANGED used
        /\ versions' = Restrict(versions, {i \in DOMAIN versions : versions[i].book # b})
    BY <1>a DEF PurgeWorkbook
  <1>2. /\ DOMAIN books' = DOMAIN books \ {b} /\ \A c \in DOMAIN books' : books'[c] = books[c]
        /\ books' = [c \in DOMAIN books' |-> books'[c]]
    BY <1>1 DEF Restrict
  <1>3. /\ DOMAIN sheets' = DOMAIN sheets \ gone /\ \A s \in DOMAIN sheets' : sheets'[s] = sheets[s]
        /\ sheets' = [s \in DOMAIN sheets' |-> sheets'[s]]
    BY <1>1 DEF Restrict
  <1>4. /\ DOMAIN versions' = {i \in DOMAIN versions : versions[i].book # b}
        /\ \A i \in DOMAIN versions' : versions'[i] = versions[i]
    BY <1>1 DEF Restrict
  <1>5. \A s \in DOMAIN sheets : s \in gone <=> sheets[s].book = b
    BY <1>a DEF SheetsOf
  <1>6. Touches(b)
    BY <1>3, <1>5 DEF Touches
  <1>7. used' \in Nat /\ used <= used' /\ used' \in SheetIds
    BY <1>1, InvMeans
  <1>8. BooksAreSound'
    <2>1. books' \in [DOMAIN books' -> [title : Titles, live : BOOLEAN]]
      BY <1>2, InvMeans
    <2>2. sheets' \in [DOMAIN sheets' -> Sheets]
      BY <1>3, InvMeans
    <2>3. \A c \in DOMAIN books' : IsWorkbook(sheets', SheetsOf(c)', used')
      BY <1>2, <1>6, <1>7, OthersStay
    <2> QED  BY <2>1, <2>2, <2>3 DEF BooksAreSound
  <1>9. /\ DOMAIN books' \subseteq BookIds /\ DOMAIN sheets' \subseteq 1..used'
        /\ \A s \in DOMAIN sheets' : sheets'[s].book \in DOMAIN books'
    BY <1>1, <1>2, <1>3, <1>5, InvMeans
  <1>10. VersionsAreSound' /\ \A i \in DOMAIN versions' : versions'[i].book \in DOMAIN books'
    <2>1. DOMAIN versions' \subseteq DOMAIN versions
      BY <1>4
    <2>2. \A i \in DOMAIN versions' : versions'[i].book \in DOMAIN books' /\ VersionIsSound(versions'[i], used')
      BY <1>1, <1>2, <1>4, InvMeans
    <2>3. Homes(versions', sheets')
      BY <1>3, <1>4, <2>1 DEF Inv, Core, VersionsAreSound, Homes
    <2> QED  BY <2>1, <2>2, <2>3 DEF Inv, Core, VersionsAreSound
  <1>11. PartsAreSound'
    <2>1. rules' \subseteq Rules /\ \A r \in rules' : r.sheet \in DOMAIN sheets'
      BY <1>1, <1>3 DEF Inv, Core, PartsAreSound, OffSheets
    <2>2. views' \subseteq Views /\ \A v \in views' : v.sheet \in DOMAIN sheets'
      BY <1>1, <1>3 DEF Inv, Core, PartsAreSound, OffSheets
    <2>3. ASSUME NEW c \in charts'
          PROVE  /\ c \in Charts /\ c.sheet \in DOMAIN sheets'
                 /\ c.source # Ref => /\ c.source \in DOMAIN sheets'
                                      /\ sheets'[c.source].book = sheets'[c.sheet].book
      <3>1. /\ c \in Charts /\ c.sheet \in DOMAIN sheets'
            /\ c.source # Ref => c.source \in DOMAIN sheets /\ sheets[c.source].book = sheets[c.sheet].book
        BY <1>1, <1>3 DEF Inv, Core, PartsAreSound, OffSheets
      <3> QED  BY <1>3, <1>5, <3>1
    <2> QED  BY <2>1, <2>2, <2>3 DEF PartsAreSound
  <1> QED  BY <1>6, <1>7, <1>8, <1>9, <1>10, <1>11, Assembled

\* The ids of a copied workbook are new and different.
LEMMA CopiedIdsAre ==
    ASSUME Inv, NEW b \in DOMAIN books, NEW S, S = SheetsOf(b), NEW n, n = Cardinality(S),
           NEW ids, ids = CopiedIds(b)
    PROVE  /\ DOMAIN ids = S /\ n \in Nat
           /\ \A s \in S : ids[s] \in Nat /\ ids[s] > used /\ ids[s] <= used + n
           /\ \A s, t \in S : ids[s] = ids[t] => s = t
  <1>1. used \in Nat /\ S \subseteq 1..used
    BY InvMeans DEF SheetsOf
  <1>2. IsFiniteSet(S) /\ n \in Nat
    BY <1>1, IdsAreFinite
  <1>a. PICK C : C = [s \in S |-> {t \in S : t <= s}]
    OBVIOUS
  <1>3. DOMAIN ids = S /\ \A s \in S : ids[s] = used + Cardinality(C[s])
    BY <1>a DEF CopiedIds
  <1>4. ASSUME NEW s \in S
        PROVE  /\ IsFiniteSet(C[s]) /\ Cardinality(C[s]) \in Nat /\ Cardinality(C[s]) <= n
               /\ Cardinality(C[s]) > 0
    <2>1. C[s] \subseteq S /\ s \in C[s]
      BY <1>1, <1>a
    <2>2. IsFiniteSet(C[s]) /\ Cardinality(C[s]) \in Nat /\ Cardinality(C[s]) <= n
      <3>1. C[s] \in SUBSET S
        BY <2>1
      <3> QED  BY <1>2, <3>1, FS_Subset, FS_CardinalityType
    <2>3. Cardinality(C[s]) # 0
      BY <2>1, <2>2, FS_EmptySet
    <2> QED  BY <2>2, <2>3
  <1>5. ASSUME NEW s \in S, NEW t \in S, s < t PROVE Cardinality(C[s]) # Cardinality(C[t])
    <2>1. C[s] \subseteq C[t] /\ t \in C[t] /\ t \notin C[s]
      BY <1>1, <1>5, <1>a
    <2>2. C[s] \in SUBSET C[t] /\ C[s] # C[t]
      BY <2>1
    <2> QED  BY <1>4, <2>2, FS_Subset
  <1>6. ASSUME NEW s \in S, NEW t \in S, ids[s] = ids[t] PROVE s = t
    <2>1. Cardinality(C[s]) = Cardinality(C[t])
      BY <1>1, <1>3, <1>4, <1>6
    <2>2. s \in Nat /\ t \in Nat
      BY <1>1
    <2> QED  BY <1>5, <2>1, <2>2
  <1>7. \A s \in S : ids[s] \in Nat /\ ids[s] > used /\ ids[s] <= used + n
    BY <1>1, <1>2, <1>3, <1>4
  <1> QED  BY <1>2, <1>3, <1>6, <1>7

\* The sheets R of table U copy the sheets S of table T, with ids up to m.
IsCopy(T, S, U, R, ids, m) ==
    /\ \A s \in S : ids[s] \in 1..m
    /\ \A s, t \in S : ids[s] = ids[t] => s = t
    /\ \A t : t \in R <=> \E s \in S : ids[s] = t
    /\ \A s \in S : /\ T[s].position \in Nat
                    /\ U[ids[s]].position = T[s].position /\ U[ids[s]].name = T[s].name
                    /\ U[ids[s]].formula.names = T[s].formula.names
                    /\ U[ids[s]].formula.meant = IF T[s].formula.meant \in S THEN ids[T[s].formula.meant] ELSE 0

\* A copy with other ids is a workbook too.
LEMMA CopiedWorkbook ==
    ASSUME NEW T, NEW U, NEW S, NEW n \in Nat, NEW m \in Nat, IsWorkbook(T, S, n),
           NEW ids, NEW R, IsCopy(T, S, U, R, ids, m)
    PROVE  IsWorkbook(U, R, m)
  <1> USE DEF IsCopy
  <1>1. R # {} /\ R \subseteq 1..m
    <2>1. PICK s : s \in S
      BY DEF IsWorkbook
    <2>2. ids[s] \in R
      BY <2>1
    <2>3. \A t \in R : t \in 1..m
      OBVIOUS
    <2> QED  BY <2>2, <2>3
  <1>2. \A s \in S : U[ids[s]].formula.meant <= m
    <2>1. ASSUME NEW s \in S PROVE U[ids[s]].formula.meant <= m
      <3>1. CASE T[s].formula.meant \in S
        BY <3>1
      <3>2. CASE T[s].formula.meant \notin S
        BY <3>2
      <3> QED  BY <3>1, <3>2
    <2> QED  BY <2>1
  <1>3. Numbered(U, R)
    <2>1. ASSUME NEW u \in R, NEW v \in R, U[u].position = U[v].position PROVE u = v
      <3>1. PICK s \in S : ids[s] = u
        OBVIOUS
      <3>2. PICK t \in S : ids[t] = v
        OBVIOUS
      <3>3. T[s].position = T[t].position
        BY <2>1, <3>1, <3>2
      <3> QED  BY <3>1, <3>2, <3>3 DEF IsWorkbook, Numbered
    <2>2. ASSUME NEW u \in R, NEW q \in 0..U[u].position PROVE \E v \in R : U[v].position = q
      <3>1. PICK s \in S : ids[s] = u
        OBVIOUS
      <3>2. PICK t \in S : T[t].position = q
        BY <3>1 DEF IsWorkbook, Numbered
      <3>3. ids[t] \in R /\ U[ids[t]].position = q
        BY <3>2
      <3> QED  BY <3>3
    <2> QED  BY <2>1, <2>2 DEF Numbered
  <1>4. Named(U, R)
    <2>1. ASSUME NEW u \in R, NEW v \in R, U[u].name = U[v].name PROVE u = v
      <3>1. PICK s \in S : ids[s] = u
        OBVIOUS
      <3>2. PICK t \in S : ids[t] = v
        OBVIOUS
      <3>3. T[s].name = T[t].name
        BY <2>1, <3>1, <3>2
      <3> QED  BY <3>1, <3>2, <3>3 DEF IsWorkbook, Named
    <2> QED  BY <2>1 DEF Named
  <1>5. Linked(U, R)
    <2>1. ASSUME NEW u \in R, U[u].formula.meant \in R PROVE U[U[u].formula.meant].name = U[u].formula.names
      <3>1. PICK s \in S : ids[s] = u
        OBVIOUS
      <3>2. PICK k : k = T[s].formula.meant
        OBVIOUS
      <3>3. k \in S /\ U[u].formula.meant = ids[k]
        BY <1>1, <2>1, <3>1, <3>2
      <3>4. T[k].name = T[s].formula.names
        BY <3>2, <3>3 DEF IsWorkbook, Linked
      <3> QED  BY <3>1, <3>3, <3>4
    <2> QED  BY <2>1 DEF Linked
  <1>6. \A u \in R : U[u].formula.meant <= m
    BY <1>2
  <1> QED  BY <1>1, <1>3, <1>4, <1>5, <1>6 DEF IsWorkbook

\* The sheets of a copied workbook.
LEMMA CopiedSheetsAre ==
    ASSUME Inv, NEW b \in DOMAIN books, NEW S, S = SheetsOf(b), NEW copy \in BookIds,
           NEW ids, DOMAIN ids = S, \A s \in S : ids[s] \in SheetIds,
           \A s, t \in S : ids[s] = ids[t] => s = t,
           NEW K, K = CopiedSheets(b, copy, ids)
    PROVE  /\ \A t : t \in DOMAIN K <=> \E s \in S : ids[s] = t
           /\ \A s \in S : LET k == K[ids[s]]
                           IN  /\ k \in Sheets /\ k.book = copy /\ k.name = sheets[s].name
                               /\ k.position = sheets[s].position /\ k.hidden = sheets[s].hidden
                               /\ k.formula.names = sheets[s].formula.names
                               /\ k.formula.meant = IF sheets[s].formula.meant \in S
                                                    THEN ids[sheets[s].formula.meant] ELSE 0
  <1>1. DOMAIN K = {ids[s] : s \in S}
    BY DEF CopiedSheets, Range
  <1>2. ASSUME NEW s \in S
        PROVE  K[ids[s]] = [sheets[s] EXCEPT !.book = copy, !.formula = CopiedFormula(sheets[s].formula, ids)]
    <2>1. PICK t : t = ids[s]
      OBVIOUS
    <2>2. t \in Range(ids)
      BY <2>1 DEF Range
    <2>3. (CHOOSE u \in DOMAIN ids : ids[u] = t) = s
      BY <2>1
    <2>4. K[t] = [sheets[CHOOSE u \in DOMAIN ids : ids[u] = t] EXCEPT !.book = copy,
                     !.formula = CopiedFormula(sheets[CHOOSE u \in DOMAIN ids : ids[u] = t].formula, ids)]
      BY <2>2 DEF CopiedSheets
    <2> QED  BY <2>1, <2>3, <2>4
  <1>3. ASSUME NEW s \in S
        PROVE  LET k == K[ids[s]]
               IN  /\ k \in Sheets /\ k.book = copy /\ k.name = sheets[s].name
                   /\ k.position = sheets[s].position /\ k.hidden = sheets[s].hidden
                   /\ k.formula.names = sheets[s].formula.names
                   /\ k.formula.meant = IF sheets[s].formula.meant \in S
                                        THEN ids[sheets[s].formula.meant] ELSE 0
    <2>1. PICK f : f = sheets[s].formula
      OBVIOUS
    <2>2. PICK g : g = CopiedFormula(f, ids)
      OBVIOUS
    <2>3. sheets[s] \in Sheets /\ f \in Formulas
      BY <2>1, InvMeans, RowIs DEF SheetsOf
    <2>4. PICK m : m = IF f.meant \in S THEN ids[f.meant] ELSE 0
      OBVIOUS
    <2>5. m \in {NoSheet} \cup SheetIds
      BY <2>4 DEF NoSheet
    <2>6. g = [f EXCEPT !.meant = m]
      BY <2>2, <2>3, <2>4 DEF CopiedFormula, NoSheet
    <2>7. g \in Formulas /\ g.names = f.names /\ g.meant = m
      BY <2>3, <2>5, <2>6 DEF Formulas
    <2>8. PICK k : k = K[ids[s]]
      OBVIOUS
    <2>9. k = [sheets[s] EXCEPT !.book = copy, !.formula = g]
      BY <1>2, <2>1, <2>2, <2>8
    <2>10. /\ k \in Sheets /\ k.book = copy /\ k.name = sheets[s].name /\ k.position = sheets[s].position
           /\ k.hidden = sheets[s].hidden /\ k.formula = g
      BY <2>3, <2>7, <2>9 DEF Sheets
    <2> QED  BY <2>1, <2>4, <2>7, <2>8, <2>10
  <1> QED  BY <1>1, <1>3

\* DuplicateWorkbook
LEMMA DuplicateWorkbookKeepsInv ==
    ASSUME Inv, Operation, NEW b \in DOMAIN books, NEW title \in Titles, NEW owner \in Actors,
           DuplicateWorkbook(b, title, owner)
    PROVE  /\ Core' /\ SheetsStay
           /\ \E copy \in BookIds :
                 /\ copy \notin DOMAIN books /\ Touches(copy)
                 /\ \A p \in CopiedRules(CopiedIds(b)) \cup CopiedCharts(CopiedIds(b))
                                \cup CopiedViews(CopiedIds(b), owner) : p.sheet \in SheetsOf(copy)'
  <1>a. PICK copy : copy = Cardinality(DOMAIN books) + 1
    OBVIOUS
  <1>b. PICK ids : ids = CopiedIds(b)
    OBVIOUS
  <1>c. PICK S : S = SheetsOf(b)
    OBVIOUS
  <1>d. PICK n : n = Cardinality(S)
    OBVIOUS
  <1>e. PICK K : K = CopiedSheets(b, copy, ids)
    OBVIOUS
  <1>f. PICK U : U = Put(K, sheets)
    OBVIOUS
  <1>g. PICK entry : entry = [title |-> title, live |-> TRUE]
    OBVIOUS
  <1>h. PICK m : m = used + n
    OBVIOUS
  <1>1. /\ DOMAIN ids = S /\ n \in Nat
        /\ \A s \in S : ids[s] \in Nat /\ ids[s] > used /\ ids[s] <= m
        /\ \A s, t \in S : ids[s] = ids[t] => s = t
    BY <1>b, <1>c, <1>d, <1>h, CopiedIdsAre
  <1>2. /\ copy \in BookIds /\ copy \notin DOMAIN books /\ m <= MaxSheets /\ used' = m /\ sheets' = U
        /\ books' = Put(Row(copy, entry), books) /\ UNCHANGED versions
        /\ \A c \in On(charts, S) : c.source \in S \cup {Ref}
    BY <1>1, <1>a, <1>b, <1>d, <1>e, <1>f, <1>g, <1>h DEF DuplicateWorkbook, NewBook
  <1>3. /\ used \in Nat /\ S \subseteq DOMAIN sheets /\ DOMAIN sheets \subseteq 1..used
        /\ IsWorkbook(sheets, S, used) /\ \A t \in DOMAIN sheets : sheets[t] \in Sheets
    BY <1>c, InvMeans DEF SheetsOf
  <1>4. m \in Nat /\ used <= m /\ m \in SheetIds
    <2>1. used \in 1..MaxSheets
      BY InvMeans DEF SheetIds
    <2> QED  BY <1>1, <1>2, <1>3, <1>h, <2>1, BoundsAssumption DEF SheetIds
  <1>5. \A s \in S : ids[s] \in 1..m /\ ids[s] \in SheetIds /\ ids[s] \notin DOMAIN sheets
    BY <1>1, <1>2, <1>3, <1>4, BoundsAssumption DEF SheetIds
  <1>6. /\ \A t : t \in DOMAIN K <=> \E s \in S : ids[s] = t
        /\ \A s \in S : /\ K[ids[s]] \in Sheets /\ K[ids[s]].book = copy /\ K[ids[s]].name = sheets[s].name
                        /\ K[ids[s]].position = sheets[s].position
                        /\ K[ids[s]].formula.names = sheets[s].formula.names
                        /\ K[ids[s]].formula.meant = IF sheets[s].formula.meant \in S
                                                     THEN ids[sheets[s].formula.meant] ELSE 0
    BY <1>1, <1>2, <1>5, <1>c, <1>e, CopiedSheetsAre
  <1>7. /\ DOMAIN U = DOMAIN K \cup DOMAIN sheets /\ U = [t \in DOMAIN U |-> U[t]]
        /\ \A t \in DOMAIN K : U[t] = K[t]
        /\ \A t \in DOMAIN sheets : t \notin DOMAIN K => U[t] = sheets[t]
    BY <1>f DEF Put
  <1>8. \A t \in DOMAIN sheets : t \notin DOMAIN K /\ U[t] = sheets[t] /\ t \in DOMAIN U
    BY <1>5, <1>6, <1>7
  <1>9. \A t \in DOMAIN K : U[t] \in Sheets /\ U[t].book = copy /\ t > used
    BY <1>1, <1>6, <1>7
  <1>10. IsWorkbook(U, DOMAIN K, m)
    <2>1. PICK T : T = sheets
      OBVIOUS
    <2>2. PICK R : R = DOMAIN K
      OBVIOUS
    <2>3. IsWorkbook(T, S, used) /\ \A s \in S : T[s].position \in Nat
      BY <1>3, <2>1, RowIs
    <2>4. \A t : t \in R <=> \E s \in S : ids[s] = t
      BY <1>6, <2>2
    <2>5. \A s \in S : /\ U[ids[s]].position = T[s].position /\ U[ids[s]].name = T[s].name
                       /\ U[ids[s]].formula.names = T[s].formula.names
                       /\ U[ids[s]].formula.meant = IF T[s].formula.meant \in S
                                                    THEN ids[T[s].formula.meant] ELSE 0
      <3>1. \A s \in S : U[ids[s]] = K[ids[s]]
        BY <1>6, <1>7
      <3> QED  BY <1>6, <2>1, <3>1
    <2>6. IsWorkbook(U, R, m)
      <3>1. \A s \in S : ids[s] \in 1..m
        BY <1>5
      <3>2. \A s, t \in S : ids[s] = ids[t] => s = t
        BY <1>1
      <3>3. \A s \in S : /\ T[s].position \in Nat
                         /\ U[ids[s]].position = T[s].position /\ U[ids[s]].name = T[s].name
                         /\ U[ids[s]].formula.names = T[s].formula.names
                         /\ U[ids[s]].formula.meant = IF T[s].formula.meant \in S
                                                      THEN ids[T[s].formula.meant] ELSE 0
        BY <2>3, <2>5
      <3>4. PICK k : k = used
        OBVIOUS
      <3>5. IsWorkbook(T, S, k) /\ k \in Nat /\ m \in Nat
        BY <1>3, <1>4, <2>3, <3>4
      <3>6. IsCopy(T, S, U, R, ids, m)
        BY <2>4, <3>1, <3>2, <3>3 DEF IsCopy
      <3> QED  BY <3>5, <3>6, CopiedWorkbook
    <2> QED  BY <2>2, <2>6
  <1>11. /\ DOMAIN books' = DOMAIN books \cup {copy}
         /\ books' \in [DOMAIN books' -> [title : Titles, live : BOOLEAN]]
         /\ DOMAIN books' \subseteq BookIds
    <2>1. entry \in [title : Titles, live : BOOLEAN]
      BY <1>g
    <2>2. /\ DOMAIN books' = DOMAIN books \cup {copy} /\ books'[copy] = entry
          /\ \A c \in DOMAIN books : books'[c] = books[c]
          /\ books' = [c \in DOMAIN books' |-> books'[c]]
      BY <1>2 DEF Put, Row
    <2>3. \A c \in DOMAIN books : books[c] \in [title : Titles, live : BOOLEAN]
      BY InvMeans
    <2>4. \A c \in DOMAIN books' : books'[c] \in [title : Titles, live : BOOLEAN]
      BY <2>1, <2>2, <2>3
    <2> QED  BY <1>2, <2>2, <2>4, InvMeans
  <1>12. SheetsOf(copy)' = DOMAIN K /\ Touches(copy)
    <2>1. \A t \in DOMAIN sheets : sheets[t].book # copy
      BY <1>2, InvMeans
    <2> QED  BY <1>2, <1>7, <1>8, <1>9, <2>1 DEF SheetsOf, Touches
  <1>13. sheets' \in [DOMAIN sheets' -> Sheets]
    <2>1. \A t \in DOMAIN U : U[t] \in Sheets
      BY <1>3, <1>7, <1>8, <1>9
    <2> QED  BY <1>2, <1>7, <2>1
  <1>14. /\ IsWorkbook(sheets', SheetsOf(copy)', used') /\ used' \in Nat /\ used <= used'
         /\ used' \in SheetIds
    BY <1>2, <1>4, <1>10, <1>12
  <1>15. /\ BooksAreSound' /\ DOMAIN sheets' \subseteq 1..used'
         /\ \A t \in DOMAIN sheets' : sheets'[t].book \in DOMAIN books'
    BY <1>11, <1>12, <1>13, <1>14, BookStep
  <1>16. VersionsAreSound' /\ \A i \in DOMAIN versions' : versions'[i].book \in DOMAIN books'
    <2>1. \A s \in DOMAIN sheets' : (s \in DOMAIN sheets /\ sheets'[s].book = sheets[s].book) \/ s > used
      BY <1>2, <1>7, <1>8, <1>9
    <2> QED  BY <1>2, <1>11, <1>14, <2>1, VersionsStay
  <1>17. \A s \in S : ids[s] \in DOMAIN U /\ U[ids[s]].book = copy /\ ids[s] \in SheetIds /\ ids[s] \in DOMAIN K
    BY <1>5, <1>6, <1>7, <1>9
  <1>18. /\ rules' \subseteq Rules /\ \A r \in rules' : r.sheet \in DOMAIN U
         /\ \A r \in CopiedRules(ids) : r.sheet \in DOMAIN K
    <2>1. rules' = rules \cup CopiedRules(ids)
      BY <1>b DEF DuplicateWorkbook
    <2>2. \A r \in rules : r \in Rules /\ r.sheet \in DOMAIN U
      BY <1>8 DEF Inv, Core, PartsAreSound
    <2>3. ASSUME NEW r \in CopiedRules(ids) PROVE r \in Rules /\ r.sheet \in DOMAIN U /\ r.sheet \in DOMAIN K
      <3>1. PICK o \in Reinserted({o \in On(rules, S) : o.kind # "image"}) : r = [o EXCEPT !.sheet = ids[o.sheet]]
        BY <1>1 DEF CopiedRules
      <3>2. o \in Rules /\ o.sheet \in S
        BY <2>2, ReinsertedIs DEF On
      <3> QED  BY <1>17, <3>1, <3>2 DEF Rules
    <2> QED  BY <2>1, <2>2, <2>3
  <1>19. /\ views' \subseteq Views /\ \A v \in views' : v.sheet \in DOMAIN U
         /\ \A v \in CopiedViews(ids, owner) : v.sheet \in DOMAIN K
    <2>1. views' = views \cup CopiedViews(ids, owner)
      BY <1>b DEF DuplicateWorkbook
    <2>2. \A v \in views : v \in Views /\ v.sheet \in DOMAIN U
      BY <1>8 DEF Inv, Core, PartsAreSound
    <2>3. ASSUME NEW v \in CopiedViews(ids, owner) PROVE v \in Views /\ v.sheet \in DOMAIN U /\ v.sheet \in DOMAIN K
      <3>1. PICK o \in On(views, S) : v = [o EXCEPT !.sheet = ids[o.sheet], !.owner = owner]
        BY <1>1 DEF CopiedViews
      <3>2. o \in Views /\ o.sheet \in S
        BY <2>2 DEF On
      <3> QED  BY <1>17, <3>1, <3>2 DEF Views
    <2> QED  BY <2>1, <2>2, <2>3
  <1>c1. \A c \in charts : c \in Charts
    BY DEF Inv, Core, PartsAreSound
  <1>20. ASSUME NEW d \in CopiedCharts(ids)
         PROVE  /\ d \in Charts /\ d.sheet \in DOMAIN U /\ d.sheet \in DOMAIN K
                /\ d.source # Ref => d.source \in DOMAIN U /\ U[d.source].book = U[d.sheet].book
    <2>1. PICK o \in On(charts, S) :
                d = [o EXCEPT !.sheet = ids[o.sheet], !.source = IF o.source = Ref THEN Ref ELSE ids[o.source]]
      BY <1>1 DEF CopiedCharts
    <2>2. o \in Charts /\ o.sheet \in S /\ o.source \in S \cup {Ref}
      BY <1>2, <1>c1 DEF On
    <2>3. PICK src : src = IF o.source = Ref THEN Ref ELSE ids[o.source]
      OBVIOUS
    <2>4. src \in SheetIds \cup {Ref, Dangling}
      BY <1>17, <2>2, <2>3
    <2>5. d \in Charts /\ d.sheet = ids[o.sheet] /\ d.source = src
      BY <1>17, <2>1, <2>2, <2>3, <2>4 DEF Charts
    <2> QED  BY <1>17, <2>2, <2>3, <2>5
  <1>c2. ASSUME NEW d \in charts'
         PROVE  /\ d \in Charts /\ d.sheet \in DOMAIN U
                /\ d.source # Ref => d.source \in DOMAIN U /\ U[d.source].book = U[d.sheet].book
    <2>1. charts' = charts \cup CopiedCharts(ids)
      BY <1>b DEF DuplicateWorkbook
    <2>2. CASE d \in charts
      BY <1>8, <2>2 DEF Inv, Core, PartsAreSound
    <2> QED  BY <1>20, <2>1, <2>2
  <1>21. PartsAreSound'
    BY <1>2, <1>18, <1>19, <1>c2 DEF PartsAreSound
  <1>s. SheetsStay
    BY <1>2, <1>8 DEF SheetsStay
  <1>22. Core'
    BY <1>11, <1>14, <1>15, <1>16, <1>21, Assembled
  <1>23. \A p \in CopiedRules(ids) \cup CopiedCharts(ids) \cup CopiedViews(ids, owner) : p.sheet \in SheetsOf(copy)'
    BY <1>12, <1>18, <1>19, <1>20
  <1> QED  BY <1>s, <1>2, <1>12, <1>22, <1>23, <1>b

-----------------------------------------------------------------------------
(***************************************************************************)
(* Operations between their backup and their change                        *)
(***************************************************************************)

\* What hangs on no sheet of the workbook stays.
KeepsOff(S, old, new) == \A p \in old \cup new : p.sheet \notin S => p \in old /\ p \in new

\* A step changes nothing of other workbooks.
Spares(b) ==
    /\ Touches(b)
    /\ \A c \in DOMAIN books \ {b} : c \in DOMAIN books' /\ books'[c] = books[c]
    /\ KeepsOff(SheetsOf(b) \cup SheetsOf(b)', rules, rules')
    /\ KeepsOff(SheetsOf(b) \cup SheetsOf(b)', charts, charts')
    /\ KeepsOff(SheetsOf(b) \cup SheetsOf(b)', views, views')

\* What another one holds is what it held.
LEMMA SparedParts ==
    ASSUME NEW S, NEW Q, NEW old, NEW new, KeepsOff(Q, old, new), S \cap Q = {}
    PROVE  On(new, S) = On(old, S)
  BY DEF KeepsOff, On

LEMMA SparedIs ==
    ASSUME NEW b, Spares(b), NEW c \in DOMAIN books, c # b, NEW S, S = SheetsOf(c), NEW V
    PROVE  /\ SheetsOf(c)' = S /\ (Live(c) => Live(c)')
           /\ DocumentWith(c, V)' = DocumentWith(c, V)
           /\ On(views', S) = On(views, S)
  <1>1. SheetsOf(c)' = S /\ \A s \in S : s \in DOMAIN sheets' /\ sheets'[s] = sheets[s]
    BY DEF Spares, Touches, SheetsOf
  <1>2. c \in DOMAIN books' /\ books'[c] = books[c]
    BY DEF Spares
  <1>3. PICK Q : Q = SheetsOf(b) \cup SheetsOf(b)'
    OBVIOUS
  <1>4. S \cap Q = {}
    BY <1>1, <1>3 DEF SheetsOf
  <1>5. KeepsOff(Q, rules, rules') /\ KeepsOff(Q, charts, charts') /\ KeepsOff(Q, views, views')
    BY <1>3 DEF Spares
  <1>6. On(rules', S) = On(rules, S) /\ On(charts', S) = On(charts, S) /\ On(views', S) = On(views, S)
    BY <1>4, <1>5, SparedParts
  <1>7. Restrict(sheets', S) = Restrict(sheets, S)
    BY <1>1 DEF Restrict
  <1>8. DocumentWith(c, V)' = [title |-> books'[c].title, sheets |-> Restrict(sheets', S),
                               rules |-> {r \in On(rules', S) : r.kind # "image"},
                               charts |-> On(charts', S), views |-> V]
    BY <1>1 DEF DocumentWith
  <1>9. DocumentWith(c, V)' = DocumentWith(c, V)
    BY <1>2, <1>6, <1>7, <1>8 DEF DocumentWith
  <1>10. Live(c) => Live(c)'
    BY <1>2 DEF Live
  <1> QED  BY <1>1, <1>6, <1>9, <1>10

\* So the backups of others stay true,
LEMMA BackupsSpared ==
    ASSUME Inv, NEW b, Spares(b), b \notin DOMAIN backups', DOMAIN backups' \subseteq DOMAIN backups,
           \A c \in DOMAIN backups' : backups'[c] = backups[c]
    PROVE  BackupsAreSound'
  <1> SUFFICES ASSUME NEW c \in DOMAIN backups', NEW x, x = backups'[c] PROVE BackupIsSound(c, x)'
    BY DEF BackupsAreSound
  <1> PICK V : V = x.snapshot.views
    OBVIOUS
  <1> PICK S : S = SheetsOf(c)
    OBVIOUS
  <1>1. BackupIsSound(c, x) /\ c # b
    BY DEF Inv, BackupsAreSound
  <1>a. Live(c) /\ c \in DOMAIN books
    BY <1>1 DEF BackupIsSound, Live
  <1>2. /\ SheetsOf(c)' = S /\ (Live(c) => Live(c)')
        /\ DocumentWith(c, V)' = DocumentWith(c, V)
        /\ On(views', S) = On(views, S)
    BY <1>1, <1>a, SparedIs
  <1>3. /\ x = [snapshot |-> x.snapshot, of |-> x.of, seen |-> x.seen, since |-> x.since]
        /\ x.of = x.snapshot /\ x.snapshot = DocumentWith(c, V) /\ V \subseteq Views /\ x.seen \subseteq Views
        /\ (\A v \in V : v.sheet \in S) /\ (\A v \in x.seen : v.sheet \in S)
        /\ On(views, S) \subseteq V \cup x.since
    BY <1>1 DEF BackupIsSound
  <1>4. x.snapshot = DocumentWith(c, V)' /\ On(views', S) \subseteq V \cup x.since /\ Live(c)'
    BY <1>2, <1>3, <1>a
  <1> QED  BY <1>2, <1>3, <1>4 DEF BackupIsSound

\* and those of all when no document changes.
LEMMA BackupsLeft ==
    ASSUME Inv, UNCHANGED <<books, sheets, rules, charts, views>>, DOMAIN backups' \subseteq DOMAIN backups,
           \A c \in DOMAIN backups' : backups'[c] = backups[c]
    PROVE  BackupsAreSound'
  <1> SUFFICES ASSUME NEW c \in DOMAIN backups', NEW x, x = backups'[c] PROVE BackupIsSound(c, x)'
    BY DEF BackupsAreSound
  <1>1. BackupIsSound(c, x)
    BY DEF Inv, BackupsAreSound
  <1> QED  BY <1>1 DEF BackupIsSound, Live, DocumentWith, SheetsOf

\* An operation that holds the row of a workbook keeps the backups of others.
Ends(b) == (Free(b) /\ UNCHANGED backups) \/ (~ Free(b) /\ Ended(b))

LEMMA BackupsEnd ==
    ASSUME Inv, NEW b, Spares(b), Ends(b)
    PROVE  BackupsAreSound'
  <1>1. CASE Free(b) /\ UNCHANGED backups
    BY <1>1, BackupsSpared DEF Free
  <1>2. CASE Ended(b)
    <2>1. /\ DOMAIN backups' = DOMAIN backups \ {b}
          /\ \A c \in DOMAIN backups' : backups'[c] = backups[c]
      BY <1>2 DEF Ended, Restrict
    <2> QED  BY <2>1, BackupsSpared
  <1> QED  BY <1>1, <1>2 DEF Ends

\* Without one out of the trash there is none.
LEMMA LiveOnly ==
    ASSUME Inv, NEW b, ~ Live(b)
    PROVE  Free(b)
  BY DEF Inv, BackupsAreSound, BackupIsSound, Free

\* What hangs on the sheets stays, in whichever workbooks.
LEMMA NothingHangs ==
    ASSUME UNCHANGED <<rules, charts, views>>, NEW b, Touches(b),
           \A c \in DOMAIN books \ {b} : c \in DOMAIN books' /\ books'[c] = books[c]
    PROVE  Spares(b)
  BY DEF Spares, KeepsOff

\* Tabs: AddedSheet and ReworkedBook.
LEMMA TabsKeepBackups ==
    ASSUME Inv, NEW b, Touches(b), Locks(b), UNCHANGED <<books, rules, charts, views, backups>>
    PROVE  BackupsAreSound'
  <1>1. Spares(b)
    BY NothingHangs
  <1> QED  BY <1>1, BackupsEnd DEF Ends, Locks

\* The rows of workbooks.
LEMMA BookRowKeepsBackups ==
    ASSUME Inv, NEW b \in DOMAIN books,
           \/ \E title \in Titles : UpdateWorkbook(b, title)
           \/ DeleteWorkbook(b) \/ RestoreWorkbook(b)
    PROVE  BackupsAreSound'
  <1>1. UNCHANGED <<sheets, rules, charts, views, backups>> /\ Free(b)
    BY LiveOnly DEF UpdateWorkbook, DeleteWorkbook, RestoreWorkbook, parts, Locks, Live
  <1>2. \A c \in DOMAIN books \ {b} : c \in DOMAIN books' /\ books'[c] = books[c]
    BY DEF UpdateWorkbook, DeleteWorkbook, RestoreWorkbook
  <1>3. Touches(b)
    BY <1>1 DEF Touches
  <1>4. Spares(b)
    BY <1>1, <1>2, <1>3, NothingHangs
  <1> QED  BY <1>1, <1>4, BackupsEnd DEF Ends

\* Parts that are made, changed and deleted, other than filter views.
LEMMA PartsKeepBackups ==
    ASSUME Inv, OnParts
    PROVE  BackupsAreSound'
  <1>1. UNCHANGED <<books, sheets, views, backups>>
    BY DEF OnParts, CreateRule, CreateChart, DeleteRule, UpdateDataValidation, UpdateChart, DeleteChart
  <1>2. \A b : Touches(b) /\ SheetsOf(b)' = SheetsOf(b)
    BY <1>1 DEF Touches, SheetsOf
  <1>3. \A p \in rules \cup charts : p.sheet \in DOMAIN sheets
    BY DEF Inv, Core, PartsAreSound
  <1>4. ASSUME NEW b, Free(b), NEW S, S = SheetsOf(b), KeepsOff(S, rules, rules'), KeepsOff(S, charts, charts')
        PROVE  BackupsAreSound'
    <2>1. KeepsOff(S, views, views') /\ SheetsOf(b) \cup SheetsOf(b)' = S
      BY <1>1, <1>2, <1>4 DEF KeepsOff
    <2>2. Spares(b)
      BY <1>1, <1>2, <1>4, <2>1 DEF Spares
    <2> QED  BY <1>1, <1>4, <2>2, BackupsEnd DEF Ends
  <1>5. ASSUME NEW s \in DOMAIN sheets, NEW kind \in Kinds, CreateRule(s, kind) PROVE BackupsAreSound'
    <2> PICK b : b = sheets[s].book
      OBVIOUS
    <2>1. Free(b) /\ s \in SheetsOf(b)
      BY <1>5 DEF CreateRule, Locks, SheetsOf
    <2>2. KeepsOff(SheetsOf(b), rules, rules') /\ KeepsOff(SheetsOf(b), charts, charts')
      BY <1>5, <2>1 DEF CreateRule, KeepsOff
    <2> QED  BY <1>4, <2>1, <2>2
  <1>6. ASSUME NEW s \in DOMAIN sheets, NEW source \in DOMAIN sheets, CreateChart(s, source)
        PROVE  BackupsAreSound'
    <2> PICK b : b = sheets[s].book
      OBVIOUS
    <2>1. Free(b) /\ s \in SheetsOf(b)
      BY <1>6 DEF CreateChart, Locks, SheetsOf
    <2>2. KeepsOff(SheetsOf(b), rules, rules') /\ KeepsOff(SheetsOf(b), charts, charts')
      BY <1>6, <2>1 DEF CreateChart, KeepsOff
    <2> QED  BY <1>4, <2>1, <2>2
  <1>7. ASSUME NEW rule \in rules, DeleteRule(rule) PROVE BackupsAreSound'
    <2> PICK b : b = sheets[rule.sheet].book
      OBVIOUS
    <2>1. Free(b) /\ rule.sheet \in SheetsOf(b)
      BY <1>3, <1>7 DEF DeleteRule, SheetsOf
    <2>2. KeepsOff(SheetsOf(b), rules, rules') /\ KeepsOff(SheetsOf(b), charts, charts')
      BY <1>7, <2>1 DEF DeleteRule, KeepsOff
    <2> QED  BY <1>4, <2>1, <2>2
  <1>8. ASSUME NEW rule \in rules, NEW kind \in Kinds, UpdateDataValidation(rule, kind) PROVE BackupsAreSound'
    <2> PICK b : b = sheets[rule.sheet].book
      OBVIOUS
    <2>1. Free(b) /\ rule.sheet \in SheetsOf(b)
      BY <1>3, <1>8 DEF UpdateDataValidation, SheetsOf
    <2>2. PICK new : new = [rule EXCEPT !.kind = kind]
      OBVIOUS
    <2>3. rule \in Rules /\ new.sheet = rule.sheet
      BY <2>2 DEF Inv, Core, PartsAreSound, Rules
    <2>4. rules' = (rules \ {rule}) \cup {new} /\ UNCHANGED charts
      BY <1>8, <2>2 DEF UpdateDataValidation
    <2>5. KeepsOff(SheetsOf(b), rules, rules') /\ KeepsOff(SheetsOf(b), charts, charts')
      BY <2>1, <2>3, <2>4 DEF KeepsOff
    <2> QED  BY <1>4, <2>1, <2>5
  <1>9. ASSUME NEW chart \in charts, NEW s \in DOMAIN sheets, NEW source \in DOMAIN sheets,
               UpdateChart(chart, s, source)
        PROVE  BackupsAreSound'
    <2> PICK b : b = sheets[chart.sheet].book
      OBVIOUS
    <2>1. Free(b) /\ chart.sheet \in SheetsOf(b) /\ s \in SheetsOf(b)
      BY <1>3, <1>9 DEF UpdateChart, Locks, SheetsOf
    <2>2. KeepsOff(SheetsOf(b), rules, rules') /\ KeepsOff(SheetsOf(b), charts, charts')
      BY <1>9, <2>1 DEF UpdateChart, KeepsOff
    <2> QED  BY <1>4, <2>1, <2>2
  <1>10. ASSUME NEW chart \in charts, DeleteChart(chart) PROVE BackupsAreSound'
    <2> PICK b : b = sheets[chart.sheet].book
      OBVIOUS
    <2>1. Free(b) /\ chart.sheet \in SheetsOf(b)
      BY <1>3, <1>10 DEF DeleteChart, Locks, SheetsOf
    <2>2. KeepsOff(SheetsOf(b), rules, rules') /\ KeepsOff(SheetsOf(b), charts, charts')
      BY <1>10, <2>1 DEF DeleteChart, KeepsOff
    <2> QED  BY <1>4, <2>1, <2>2
  <1> QED  BY <1>5, <1>6, <1>7, <1>8, <1>9, <1>10 DEF OnParts

\* Filter views are written while an operation is under way, which counts them as new.
LEMMA ViewsKeepBackups ==
    ASSUME Inv, OnViews
    PROVE  BackupsAreSound'
  <1>1. PICK s \in DOMAIN sheets, table \in SUBSET Views :
           WriteViews(s, table) /\ \A v \in table : v \in views \/ v.sheet = s
    BY DEF OnViews
  <1> SUFFICES ASSUME NEW b \in DOMAIN backups', NEW y, y = backups'[b] PROVE BackupIsSound(b, y)'
    BY DEF BackupsAreSound
  <1> PICK x : x = backups[b]
    OBVIOUS
  <1> PICK S : S = SheetsOf(b)
    OBVIOUS
  <1> PICK V : V = x.snapshot.views
    OBVIOUS
  <1>2. /\ views' = table /\ UNCHANGED <<books, sheets, rules, charts>> /\ DOMAIN backups' = DOMAIN backups
        /\ backups'[b] = IF b = sheets[s].book THEN [x EXCEPT !.since = @ \cup (table \ views)] ELSE x
    BY <1>1 DEF WriteViews
  <1>3. BackupIsSound(b, x)
    BY <1>2 DEF Inv, BackupsAreSound
  <1>4. /\ y = [snapshot |-> y.snapshot, of |-> y.of, seen |-> y.seen, since |-> y.since]
        /\ y.snapshot = x.snapshot /\ y.of = x.of /\ y.seen = x.seen
        /\ y.since = IF b = sheets[s].book THEN x.since \cup (table \ views) ELSE x.since
    <2>1. x = [snapshot |-> x.snapshot, of |-> x.of, seen |-> x.seen, since |-> x.since]
      BY <1>3 DEF BackupIsSound
    <2> QED  BY <1>2, <2>1
  <1>5. SheetsOf(b)' = S /\ Live(b)' = Live(b) /\ DocumentWith(b, V)' = DocumentWith(b, V)
    BY <1>2 DEF SheetsOf, Live, DocumentWith
  <1>6. On(table, S) \subseteq V \cup y.since
    <2>1. ASSUME NEW v \in table, v.sheet \in S PROVE v \in V \cup y.since
      <3>1. CASE v \in views
        <4>1. v \in V \cup x.since
          BY <1>3, <2>1, <3>1 DEF BackupIsSound, On
        <4> QED  BY <1>4, <4>1
      <3>2. CASE v \notin views
        <4>1. sheets[s].book = b
          BY <1>1, <2>1, <3>2 DEF SheetsOf
        <4> QED  BY <1>4, <3>2, <4>1
      <3> QED  BY <3>1, <3>2
    <2> QED  BY <2>1 DEF On
  <1>7. /\ x.of = x.snapshot /\ x.snapshot = DocumentWith(b, V) /\ V \subseteq Views /\ x.seen \subseteq Views
        /\ (\A v \in V : v.sheet \in S) /\ (\A v \in x.seen : v.sheet \in S) /\ Live(b)
    BY <1>3 DEF BackupIsSound
  <1> QED  BY <1>2, <1>4, <1>5, <1>6, <1>7 DEF BackupIsSound

\* TakeBackup, ReadFilterViews, Rollback.
LEMMA WithinKeepsInv ==
    ASSUME Inv, UNCHANGED done, Within
    PROVE  Inv' /\ SheetsStay
  <1>1. PICK b \in DOMAIN books : TakeBackup(b) \/ ReadFilterViews(b) \/ Rollback(b)
    BY DEF Within
  <1>2. UNCHANGED <<books, sheets, rules, charts, views, used, versions>>
    BY <1>1 DEF TakeBackup, ReadFilterViews, Rollback, parts
  <1>3. Core' /\ SheetsStay
    BY <1>2 DEF Inv, Core, TypeOK, BooksAreSound, PartsAreSound, VersionsAreSound, SheetsOf, SheetsStay
  <1>4. BackupsAreSound'
    <2> PICK V : V = On(views, SheetsOf(b))
      OBVIOUS
    <2>1. \A c, x : BackupIsSound(c, x)' = BackupIsSound(c, x)
      BY <1>2 DEF BackupIsSound, Live, DocumentWith, SheetsOf
    <2>2. V \subseteq Views /\ (\A v \in V : v.sheet \in SheetsOf(b))
          /\ buildSnapshot(b) = DocumentWith(b, V) /\ Document(b) = DocumentWith(b, V)
      BY SnapshotIs
    <2>3. CASE TakeBackup(b)
      <3> PICK d : d = DocumentWith(b, V)
        OBVIOUS
      <3> PICK x : x = [snapshot |-> d, of |-> d, seen |-> V, since |-> {}]
        OBVIOUS
      <3>1. backups' = Put(Row(b, x), backups) /\ Live(b)
        BY <2>2, <2>3 DEF TakeBackup, Locks
      <3>2. d.views = V
        BY DEF DocumentWith
      <3>3. BackupIsSound(b, x)
        BY <2>2, <3>1, <3>2 DEF BackupIsSound
      <3>4. /\ DOMAIN backups' = DOMAIN backups \cup {b}
            /\ \A c \in DOMAIN backups' : backups'[c] = IF c = b THEN x ELSE backups[c]
        BY <3>1 DEF Put, Row
      <3>5. ASSUME NEW c \in DOMAIN backups', NEW y, y = backups'[c] PROVE BackupIsSound(c, y)
        BY <3>3, <3>4, <3>5 DEF Inv, BackupsAreSound
      <3>6. ASSUME NEW c \in DOMAIN backups', NEW y, y = backups'[c] PROVE BackupIsSound(c, y)'
        BY <2>1, <3>5, <3>6
      <3> QED  BY <3>6 DEF BackupsAreSound
    <2>4. CASE ReadFilterViews(b)
      <3> PICK x : x = backups[b]
        OBVIOUS
      <3> PICK y : y = [x EXCEPT !.seen = V]
        OBVIOUS
      <3>1. BackupIsSound(b, x) /\ b \in DOMAIN backups
        BY <2>4 DEF ReadFilterViews, Free, Inv, BackupsAreSound
      <3>2. backups' = [backups EXCEPT ![b] = y]
        BY <2>4 DEF ReadFilterViews
      <3>3. /\ y = [snapshot |-> y.snapshot, of |-> y.of, seen |-> y.seen, since |-> y.since]
            /\ y.snapshot = x.snapshot /\ y.of = x.of /\ y.seen = V /\ y.since = x.since
        <4>1. x = [snapshot |-> x.snapshot, of |-> x.of, seen |-> x.seen, since |-> x.since]
          BY <3>1 DEF BackupIsSound
        <4> QED  BY <4>1
      <3>4. BackupIsSound(b, y)
        BY <2>2, <3>1, <3>3 DEF BackupIsSound
      <3>5. DOMAIN backups' = DOMAIN backups /\ \A c \in DOMAIN backups : backups'[c] = IF c = b THEN y ELSE backups[c]
        BY <3>1, <3>2
      <3>6. ASSUME NEW c \in DOMAIN backups', NEW z, z = backups'[c] PROVE BackupIsSound(c, z)
        BY <3>4, <3>5, <3>6 DEF Inv, BackupsAreSound
      <3>7. ASSUME NEW c \in DOMAIN backups', NEW z, z = backups'[c] PROVE BackupIsSound(c, z)'
        BY <2>1, <3>6, <3>7
      <3> QED  BY <3>7 DEF BackupsAreSound
    <2>5. CASE Rollback(b)
      <3>1. DOMAIN backups' \subseteq DOMAIN backups /\ \A c \in DOMAIN backups' : backups'[c] = backups[c]
        BY <2>5 DEF Rollback, Ended, Restrict
      <3> QED  BY <1>2, <3>1, BackupsLeft
    <2> QED  BY <1>1, <2>3, <2>4, <2>5
  <1> QED  BY <1>3, <1>4 DEF Inv

\* The operations that change sheets and what hangs on them keep the backups of others.
LEMMA DuplicateSheetKeepsBackups ==
    ASSUME Inv, Operation, NEW s \in DOMAIN sheets, NEW name \in Names, DuplicateSheet(s, name)
    PROVE  BackupsAreSound'
  <1> PICK b : b = sheets[s].book
    OBVIOUS
  <1> PICK x : x = used + 1
    OBVIOUS
  <1>1. Touches(b)
    BY DuplicateSheetKeepsInv
  <1>2. /\ UNCHANGED <<books, views, backups>> /\ Free(b)
        /\ rules' = rules \cup {[r EXCEPT !.sheet = x] :
                       r \in Reinserted({r \in On(rules, {s}) : r.kind \in Validations})}
        /\ charts' = charts \cup {[c EXCEPT !.sheet = x, !.source = IF @ = s THEN x ELSE @] :
                                      c \in On(charts, {s})}
        /\ sheets' = Put(Row(x, [sheets[s] EXCEPT !.name = name, !.position = @ + 1]),
                         Shifted(b, (sheets[s].position + 1)..MaxSheets, 1))
    BY DEF DuplicateSheet, Locks
  <1>3. x \in SheetsOf(b)'
    <2>1. x \in DOMAIN sheets' /\ sheets'[x] = [sheets[s] EXCEPT !.name = name, !.position = @ + 1]
      BY <1>2 DEF Put, Row
    <2>2. sheets[s] \in Sheets
      BY InvMeans
    <2>3. sheets'[x].book = b
      BY <2>1, <2>2 DEF Sheets
    <2> QED  BY <2>1, <2>3 DEF SheetsOf
  <1>4. rules \subseteq Rules /\ charts \subseteq Charts
    BY DEF Inv, Core, PartsAreSound
  <1>5. ASSUME NEW r \in rules', r \notin rules PROVE r.sheet = x
    <2>1. PICK o \in Reinserted({r0 \in On(rules, {s}) : r0.kind \in Validations}) : r = [o EXCEPT !.sheet = x]
      BY <1>2, <1>5
    <2>2. o \in Rules
      BY <1>4, ReinsertedIs DEF On
    <2> QED  BY <2>1, <2>2 DEF Rules
  <1>6. ASSUME NEW c \in charts', c \notin charts PROVE c.sheet = x
    <2>1. PICK o \in On(charts, {s}) : c = [o EXCEPT !.sheet = x, !.source = IF @ = s THEN x ELSE @]
      BY <1>2, <1>6
    <2>2. o \in Charts
      BY <1>4 DEF On
    <2> QED  BY <2>1, <2>2 DEF Charts
  <1> PICK Q : Q = SheetsOf(b) \cup SheetsOf(b)'
    OBVIOUS
  <1>7. KeepsOff(Q, rules, rules') /\ KeepsOff(Q, charts, charts') /\ KeepsOff(Q, views, views')
    BY <1>2, <1>3, <1>5, <1>6 DEF KeepsOff
  <1>8. Spares(b)
    BY <1>1, <1>2, <1>7 DEF Spares
  <1> QED  BY <1>2, <1>8, BackupsEnd DEF Ends

LEMMA DeleteSheetKeepsBackups ==
    ASSUME Inv, Operation, NEW s \in DOMAIN sheets, DeleteSheet(s)
    PROVE  BackupsAreSound'
  <1> PICK b : b = sheets[s].book
    OBVIOUS
  <1>1. Touches(b) /\ s \in SheetsOf(b)
    BY DeleteSheetKeepsInv DEF SheetsOf
  <1>2. /\ UNCHANGED books /\ Ends(b)
        /\ rules' = OffSheets(rules, {s}) /\ views' = OffSheets(views, {s})
        /\ charts' = DroppedSheet(s, Unsourced(s))
    BY DEF DeleteSheet, Saved, Ends
  <1> PICK Q : Q = SheetsOf(b) \cup SheetsOf(b)'
    OBVIOUS
  <1>3. KeepsOff(Q, rules, rules') /\ KeepsOff(Q, views, views')
    BY <1>1, <1>2 DEF KeepsOff, OffSheets
  <1>4. ASSUME NEW c \in charts, c.sheet \notin Q PROVE c.source # s /\ c \in charts'
    <2>1. c \in Charts /\ c.source # s /\ c.sheet # s
      <3>1. c \in Charts /\ c.sheet \in DOMAIN sheets /\ (c.source # Ref => sheets[c.source].book = sheets[c.sheet].book)
        BY DEF Inv, Core, PartsAreSound
      <3>2. s # Ref
        BY InvMeans DEF Ref
      <3>3. sheets[c.sheet].book # b /\ c.sheet # s
        BY <1>1, <1>4, <3>1 DEF SheetsOf
      <3> QED  BY <3>1, <3>2, <3>3
    <2>2. c \in OffSheets(Unsourced(s), {s})
      BY <2>1 DEF Unsourced, OffSheets
    <2>3. [c EXCEPT !.source = IF @ = s THEN Dangling ELSE @] = c
      BY <2>1 DEF Charts
    <2> QED  BY <1>2, <2>1, <2>2, <2>3 DEF DroppedSheet
  <1>5. ASSUME NEW d \in charts', d.sheet \notin Q PROVE d \in charts
    <2>1. PICK c \in charts : d.sheet = c.sheet /\ d = IF c.source = s THEN WithoutSource(c) ELSE c
      BY <1>2, DroppedChartsAre
    <2> QED  BY <1>4, <1>5, <2>1
  <1>6. KeepsOff(Q, charts, charts')
    BY <1>4, <1>5 DEF KeepsOff
  <1>7. Spares(b)
    BY <1>1, <1>2, <1>3, <1>6 DEF Spares
  <1> QED  BY <1>2, <1>7, BackupsEnd

LEMMA ChangeStructureKeepsBackups ==
    ASSUME Inv, Operation, NEW s \in DOMAIN sheets, NEW gone, NEW lost, NEW fitting, NEW left, NEW broken,
           ChangeStructure(s, gone, lost, fitting, left, broken)
    PROVE  BackupsAreSound'
  <1> PICK b : b = sheets[s].book
    OBVIOUS
  <1>1. Touches(b) /\ s \in SheetsOf(b)
    BY ChangeStructureKeepsInv DEF SheetsOf
  <1>2. ChangedParts(s)
    BY ChangedPartsAre
  <1>a. UNCHANGED books /\ Ends(b)
    BY DEF ChangeStructure, Saved, Ends
  <1> PICK Q : Q = SheetsOf(b) \cup SheetsOf(b)'
    OBVIOUS
  <1>3. KeepsOff(Q, rules, rules') /\ KeepsOff(Q, views, views')
    BY <1>1, <1>2 DEF KeepsOff, ChangedParts
  <1>4. \A c \in charts : c.source = s => c.sheet \in Q
    BY <1>1, InvMeans DEF Inv, Core, PartsAreSound, SheetsOf, Ref
  <1>5. KeepsOff(Q, charts, charts')
    BY <1>2, <1>4 DEF KeepsOff, ChangedParts
  <1>6. Spares(b)
    BY <1>1, <1>3, <1>5, <1>a DEF Spares
  <1> QED  BY <1>6, <1>a, BackupsEnd

LEMMA RestoreVersionKeepsBackups ==
    ASSUME Inv, Operation, NEW i \in DOMAIN versions, RestoreVersion(i)
    PROVE  BackupsAreSound'
  <1> PICK v : v = versions[i]
    OBVIOUS
  <1> PICK b : b = v.book
    OBVIOUS
  <1> PICK own : own = SheetsOf(b)
    OBVIOUS
  <1> PICK D : D = DOMAIN v.snapshot.sheets
    OBVIOUS
  <1>1. Touches(b) /\ SheetsOf(b)' = D
    BY RestoreVersionKeepsInv
  <1>2. /\ Ends(b)
        /\ rules' = OffSheets(rules, own) \cup KeptRules(b, v) \cup Reinserted(v.snapshot.rules)
        /\ charts' = OffSheets(charts, own) \cup v.snapshot.charts
        /\ views' = OffSheets(views, own) \cup RestoredViews(b, v)
    BY DEF RestoreVersion, Saved, Ends
  <1>3. \A c \in DOMAIN books \ {b} : c \in DOMAIN books' /\ books'[c] = books[c]
    BY DEF RestoreVersion
  <1>4. VersionIsSound(v, used)
    BY InvMeans
  <1>5. /\ \A r \in Reinserted(v.snapshot.rules) : r.sheet \in D
        /\ \A c \in v.snapshot.charts : c.sheet \in D
        /\ \A w \in v.snapshot.views : w.sheet \in D
    BY <1>4, ReinsertedIs DEF VersionIsSound
  <1>6. /\ \A r \in KeptRules(b, v) : r.sheet \in D
        /\ \A w \in RestoredViews(b, v) : w.sheet \in D
    BY <1>5 DEF KeptRules, RestoredViews, On
  <1> PICK Q : Q = own \cup D
    OBVIOUS
  <1>7. KeepsOff(Q, rules, rules') /\ KeepsOff(Q, charts, charts') /\ KeepsOff(Q, views, views')
    BY <1>2, <1>5, <1>6 DEF KeepsOff, OffSheets
  <1>8. Spares(b)
    BY <1>1, <1>3, <1>7 DEF Spares
  <1> QED  BY <1>2, <1>8, BackupsEnd

LEMMA CreateWorkbookKeepsBackups ==
    ASSUME Inv, Operation, NEW title \in Titles, NEW name \in Names, CreateWorkbook(title, name)
    PROVE  BackupsAreSound'
  <1>1. PICK b \in BookIds : b \notin DOMAIN books /\ Touches(b)
    BY CreateWorkbookKeepsInv
  <1>2. Free(b)
    BY <1>1, LiveOnly DEF Live
  <1> PICK new : new = Cardinality(DOMAIN books) + 1
    OBVIOUS
  <1>3. /\ UNCHANGED <<rules, charts, views, backups>> /\ new \notin DOMAIN books
        /\ books' = NewBook(new, title)
    BY DEF CreateWorkbook, parts
  <1>4. \A c \in DOMAIN books : c \in DOMAIN books' /\ books'[c] = books[c]
    BY <1>3 DEF NewBook, Put, Row
  <1>5. Spares(b)
    BY <1>1, <1>3, <1>4, NothingHangs
  <1> QED  BY <1>2, <1>3, <1>5, BackupsEnd DEF Ends

LEMMA PurgeWorkbookKeepsBackups ==
    ASSUME Inv, Operation, NEW b \in DOMAIN books, PurgeWorkbook(b)
    PROVE  BackupsAreSound'
  <1>1. Touches(b) /\ Free(b)
    BY PurgeWorkbookKeepsInv, LiveOnly DEF PurgeWorkbook, Live
  <1>2. /\ books' = Restrict(books, DOMAIN books \ {b}) /\ UNCHANGED backups
        /\ rules' = OffSheets(rules, SheetsOf(b)) /\ charts' = OffSheets(charts, SheetsOf(b))
        /\ views' = OffSheets(views, SheetsOf(b))
    BY DEF PurgeWorkbook
  <1>3. \A c \in DOMAIN books \ {b} : c \in DOMAIN books' /\ books'[c] = books[c]
    BY <1>2 DEF Restrict
  <1> PICK Q : Q = SheetsOf(b) \cup SheetsOf(b)'
    OBVIOUS
  <1>4. KeepsOff(Q, rules, rules') /\ KeepsOff(Q, charts, charts') /\ KeepsOff(Q, views, views')
    BY <1>2 DEF KeepsOff, OffSheets
  <1>5. Spares(b)
    BY <1>1, <1>3, <1>4 DEF Spares
  <1> QED  BY <1>1, <1>2, <1>5, BackupsEnd DEF Ends

LEMMA DuplicateWorkbookKeepsBackups ==
    ASSUME Inv, Operation, NEW b \in DOMAIN books, NEW title \in Titles, NEW owner \in Actors,
           DuplicateWorkbook(b, title, owner)
    PROVE  BackupsAreSound'
  <1> PICK ids : ids = CopiedIds(b)
    OBVIOUS
  <1>1. PICK copy \in BookIds :
           /\ copy \notin DOMAIN books /\ Touches(copy)
           /\ \A p \in CopiedRules(ids) \cup CopiedCharts(ids) \cup CopiedViews(ids, owner) : p.sheet \in SheetsOf(copy)'
    BY DuplicateWorkbookKeepsInv
  <1>2. Free(copy)
    BY <1>1, LiveOnly DEF Live
  <1> PICK new : new = Cardinality(DOMAIN books) + 1
    OBVIOUS
  <1>3. /\ UNCHANGED backups /\ new \notin DOMAIN books /\ books' = NewBook(new, title)
        /\ rules' = rules \cup CopiedRules(ids) /\ charts' = charts \cup CopiedCharts(ids)
        /\ views' = views \cup CopiedViews(ids, owner)
    BY DEF DuplicateWorkbook
  <1>4. \A c \in DOMAIN books : c \in DOMAIN books' /\ books'[c] = books[c]
    BY <1>3 DEF NewBook, Put, Row
  <1> PICK Q : Q = SheetsOf(copy) \cup SheetsOf(copy)'
    OBVIOUS
  <1>5. KeepsOff(Q, rules, rules') /\ KeepsOff(Q, charts, charts') /\ KeepsOff(Q, views, views')
    BY <1>1, <1>3 DEF KeepsOff
  <1>6. Spares(copy)
    BY <1>1, <1>4, <1>5 DEF Spares
  <1> QED  BY <1>2, <1>3, <1>6, BackupsEnd DEF Ends

-----------------------------------------------------------------------------
(***************************************************************************)
(* The specification                                                       *)
(***************************************************************************)

\* A workbook of one sheet, as it is created.
LEMMA FirstWorkbook ==
    ASSUME NEW name \in Names, NEW row, row = FirstSheet(1, name), NEW T, T = Row(1, row)
    PROVE  /\ DOMAIN T = {1} /\ T[1] = row /\ T \in [{1} -> Sheets] /\ row \in Sheets /\ row.book = 1
           /\ IsWorkbook(T, {1}, 1)
  <1>1. 1 \in BookIds
    BY BoundsAssumption DEF BookIds
  <1>2. PICK f : f = NoFormula
    OBVIOUS
  <1>3. f \in Formulas /\ f.meant = 0
    BY <1>2 DEF NoFormula, Formulas, NoSheet
  <1>4. row \in Sheets /\ row.book = 1 /\ row.position = 0 /\ row.formula.meant = 0
    BY <1>1, <1>2, <1>3 DEF FirstSheet, Sheets
  <1>5. DOMAIN T = {1} /\ T[1] = row /\ T \in [{1} -> Sheets]
    BY <1>4 DEF Row
  <1>6. Numbered(T, {1}) /\ Named(T, {1})
    BY <1>4, <1>5 DEF Numbered, Named
  <1>7. Linked(T, {1})
    BY <1>4, <1>5 DEF Linked
  <1> QED  BY <1>4, <1>5, <1>6, <1>7 DEF IsWorkbook

\* The invariant holds at first.
LEMMA InitInv == Init => Inv
  <1> SUFFICES ASSUME NEW title \in Titles, NEW name \in Names, NEW first, first = Row(1, FirstSheet(1, name)),
                      NEW d, d = [title |-> title, sheets |-> first, rules |-> {}, charts |-> {}, views |-> {}],
                      books = Row(1, [title |-> title, live |-> TRUE]), sheets = first,
                      rules = {}, charts = {}, views = {}, used = 1, done = 0,
                      backups = [b \in {} |-> d],
                      \/ versions = [i \in {} |-> d]
                      \/ \E old \in OldSchemas :
                            versions = Row(1, [book |-> 1, schema |-> old, snapshot |-> d, of |-> d])
               PROVE  Inv
    BY DEF Init
  <1>1. /\ DOMAIN first = {1} /\ first \in [{1} -> Sheets] /\ first[1] \in Sheets /\ first[1].book = 1
        /\ IsWorkbook(first, {1}, 1)
    BY FirstWorkbook
  <1>2. /\ DOMAIN books = {1} /\ books \in [{1} -> [title : Titles, live : BOOLEAN]]
        /\ books[1] \in [title : Titles, live : BOOLEAN]
    <2>1. PICK entry : entry = [title |-> title, live |-> TRUE]
      OBVIOUS
    <2>2. entry \in [title : Titles, live : BOOLEAN]
      BY <2>1
    <2>3. books = Row(1, entry)
      BY <2>1
    <2> QED  BY <2>2, <2>3 DEF Row
  <1>3. 1 \in SheetIds /\ 1 \in BookIds /\ 0 \in 0..MaxOperations /\ 1 \in 1..MaxVersions
    BY BoundsAssumption DEF SheetIds, BookIds
  <1>4. SheetsOf(1) = {1}
    BY <1>1 DEF SheetsOf
  <1>5. BooksAreSound
    BY <1>1, <1>2, <1>4 DEF BooksAreSound
  <1>6. PartsAreSound
    BY DEF PartsAreSound
  <1>7. VersionsAreSound /\ \A i \in DOMAIN versions : versions[i].book = 1
    <2>1. CASE versions = [i \in {} |-> d]
      BY <2>1 DEF VersionsAreSound, Homes
    <2>2. ASSUME NEW old \in OldSchemas,
                 versions = Row(1, [book |-> 1, schema |-> old, snapshot |-> d, of |-> d])
          PROVE  VersionsAreSound /\ \A i \in DOMAIN versions : versions[i].book = 1
      <3>1. PICK v : v = [book |-> 1, schema |-> old, snapshot |-> d, of |-> d]
        OBVIOUS
      <3>2. DOMAIN versions = {1} /\ versions[1] = v
        BY <2>2, <3>1 DEF Row
      <3>3. v.book = 1 /\ v.schema = old /\ v.snapshot = d /\ v.of = d /\ old \in 2..8
        BY <3>1, SchemasAssumption
      <3>4. d.title = title /\ d.sheets = first /\ d.rules = {} /\ d.charts = {} /\ d.views = {}
        OBVIOUS
      <3>5. VersionIsSound(v, 1)
        BY <1>1, <3>3, <3>4 DEF VersionIsSound
      <3>6. Homes(versions, sheets)
        BY <1>1, <3>2, <3>3, <3>4 DEF Homes
      <3> QED  BY <1>3, <3>2, <3>3, <3>5, <3>6 DEF VersionsAreSound
    <2> QED  BY <2>1, <2>2
  <1>8. TypeOK
    <2>1. DOMAIN books \subseteq BookIds /\ \A b \in DOMAIN books : books[b] \in [title : Titles, live : BOOLEAN]
      BY <1>2, <1>3
    <2>2. DOMAIN sheets \subseteq 1..used /\ used \in SheetIds /\ done \in 0..MaxOperations
      BY <1>1, <1>3
    <2>3. \A s \in DOMAIN sheets : sheets[s] \in Sheets /\ sheets[s].book \in DOMAIN books
      BY <1>1, <1>2
    <2>4. /\ rules \subseteq Rules /\ charts \subseteq Charts /\ views \subseteq Views
          /\ \A p \in rules \cup charts \cup views : p.sheet \in DOMAIN sheets
      OBVIOUS
    <2>5. \A i \in DOMAIN versions : versions[i].book \in DOMAIN books
      BY <1>2, <1>7
    <2> QED  BY <2>1, <2>2, <2>3, <2>4, <2>5 DEF TypeOK
  <1>9. BackupsAreSound
    BY DEF BackupsAreSound
  <1> QED  BY <1>5, <1>6, <1>7, <1>8, <1>9 DEF Inv, Core

\* What a sheet is the subject of keeps the invariant,
LEMMA OnSheetsKeepsInv ==
    ASSUME Inv, Operation, OnSheets
    PROVE  Inv'
  <1>1. PICK s \in DOMAIN sheets :
          \/ \E name \in Names : DuplicateSheet(s, name)
          \/ \E b \in DOMAIN books, name \in Names : CopySheetToWorkbook(s, b, name)
          \/ \E name \in Names, position \in 0..(MaxSheets - 1), hidden \in BOOLEAN :
                  UpdateSheet(s, name, position, hidden)
          \/ DeleteSheet(s)
          \/ \E gone, lost, fitting, left, broken : ChangeStructure(s, gone, lost, fitting, left, broken)
          \/ \E formula \in Formulas : WriteFormula(s, formula)
          \/ \E kind \in Kinds : CreateRule(s, kind)
          \/ \E source \in DOMAIN sheets : CreateChart(s, source)
          \/ \E owner \in Actors, active \in BOOLEAN : CreateFilterView(s, owner, active)
    BY DEF OnSheets
  <1>2. ASSUME NEW name \in Names, DuplicateSheet(s, name) PROVE Inv'
    BY <1>2, DuplicateSheetKeepsInv, DuplicateSheetKeepsBackups DEF Inv
  <1>3. ASSUME NEW b \in DOMAIN books, NEW name \in Names, CopySheetToWorkbook(s, b, name) PROVE Inv'
    <2>1. Core' /\ Touches(b)
      BY <1>3, CopySheetKeepsInv
    <2>2. Locks(b) /\ UNCHANGED <<books, rules, charts, views, backups>>
      BY <1>3 DEF CopySheetToWorkbook, parts
    <2> QED  BY <2>1, <2>2, TabsKeepBackups DEF Inv
  <1>4. ASSUME NEW name \in Names, NEW position \in 0..(MaxSheets - 1), NEW hidden \in BOOLEAN,
               UpdateSheet(s, name, position, hidden)
        PROVE  Inv'
    <2>1. position \in Nat
      BY BoundsAssumption
    <2>2. Core' /\ Touches(sheets[s].book)
      BY <1>4, <2>1, UpdateSheetKeepsInv
    <2>3. Locks(sheets[s].book) /\ UNCHANGED <<books, rules, charts, views, backups>>
      BY <1>4 DEF UpdateSheet, parts
    <2> QED  BY <2>2, <2>3, TabsKeepBackups DEF Inv
  <1>5. CASE DeleteSheet(s)
    BY <1>5, DeleteSheetKeepsInv, DeleteSheetKeepsBackups DEF Inv
  <1>6. ASSUME NEW gone, NEW lost, NEW fitting, NEW left, NEW broken,
               ChangeStructure(s, gone, lost, fitting, left, broken)
        PROVE  Inv'
    BY <1>6, ChangeStructureKeepsInv, ChangeStructureKeepsBackups DEF Inv
  <1>7. ASSUME NEW formula \in Formulas, WriteFormula(s, formula) PROVE Inv'
    <2>1. Core' /\ Touches(sheets[s].book)
      BY <1>7, WriteFormulaKeepsInv
    <2>2. Locks(sheets[s].book) /\ UNCHANGED <<books, rules, charts, views, backups>>
      BY <1>7 DEF WriteFormula, parts
    <2> QED  BY <2>1, <2>2, TabsKeepBackups DEF Inv
  <1>8. ASSUME \/ \E kind \in Kinds : CreateRule(s, kind)
               \/ \E source \in DOMAIN sheets : CreateChart(s, source)
        PROVE  Inv'
    <2>1. OnParts
      BY <1>8 DEF OnParts
    <2> QED  BY <2>1, PartsKeepInv, PartsKeepBackups DEF Inv
  <1>9. ASSUME NEW owner \in Actors, NEW active \in BOOLEAN, CreateFilterView(s, owner, active) PROVE Inv'
    <2>1. OnViews
      BY <1>9, ViewsAreOn
    <2> QED  BY <2>1, PartsKeepInv, ViewsKeepBackups DEF Inv
  <1> QED  BY <1>1, <1>2, <1>3, <1>4, <1>5, <1>6, <1>7, <1>8, <1>9

\* and so does what a workbook is.
LEMMA OnBooksKeepsInv ==
    ASSUME Inv, Operation, NEW b \in DOMAIN books,
           \/ \E title \in Titles : UpdateWorkbook(b, title)
           \/ DeleteWorkbook(b) \/ RestoreWorkbook(b) \/ PurgeWorkbook(b)
           \/ \E title \in Titles, owner \in Actors : DuplicateWorkbook(b, title, owner)
           \/ \E name \in Names : CreateSheet(b, name)
           \/ CreateVersion(b)
    PROVE  Inv'
  <1>1. CASE (\E title \in Titles : UpdateWorkbook(b, title)) \/ DeleteWorkbook(b) \/ RestoreWorkbook(b)
    BY <1>1, BookRowKeepsInv, BookRowKeepsBackups DEF Inv
  <1>2. CASE PurgeWorkbook(b)
    BY <1>2, PurgeWorkbookKeepsInv, PurgeWorkbookKeepsBackups DEF Inv
  <1>3. ASSUME NEW title \in Titles, NEW owner \in Actors, DuplicateWorkbook(b, title, owner) PROVE Inv'
    <2>1. Core'
      BY <1>3, DuplicateWorkbookKeepsInv
    <2>2. BackupsAreSound'
      BY <1>3, DuplicateWorkbookKeepsBackups
    <2> QED  BY <2>1, <2>2 DEF Inv
  <1>4. ASSUME NEW name \in Names, CreateSheet(b, name) PROVE Inv'
    <2>1. Core' /\ Touches(b)
      BY <1>4, CreateSheetKeepsInv
    <2>2. Locks(b) /\ UNCHANGED <<books, rules, charts, views, backups>>
      BY <1>4 DEF CreateSheet, parts
    <2> QED  BY <2>1, <2>2, TabsKeepBackups DEF Inv
  <1>5. CASE CreateVersion(b)
    <2>1. UNCHANGED <<books, sheets, rules, charts, views, backups>>
      BY <1>5 DEF CreateVersion, parts
    <2>2. BackupsAreSound'
      BY <2>1, BackupsLeft
    <2> QED  BY <1>5, <2>2, CreateVersionKeepsInv DEF Inv
  <1> QED  BY <1>1, <1>2, <1>3, <1>4, <1>5

\* Every operation keeps the invariant.
LEMMA NextInv == Inv /\ [Next]_vars => Inv'
  <1> SUFFICES ASSUME Inv, [Next]_vars PROVE Inv'
    OBVIOUS
  <1>1. CASE UNCHANGED vars
    <2>1. Core'
      BY <1>1 DEF vars, Inv, Core, TypeOK, BooksAreSound, PartsAreSound, VersionsAreSound, SheetsOf
    <2>2. UNCHANGED <<books, sheets, rules, charts, views, backups>>
      BY <1>1 DEF vars
    <2>3. BackupsAreSound'
      BY <2>2, BackupsLeft
    <2> QED  BY <2>1, <2>3 DEF Inv
  <1>2. CASE Operation /\ OnSheets
    BY <1>2, OnSheetsKeepsInv
  <1>3. ASSUME Operation, NEW b \in DOMAIN books,
               \/ \E title \in Titles : UpdateWorkbook(b, title)
               \/ DeleteWorkbook(b) \/ RestoreWorkbook(b) \/ PurgeWorkbook(b)
               \/ \E title \in Titles, owner \in Actors : DuplicateWorkbook(b, title, owner)
               \/ \E name \in Names : CreateSheet(b, name)
               \/ CreateVersion(b)
        PROVE  Inv'
    BY <1>3, OnBooksKeepsInv
  <1>4. ASSUME Operation, NEW title \in Titles, NEW name \in Names, CreateWorkbook(title, name) PROVE Inv'
    BY <1>4, CreateWorkbookKeepsInv, CreateWorkbookKeepsBackups DEF Inv
  <1>5. ASSUME Operation, NEW i \in DOMAIN versions, RestoreVersion(i) PROVE Inv'
    <2>1. Core'
      BY <1>5, RestoreVersionKeepsInv
    <2> QED  BY <1>5, <2>1, RestoreVersionKeepsBackups DEF Inv
  <1>6. ASSUME Operation,
               \/ \E rule \in rules : DeleteRule(rule) \/ \E kind \in Kinds : UpdateDataValidation(rule, kind)
               \/ \E chart \in charts, s, source \in DOMAIN sheets : UpdateChart(chart, s, source)
               \/ \E chart \in charts : DeleteChart(chart)
        PROVE  Inv'
    <2>1. OnParts
      BY <1>6 DEF OnParts
    <2> QED  BY <1>6, <2>1, PartsKeepInv, PartsKeepBackups DEF Inv
  <1>7. ASSUME Operation,
               \E view \in views : DeleteFilterView(view) \/ \E active \in BOOLEAN : UpdateFilterView(view, active)
        PROVE  Inv'
    <2>1. OnViews
      BY <1>7, ViewsAreOn
    <2> QED  BY <1>7, <2>1, PartsKeepInv, ViewsKeepBackups DEF Inv
  <1>8. CASE UNCHANGED done /\ Within
    BY <1>8, WithinKeepsInv
  <1> QED  BY <1>1, <1>2, <1>3, <1>4, <1>5, <1>6, <1>7, <1>8 DEF Next, Operations

\* Spec => []Inv: the inductive invariant holds in every reachable state.
LEMMA InvAlways == Spec => []Inv
  BY InitInv, NextInv, PTL DEF Spec

\* Spec => []TypeOK: the tables hold what the migrations admit, and no reference to a row that is
\* gone: no operation of postgres_repository.go and postgres_management.go leaves one behind.
THEOREM TypeCorrect == Spec => []TypeOK
  <1>1. Inv => TypeOK
    BY DEF Inv, Core
  <1> QED  BY <1>1, InvAlways, PTL

\* The tabs of a workbook are numbered 0, 1, ... without a gap or a double after any sequence of
\* moving, copying, deleting and restoring (UpdateSheet, DuplicateSheet, DeleteSheet, RestoreVersion).
THEOREM TabsAreInOrder == Spec => []SheetsAreInOrder
  <1>1. Inv => SheetsAreInOrder
    <2> SUFFICES ASSUME Inv, NEW b \in DOMAIN books
                 PROVE  {sheets[s].position : s \in SheetsOf(b)} = 0..(Cardinality(SheetsOf(b)) - 1)
      BY DEF SheetsAreInOrder
    <2>1. PICK S : S = SheetsOf(b)
      OBVIOUS
    <2>2. used \in Nat /\ IsWorkbook(sheets, S, used) /\ \A s \in S : sheets[s] \in Sheets
      BY <2>1, InvMeans DEF SheetsOf
    <2>3. S \subseteq 1..used /\ Numbered(sheets, S)
      BY <2>2 DEF IsWorkbook
    <2>4. IsFiniteSet(S) /\ \A s \in S : sheets[s].position \in Nat
      BY <2>2, <2>3, IdsAreFinite, RowIs
    <2>5. {sheets[s].position : s \in S} = 0..(Cardinality(S) - 1)
      BY <2>3, <2>4, NumberedIs
    <2> QED  BY <2>1, <2>5
  <1> QED  BY <1>1, InvAlways, PTL

\* RestoreVersion refuses a stored version for what it holds alone (a list inserted without its
\* range, a source grown too large), whatever happened to the workbook since: every snapshot
\* holds a sheet, and everything in it hangs on and draws from its own sheets.
THEOREM VersionsAreRestorable == Spec => []EveryVersionIsRestorable
  <1>1. Inv => EveryVersionIsRestorable
    <2> SUFFICES ASSUME Inv, NEW i \in DOMAIN versions, Normal(versions[i].snapshot)
                 PROVE  Restorable(versions[i])
      BY DEF EveryVersionIsRestorable
    <2>1. VersionIsSound(versions[i], used) /\ Homes(versions, sheets)
      BY InvMeans DEF Inv, Core, VersionsAreSound
    <2>2. DOMAIN versions[i].snapshot.sheets # {}
      BY <2>1 DEF VersionIsSound, IsWorkbook
    <2>3. \A s \in DOMAIN versions[i].snapshot.sheets \cap DOMAIN sheets : sheets[s].book = versions[i].book
      BY <2>1 DEF Homes
    <2> QED  BY <2>1, <2>2, <2>3 DEF Restorable, VersionIsSound
  <1> QED  BY <1>1, InvAlways, PTL

\* A formula goes on naming the sheet it was written for (RenameSheetReferences in UpdateSheet,
\* the copies, RestoreVersion).
THEOREM FormulasFollow == Spec => []FormulasFollowTheirSheet
  <1>1. Inv => FormulasFollowTheirSheet
    <2> SUFFICES ASSUME Inv, NEW s \in DOMAIN sheets, sheets[s].formula.meant \in DOMAIN sheets,
                        sheets[sheets[s].formula.meant].book = sheets[s].book
                 PROVE  sheets[sheets[s].formula.meant].name = sheets[s].formula.names
      BY DEF FormulasFollowTheirSheet
    <2>1. PICK b : b = sheets[s].book
      OBVIOUS
    <2>2. b \in DOMAIN books /\ IsWorkbook(sheets, SheetsOf(b), used)
      BY <2>1, InvMeans
    <2>3. s \in SheetsOf(b) /\ sheets[s].formula.meant \in SheetsOf(b)
      BY <2>1 DEF SheetsOf
    <2> QED  BY <2>2, <2>3 DEF IsWorkbook, Linked
  <1> QED  BY <1>1, InvAlways, PTL

\* Sheets leave a workbook only when one is deleted, a version restored or the workbook purged.
LEMMA SheetsLeave ==
    ASSUME Inv, [Next]_vars
    PROVE  \/ SheetsStay
           \/ \E s \in DOMAIN sheets : DeleteSheet(s)
           \/ \E i \in DOMAIN versions : RestoreVersion(i)
           \/ \E b \in DOMAIN books : PurgeWorkbook(b)
  <1>1. CASE UNCHANGED vars
    BY <1>1 DEF vars, SheetsStay
  <1>2. ASSUME UNCHANGED sheets PROVE SheetsStay
    BY <1>2 DEF SheetsStay
  <1>3. ASSUME Operation, OnSheets PROVE SheetsStay \/ \E s \in DOMAIN sheets : DeleteSheet(s)
    <2>1. PICK s \in DOMAIN sheets :
            \/ \E name \in Names : DuplicateSheet(s, name)
            \/ \E b \in DOMAIN books, name \in Names : CopySheetToWorkbook(s, b, name)
            \/ \E name \in Names, position \in 0..(MaxSheets - 1), hidden \in BOOLEAN :
                    UpdateSheet(s, name, position, hidden)
            \/ DeleteSheet(s)
            \/ \E gone, lost, fitting, left, broken : ChangeStructure(s, gone, lost, fitting, left, broken)
            \/ \E formula \in Formulas : WriteFormula(s, formula)
            \/ \E kind \in Kinds : CreateRule(s, kind)
            \/ \E source \in DOMAIN sheets : CreateChart(s, source)
            \/ \E owner \in Actors, active \in BOOLEAN : CreateFilterView(s, owner, active)
      BY <1>3 DEF OnSheets
    <2>2. CASE \E name \in Names : DuplicateSheet(s, name)
      BY <1>3, <2>2, DuplicateSheetKeepsInv
    <2>3. CASE \E b \in DOMAIN books, name \in Names : CopySheetToWorkbook(s, b, name)
      BY <1>3, <2>3, CopySheetKeepsInv
    <2>4. ASSUME NEW name \in Names, NEW position \in 0..(MaxSheets - 1), NEW hidden \in BOOLEAN,
                 UpdateSheet(s, name, position, hidden)
          PROVE  SheetsStay
      <3>1. position \in Nat
        BY BoundsAssumption
      <3> QED  BY <1>3, <2>4, <3>1, UpdateSheetKeepsInv
    <2>5. CASE \E gone, lost, fitting, left, broken : ChangeStructure(s, gone, lost, fitting, left, broken)
      BY <1>3, <2>5, ChangeStructureKeepsInv
    <2>6. CASE \E formula \in Formulas : WriteFormula(s, formula)
      BY <1>3, <2>6, WriteFormulaKeepsInv
    <2>7. CASE \/ \E kind \in Kinds : CreateRule(s, kind)
               \/ \E source \in DOMAIN sheets : CreateChart(s, source)
               \/ \E owner \in Actors, active \in BOOLEAN : CreateFilterView(s, owner, active)
      BY <1>2, <2>7 DEF CreateRule, CreateChart, CreateFilterView, WriteViews
    <2> QED  BY <2>1, <2>2, <2>3, <2>4, <2>5, <2>6, <2>7
  <1>4. ASSUME Operation, NEW b \in DOMAIN books,
               \/ \E title \in Titles : UpdateWorkbook(b, title)
               \/ DeleteWorkbook(b) \/ RestoreWorkbook(b)
               \/ \E title \in Titles, owner \in Actors : DuplicateWorkbook(b, title, owner)
               \/ \E name \in Names : CreateSheet(b, name)
               \/ CreateVersion(b)
        PROVE  SheetsStay
    <2>1. CASE (\E title \in Titles : UpdateWorkbook(b, title)) \/ DeleteWorkbook(b) \/ RestoreWorkbook(b)
               \/ CreateVersion(b)
      BY <1>2, <2>1 DEF UpdateWorkbook, DeleteWorkbook, RestoreWorkbook, CreateVersion
    <2> QED  BY <1>4, <2>1, DuplicateWorkbookKeepsInv, CreateSheetKeepsInv
  <1>5. ASSUME Operation, \E title \in Titles, name \in Names : CreateWorkbook(title, name) PROVE SheetsStay
    BY <1>5, CreateWorkbookKeepsInv
  <1>6. ASSUME \/ \E rule \in rules : DeleteRule(rule) \/ \E kind \in Kinds : UpdateDataValidation(rule, kind)
               \/ \E chart \in charts, s, source \in DOMAIN sheets : UpdateChart(chart, s, source)
               \/ \E chart \in charts : DeleteChart(chart)
               \/ \E view \in views :
                     DeleteFilterView(view) \/ \E active \in BOOLEAN : UpdateFilterView(view, active)
        PROVE  SheetsStay
    BY <1>2, <1>6 DEF DeleteRule, UpdateDataValidation, UpdateChart, DeleteChart, DeleteFilterView,
       UpdateFilterView, WriteViews
  <1>7. CASE UNCHANGED done /\ Within
    BY <1>7, WithinKeepsInv
  <1> QED  BY <1>1, <1>3, <1>4, <1>5, <1>6, <1>7 DEF Next, Operations

\* A new version of the workbook holds the document, but for filter views written since it
\* was taken.
BackedUp(b) ==
    \E i \in DOMAIN versions' \ DOMAIN versions :
        LET backup == versions'[i].snapshot
        IN  /\ versions'[i].book = b /\ b \in DOMAIN backups
            /\ backup = [Document(b) EXCEPT !.views = backup.views]
            /\ Document(b).views \subseteq backup.views \cup backups[b].since

\* Saved stores such a version.
LEMMA StoredDocument ==
    ASSUME Inv, NEW b, Saved(b)
    PROVE  BackedUp(b) /\ \A i \in DOMAIN versions : i \in DOMAIN versions' /\ versions'[i] = versions[i]
  <1> PICK x : x = backups[b]
    OBVIOUS
  <1> PICK d : d = x.snapshot
    OBVIOUS
  <1> PICK e : e = x.of
    OBVIOUS
  <1>1. b \in DOMAIN backups /\ ~ Free(b) /\ insertSnapshot(b, d, e) /\ DOMAIN versions \subseteq 1..MaxVersions
    BY DEF Saved, Free, insertSnapshot, Inv, Core, VersionsAreSound
  <1>2. PICK i \in 1..MaxVersions :
             /\ i \notin DOMAIN versions /\ DOMAIN versions' = DOMAIN versions \cup {i}
             /\ versions'[i] = [book |-> b, schema |-> CurrentSchema, snapshot |-> d, of |-> e]
             /\ \A j \in DOMAIN versions : versions'[j] = versions[j]
    BY <1>1, InsertedIs
  <1> PICK V : V = On(views, SheetsOf(b))
    OBVIOUS
  <1>3. b \in DOMAIN books /\ d = DocumentWith(b, d.views) /\ V \subseteq d.views \cup x.since
    BY <1>1, BackupIs DEF BackupIsSound
  <1>4. Document(b) = DocumentWith(b, V)
    BY <1>3, SnapshotIs
  <1>5. Document(b).views = V /\ [Document(b) EXCEPT !.views = d.views] = DocumentWith(b, d.views)
    BY <1>4 DEF DocumentWith
  <1>6. versions'[i].book = b /\ versions'[i].snapshot = d
    BY <1>2
  <1> QED  BY <1>1, <1>2, <1>3, <1>5, <1>6 DEF BackedUp

\* Whenever a sheet leaves a workbook that goes on, a new version holds the document as it was
\* (the snapshot DeleteSheet and RestoreVersion take first), but for filter views that were
\* written between the snapshot and the change.
THEOREM DeletionsAreBackedUp == Spec => DeletionIsBackedUp
  <1>1. ASSUME Inv, [Next]_vars, NEW b \in DOMAIN books \cap DOMAIN books'
        PROVE  SheetsOf(b) \subseteq SheetsOf(b)' \/ BackedUp(b)
    <2>1. CASE SheetsStay
      BY <2>1 DEF SheetsStay, SheetsOf
    <2>2. ASSUME NEW s \in DOMAIN sheets, DeleteSheet(s)
          PROVE  SheetsOf(b) \subseteq SheetsOf(b)' \/ BackedUp(b)
      <3>2. CASE b = sheets[s].book
        <4>1. Saved(b)
          BY <2>2, <3>2 DEF DeleteSheet
        <4> QED  BY <1>1, <4>1, StoredDocument
      <3>3. CASE b # sheets[s].book
        <4>1. \A t \in DOMAIN sheets \ {s} : t \in DOMAIN sheets' /\ sheets'[t].book = sheets[t].book
          <5> PICK M : M = Shifted(sheets[s].book, (sheets[s].position + 1)..MaxSheets, -1)
            OBVIOUS
          <5>1. sheets' = Restrict(M, DOMAIN sheets \ {s})
            BY <2>2 DEF DeleteSheet
          <5>2. \A t \in DOMAIN sheets : M[t].book = sheets[t].book
            <6>1. \A t \in DOMAIN sheets : sheets[t] \in Sheets
              BY <1>1, InvMeans
            <6> QED  BY <6>1 DEF Shifted, Sheets
          <5> QED  BY <5>1, <5>2 DEF Restrict
        <4> QED  BY <3>3, <4>1 DEF SheetsOf
      <3> QED  BY <3>2, <3>3
    <2>3. ASSUME NEW j \in DOMAIN versions, RestoreVersion(j)
          PROVE  SheetsOf(b) \subseteq SheetsOf(b)' \/ BackedUp(b)
      <3>a. PICK c : c = versions[j].book
        OBVIOUS
      <3>b. PICK others : others = DOMAIN sheets \ SheetsOf(c)
        OBVIOUS
      <3>c. PICK T : T = versions[j].snapshot.sheets
        OBVIOUS
      <3>2. CASE b = c
        <4>1. Saved(b)
          BY <2>3, <3>2, <3>a DEF RestoreVersion
        <4> QED  BY <1>1, <4>1, StoredDocument
      <3>3. CASE b # c
        <4>1. ReplacedBy(T, others, c)
          BY <1>1, <2>3, <3>a, <3>b, <3>c, RestoredSheetsAre
        <4>2. SheetsOf(b) \subseteq others
          BY <3>3, <3>b DEF SheetsOf
        <4> QED  BY <4>1, <4>2 DEF ReplacedBy, SheetsOf
      <3> QED  BY <3>2, <3>3
    <2>4. ASSUME NEW c \in DOMAIN books, PurgeWorkbook(c)
          PROVE  SheetsOf(b) \subseteq SheetsOf(b)'
      <3>1. b # c
        BY <1>1, <2>4 DEF PurgeWorkbook, Restrict
      <3> QED  BY <2>4, <3>1 DEF PurgeWorkbook, Restrict, SheetsOf
    <2> QED  BY <1>1, <2>1, <2>2, <2>3, <2>4, SheetsLeave
  <1>2. Inv /\ [Next]_vars =>
           [\A b \in DOMAIN books \cap DOMAIN books' :
              SheetsOf(b) \subseteq SheetsOf(b)' \/
                  \E i \in DOMAIN versions' \ DOMAIN versions :
                      LET backup == versions'[i].snapshot
                      IN  /\ versions'[i].book = b /\ b \in DOMAIN backups
                          /\ backup = [Document(b) EXCEPT !.views = backup.views]
                          /\ Document(b).views \subseteq backup.views \cup backups[b].since]_vars
    BY <1>1, Zenon DEF BackedUp
  <1> QED  BY <1>2, InvAlways, PTL DEF Spec, DeletionIsBackedUp

\* What hangs on the sheets of a workbook after a version was restored.
LEMMA RestoredPartsAre ==
    ASSUME Inv, NEW i \in DOMAIN versions, RestoreVersion(i), NEW v, v = versions[i], NEW b, b = v.book,
           NEW D, D = DOMAIN v.snapshot.sheets
    PROVE  /\ \A r : r \in On(rules', D) <=> r \in KeptRules(b, v) \cup Reinserted(v.snapshot.rules)
           /\ On(charts', D) = v.snapshot.charts
           /\ On(views', D) = RestoredViews(b, v)
  <1>a. PICK own : own = SheetsOf(b)
    OBVIOUS
  <1>b. PICK d : d = v.snapshot
    OBVIOUS
  <1>1. /\ rules' = OffSheets(rules, own) \cup KeptRules(b, v) \cup Reinserted(d.rules)
        /\ charts' = OffSheets(charts, own) \cup d.charts
        /\ views' = OffSheets(views, own) \cup RestoredViews(b, v)
    BY <1>a, <1>b DEF RestoreVersion
  <1>2. \A t \in DOMAIN sheets \ own : t \notin D
    <2>1. Homes(versions, sheets)
      BY DEF Inv, Core, VersionsAreSound
    <2>2. \A t \in D : t \in DOMAIN sheets => sheets[t].book = b
      BY <2>1 DEF Homes
    <2> QED  BY <1>a, <2>2 DEF SheetsOf
  <1>3. /\ \A r \in OffSheets(rules, own) : r.sheet \notin D
        /\ \A c \in OffSheets(charts, own) : c.sheet \notin D
        /\ \A w \in OffSheets(views, own) : w.sheet \notin D
    BY <1>2 DEF OffSheets, Inv, Core, PartsAreSound
  <1>4. VersionIsSound(v, used)
    BY InvMeans
  <1>c. d.rules \subseteq Rules /\ \A r \in d.rules : r.sheet \in D
    BY <1>4, <1>b DEF VersionIsSound
  <1>5. /\ \A r \in Reinserted(d.rules) : r.sheet \in D
        /\ \A c \in d.charts : c.sheet \in D
        /\ \A w \in d.views : w.sheet \in D
    <2>1. \A r \in Reinserted(d.rules) : r.sheet \in D
      BY <1>c, ReinsertedIs
    <2> QED  BY <1>4, <1>b, <2>1 DEF VersionIsSound
  <1>6. \A r \in KeptRules(b, v) : r.sheet \in D
    BY DEF KeptRules, On
  <1>7. \A w \in RestoredViews(b, v) : w.sheet \in D
    BY <1>5, <1>b DEF RestoredViews, On
  <1>8. \A r : r \in On(rules', D) <=> r \in KeptRules(b, v) \cup Reinserted(v.snapshot.rules)
    BY <1>1, <1>3, <1>5, <1>6, <1>b DEF On
  <1>9. On(charts', D) = v.snapshot.charts
    BY <1>1, <1>3, <1>5, <1>b DEF On
  <1>10. On(views', D) = RestoredViews(b, v)
    BY <1>1, <1>3, <1>7 DEF On
  <1> QED  BY <1>8, <1>9, <1>10

\* Rules of a kind that restoring deletes do not stay, the others do.
LEMMA KeptRulesAre ==
    ASSUME Inv, NEW i \in DOMAIN versions, NEW v, v = versions[i], NEW b, NEW stay,
           stay = SheetsOf(b) \cap DOMAIN v.snapshot.sheets
    PROVE  /\ KeptRules(b, v) \subseteq On(rules, stay)
           /\ \A r \in On(rules, stay) : r.kind = "image" => r \in KeptRules(b, v)
           /\ v.schema = CurrentSchema => \A r \in KeptRules(b, v) : r.kind = "image"
           /\ v.schema # CurrentSchema => \A r \in On(rules, stay) : r.kind = "protection" => r \in KeptRules(b, v)
  <1>1. VersionIsSound(v, used)
    BY InvMeans
  <1>2. v.schema \in 2..9 /\ (v.schema # CurrentSchema => v.schema \in 2..8)
    BY <1>1 DEF VersionIsSound, CurrentSchema
  <1>3. /\ \A kind \in Validations : DeletedFrom(kind) = 0
        /\ DeletedFrom("protection") = 9 /\ DeletedFrom("image") = 10
    BY DEF DeletedFrom, RecordedFrom, CurrentSchema, Validations
  <1>4. \A r \in rules : r.kind \in Validations \cup {"protection", "image"}
    BY DEF Inv, Core, PartsAreSound, Rules, Kinds
  <1>5. \A r : r \in KeptRules(b, v) <=> r \in On(rules, stay) /\ v.schema < DeletedFrom(r.kind)
    BY DEF KeptRules, On
  <1>6. On(rules, stay) \subseteq rules
    BY DEF On
  <1>7. \A r \in On(rules, stay) : r.kind = "image" => r \in KeptRules(b, v)
    BY <1>2, <1>3, <1>5
  <1>8. v.schema = CurrentSchema => \A r \in KeptRules(b, v) : r.kind = "image"
    <2>1. ASSUME v.schema = CurrentSchema, NEW r \in KeptRules(b, v) PROVE r.kind = "image"
      <3>1. r.kind \in Validations \cup {"protection", "image"} /\ 9 < DeletedFrom(r.kind)
        BY <1>4, <1>5, <1>6, <2>1 DEF CurrentSchema
      <3> QED  BY <1>3, <3>1
    <2> QED  BY <2>1
  <1>9. v.schema # CurrentSchema => \A r \in On(rules, stay) : r.kind = "protection" => r \in KeptRules(b, v)
    BY <1>2, <1>3, <1>5
  <1> QED  BY <1>5, <1>7, <1>8, <1>9

\* Restoring a version gives back the document of that moment, but for the ranges of lists, and
\* leaves alone what the version does not record (RestoreVersion with the schemas of earlier
\* releases).
THEOREM RestoresAreExact == Spec => RestoreIsExact
  <1> DEFINE Exact(i) ==
          LET of == versions[i].of
              b == versions[i].book
              schema == versions[i].schema
              stay == SheetsOf(b) \cap DOMAIN of.sheets
              Left(kind) == {r \in On(rules, stay) : r.kind = kind}
              restored == Document(b)'
          IN  /\ restored.title = of.title /\ restored.sheets = of.sheets
              /\ schema = CurrentSchema => restored = [of EXCEPT !.rules = Reinserted(@)]
              /\ schema < 9 => {r \in restored.rules : r.kind = "protection"} = Left("protection")
              /\ schema < 5 => restored.views = On(views, stay)
              /\ {r \in On(rules', DOMAIN of.sheets) : r.kind = "image"} = Left("image")
  <1>1. ASSUME Inv, [Next]_vars, NEW i \in DOMAIN versions, RestoreVersion(i)
        PROVE  Exact(i)
    <2>a. PICK v : v = versions[i]
      OBVIOUS
    <2>b. PICK b : b = v.book
      OBVIOUS
    <2>c. PICK of : of = v.of
      OBVIOUS
    <2>d. PICK schema : schema = v.schema
      OBVIOUS
    <2>e. PICK D : D = DOMAIN of.sheets
      OBVIOUS
    <2>f. PICK stay : stay = SheetsOf(b) \cap D
      OBVIOUS
    <2>g. PICK restored : restored = [title |-> books'[b].title, sheets |-> Restrict(sheets', D),
                                      rules |-> {r \in On(rules', D) : r.kind # "image"},
                                      charts |-> On(charts', D), views |-> On(views', D)]
      OBVIOUS
    <2>1. VersionIsSound(v, used) /\ b \in DOMAIN books /\ books \in [DOMAIN books -> [title : Titles, live : BOOLEAN]]
      BY <1>1, <2>a, <2>b, InvMeans
    <2>2. /\ v.snapshot = of /\ of.sheets \in [D -> Sheets]
          /\ of = [title |-> of.title, sheets |-> of.sheets, rules |-> of.rules, charts |-> of.charts,
                   views |-> of.views]
          /\ schema = CurrentSchema \/ (schema \in 2..8 /\ of.rules = {} /\ of.views = {})
          /\ of.rules \subseteq Rules /\ \A r \in of.rules : r.kind # "image"
      BY <2>1, <2>c, <2>d, <2>e DEF VersionIsSound
    <2>h. PICK again : again = Reinserted(of.rules)
      OBVIOUS
    <2>i. (of.rules = {} => again = {}) /\ \A r \in again : r.kind # "image"
      <3>1. ASSUME NEW r \in again PROVE r.kind # "image"
        <4>1. PICK o \in of.rules : r.kind = Inserted(o.kind)
          BY <2>2, <2>h, <3>1, ReinsertedIs
        <4> QED  BY <2>2, <4>1 DEF Inserted
      <3>2. of.rules = {} => again = {}
        BY <2>h DEF Reinserted
      <3> QED  BY <3>1, <3>2
    <2>3. /\ DOMAIN sheets' = D \cup (DOMAIN sheets \ SheetsOf(b))
          /\ \A t \in D : sheets'[t] = of.sheets[t] /\ sheets'[t].book = b
          /\ \A t \in DOMAIN sheets \ SheetsOf(b) : sheets'[t].book # b
      <3>1. PICK T : T = of.sheets
        OBVIOUS
      <3>2. PICK others : others = DOMAIN sheets \ SheetsOf(b)
        OBVIOUS
      <3>3. T = versions[i].snapshot.sheets /\ b = versions[i].book
        BY <2>2, <2>a, <2>b, <3>1
      <3>5. Inv /\ RestoreVersion(i)
        BY <1>1
      <3>4. ReplacedBy(T, others, b)
        BY <3>2, <3>3, <3>5, RestoredSheetsAre
      <3> QED  BY <2>e, <3>1, <3>2, <3>4 DEF ReplacedBy
    <2>4. SheetsOf(b)' = D
      BY <2>3 DEF SheetsOf
    <2>5. versions'[i] = v /\ i \in DOMAIN versions'
      <3>1. Saved(b)
        BY <1>1, <2>a, <2>b DEF RestoreVersion
      <3> QED  BY <1>1, <2>1, <2>a, <3>1, StoredDocument
    <2>6. Document(versions[i].book)' = restored
      BY <2>4, <2>5, <2>b, <2>g DEF Document, SheetsOf
    <2>7. /\ restored.title = books'[b].title /\ restored.sheets = Restrict(sheets', D)
          /\ restored.rules = {r \in On(rules', D) : r.kind # "image"}
          /\ restored.charts = On(charts', D) /\ restored.views = On(views', D)
      BY <2>g
    <2>8. restored.title = of.title
      <3>1. books' = [books EXCEPT ![b].title = of.title]
        BY <1>1, <2>2, <2>a, <2>b DEF RestoreVersion
      <3> QED  BY <2>1, <2>7, <3>1
    <2>9. restored.sheets = of.sheets
      BY <2>2, <2>3, <2>7 DEF Restrict
    <2>10. /\ \A r : r \in On(rules', D) <=> r \in KeptRules(b, v) \cup again
           /\ On(charts', D) = of.charts /\ On(views', D) = RestoredViews(b, v)
      BY <1>1, <2>2, <2>a, <2>b, <2>e, <2>h, RestoredPartsAre
    <2>11. /\ KeptRules(b, v) \subseteq On(rules, stay)
           /\ \A r \in On(rules, stay) : r.kind = "image" => r \in KeptRules(b, v)
           /\ schema = CurrentSchema => \A r \in KeptRules(b, v) : r.kind = "image"
           /\ schema # CurrentSchema => \A r \in On(rules, stay) : r.kind = "protection" => r \in KeptRules(b, v)
      BY <1>1, <2>2, <2>a, <2>d, <2>e, <2>f, KeptRulesAre
    <2>12. schema = CurrentSchema => restored = [of EXCEPT !.rules = Reinserted(@)]
      <3>1. ASSUME schema = CurrentSchema PROVE restored.rules = again /\ restored.views = of.views
        <4>1. restored.rules = again
          BY <2>7, <2>10, <2>11, <2>i, <3>1
        <4>2. RestoredViews(b, v) = of.views
          BY <2>2, <2>d, <3>1 DEF RestoredViews, CurrentSchema
        <4> QED  BY <2>7, <2>10, <4>1, <4>2
      <3>2. restored = [title |-> restored.title, sheets |-> restored.sheets, rules |-> restored.rules,
                        charts |-> restored.charts, views |-> restored.views]
        BY <2>g
      <3>3. [of EXCEPT !.rules = Reinserted(@)] = [title |-> of.title, sheets |-> of.sheets, rules |-> again,
                                                   charts |-> of.charts, views |-> of.views]
        BY <2>2, <2>h
      <3> QED  BY <2>7, <2>8, <2>9, <2>10, <3>1, <3>2, <3>3
    <2>13. schema < 9 => {r \in restored.rules : r.kind = "protection"} = {r \in On(rules, stay) : r.kind = "protection"}
      <3>1. ASSUME schema < 9
            PROVE  \A r : (r \in restored.rules /\ r.kind = "protection") <=>
                             (r \in On(rules, stay) /\ r.kind = "protection")
        <4>1. schema # CurrentSchema /\ again = {}
          BY <2>2, <2>i, <3>1 DEF CurrentSchema
        <4> QED  BY <2>7, <2>10, <2>11, <4>1
      <3> QED  BY <3>1
    <2>14. schema < 5 => restored.views = On(views, stay)
      <3>1. ASSUME schema < 5 PROVE RestoredViews(b, v) = On(views, stay)
        BY <2>2, <2>d, <2>e, <2>f, <3>1 DEF RestoredViews, CurrentSchema
      <3> QED  BY <2>7, <2>10, <3>1
    <2>15. {r \in On(rules', D) : r.kind = "image"} = {r \in On(rules, stay) : r.kind = "image"}
      BY <2>i, <2>10, <2>11
    <2> QED  BY <2>6, <2>8, <2>9, <2>12, <2>13, <2>14, <2>15, <2>a, <2>b, <2>c, <2>d, <2>e, <2>f
  <1>2. Inv /\ [Next]_vars => [\A i \in DOMAIN versions : RestoreVersion(i) => Exact(i)]_vars
    BY <1>1
  <1> QED  BY <1>2, InvAlways, PTL DEF Spec, RestoreIsExact

\* The sheets of the copy and what hangs on them are those of the original, under other ids.
LEMMA CopyIs ==
    ASSUME Inv, NEW b \in DOMAIN books, NEW title, NEW owner, DuplicateWorkbook(b, title, owner),
           NEW copy \in DOMAIN books' \ DOMAIN books, NEW S, S = SheetsOf(b), NEW ids, ids = CopiedIds(b)
    PROVE  /\ DOMAIN ids = S /\ \A s, t \in S : ids[s] = ids[t] => s = t
           /\ \A s \in S : ids[s] \in Nat /\ ids[s] \notin DOMAIN sheets
           /\ \A t : t \in SheetsOf(copy)' <=> \E s \in S : ids[s] = t
           /\ \A s \in S : /\ sheets'[ids[s]] \in Sheets
                           /\ sheets'[ids[s]].name = sheets[s].name
                           /\ sheets'[ids[s]].position = sheets[s].position
                           /\ sheets'[ids[s]].hidden = sheets[s].hidden
                           /\ sheets'[ids[s]].formula.names = sheets[s].formula.names
           /\ \A c \in On(charts, S) : c.source \in S \cup {Ref}
  <1>a. PICK new : new = Cardinality(DOMAIN books) + 1
    OBVIOUS
  <1>b. PICK K : K = CopiedSheets(b, new, ids)
    OBVIOUS
  <1>c. PICK n : n = Cardinality(S)
    OBVIOUS
  <1>d. PICK entry : entry = [title |-> title, live |-> TRUE]
    OBVIOUS
  <1>1. /\ DOMAIN ids = S /\ n \in Nat
        /\ \A s \in S : ids[s] \in Nat /\ ids[s] > used /\ ids[s] <= used + n
        /\ \A s, t \in S : ids[s] = ids[t] => s = t
    BY <1>c, CopiedIdsAre
  <1>2. /\ new \in BookIds /\ new \notin DOMAIN books /\ used + n <= MaxSheets
        /\ books' = Put(Row(new, entry), books) /\ sheets' = Put(K, sheets)
        /\ \A c \in On(charts, S) : c.source \in S \cup {Ref}
    BY <1>1, <1>a, <1>b, <1>c, <1>d DEF DuplicateWorkbook, NewBook
  <1>3. used \in Nat /\ DOMAIN sheets \subseteq 1..used /\ \A t \in DOMAIN sheets : sheets[t].book \in DOMAIN books
    BY InvMeans
  <1>4. \A s \in S : ids[s] \in SheetIds /\ ids[s] \notin DOMAIN sheets
    BY <1>1, <1>2, <1>3, BoundsAssumption DEF SheetIds
  <1>5. copy = new
    BY <1>2 DEF Put, Row
  <1>6. /\ \A t : t \in DOMAIN K <=> \E s \in S : ids[s] = t
        /\ \A s \in S : /\ K[ids[s]] \in Sheets /\ K[ids[s]].book = new /\ K[ids[s]].name = sheets[s].name
                        /\ K[ids[s]].position = sheets[s].position /\ K[ids[s]].hidden = sheets[s].hidden
                        /\ K[ids[s]].formula.names = sheets[s].formula.names
    BY <1>1, <1>2, <1>4, <1>b, CopiedSheetsAre
  <1>7. /\ DOMAIN sheets' = DOMAIN K \cup DOMAIN sheets /\ \A t \in DOMAIN K : sheets'[t] = K[t]
        /\ \A t \in DOMAIN sheets : t \notin DOMAIN K => sheets'[t] = sheets[t]
    BY <1>2 DEF Put
  <1>8. \A t : t \in SheetsOf(copy)' <=> t \in DOMAIN K
    <2>1. \A t \in DOMAIN sheets : t \notin DOMAIN K /\ sheets'[t].book # copy
      BY <1>2, <1>3, <1>4, <1>5, <1>6, <1>7
    <2>2. \A t \in DOMAIN K : sheets'[t].book = copy
      BY <1>5, <1>6, <1>7
    <2> QED  BY <1>7, <2>1, <2>2 DEF SheetsOf
  <1>9. \A s \in S : sheets'[ids[s]] = K[ids[s]]
    BY <1>6, <1>7
  <1> QED  BY <1>1, <1>2, <1>4, <1>6, <1>8, <1>9

\* A copied workbook looks like the original (DuplicateWorkbook): the same tabs with the same
\* formulas, and everything that travels with them, on the tabs of the copy; only lists lose
\* their ranges.
THEOREM CopiesAreComplete == Spec => CopyIsComplete
  <1>1. ASSUME Inv, NEW b \in DOMAIN books, NEW title \in Titles, NEW owner \in Actors,
               DuplicateWorkbook(b, title, owner), NEW copy \in DOMAIN books' \ DOMAIN books
        PROVE  Shape(copy)' = [Shape(b) EXCEPT !.rules = {<<Inserted(r[1]), r[2]>> : r \in @}]
    <2>a. PICK S : S = SheetsOf(b)
      OBVIOUS
    <2>b. PICK ids : ids = CopiedIds(b)
      OBVIOUS
    <2>c. PICK R : R = SheetsOf(copy)'
      OBVIOUS
    <2> DEFINE Name(s) == IF s \in S THEN sheets[s].name ELSE NoName
               NewName(s) == IF s \in R THEN sheets'[s].name ELSE NoName
               Tab(sheet) == [name |-> sheet.name, position |-> sheet.position, hidden |-> sheet.hidden,
                              formula |-> sheet.formula.names]
    <2>1. /\ DOMAIN ids = S /\ \A s, t \in S : ids[s] = ids[t] => s = t
          /\ \A s \in S : ids[s] \in Nat /\ ids[s] \notin DOMAIN sheets
          /\ \A t : t \in R <=> \E s \in S : ids[s] = t
          /\ \A s \in S : /\ sheets'[ids[s]].name = sheets[s].name
                          /\ sheets'[ids[s]].position = sheets[s].position
                          /\ sheets'[ids[s]].hidden = sheets[s].hidden
                          /\ sheets'[ids[s]].formula.names = sheets[s].formula.names
          /\ \A c \in On(charts, S) : c.source \in S \cup {Ref}
      BY <1>1, <2>a, <2>b, <2>c, CopyIs
    <2>2. /\ rules' = rules \cup CopiedRules(ids) /\ charts' = charts \cup CopiedCharts(ids)
          /\ views' = views \cup CopiedViews(ids, owner)
      BY <1>1, <2>b DEF DuplicateWorkbook
    <2>3. /\ \A r \in rules : r \in Rules /\ r.sheet \notin R
          /\ \A c \in charts : c \in Charts /\ c.sheet \notin R
          /\ \A v \in views : v \in Views /\ v.sheet \notin R
      BY <1>1, <2>1 DEF Inv, Core, PartsAreSound
    <2>4. \A s \in S : ids[s] \in R /\ NewName(ids[s]) = Name(s)
      BY <2>1
    <2>5. {Tab(sheets'[t]) : t \in R} = {Tab(sheets[s]) : s \in S}
      <3>1. \A s \in S : Tab(sheets'[ids[s]]) = Tab(sheets[s])
        BY <2>1
      <3>2. \A t \in R : \E s \in S : t = ids[s]
        BY <2>1
      <3> HIDE DEF Tab
      <3> QED  BY <2>4, <3>1, <3>2
    <2>r. PICK O : O = {r \in On(rules, S) : r.kind # "image"}
      OBVIOUS
    <2>6. {<<r.kind, NewName(r.sheet)>> : r \in {r \in On(rules', R) : r.kind # "image"}}
            = {<<Inserted(o.kind), Name(o.sheet)>> : o \in O}
      <3>0. \A o \in O : o \in Rules /\ o.sheet \in S /\ o.kind # "image"
        BY <2>3, <2>r DEF On
      <3>1. CopiedRules(ids) = {[p EXCEPT !.sheet = ids[p.sheet]] : p \in Reinserted(O)}
        BY <2>1, <2>r DEF CopiedRules
      <3>2. ASSUME NEW r \in CopiedRules(ids)
            PROVE  \E o \in O : /\ r.kind = Inserted(o.kind) /\ NewName(r.sheet) = Name(o.sheet)
                                /\ r.sheet \in R /\ r.kind # "image"
        <4>1. PICK p \in Reinserted(O) : r = [p EXCEPT !.sheet = ids[p.sheet]]
          BY <3>1
        <4>2. p \in Rules /\ \E o \in O : p.sheet = o.sheet /\ p.kind = Inserted(o.kind)
          BY <3>0, ReinsertedIs
        <4>3. PICK o \in O : p.sheet = o.sheet /\ p.kind = Inserted(o.kind)
          BY <4>2
        <4>4. r.kind = p.kind /\ r.sheet = ids[o.sheet]
          BY <4>1, <4>2, <4>3 DEF Rules
        <4>5. Inserted(o.kind) # "image"
          BY <3>0 DEF Inserted
        <4> QED  BY <2>4, <3>0, <4>3, <4>4, <4>5
      <3>3. ASSUME NEW o \in O
            PROVE  \E r \in CopiedRules(ids) : r.kind = Inserted(o.kind) /\ NewName(r.sheet) = Name(o.sheet)
        <4>1. PICK p : p = [o EXCEPT !.kind = Inserted(o.kind)]
          OBVIOUS
        <4>2. p \in Reinserted(O)
          BY <3>0, <4>1 DEF Reinserted
        <4>3. p.kind = Inserted(o.kind) /\ p.sheet = o.sheet /\ p \in Rules
          <5>1. Inserted(o.kind) \in Kinds
            BY <3>0 DEF Inserted, Rules, Kinds, Validations
          <5> QED  BY <3>0, <4>1, <5>1 DEF Rules
        <4>4. PICK r : r = [p EXCEPT !.sheet = ids[p.sheet]]
          OBVIOUS
        <4>5. r \in CopiedRules(ids)
          BY <3>1, <4>2, <4>4
        <4>6. r.kind = p.kind /\ r.sheet = ids[o.sheet]
          BY <4>3, <4>4 DEF Rules
        <4> QED  BY <2>4, <3>0, <4>3, <4>5, <4>6
      <3>4. {r \in On(rules', R) : r.kind # "image"} = CopiedRules(ids)
        <4>1. \A r \in CopiedRules(ids) : r.sheet \in R /\ r.kind # "image"
          BY <3>2
        <4>2. \A r \in rules : r.sheet \notin R
          BY <2>3
        <4> QED  BY <2>2, <4>1, <4>2 DEF On
      <3> HIDE DEF Name, NewName
      <3> QED  BY <3>2, <3>3, <3>4
    <2>7. {<<NewName(c.sheet), c.source = Ref, NewName(c.source), c.fit>> : c \in On(charts', R)}
            = {<<Name(c.sheet), c.source = Ref, Name(c.source), c.fit>> : c \in On(charts, S)}
      <3>1. \A c : c \in On(charts', R) <=> c \in CopiedCharts(ids)
        <4>1. \A c \in CopiedCharts(ids) : c.sheet \in R
          <5>1. ASSUME NEW c \in CopiedCharts(ids) PROVE c.sheet \in R
            <6>1. PICK o \in On(charts, S) :
                     c = [o EXCEPT !.sheet = ids[o.sheet], !.source = IF o.source = Ref THEN Ref ELSE ids[o.source]]
              BY <2>1 DEF CopiedCharts
            <6>2. o \in Charts /\ o.sheet \in S
              BY <2>3 DEF On
            <6> QED  BY <2>4, <6>1, <6>2 DEF Charts
          <5> QED  BY <5>1
        <4> QED  BY <2>2, <2>3, <4>1 DEF On
      <3>2. Ref \notin S /\ Ref \notin R
        BY <1>1, <2>1, <2>a, InvMeans DEF Ref, SheetsOf
      <3>3. ASSUME NEW o \in On(charts, S), NEW c,
                   c = [o EXCEPT !.sheet = ids[o.sheet], !.source = IF o.source = Ref THEN Ref ELSE ids[o.source]]
            PROVE  /\ NewName(c.sheet) = Name(o.sheet) /\ (c.source = Ref <=> o.source = Ref)
                   /\ NewName(c.source) = Name(o.source) /\ c.fit = o.fit
        <4>1. o \in Charts /\ o.sheet \in S /\ o.source \in S \cup {Ref}
          BY <2>1, <2>3 DEF On
        <4>2. c.sheet = ids[o.sheet] /\ c.source = (IF o.source = Ref THEN Ref ELSE ids[o.source]) /\ c.fit = o.fit
          BY <3>3, <4>1 DEF Charts
        <4>3. CASE o.source = Ref
          BY <2>4, <3>2, <4>1, <4>2, <4>3
        <4>4. CASE o.source # Ref
          BY <2>4, <3>2, <4>1, <4>2, <4>4
        <4> QED  BY <4>3, <4>4
      <3> HIDE DEF Name, NewName
      <3>4. \A c \in CopiedCharts(ids) :
               \E o \in On(charts, S) : /\ NewName(c.sheet) = Name(o.sheet) /\ (c.source = Ref <=> o.source = Ref)
                                        /\ NewName(c.source) = Name(o.source) /\ c.fit = o.fit
        <4>1. ASSUME NEW c \in CopiedCharts(ids)
              PROVE  \E o \in On(charts, S) :
                        /\ NewName(c.sheet) = Name(o.sheet) /\ (c.source = Ref <=> o.source = Ref)
                        /\ NewName(c.source) = Name(o.source) /\ c.fit = o.fit
          <5>1. PICK o \in On(charts, S) :
                   c = [o EXCEPT !.sheet = ids[o.sheet], !.source = IF o.source = Ref THEN Ref ELSE ids[o.source]]
            BY <2>1 DEF CopiedCharts
          <5>2. /\ NewName(c.sheet) = Name(o.sheet) /\ (c.source = Ref <=> o.source = Ref)
                /\ NewName(c.source) = Name(o.source) /\ c.fit = o.fit
            BY <3>3, <5>1
          <5> QED  BY <5>2
        <4> QED  BY <4>1
      <3>5. ASSUME NEW o \in On(charts, S)
            PROVE  \E c \in CopiedCharts(ids) :
                      /\ NewName(c.sheet) = Name(o.sheet) /\ (c.source = Ref <=> o.source = Ref)
                      /\ NewName(c.source) = Name(o.source) /\ c.fit = o.fit
        <4>1. PICK c : c = [o EXCEPT !.sheet = ids[o.sheet],
                                     !.source = IF o.source = Ref THEN Ref ELSE ids[o.source]]
          OBVIOUS
        <4>2. c \in CopiedCharts(ids)
          BY <2>1, <4>1 DEF CopiedCharts
        <4> QED  BY <3>3, <4>1, <4>2
      <3> QED  BY <3>1, <3>4, <3>5
    <2>8. {<<NewName(v.sheet), v.active>> : v \in On(views', R)} = {<<Name(v.sheet), v.active>> : v \in On(views, S)}
      <3>1. \A v : v \in On(views', R) <=> v \in CopiedViews(ids, owner)
        <4>1. \A v \in CopiedViews(ids, owner) : v.sheet \in R
          <5>1. ASSUME NEW v \in CopiedViews(ids, owner) PROVE v.sheet \in R
            <6>1. PICK o \in On(views, S) : v = [o EXCEPT !.sheet = ids[o.sheet], !.owner = owner]
              BY <2>1 DEF CopiedViews
            <6>2. o \in Views /\ o.sheet \in S
              BY <2>3 DEF On
            <6> QED  BY <2>4, <6>1, <6>2 DEF Views
          <5> QED  BY <5>1
        <4> QED  BY <2>2, <2>3, <4>1 DEF On
      <3>2. ASSUME NEW o \in On(views, S), NEW v, v = [o EXCEPT !.sheet = ids[o.sheet], !.owner = owner]
            PROVE  NewName(v.sheet) = Name(o.sheet) /\ v.active = o.active
        <4>1. o \in Views /\ o.sheet \in S
          BY <2>3 DEF On
        <4>2. v.sheet = ids[o.sheet] /\ v.active = o.active
          BY <3>2, <4>1 DEF Views
        <4> QED  BY <2>4, <4>1, <4>2
      <3> HIDE DEF Name, NewName
      <3>3. \A v \in CopiedViews(ids, owner) :
               \E o \in On(views, S) : NewName(v.sheet) = Name(o.sheet) /\ v.active = o.active
        <4>1. ASSUME NEW v \in CopiedViews(ids, owner)
              PROVE  \E o \in On(views, S) : NewName(v.sheet) = Name(o.sheet) /\ v.active = o.active
          <5>1. PICK o \in On(views, S) : v = [o EXCEPT !.sheet = ids[o.sheet], !.owner = owner]
            BY <2>1 DEF CopiedViews
          <5> QED  BY <3>2, <5>1
        <4> QED  BY <4>1
      <3>4. ASSUME NEW o \in On(views, S)
            PROVE  \E v \in CopiedViews(ids, owner) : NewName(v.sheet) = Name(o.sheet) /\ v.active = o.active
        <4>1. PICK v : v = [o EXCEPT !.sheet = ids[o.sheet], !.owner = owner]
          OBVIOUS
        <4>2. v \in CopiedViews(ids, owner)
          BY <2>1, <4>1 DEF CopiedViews
        <4> QED  BY <3>2, <4>1, <4>2
      <3> QED  BY <3>1, <3>3, <3>4
    <2>9. Shape(b) = [sheets |-> {Tab(sheets[s]) : s \in S},
                      rules |-> {<<r.kind, Name(r.sheet)>> : r \in O},
                      charts |-> {<<Name(c.sheet), c.source = Ref, Name(c.source), c.fit>> : c \in On(charts, S)},
                      views |-> {<<Name(v.sheet), v.active>> : v \in On(views, S)}]
      <3>1. /\ Document(b).rules = O
            /\ Document(b).charts = On(charts, S) /\ Document(b).views = On(views, S)
        BY <2>a, <2>r DEF Document
      <3> QED  BY <2>a, <3>1, Zenon DEF Shape
    <2>10. Shape(copy)' = [sheets |-> {Tab(sheets'[t]) : t \in R},
                      rules |-> {<<r.kind, NewName(r.sheet)>> : r \in {r \in On(rules', R) : r.kind # "image"}},
                      charts |-> {<<NewName(c.sheet), c.source = Ref, NewName(c.source), c.fit>> : c \in On(charts', R)},
                      views |-> {<<NewName(v.sheet), v.active>> : v \in On(views', R)}]
      <3>1. /\ Document(copy)'.rules = {r \in On(rules', R) : r.kind # "image"}
            /\ Document(copy)'.charts = On(charts', R) /\ Document(copy)'.views = On(views', R)
        BY <2>c DEF Document
      <3> QED  BY <2>c, <3>1, Zenon DEF Shape
    <2> HIDE DEF Name, NewName, Tab
    <2>11. {<<Inserted(r[1]), r[2]>> : r \in {<<r.kind, Name(r.sheet)>> : r \in O}}
             = {<<Inserted(o.kind), Name(o.sheet)>> : o \in O}
      <3>1. PICK B : B = {<<r.kind, Name(r.sheet)>> : r \in O}
        OBVIOUS
      <3>2. ASSUME NEW o \in O, NEW r, r = <<o.kind, Name(o.sheet)>>
            PROVE  r \in B /\ <<Inserted(r[1]), r[2]>> = <<Inserted(o.kind), Name(o.sheet)>>
        BY <3>1, <3>2
      <3>3. \A r \in B : \E o \in O : r = <<o.kind, Name(o.sheet)>>
        BY <3>1
      <3>4. ASSUME NEW x \in {<<Inserted(r[1]), r[2]>> : r \in B}
            PROVE  x \in {<<Inserted(o.kind), Name(o.sheet)>> : o \in O}
        <4>1. PICK r \in B : x = <<Inserted(r[1]), r[2]>>
          OBVIOUS
        <4>2. PICK o \in O : r = <<o.kind, Name(o.sheet)>>
          BY <3>3
        <4> QED  BY <3>2, <4>1, <4>2
      <3>5. ASSUME NEW o \in O
            PROVE  <<Inserted(o.kind), Name(o.sheet)>> \in {<<Inserted(r[1]), r[2]>> : r \in B}
        <4>1. PICK r : r = <<o.kind, Name(o.sheet)>>
          OBVIOUS
        <4>2. r \in B /\ <<Inserted(r[1]), r[2]>> = <<Inserted(o.kind), Name(o.sheet)>>
          BY <3>2, <4>1
        <4>3. <<Inserted(r[1]), r[2]>> \in {<<Inserted(p[1]), p[2]>> : p \in B}
          BY <4>2
        <4> QED  BY <4>2, <4>3
      <3> QED  BY <3>1, <3>4, <3>5
    <2>12. [Shape(b) EXCEPT !.rules = {<<Inserted(r[1]), r[2]>> : r \in @}]
             = [sheets |-> {Tab(sheets[s]) : s \in S},
                rules |-> {<<Inserted(o.kind), Name(o.sheet)>> : o \in O},
                charts |-> {<<Name(c.sheet), c.source = Ref, Name(c.source), c.fit>> : c \in On(charts, S)},
                views |-> {<<Name(v.sheet), v.active>> : v \in On(views, S)}]
      <3>1. PICK A : A = {Tab(sheets[s]) : s \in S}
        OBVIOUS
      <3>2. PICK B : B = {<<r.kind, Name(r.sheet)>> : r \in O}
        OBVIOUS
      <3>3. PICK C : C = {<<Name(c.sheet), c.source = Ref, Name(c.source), c.fit>> : c \in On(charts, S)}
        OBVIOUS
      <3>4. PICK D : D = {<<Name(v.sheet), v.active>> : v \in On(views, S)}
        OBVIOUS
      <3>5. Shape(b) = [sheets |-> A, rules |-> B, charts |-> C, views |-> D]
        BY <2>9, <3>1, <3>2, <3>3, <3>4, Zenon
      <3>6. PICK E : E = {<<Inserted(r[1]), r[2]>> : r \in B}
        OBVIOUS
      <3>7. [Shape(b) EXCEPT !.rules = {<<Inserted(r[1]), r[2]>> : r \in @}]
              = [sheets |-> A, rules |-> E, charts |-> C, views |-> D]
        <4>1. PICK s : s = Shape(b)
          OBVIOUS
        <4>2. s = [sheets |-> A, rules |-> B, charts |-> C, views |-> D]
          BY <3>5, <4>1
        <4>3. s.rules = B
          BY <4>2
        <4>4. [s EXCEPT !.rules = {<<Inserted(r[1]), r[2]>> : r \in @}] = [s EXCEPT !.rules = E]
          BY <3>6, <4>3, Zenon
        <4>5. [s EXCEPT !.rules = E] = [sheets |-> A, rules |-> E, charts |-> C, views |-> D]
          BY <4>2
        <4> QED  BY <4>1, <4>4, <4>5
      <3>8. E = {<<Inserted(o.kind), Name(o.sheet)>> : o \in O}
        BY <2>11, <3>2, <3>6
      <3> QED  BY <3>1, <3>3, <3>4, <3>7, <3>8, Zenon
    <2> QED  BY <2>5, <2>6, <2>7, <2>8, <2>10, <2>12, Zenon
  <1>2. Inv /\ [Next]_vars =>
           [\A b \in DOMAIN books, title \in Titles, owner \in Actors :
              DuplicateWorkbook(b, title, owner) =>
                  \A copy \in DOMAIN books' \ DOMAIN books :
                      Shape(copy)' = [Shape(b) EXCEPT !.rules = {<<Inserted(r[1]), r[2]>> : r \in @}]]_vars
    BY <1>1
  <1> QED  BY <1>2, InvAlways, PTL DEF Spec, CopyIsComplete

=============================================================================
