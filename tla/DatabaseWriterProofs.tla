------------------------ MODULE DatabaseWriterProofs ------------------------
(***************************************************************************)
(* Proofs about the transactions of DatabaseWriter, for any number of      *)
(* writers, batches and records.                                           *)
(***************************************************************************)
EXTENDS DatabaseWriter, WellFoundedInduction, TLAPS

(***************************************************************************)
(* The records of a batch, and the statements _apply makes of them.        *)
(***************************************************************************)
Good(b) == b \in Batches /\ ~Malformed(b)
AllRecords == UNION {Records(b) : b \in {x \in Batches : ~Malformed(x)}}
ColumnsOf(R, n) == {r \in R : HasColumns(r) /\ r.node = n}

LEMMA RecordType ==
    ASSUME NEW b, Good(b), NEW i \in Plan(b)
    PROVE  /\ b[i] \in Records(b) /\ Records(b) \subseteq AllRecords
           /\ i \in Nat
           /\ b[i].kind \in {"summary", "event", "live_node", "node_hardware", "live_processes"}
           /\ b[i].ts \in Nat
           /\ b[i].kind = "summary" => b[i].count \in Nat
<1>1. i \in DOMAIN b /\ b \in Batches /\ ~Malformed(b)
  BY Zenon DEF Plan, Good
<1>2. b[i] \in Records(b) /\ Records(b) \subseteq AllRecords
  BY <1>1, Zenon DEF Records, AllRecords
<1>3. Len(b) \in Nat /\ DOMAIN b = 1..Len(b)
  BY <1>1, BatchAssumption, Zenon
<1>4. i \in Nat
  BY <1>1, <1>3
<1>5. /\ b[i].kind \in {"summary", "event", "live_node", "node_hardware", "live_processes"}
      /\ b[i].ts \in Nat
      /\ b[i].kind = "summary" => b[i].count \in Nat
  BY <1>1, BatchAssumption, Zenon
<1> QED BY <1>2, <1>4, <1>5, Zenon

LEMMA AnyRecord ==
    ASSUME NEW r \in AllRecords
    PROVE  \E b : Good(b) /\ r \in Records(b) /\ \E i \in Plan(b) : r = b[i]
BY Zenon DEF AllRecords, Records, Good

LEMMA AnyRecordType ==
    ASSUME NEW r \in AllRecords
    PROVE  r.ts \in Nat /\ (r.kind = "summary" => r.count \in Nat)
BY AnyRecord, RecordType, Zenon

LEMMA Stamps ==
    ASSUME NEW q \in AllRecords, NEW r \in AllRecords, HasColumns(q), HasColumns(r),
           q.node = r.node, q.ts <= r.ts
    PROVE  /\ "label" \in DOMAIN q.cols => q.cols["label"] # None
           /\ \A c \in DOMAIN q.cols \cap DOMAIN r.cols :
                 q.cols[c] # None /\ r.cols[c] # None => q.cols[c] <= r.cols[c]
<1>1. PICK a \in {x \in Batches : ~Malformed(x)} : \E i \in DOMAIN a : q = a[i]
  BY AnyRecord, Zenon DEF Good, Plan
<1>2. PICK b \in {x \in Batches : ~Malformed(x)} : \E i \in DOMAIN b : r = b[i]
  BY AnyRecord, Zenon DEF Good, Plan
<1>3. PICK i \in DOMAIN a : q = a[i]
  BY <1>1, Zenon
<1>4. PICK j \in DOMAIN b : r = b[j]
  BY <1>2, Zenon
<1> QED BY <1>3, <1>4, StampAssumption, Zenon

\* The statements of a batch, by the loop of _apply they are in.
LEMMA StatementIs ==
    ASSUME NEW b, NEW s \in Statements(b)
    PROVE  \E i \in Plan(b) :
             /\ s.rec = b[i]
             /\ \/ s.op = "summary" /\ b[i].kind = "summary" /\ s.row = <<"summary", b[i].key>>
                \/ s.op = "event" /\ b[i].kind = "event" /\ s.row = <<"event", b[i].key>>
                \/ /\ s.op = "hardware" /\ b[i].kind = "node_hardware"
                   /\ s.row = <<"hardware", <<b[i].node, b[i].boot_id>>>>
                \/ /\ s.op = "node" /\ b[i].kind \in {"node_hardware", "live_node"}
                   /\ s.row = <<"nodes", b[i].node>>
                \/ s.op = "live_node" /\ b[i].kind = "live_node" /\ s.row = <<"live_nodes", b[i].node>>
                \/ /\ b[i].kind = "live_processes" /\ NewestCensus(b, i) /\ s.loop = 5
                   /\ s.at = Min(CensusesOf(b, b[i].node))
                   /\ \/ s.op = "snapshot" /\ s.call = 1 /\ s.row = <<"live_snapshots", b[i].node>>
                      \/ s.op = "delete" /\ s.call = 2 /\ s.row = <<"live_processes", b[i].node>>
                      \/ s.op = "insert" /\ s.call = 3 /\ s.row = <<"live_processes", b[i].node>>
             /\ b[i].kind # "live_processes" => s.loop # 5
BY DEF Statements, Stmt, OfKind

LEMMA LeastNatural ==
    ASSUME NEW T \in SUBSET Nat, T # {}
    PROVE  \E x \in T : \A y \in T : x <= y
<1> DEFINE R == {ss \in Nat \X Nat : ss[1] < ss[2]}
<1>1. IsWellFoundedOn(R, Nat)
  BY NatLessThanWellFounded, Zenon DEF OpToRel
<1>2. \A x, y \in Nat : y < x => <<y, x>> \in R
  OBVIOUS
<1> HIDE DEF R
<1>3. PICK x \in T : \A y \in T : ~(<<y, x>> \in R)
  BY <1>1, WFMin, Zenon
<1>4. ASSUME NEW y \in T PROVE x <= y
  <2>1. x \in Nat /\ y \in Nat /\ ~(y < x)
    BY <1>2, <1>3, Zenon
  <2> QED BY <2>1
<1> QED BY <1>4

LEMMA LaterIndex ==
    ASSUME NEW j \in Nat, NEW m \in Nat, NEW t \in Nat, NEW u \in Nat, j = m => t = u, j <= m,
           ~(t < u \/ (t = u /\ j <= m))
    PROVE  j <= m - 1 /\ m - 1 \in Nat /\ u < t
OBVIOUS

LEMMA NotAbove == ASSUME NEW m \in Nat PROVE ~(m <= m - 1)
OBVIOUS

LEMMA LastOrBefore == ASSUME NEW m \in Nat, NEW l \in Nat, l <= m PROVE l = m \/ l <= m - 1
OBVIOUS

\* A batch with censuses of a node has a last one of the newest, by induction
\* on the length of the batch.
LEMMA NewestExists ==
    ASSUME NEW b, Good(b), NEW n, NEW k \in CensusesOf(b, n)
    PROVE  \E i \in CensusesOf(b, n) : NewestCensus(b, i) /\ b[k].ts <= b[i].ts
<1> DEFINE C == CensusesOf(b, n)
           Older(j, i) == b[j].ts < b[i].ts \/ (b[j].ts = b[i].ts /\ j <= i)
           Fails(m) == /\ \E i \in C : i <= m
                       /\ ~ \E i \in C : i <= m /\ \A j \in C : j <= m => Older(j, i)
           T == {m \in Nat : Fails(m)}
<1>1. \A i \in C : i \in Nat /\ b[i].ts \in Nat /\ b[i].node = n /\ i \in DOMAIN b
  BY RecordType DEF CensusesOf, OfKind, Plan
<1>2. T = {}
  <2> SUFFICES ASSUME T # {} PROVE FALSE
    OBVIOUS
  <2> HIDE DEF C
  <2>1. PICK m \in T : \A l \in T : m <= l
    BY LeastNatural, Zenon
  <2>2. PICK i \in C : i <= m
    BY <2>1
  <2>3. m \in Nat /\ m # 0 => m - 1 \in Nat
    BY <2>1
  <2>4. CASE m \notin C
    <3>1. \A j \in C : j <= m => j <= m - 1
      BY <1>1, <2>3, <2>4
    <3>2. m - 1 \in Nat
      BY <1>1, <2>2, <2>3, <2>4
    <3>3. ~Fails(m - 1)
      BY <2>1, <2>3, <3>2
    <3>4. PICK x \in C : x <= m - 1 /\ \A j \in C : j <= m - 1 => Older(j, x)
      BY <2>2, <3>1, <3>3
    <3> QED BY <1>1, <2>1, <2>3, <3>1, <3>4
  <2>5. CASE m \in C
    <3>1. CASE \A j \in C : j <= m => Older(j, m)
      BY <1>1, <2>1, <2>5, <3>1
    <3>2. CASE \E j \in C : j <= m /\ ~Older(j, m)
      <4>1. PICK j \in C : j <= m /\ ~Older(j, m)
        BY <3>2
      <4>2. j \in Nat /\ m \in Nat /\ b[j].ts \in Nat /\ b[m].ts \in Nat
        BY <1>1, <2>3, <2>5, <4>1, Zenon
      <4>3. j <= m - 1 /\ m - 1 \in Nat /\ b[m].ts < b[j].ts
        <5> DEFINE t == b[j].ts
                   u == b[m].ts
        <5>1. j = m => t = u
          OBVIOUS
        <5>2. t \in Nat /\ u \in Nat /\ ~(t < u \/ (t = u /\ j <= m))
          BY <4>1, <4>2, Zenon
        <5> HIDE DEF t, u
        <5>3. j <= m - 1 /\ m - 1 \in Nat /\ u < t
          BY <4>1, <4>2, <5>1, <5>2, LaterIndex
        <5> QED BY <5>3 DEF t, u
      <4>4. m - 1 \notin T
        BY <2>1, <4>2, <4>3, NotAbove, Zenon
      <4>5. PICK x \in C : x <= m - 1 /\ \A l \in C : l <= m - 1 => Older(l, x)
        BY <4>3, <4>4, Zenon
      <4>6. Older(j, x) /\ x \in Nat /\ b[x].ts \in Nat
        BY <1>1, <4>3, <4>5, Zenon
      <4>7. Older(m, x) /\ x <= m
        BY <4>2, <4>3, <4>5, <4>6
      <4>8. ASSUME NEW l \in C, l <= m PROVE Older(l, x)
        <5>1. l \in Nat
          BY <1>1, Zenon
        <5>2. l = m \/ l <= m - 1
          BY <4>2, <4>8, <5>1, LastOrBefore, Zenon
        <5> QED BY <4>5, <4>7, <5>2, Zenon
      <4> QED BY <2>1, <4>7, <4>8, Zenon
    <3> QED BY <3>1, <3>2
  <2> QED BY <2>4, <2>5
<1>3. Len(b) \in Nat /\ DOMAIN b = 1..Len(b)
  BY BatchAssumption, Zenon DEF Good
<1>4. \A i \in C : i <= Len(b)
  BY <1>1, <1>3
<1>5. PICK i \in C : \A j \in C : Older(j, i)
  BY <1>2, <1>3, <1>4
<1>6. NewestCensus(b, i)
  BY <1>1, <1>5 DEF NewestCensus
<1>7. b[k].ts <= b[i].ts
  BY <1>1, <1>5
<1> QED BY <1>6, <1>7

SnapRow(n) == <<"live_snapshots", n>>

\* Every record that is written has its upserts among the statements; for a
\* census it may be that of a newer one.
LEMMA HasStatement ==
    ASSUME NEW b, Good(b), NEW i \in Plan(b)
    PROVE  /\ b[i].kind = "summary" => \E s \in Statements(b) :
                s.op = "summary" /\ s.row = <<"summary", b[i].key>> /\ s.rec = b[i]
           /\ b[i].kind = "live_node" => \E s \in Statements(b) :
                s.op = "live_node" /\ s.row = <<"live_nodes", b[i].node>> /\ s.rec = b[i]
           /\ HasColumns(b[i]) => \E s \in Statements(b) :
                s.op = "node" /\ s.row = <<"nodes", b[i].node>> /\ s.rec = b[i]
           /\ b[i].kind = "live_processes" => \E s \in Statements(b) :
                s.op = "snapshot" /\ s.row = SnapRow(b[i].node) /\ b[i].ts <= s.rec.ts
<1>1. CASE b[i].kind = "summary"
  <2>1. Stmt(1, i, 1, "summary", <<"summary", b[i].key>>, b[i]) \in Statements(b)
    BY <1>1, Zenon DEF Statements, OfKind
  <2> QED BY <1>1, <2>1 DEF Stmt, HasColumns
<1>2. CASE b[i].kind = "node_hardware"
  <2>1. Stmt(3, i, 2, "node", <<"nodes", b[i].node>>, b[i]) \in Statements(b)
    BY <1>2, Zenon DEF Statements, OfKind
  <2> QED BY <1>2, <2>1 DEF Stmt, HasColumns
<1>3. CASE b[i].kind = "live_node"
  <2>1. /\ Stmt(4, i, 1, "live_node", <<"live_nodes", b[i].node>>, b[i]) \in Statements(b)
        /\ Stmt(4, i, 2, "node", <<"nodes", b[i].node>>, b[i]) \in Statements(b)
    BY <1>3, Zenon DEF Statements, OfKind
  <2> QED BY <1>3, <2>1 DEF Stmt, HasColumns
<1>4. CASE b[i].kind = "live_processes"
  <2>1. i \in CensusesOf(b, b[i].node)
    BY <1>4 DEF CensusesOf, OfKind
  <2>2. PICK j \in CensusesOf(b, b[i].node) : NewestCensus(b, j) /\ b[i].ts <= b[j].ts
    BY <2>1, NewestExists, Zenon
  <2>3. j \in OfKind(b, "live_processes") /\ b[j].node = b[i].node
    BY <2>2, Zenon DEF CensusesOf
  <2>4. Stmt(5, Min(CensusesOf(b, b[j].node)), 1, "snapshot", <<"live_snapshots", b[j].node>>, b[j])
          \in Statements(b)
    BY <2>2, <2>3, Zenon DEF Statements
  <2>5. \E s \in Statements(b) :
           s.op = "snapshot" /\ s.row = SnapRow(b[i].node) /\ b[i].ts <= s.rec.ts
    BY <2>2, <2>3, <2>4 DEF Stmt, SnapRow
  <2> QED BY <1>4, <2>5 DEF HasColumns
<1> QED
  BY <1>1, <1>2, <1>3, <1>4, Zenon DEF HasColumns

\* The statements of a node's census: one record, in three calls.
LEMMA SnapshotStatements ==
    ASSUME NEW b, Good(b), NEW s \in Statements(b), NEW t \in Statements(b), s.loop = 5, t.loop = 5,
           s.rec.node = t.rec.node
    PROVE  /\ s.rec = t.rec
           /\ s.op = t.op => s = t
           /\ s.op = "snapshot" /\ t.op # "snapshot" => Before(s, t) /\ ~Before(t, s)
           /\ s.op \in {"snapshot", "delete", "insert"}
           /\ s.op = "snapshot" => s.row = SnapRow(s.rec.node)
<1>1. PICK i \in Plan(b) :
        /\ s.rec = b[i] /\ b[i].kind = "live_processes" /\ NewestCensus(b, i)
        /\ s.at = Min(CensusesOf(b, b[i].node))
        /\ \/ s.op = "snapshot" /\ s.call = 1 /\ s.row = <<"live_snapshots", b[i].node>>
           \/ s.op = "delete" /\ s.call = 2 /\ s.row = <<"live_processes", b[i].node>>
           \/ s.op = "insert" /\ s.call = 3 /\ s.row = <<"live_processes", b[i].node>>
  BY StatementIs, Zenon
<1>2. PICK j \in Plan(b) :
        /\ t.rec = b[j] /\ b[j].kind = "live_processes" /\ NewestCensus(b, j)
        /\ t.at = Min(CensusesOf(b, b[j].node))
        /\ \/ t.op = "snapshot" /\ t.call = 1 /\ t.row = <<"live_snapshots", b[j].node>>
           \/ t.op = "delete" /\ t.call = 2 /\ t.row = <<"live_processes", b[j].node>>
           \/ t.op = "insert" /\ t.call = 3 /\ t.row = <<"live_processes", b[j].node>>
  BY StatementIs, Zenon
<1>3. i = j
  <2>1. i \in CensusesOf(b, b[i].node) /\ j \in CensusesOf(b, b[i].node) /\ b[i].node = b[j].node
    BY <1>1, <1>2, Zenon DEF CensusesOf, OfKind
  <2>2. i \in Nat /\ j \in Nat /\ b[i].ts \in Nat /\ b[j].ts \in Nat
    BY RecordType, Zenon
  <2>3. /\ b[j].ts < b[i].ts \/ (b[j].ts = b[i].ts /\ j <= i)
        /\ b[i].ts < b[j].ts \/ (b[i].ts = b[j].ts /\ i <= j)
    BY <1>1, <1>2, <2>1, Zenon DEF NewestCensus
  <2> QED BY <2>2, <2>3
<1>4. CensusesOf(b, b[i].node) \in SUBSET Nat /\ CensusesOf(b, b[i].node) # {}
  BY <1>1, RecordType, Zenon DEF CensusesOf, OfKind
<1>5. s.at \in Nat
  BY <1>1, <1>4, LeastNatural DEF Min
<1>6. /\ s.rec = t.rec /\ s.at = t.at /\ s.op \in {"snapshot", "delete", "insert"}
      /\ s.op = t.op => s.call = t.call /\ s.row = t.row
      /\ s.op = "snapshot" => s.row = SnapRow(s.rec.node) /\ s.call = 1
      /\ t.op # "snapshot" => t.call \in {2, 3}
  BY <1>1, <1>2, <1>3 DEF SnapRow
<1>7. \A x \in Statements(b) : x = Stmt(x.loop, x.at, x.call, x.op, x.row, x.rec)
  BY SMTT(40) DEF Statements, Stmt
<1>8. s.op = t.op => s = t
  BY <1>6, <1>7, Zenon
<1>9. s.op = "snapshot" /\ t.op # "snapshot" => Before(s, t) /\ ~Before(t, s)
  BY <1>5, <1>6 DEF Before
<1> QED BY <1>6, <1>8, <1>9
-----------------------------------------------------------------------------
(***************************************************************************)
(* Rows: where their values come from, and in which direction they change. *)
(***************************************************************************)
\* v was the value of column c in a record of node n, one of time t at most
\* (at least).
Until(n, c, v, t) ==
    \E r \in ColumnsOf(AllRecords, n) : c \in DOMAIN r.cols /\ v = r.cols[c] /\ r.ts <= t
Since(n, c, v, t) ==
    \E r \in ColumnsOf(AllRecords, n) : c \in DOMAIN r.cols /\ v = r.cols[c] /\ t <= r.ts

SummaryFrom(R, k, v) ==
    \E r \in R : r.kind = "summary" /\ r.key = k /\ v = [count |-> r.count, ts |-> r.ts]
NodeFrom(R, n, v) ==
    /\ \E r \in ColumnsOf(R, n) : v.first_seen = r.ts
    /\ \E r \in ColumnsOf(R, n) : v.last_seen = r.ts
    /\ \A c \in {"label", "boot_id"} : v[c] # None => Until(n, c, v[c], v.last_seen)
LiveFrom(R, n, v) ==
    /\ \E r \in R : /\ r.kind = "live_node" /\ r.node = n /\ v.updated_at = r.ts
                    /\ \A c \in DOMAIN r.cols : c \in DOMAIN v.cols /\ v.cols[c] = r.cols[c]
    /\ \A c \in DOMAIN v.cols : Until(n, c, v.cols[c], v.updated_at)
SnapshotFrom(R, n, v) ==
    \E r \in R : r.kind = "live_processes" /\ r.node = n /\ v = [ts |-> r.ts]

\* The row holds what records of R say.
Genuine(R, row, v) ==
    /\ row[1] = "summary" => SummaryFrom(R, row[2], v)
    /\ row[1] = "nodes" => NodeFrom(R, row[2], v)
    /\ row[1] = "live_nodes" => LiveFrom(R, row[2], v)
    /\ row[1] = "live_snapshots" => SnapshotFrom(R, row[2], v)

NodeAhead(n, old, new) ==
    /\ new.first_seen <= old.first_seen /\ old.last_seen <= new.last_seen
    /\ \A c \in {"label", "boot_id"} :
          new[c] = old[c] \/ (new[c] # None /\ Since(n, c, new[c], old.last_seen))
LiveAhead(n, old, new) ==
    /\ old.updated_at <= new.updated_at /\ DOMAIN old.cols \subseteq DOMAIN new.cols
    /\ \A c \in DOMAIN old.cols :
          new.cols[c] = old.cols[c] \/ Since(n, c, new.cols[c], old.updated_at)

\* The row went from old to new without going back.
Ahead(row, old, new) ==
    /\ row[1] = "summary" => old.count <= new.count
    /\ row[1] = "nodes" => NodeAhead(row[2], old, new)
    /\ row[1] = "live_nodes" => LiveAhead(row[2], old, new)
    /\ row[1] = "live_snapshots" => old.ts <= new.ts

\* The row is not behind record r.
Covers(row, v, r) ==
    /\ row[1] = "summary" => r.count <= v.count
    /\ row[1] = "nodes" => v.first_seen <= r.ts /\ r.ts <= v.last_seen
    /\ row[1] = "live_nodes" => r.ts <= v.updated_at
    /\ row[1] = "live_snapshots" => r.ts <= v.ts

\* Every row that record r goes to is there, and not behind it.
RowsOf(r) ==
    (IF r.kind = "summary" THEN {<<"summary", r.key>>} ELSE {})
    \cup (IF r.kind = "live_node" THEN {<<"live_nodes", r.node>>} ELSE {})
    \cup (IF HasColumns(r) THEN {<<"nodes", r.node>>} ELSE {})
    \cup (IF r.kind = "live_processes" THEN {SnapRow(r.node)} ELSE {})
Covered(D, r) == \A row \in RowsOf(r) : row \in DOMAIN D /\ Covers(row, D[row], r)
-----------------------------------------------------------------------------
(***************************************************************************)
(* The inductive invariants.                                               *)
(***************************************************************************)
Fields == {"pc", "batch", "stmts", "rows", "del", "ins", "todo", "locks", "made", "created"}

\* Each writer is idle, or writes a batch of good records.
WriterInv ==
    /\ DOMAIN writer = Writer /\ \A w \in Writer : DOMAIN writer[w] = Fields
    /\ \A w \in Writer :
         LET me == writer[w]
         IN  /\ me.pc \in {"idle", "apply", "create"}
             /\ me.pc = "idle" => me.batch = <<>>
             /\ me.pc # "idle" => Good(me.batch)
             /\ me.pc # "apply" => me.rows = NoRows /\ me.stmts = {}
             /\ me.stmts \subseteq Statements(me.batch)
    /\ \A b \in applied : Good(b)

\* A table's lock is taken after those of the tables before it, and held by
\* one writer; a month of the batch is to be made, made, or there.
LockInv ==
    \A w \in Writer :
        LET me == writer[w]
        IN  /\ me.pc = "create" => me.todo \subseteq Months(me.batch)
            /\ me.pc # "create" => me.todo = {} /\ me.locks = {}
            /\ "summary" \in me.locks => \A p \in me.todo : p[1] # "event"
            /\ me.locks \subseteq {"event", "summary"}
            /\ \A v \in Writer \ {w} : me.locks \cap writer[v].locks = {}
            /\ me.created => me.pc = "apply" /\ Months(me.batch) \subseteq partitions
            /\ me.pc = "create" => Months(me.batch) \subseteq me.todo \cup me.made \cup partitions

Upserts(b) == {s \in Statements(b) : s.op \notin {"delete", "insert"}}

\* The rows of a transaction are from records of R, and ahead of those of D.
RowsOk(R, D, rows) ==
    \A row \in DOMAIN rows :
        Genuine(R, row, rows[row]) /\ (row \in DOMAIN D => Ahead(row, D[row], rows[row]))

\* The upserts of b that are no longer among stmts show in V.
Done(b, stmts, V) ==
    \A s \in Upserts(b) \ stmts : s.row \in DOMAIN V /\ Covers(s.row, V[s.row], s.rec)

\* Rows hold what records say, no transaction takes one back, no two have the
\* same, and none is behind a record that was written to it.
RowInv ==
    /\ \A row \in DOMAIN db : Genuine(Written, row, db[row])
    /\ \A r \in Written : Covered(db, r)
    /\ \A w \in Writer :
         LET me == writer[w]
         IN  /\ RowsOk(Written \cup Records(me.batch), db, me.rows)
             /\ me.pc = "apply" => Done(me.batch, me.stmts, View(w))
    /\ \A w \in Writer : \A v \in Writer \ {w} : DOMAIN writer[w].rows \cap DOMAIN writer[v].rows = {}

ProcessesOf(S, n) == {p \in S : p.node = n}
CensusStmts(S, n) == {s \in S : s.loop = 5 /\ s.rec.node = n}
Pending(w, n, op) == \E s \in CensusStmts(writer[w].stmts, n) : s.op = op

\* The census of node n in the transaction of writer w: not begun, dropped as
\* older than the stored one, or replacing the node's processes.
CensusAwaits(w, n) ==
    /\ SnapRow(n) \notin DOMAIN writer[w].rows
    /\ ProcessesOf(writer[w].del, n) = {} /\ ProcessesOf(writer[w].ins, n) = {}
    /\ CensusStmts(writer[w].stmts, n) = CensusStmts(Statements(writer[w].batch), n)
CensusDropped(w, n) ==
    /\ SnapRow(n) \in DOMAIN writer[w].rows /\ SnapRow(n) \in DOMAIN db
    /\ writer[w].rows[SnapRow(n)] = db[SnapRow(n)]
    /\ ProcessesOf(writer[w].del, n) = {} /\ ProcessesOf(writer[w].ins, n) = {}
    /\ CensusStmts(writer[w].stmts, n) = {}
    /\ \A s \in CensusStmts(Statements(writer[w].batch), n) :
          SnapshotStale(writer[w].rows[SnapRow(n)], s.rec)
CensusReplaces(w, n, r) ==
    /\ r.kind = "live_processes" /\ r.node = n
    /\ SnapRow(n) \in DOMAIN writer[w].rows /\ writer[w].rows[SnapRow(n)].ts = r.ts
    /\ \A s \in CensusStmts(Statements(writer[w].batch), n) : s.rec = r
    /\ \A s \in CensusStmts(writer[w].stmts, n) : s.rec = r /\ s.op # "snapshot"
    /\ ProcessesOf(writer[w].del, n) = IF Pending(w, n, "delete") THEN {} ELSE ProcessesOf(processes, n)
    /\ ProcessesOf(writer[w].ins, n) = IF Pending(w, n, "insert") THEN {} ELSE ProcessRows(r)

CensusOk(w, n) ==
    \/ CensusAwaits(w, n)
    \/ CensusDropped(w, n)
    \/ \E r \in Records(writer[w].batch) : CensusReplaces(w, n, r)

SnapshotInv ==
    /\ SnapshotWhole
    /\ \A w \in Writer : writer[w].pc = "apply" => \A n : CensusOk(w, n)
-----------------------------------------------------------------------------
(***************************************************************************)
(* The upserts keep rows genuine and never take one back.                  *)
(***************************************************************************)
LEMMA MinMaxOfTwo ==
    ASSUME NEW x \in Nat, NEW y \in Nat
    PROVE  /\ Min({x, y}) = IF x <= y THEN x ELSE y
           /\ Max({x, y}) = IF x <= y THEN y ELSE x
<1>1. ASSUME x <= y PROVE Min({x, y}) = x /\ Max({x, y}) = y
  BY <1>1 DEF Min, Max
<1>2. ASSUME ~(x <= y) PROVE Min({x, y}) = y /\ Max({x, y}) = x
  BY <1>2 DEF Min, Max
<1> QED BY <1>1, <1>2

LEMMA InsertedIs ==
    ASSUME NEW r
    PROVE  /\ Inserted("summary", r) = [count |-> r.count, ts |-> r.ts]
           /\ Inserted("node", r) = [label |-> Col(r, "label"), boot_id |-> Col(r, "boot_id"),
                                     first_seen |-> r.ts, last_seen |-> r.ts]
           /\ Inserted("live_node", r) = [updated_at |-> r.ts, cols |-> r.cols]
           /\ Inserted("snapshot", r) = [ts |-> r.ts]
BY Zenon DEF Inserted

LEMMA UpdatedIs ==
    ASSUME NEW r, NEW old
    PROVE  /\ Updated("summary", old, r) = SummaryUpsert(old, r)
           /\ Updated("node", old, r) = NodeUpsert(old, r)
           /\ Updated("live_node", old, r) = LiveNodeUpsert(old, r)
           /\ Updated("snapshot", old, r) = SnapshotUpsert(old, r)
BY Zenon DEF Updated

\* nodes: label and boot_id follow the record only where it is not older than
\* the row.
LEMMA NodeUpserted ==
    ASSUME NEW R, R \subseteq AllRecords, NEW n, NEW r \in ColumnsOf(R, n), NEW old, NodeFrom(R, n, old)
    PROVE  LET new == NodeUpsert(old, r)
           IN  /\ NodeFrom(R, n, new) /\ NodeAhead(n, old, new)
               /\ new.first_seen <= r.ts /\ r.ts <= new.last_seen
<1> DEFINE new == NodeUpsert(old, r)
<1>1. r \in ColumnsOf(AllRecords, n) /\ HasColumns(r) /\ r.node = n /\ r \in AllRecords
  BY Zenon DEF ColumnsOf
<1>2. PICK p \in ColumnsOf(R, n) : old.first_seen = p.ts
  BY Zenon DEF NodeFrom
<1>3. PICK q \in ColumnsOf(R, n) : old.last_seen = q.ts
  BY Zenon DEF NodeFrom
<1>4. r.ts \in Nat /\ old.first_seen \in Nat /\ old.last_seen \in Nat
  BY <1>1, <1>2, <1>3, AnyRecordType, Zenon DEF ColumnsOf
<1>5. /\ new.first_seen = Min({old.first_seen, r.ts}) /\ new.last_seen = Max({old.last_seen, r.ts})
      /\ new["label"] = IF "label" \in DOMAIN r.cols /\ r.ts >= old.last_seen
                        THEN Col(r, "label") ELSE old["label"]
      /\ new["boot_id"] = IF Col(r, "boot_id") # None /\ r.ts >= old.last_seen
                          THEN Col(r, "boot_id") ELSE old["boot_id"]
  BY DEF NodeUpsert
<1> HIDE DEF new
<1>6. /\ new.first_seen <= r.ts /\ r.ts <= new.last_seen
      /\ new.first_seen <= old.first_seen /\ old.last_seen <= new.last_seen
      /\ new.first_seen \in {old.first_seen, r.ts} /\ new.last_seen \in {old.last_seen, r.ts}
      /\ r.ts >= old.last_seen => new.last_seen = r.ts
  <2>1. /\ new.first_seen = IF old.first_seen <= r.ts THEN old.first_seen ELSE r.ts
        /\ new.last_seen = IF old.last_seen <= r.ts THEN r.ts ELSE old.last_seen
    BY <1>4, <1>5, MinMaxOfTwo, Zenon
  <2> QED BY <1>4, <2>1
<1>7. \A c \in {"label", "boot_id"} :
         \/ new[c] = old[c]
         \/ /\ new[c] # None /\ c \in DOMAIN r.cols /\ new[c] = r.cols[c]
            /\ old.last_seen <= r.ts /\ new.last_seen = r.ts
  <2>1. "label" \in DOMAIN r.cols => r.cols["label"] # None
    BY <1>1, <1>4, Stamps
  <2> QED BY <1>4, <1>5, <1>6, <2>1 DEF Col
<1>8. \A c \in {"label", "boot_id"} :
         new[c] = old[c] \/ (new[c] # None /\ Since(n, c, new[c], old.last_seen))
  BY <1>1, <1>7, Zenon DEF Since
<1>9. ASSUME NEW c \in {"label", "boot_id"}, new[c] # None PROVE Until(n, c, new[c], new.last_seen)
  <2>1. CASE new[c] = old[c]
    <3>1. PICK x \in ColumnsOf(AllRecords, n) : c \in DOMAIN x.cols /\ old[c] = x.cols[c] /\ x.ts <= old.last_seen
      BY <1>9, <2>1, Zenon DEF NodeFrom, Until
    <3>2. x.ts \in Nat
      BY AnyRecordType, Zenon DEF ColumnsOf
    <3>3. new.last_seen \in Nat
      BY <1>4, <1>6
    <3>4. x.ts <= new.last_seen
      BY <1>4, <1>6, <3>1, <3>2, <3>3
    <3> QED BY <2>1, <3>1, <3>4, Zenon DEF Until
  <2>2. CASE /\ c \in DOMAIN r.cols /\ new[c] = r.cols[c] /\ new.last_seen = r.ts
    <3>1. r.ts <= new.last_seen
      BY <1>4, <2>2
    <3> QED BY <1>1, <2>2, <3>1, Zenon DEF Until
  <2> QED BY <1>7, <2>1, <2>2, Zenon
<1>10. /\ \E x \in ColumnsOf(R, n) : new.first_seen = x.ts
       /\ \E x \in ColumnsOf(R, n) : new.last_seen = x.ts
  BY <1>2, <1>3, <1>6, Zenon
<1> QED BY <1>6, <1>8, <1>9, <1>10, Zenon DEF NodeFrom, NodeAhead, new

\* live_nodes: a record that is not older overwrites the columns it has.
LEMMA LiveUpserted ==
    ASSUME NEW R, R \subseteq AllRecords, NEW n, NEW r \in R, r.kind = "live_node", r.node = n,
           NEW old, LiveFrom(R, n, old)
    PROVE  LET new == LiveNodeUpsert(old, r)
           IN  LiveFrom(R, n, new) /\ LiveAhead(n, old, new) /\ r.ts <= new.updated_at
<1> DEFINE new == LiveNodeUpsert(old, r)
<1>1. r \in ColumnsOf(AllRecords, n)
  BY DEF ColumnsOf, HasColumns
<1>2. r.ts \in Nat /\ old.updated_at \in Nat
  BY AnyRecordType, Zenon DEF LiveFrom
<1>3. CASE old.updated_at <= r.ts
  <2>1. new.updated_at = r.ts /\ new.cols = Over(r.cols, old.cols)
    BY <1>3 DEF LiveNodeUpsert
  <2>2. DOMAIN new.cols = DOMAIN r.cols \cup DOMAIN old.cols
    BY <2>1 DEF Over
  <2>3. \A c \in DOMAIN new.cols : new.cols[c] = IF c \in DOMAIN r.cols THEN r.cols[c] ELSE old.cols[c]
    BY <2>1 DEF Over
  <2> HIDE DEF new
  <2>4. r.ts <= r.ts
    BY <1>2
  <2>5. ASSUME NEW c \in DOMAIN new.cols PROVE Until(n, c, new.cols[c], new.updated_at)
    <3>1. CASE c \in DOMAIN r.cols
      BY <1>1, <2>1, <2>3, <2>4, <3>1, Zenon DEF Until
    <3>2. CASE c \notin DOMAIN r.cols
      <4>1. PICK x \in ColumnsOf(AllRecords, n) :
               c \in DOMAIN x.cols /\ old.cols[c] = x.cols[c] /\ x.ts <= old.updated_at
        BY <2>2, <3>2, Zenon DEF LiveFrom, Until
      <4>2. x.ts \in Nat
        BY AnyRecordType, Zenon DEF ColumnsOf
      <4>3. x.ts <= new.updated_at
        BY <1>2, <1>3, <2>1, <4>1, <4>2
      <4> QED BY <2>3, <3>2, <4>1, <4>3, Zenon DEF Until
    <3> QED BY <3>1, <3>2
  <2>6. LiveFrom(R, n, new)
    BY <2>1, <2>2, <2>3, <2>5, Zenon DEF LiveFrom
  <2>7. ASSUME NEW c \in DOMAIN old.cols
        PROVE  new.cols[c] = old.cols[c] \/ Since(n, c, new.cols[c], old.updated_at)
    BY <1>1, <1>3, <2>2, <2>3, Zenon DEF Since
  <2>8. LiveAhead(n, old, new)
    BY <1>3, <2>1, <2>2, <2>7, Zenon DEF LiveAhead
  <2> QED BY <2>1, <2>4, <2>6, <2>8, Zenon DEF new
<1>4. CASE ~(old.updated_at <= r.ts)
  <2>1. new = old
    BY <1>4, Zenon DEF LiveNodeUpsert
  <2>2. old.updated_at <= old.updated_at /\ r.ts <= old.updated_at
    BY <1>2, <1>4
  <2> QED BY <2>1, <2>2, Zenon DEF LiveAhead, new
<1> QED BY <1>3, <1>4, Zenon

\* An upsert: its record and its row.
LEMMA UpsertIs ==
    ASSUME NEW b, Good(b), NEW s \in Upserts(b)
    PROVE  /\ s.rec \in Records(b)
           /\ \/ s.op = "summary" /\ s.rec.kind = "summary" /\ s.row = <<"summary", s.rec.key>>
              \/ s.op \in {"event", "hardware"} /\ s.row[1] \in {"event", "hardware"}
              \/ s.op = "node" /\ HasColumns(s.rec) /\ s.row = <<"nodes", s.rec.node>>
              \/ s.op = "live_node" /\ s.rec.kind = "live_node" /\ s.row = <<"live_nodes", s.rec.node>>
              \/ /\ s.op = "snapshot" /\ s.rec.kind = "live_processes"
                 /\ s.row = <<"live_snapshots", s.rec.node>>
<1>1. s \in Statements(b) /\ s.op \notin {"delete", "insert"}
  BY Zenon DEF Upserts
<1>2. PICK i \in Plan(b) :
        /\ s.rec = b[i]
        /\ \/ s.op = "summary" /\ b[i].kind = "summary" /\ s.row = <<"summary", b[i].key>>
           \/ s.op = "event" /\ b[i].kind = "event" /\ s.row = <<"event", b[i].key>>
           \/ /\ s.op = "hardware" /\ b[i].kind = "node_hardware"
              /\ s.row = <<"hardware", <<b[i].node, b[i].boot_id>>>>
           \/ /\ s.op = "node" /\ b[i].kind \in {"node_hardware", "live_node"}
              /\ s.row = <<"nodes", b[i].node>>
           \/ s.op = "live_node" /\ b[i].kind = "live_node" /\ s.row = <<"live_nodes", b[i].node>>
           \/ s.op = "snapshot" /\ b[i].kind = "live_processes" /\ s.row = <<"live_snapshots", b[i].node>>
  BY <1>1, StatementIs
<1>3. s.rec \in Records(b)
  BY <1>2, RecordType, Zenon
<1> QED BY <1>2, <1>3 DEF HasColumns

\* What an upsert that inserts leaves.
LEMMA InsertGenuine ==
    ASSUME NEW b, Good(b), NEW s \in Upserts(b), NEW R, Records(b) \subseteq R, R \subseteq AllRecords
    PROVE  LET new == Inserted(s.op, s.rec)
           IN  Genuine(R, s.row, new) /\ Covers(s.row, new, s.rec)
<1> DEFINE new == Inserted(s.op, s.rec)
           r == s.rec
<1>1. /\ r \in Records(b)
      /\ \/ s.op = "summary" /\ r.kind = "summary" /\ s.row = <<"summary", r.key>>
         \/ s.op \in {"event", "hardware"} /\ s.row[1] \in {"event", "hardware"}
         \/ s.op = "node" /\ HasColumns(r) /\ s.row = <<"nodes", r.node>>
         \/ s.op = "live_node" /\ r.kind = "live_node" /\ s.row = <<"live_nodes", r.node>>
         \/ s.op = "snapshot" /\ r.kind = "live_processes" /\ s.row = <<"live_snapshots", r.node>>
  BY UpsertIs, Zenon
<1>3. r \in R /\ r \in AllRecords
  BY <1>1, Zenon
<1>4. r.ts \in Nat /\ (r.kind = "summary" => r.count \in Nat)
  BY <1>3, AnyRecordType, Zenon
<1>5. r.ts <= r.ts /\ (r.kind = "summary" => r.count <= r.count)
  BY <1>4
<1> HIDE DEF r
<1>6. CASE s.op = "summary" /\ r.kind = "summary" /\ s.row = <<"summary", r.key>>
  <2>1. new = [count |-> r.count, ts |-> r.ts]
    BY <1>6, InsertedIs, Zenon DEF r
  <2>2. SummaryFrom(R, r.key, new)
    BY <1>3, <1>6, <2>1, Zenon DEF SummaryFrom
  <2> HIDE DEF new
  <2>3. s.row[1] = "summary" /\ s.row[2] = r.key /\ new.count = r.count
    BY <1>6, <2>1
  <2>4. s.row[1] \notin {"nodes", "live_nodes", "live_snapshots"}
    BY <2>3
  <2> QED BY <1>5, <1>6, <2>2, <2>3, <2>4, Zenon DEF Genuine, Covers, new, r
<1>7. CASE s.op \in {"event", "hardware"} /\ s.row[1] \in {"event", "hardware"}
  <2>1. s.row[1] \notin {"summary", "nodes", "live_nodes", "live_snapshots"}
    BY <1>7
  <2> QED BY <2>1, Zenon DEF Genuine, Covers
<1>8. CASE s.op = "node" /\ HasColumns(r) /\ s.row = <<"nodes", r.node>>
  <2>1. new = [label |-> Col(r, "label"), boot_id |-> Col(r, "boot_id"),
               first_seen |-> r.ts, last_seen |-> r.ts]
    BY <1>8, InsertedIs, Zenon DEF r
  <2> HIDE DEF new
  <2>2. /\ new["label"] = Col(r, "label") /\ new["boot_id"] = Col(r, "boot_id")
        /\ new.first_seen = r.ts /\ new.last_seen = r.ts
        /\ s.row[1] = "nodes" /\ s.row[2] = r.node
    BY <1>8, <2>1
  <2>3. r \in ColumnsOf(R, r.node) /\ r \in ColumnsOf(AllRecords, r.node)
    BY <1>3, <1>8, Zenon DEF ColumnsOf
  <2>4. \A c \in {"label", "boot_id"} : new[c] # None => c \in DOMAIN r.cols /\ new[c] = r.cols[c]
    BY <2>2 DEF Col
  <2>5. \A c \in {"label", "boot_id"} : new[c] # None => Until(r.node, c, new[c], new.last_seen)
    BY <1>5, <2>2, <2>3, <2>4, Zenon DEF Until
  <2>6. NodeFrom(R, r.node, new)
    BY <2>2, <2>3, <2>5, Zenon DEF NodeFrom
  <2>7. s.row[1] \notin {"summary", "live_nodes", "live_snapshots"}
    BY <2>2
  <2> QED BY <1>5, <2>2, <2>6, <2>7, Zenon DEF Genuine, Covers, new, r
<1>9. CASE s.op = "live_node" /\ r.kind = "live_node" /\ s.row = <<"live_nodes", r.node>>
  <2>1. new = [updated_at |-> r.ts, cols |-> r.cols]
    BY <1>9, InsertedIs, Zenon DEF r
  <2> HIDE DEF new
  <2>2. new.updated_at = r.ts /\ new.cols = r.cols /\ s.row[1] = "live_nodes" /\ s.row[2] = r.node
    BY <1>9, <2>1
  <2>3. r \in ColumnsOf(AllRecords, r.node)
    BY <1>3, <1>9 DEF ColumnsOf, HasColumns
  <2>4. \A c \in DOMAIN new.cols : Until(r.node, c, new.cols[c], new.updated_at)
    BY <1>5, <2>2, <2>3, Zenon DEF Until
  <2>5. LiveFrom(R, r.node, new)
    BY <1>3, <1>9, <2>2, <2>4, Zenon DEF LiveFrom
  <2>6. s.row[1] \notin {"summary", "nodes", "live_snapshots"}
    BY <2>2
  <2> QED BY <1>5, <2>2, <2>5, <2>6, Zenon DEF Genuine, Covers, new, r
<1>10. CASE s.op = "snapshot" /\ r.kind = "live_processes" /\ s.row = <<"live_snapshots", r.node>>
  <2>1. new = [ts |-> r.ts]
    BY <1>10, InsertedIs, Zenon DEF r
  <2> HIDE DEF new
  <2>2. new.ts = r.ts /\ s.row[1] = "live_snapshots" /\ s.row[2] = r.node
    BY <1>10, <2>1
  <2>3. SnapshotFrom(R, r.node, new)
    BY <1>3, <1>10, <2>1, Zenon DEF SnapshotFrom
  <2>4. s.row[1] \notin {"summary", "nodes", "live_nodes"}
    BY <2>2
  <2> QED BY <1>5, <2>2, <2>3, <2>4, Zenon DEF Genuine, Covers, new, r
<1> QED BY <1>1, <1>6, <1>7, <1>8, <1>9, <1>10, Zenon

\* What an upsert that finds the row leaves.
LEMMA UpdateGenuine ==
    ASSUME NEW b, Good(b), NEW s \in Upserts(b), NEW R, Records(b) \subseteq R, R \subseteq AllRecords,
           NEW old, Genuine(R, s.row, old)
    PROVE  LET new == Updated(s.op, old, s.rec)
           IN  /\ ~DoNothing(s.op) => Genuine(R, s.row, new) /\ Ahead(s.row, old, new)
                                      /\ Covers(s.row, new, s.rec)
               /\ DoNothing(s.op) => Covers(s.row, old, s.rec)
<1> DEFINE new == Updated(s.op, old, s.rec)
           r == s.rec
<1>1. /\ r \in Records(b)
      /\ \/ s.op = "summary" /\ r.kind = "summary" /\ s.row = <<"summary", r.key>>
         \/ s.op \in {"event", "hardware"} /\ s.row[1] \in {"event", "hardware"}
         \/ s.op = "node" /\ HasColumns(r) /\ s.row = <<"nodes", r.node>>
         \/ s.op = "live_node" /\ r.kind = "live_node" /\ s.row = <<"live_nodes", r.node>>
         \/ s.op = "snapshot" /\ r.kind = "live_processes" /\ s.row = <<"live_snapshots", r.node>>
  BY UpsertIs, Zenon
<1>3. r \in R /\ r \in AllRecords
  BY <1>1, Zenon
<1>4. r.ts \in Nat /\ (r.kind = "summary" => r.count \in Nat)
  BY <1>3, AnyRecordType, Zenon
<1> HIDE DEF r
<1>6. CASE s.op = "summary" /\ r.kind = "summary" /\ s.row = <<"summary", r.key>>
  <2>1. new = SummaryUpsert(old, r)
    BY <1>6, UpdatedIs, Zenon DEF r
  <2> HIDE DEF new
  <2>2. s.row[1] = "summary" /\ s.row[2] = r.key
    BY <1>6
  <2>3. SummaryFrom(R, r.key, old)
    BY <2>2, Zenon DEF Genuine
  <2>4. PICK q \in R : q.kind = "summary" /\ q.key = r.key /\ old = [count |-> q.count, ts |-> q.ts]
    BY <2>3, Zenon DEF SummaryFrom
  <2>5. q.count \in Nat /\ old.count = q.count
    BY <2>4, AnyRecordType
  <2>6. new = [count |-> r.count, ts |-> r.ts] \/ new = old
    BY <2>1, Zenon DEF SummaryUpsert
  <2>7. SummaryFrom(R, r.key, new)
    BY <1>3, <1>6, <2>3, <2>6, Zenon DEF SummaryFrom
  <2>8. old.count <= new.count /\ r.count <= new.count
    BY <1>4, <1>6, <2>1, <2>5 DEF SummaryUpsert
  <2>9. s.row[1] \notin {"nodes", "live_nodes", "live_snapshots"} /\ ~DoNothing(s.op)
    BY <1>6, <2>2 DEF DoNothing
  <2> QED BY <2>2, <2>7, <2>8, <2>9, Zenon DEF Genuine, Ahead, Covers, new, r
<1>7. CASE s.op \in {"event", "hardware"} /\ s.row[1] \in {"event", "hardware"}
  <2>1. s.row[1] \notin {"summary", "nodes", "live_nodes", "live_snapshots"} /\ DoNothing(s.op)
    BY <1>7 DEF DoNothing
  <2> QED BY <2>1, Zenon DEF Covers
<1>8. CASE s.op = "node" /\ HasColumns(r) /\ s.row = <<"nodes", r.node>>
  <2>1. new = NodeUpsert(old, r)
    BY <1>8, UpdatedIs, Zenon DEF r
  <2> HIDE DEF new
  <2>2. s.row[1] = "nodes" /\ s.row[2] = r.node
    BY <1>8
  <2>3. r \in ColumnsOf(R, r.node) /\ NodeFrom(R, r.node, old)
    BY <1>3, <1>8, <2>2, Zenon DEF ColumnsOf, Genuine
  <2>4. /\ NodeFrom(R, r.node, new) /\ NodeAhead(r.node, old, new)
        /\ new.first_seen <= r.ts /\ r.ts <= new.last_seen
    BY <2>1, <2>3, NodeUpserted, Zenon
  <2>5. s.row[1] \notin {"summary", "live_nodes", "live_snapshots"} /\ ~DoNothing(s.op)
    BY <1>8, <2>2 DEF DoNothing
  <2> QED BY <2>2, <2>4, <2>5, Zenon DEF Genuine, Ahead, Covers, new, r
<1>9. CASE s.op = "live_node" /\ r.kind = "live_node" /\ s.row = <<"live_nodes", r.node>>
  <2>1. new = LiveNodeUpsert(old, r)
    BY <1>9, UpdatedIs, Zenon DEF r
  <2> HIDE DEF new
  <2>2. s.row[1] = "live_nodes" /\ s.row[2] = r.node
    BY <1>9
  <2>3. LiveFrom(R, r.node, old)
    BY <2>2, Zenon DEF Genuine
  <2>4. LiveFrom(R, r.node, new) /\ LiveAhead(r.node, old, new) /\ r.ts <= new.updated_at
    BY <1>3, <1>9, <2>1, <2>3, LiveUpserted, Zenon
  <2>5. s.row[1] \notin {"summary", "nodes", "live_snapshots"} /\ ~DoNothing(s.op)
    BY <1>9, <2>2 DEF DoNothing
  <2> QED BY <2>2, <2>4, <2>5, Zenon DEF Genuine, Ahead, Covers, new, r
<1>10. CASE s.op = "snapshot" /\ r.kind = "live_processes" /\ s.row = <<"live_snapshots", r.node>>
  <2>1. new = SnapshotUpsert(old, r)
    BY <1>10, UpdatedIs, Zenon DEF r
  <2> HIDE DEF new
  <2>2. s.row[1] = "live_snapshots" /\ s.row[2] = r.node
    BY <1>10
  <2>3. SnapshotFrom(R, r.node, old)
    BY <2>2, Zenon DEF Genuine
  <2>4. PICK q \in R : q.kind = "live_processes" /\ q.node = r.node /\ old = [ts |-> q.ts]
    BY <2>3, Zenon DEF SnapshotFrom
  <2>5. q.ts \in Nat /\ old.ts = q.ts
    BY <2>4, AnyRecordType
  <2>6. new = [ts |-> r.ts] \/ new = old
    BY <2>1, Zenon DEF SnapshotUpsert
  <2>7. SnapshotFrom(R, r.node, new)
    BY <1>3, <1>10, <2>3, <2>6, Zenon DEF SnapshotFrom
  <2>8. old.ts <= new.ts /\ r.ts <= new.ts
    BY <1>4, <2>1, <2>5 DEF SnapshotUpsert, SnapshotStale
  <2>9. s.row[1] \notin {"summary", "nodes", "live_nodes"} /\ ~DoNothing(s.op)
    BY <1>10, <2>2 DEF DoNothing
  <2> QED BY <2>2, <2>7, <2>8, <2>9, Zenon DEF Genuine, Ahead, Covers, new, r
<1> QED BY <1>1, <1>6, <1>7, <1>8, <1>9, <1>10, Zenon

LEMMA GenuineMore ==
    ASSUME NEW R, NEW S, R \subseteq S, NEW row, NEW v, Genuine(R, row, v)
    PROVE  Genuine(S, row, v)
<1>1. \A n : ColumnsOf(R, n) \subseteq ColumnsOf(S, n)
  BY Zenon DEF ColumnsOf
<1>2. row[1] = "summary" => SummaryFrom(S, row[2], v)
  BY Zenon DEF Genuine, SummaryFrom
<1>3. row[1] = "nodes" => NodeFrom(S, row[2], v)
  BY <1>1, Zenon DEF Genuine, NodeFrom
<1>4. row[1] = "live_nodes" => LiveFrom(S, row[2], v)
  BY Zenon DEF Genuine, LiveFrom
<1>5. row[1] = "live_snapshots" => SnapshotFrom(S, row[2], v)
  BY Zenon DEF Genuine, SnapshotFrom
<1> QED BY <1>2, <1>3, <1>4, <1>5, Zenon DEF Genuine

LEMMA GenuineNumbers ==
    ASSUME NEW R, R \subseteq AllRecords, NEW row, NEW v, Genuine(R, row, v)
    PROVE  /\ row[1] = "summary" => v.count \in Nat
           /\ row[1] = "nodes" => v.first_seen \in Nat /\ v.last_seen \in Nat
           /\ row[1] = "live_nodes" => v.updated_at \in Nat
           /\ row[1] = "live_snapshots" => v.ts \in Nat
<1>1. ASSUME row[1] = "summary" PROVE v.count \in Nat
  <2>1. PICK r \in R : r.kind = "summary" /\ v = [count |-> r.count, ts |-> r.ts]
    BY <1>1, Zenon DEF Genuine, SummaryFrom
  <2>2. r.count \in Nat
    BY <2>1, AnyRecordType, Zenon
  <2> QED BY <2>1, <2>2
<1>2. ASSUME row[1] = "nodes" PROVE v.first_seen \in Nat /\ v.last_seen \in Nat
  BY <1>2, AnyRecordType, Zenon DEF Genuine, NodeFrom, ColumnsOf
<1>3. ASSUME row[1] = "live_nodes" PROVE v.updated_at \in Nat
  BY <1>3, AnyRecordType, Zenon DEF Genuine, LiveFrom
<1>4. ASSUME row[1] = "live_snapshots" PROVE v.ts \in Nat
  <2>1. PICK r \in R : v = [ts |-> r.ts]
    BY <1>4, Zenon DEF Genuine, SnapshotFrom
  <2>2. r.ts \in Nat
    BY <2>1, AnyRecordType, Zenon
  <2> QED BY <2>1, <2>2
<1> QED BY <1>1, <1>2, <1>3, <1>4, Zenon

LEMMA LessEqTransitive ==
    ASSUME NEW x \in Nat, NEW y \in Nat, NEW z \in Nat, x <= y, y <= z
    PROVE  x <= z
OBVIOUS

LEMMA LessEqSelf == ASSUME NEW x \in Nat PROVE x <= x
OBVIOUS

LEMMA AheadSelf ==
    ASSUME NEW R, R \subseteq AllRecords, NEW row, NEW v, Genuine(R, row, v)
    PROVE  Ahead(row, v, v)
BY GenuineNumbers, LessEqSelf, Zenon DEF Ahead, NodeAhead, LiveAhead

LEMMA SinceEarlier ==
    ASSUME NEW n, NEW c, NEW v, NEW t \in Nat, NEW u \in Nat, t <= u, Since(n, c, v, u)
    PROVE  Since(n, c, v, t)
<1>1. PICK r \in ColumnsOf(AllRecords, n) : c \in DOMAIN r.cols /\ v = r.cols[c] /\ u <= r.ts
  BY Zenon DEF Since
<1>2. r.ts \in Nat
  BY AnyRecordType, Zenon DEF ColumnsOf
<1>3. t <= r.ts
  BY <1>1, <1>2, LessEqTransitive, Zenon
<1> QED BY <1>1, <1>3, Zenon DEF Since

LEMMA AheadTransitive ==
    ASSUME NEW R, R \subseteq AllRecords, NEW row, NEW x, NEW y, NEW z,
           Genuine(R, row, x), Genuine(R, row, y), Genuine(R, row, z), Ahead(row, x, y), Ahead(row, y, z)
    PROVE  Ahead(row, x, z)
<1>1. ASSUME row[1] = "summary" PROVE x.count <= z.count
  <2>1. x.count \in Nat /\ y.count \in Nat /\ z.count \in Nat
    BY <1>1, GenuineNumbers, Zenon
  <2> QED BY <1>1, <2>1, LessEqTransitive, Zenon DEF Ahead
<1>2. ASSUME row[1] = "nodes" PROVE NodeAhead(row[2], x, z)
  <2>1. /\ x.first_seen \in Nat /\ y.first_seen \in Nat /\ z.first_seen \in Nat
        /\ x.last_seen \in Nat /\ y.last_seen \in Nat /\ z.last_seen \in Nat
    BY <1>2, GenuineNumbers, Zenon
  <2>2. NodeAhead(row[2], x, y) /\ NodeAhead(row[2], y, z)
    BY <1>2, Zenon DEF Ahead
  <2>3. z.first_seen <= x.first_seen /\ x.last_seen <= z.last_seen
    BY <2>1, <2>2, LessEqTransitive, Zenon DEF NodeAhead
  <2>4. ASSUME NEW c \in {"label", "boot_id"}
        PROVE  z[c] = x[c] \/ (z[c] # None /\ Since(row[2], c, z[c], x.last_seen))
    <3>1. CASE z[c] = y[c]
      BY <2>2, <3>1, Zenon DEF NodeAhead
    <3>2. CASE z[c] # None /\ Since(row[2], c, z[c], y.last_seen)
      <4>1. x.last_seen <= y.last_seen
        BY <2>2, Zenon DEF NodeAhead
      <4> QED BY <2>1, <3>2, <4>1, SinceEarlier, Zenon
    <3> QED BY <2>2, <3>1, <3>2, Zenon DEF NodeAhead
  <2> QED BY <2>3, <2>4, Zenon DEF NodeAhead
<1>3. ASSUME row[1] = "live_nodes" PROVE LiveAhead(row[2], x, z)
  <2>1. x.updated_at \in Nat /\ y.updated_at \in Nat /\ z.updated_at \in Nat
    BY <1>3, GenuineNumbers, Zenon
  <2>2. LiveAhead(row[2], x, y) /\ LiveAhead(row[2], y, z)
    BY <1>3, Zenon DEF Ahead
  <2>3. x.updated_at <= z.updated_at /\ DOMAIN x.cols \subseteq DOMAIN z.cols
    BY <2>1, <2>2, LessEqTransitive, Zenon DEF LiveAhead
  <2>4. ASSUME NEW c \in DOMAIN x.cols
        PROVE  z.cols[c] = x.cols[c] \/ Since(row[2], c, z.cols[c], x.updated_at)
    <3>1. CASE z.cols[c] = y.cols[c]
      BY <2>2, <3>1, Zenon DEF LiveAhead
    <3>2. CASE Since(row[2], c, z.cols[c], y.updated_at)
      <4>1. x.updated_at <= y.updated_at
        BY <2>2, Zenon DEF LiveAhead
      <4> QED BY <2>1, <3>2, <4>1, SinceEarlier, Zenon
    <3>3. c \in DOMAIN y.cols
      BY <2>2, Zenon DEF LiveAhead
    <3> QED BY <2>2, <3>1, <3>2, <3>3, Zenon DEF LiveAhead
  <2> QED BY <2>3, <2>4, Zenon DEF LiveAhead
<1>4. ASSUME row[1] = "live_snapshots" PROVE x.ts <= z.ts
  <2>1. x.ts \in Nat /\ y.ts \in Nat /\ z.ts \in Nat
    BY <1>4, GenuineNumbers, Zenon
  <2> QED BY <1>4, <2>1, LessEqTransitive, Zenon DEF Ahead
<1> QED BY <1>1, <1>2, <1>3, <1>4, Zenon DEF Ahead

\* A row that moved ahead still covers what it covered.
LEMMA CoversAhead ==
    ASSUME NEW R, R \subseteq AllRecords, NEW row, NEW x, NEW y, Genuine(R, row, x), Genuine(R, row, y),
           Ahead(row, x, y), NEW r \in AllRecords, row[1] = "summary" => r.kind = "summary", Covers(row, x, r)
    PROVE  Covers(row, y, r)
<1>1. r.ts \in Nat /\ (row[1] = "summary" => r.count \in Nat)
  BY AnyRecordType, Zenon
<1>2. ASSUME row[1] = "summary" PROVE r.count <= y.count
  <2>1. x.count \in Nat /\ y.count \in Nat /\ r.count <= x.count /\ x.count <= y.count
    BY <1>2, GenuineNumbers, Zenon DEF Covers, Ahead
  <2> QED BY <1>1, <1>2, <2>1, LessEqTransitive, Zenon
<1>3. ASSUME row[1] = "nodes" PROVE y.first_seen <= r.ts /\ r.ts <= y.last_seen
  <2>1. /\ x.first_seen \in Nat /\ y.first_seen \in Nat /\ x.last_seen \in Nat /\ y.last_seen \in Nat
        /\ x.first_seen <= r.ts /\ r.ts <= x.last_seen
        /\ y.first_seen <= x.first_seen /\ x.last_seen <= y.last_seen
    BY <1>3, GenuineNumbers, Zenon DEF Covers, Ahead, NodeAhead
  <2> QED BY <1>1, <2>1, LessEqTransitive, Zenon
<1>4. ASSUME row[1] = "live_nodes" PROVE r.ts <= y.updated_at
  <2>1. /\ x.updated_at \in Nat /\ y.updated_at \in Nat
        /\ r.ts <= x.updated_at /\ x.updated_at <= y.updated_at
    BY <1>4, GenuineNumbers, Zenon DEF Covers, Ahead, LiveAhead
  <2> QED BY <1>1, <2>1, LessEqTransitive, Zenon
<1>5. ASSUME row[1] = "live_snapshots" PROVE r.ts <= y.ts
  <2>1. x.ts \in Nat /\ y.ts \in Nat /\ r.ts <= x.ts /\ x.ts <= y.ts
    BY <1>5, GenuineNumbers, Zenon DEF Covers, Ahead
  <2> QED BY <1>1, <2>1, LessEqTransitive, Zenon
<1> QED BY <1>2, <1>3, <1>4, <1>5, Zenon DEF Covers

LEMMA RowsOfIs ==
    ASSUME NEW r, NEW row \in RowsOf(r)
    PROVE  \/ row = <<"summary", r.key>> /\ r.kind = "summary" /\ row[1] = "summary"
           \/ row = <<"live_nodes", r.node>> /\ r.kind = "live_node" /\ row[1] = "live_nodes"
           \/ row = <<"nodes", r.node>> /\ HasColumns(r) /\ row[1] = "nodes"
           \/ row = SnapRow(r.node) /\ r.kind = "live_processes" /\ row[1] = "live_snapshots"
BY DEF RowsOf, SnapRow

\* Each row of a record is written by an upsert, with this record or with a
\* newer census.
LEMMA HasUpsert ==
    ASSUME NEW b, Good(b), NEW r \in Records(b), NEW row \in RowsOf(r)
    PROVE  \E s \in Upserts(b) :
              s.row = row /\ (s.rec = r \/ (row[1] = "live_snapshots" /\ r.ts <= s.rec.ts))
<1>1. PICK i \in Plan(b) : r = b[i]
  BY Zenon DEF Records
<1>2. b[i].kind = "summary" => \E s \in Statements(b) :
         s.op = "summary" /\ s.row = <<"summary", b[i].key>> /\ s.rec = b[i]
  BY HasStatement, SMT
<1>3. b[i].kind = "live_node" => \E s \in Statements(b) :
         s.op = "live_node" /\ s.row = <<"live_nodes", b[i].node>> /\ s.rec = b[i]
  BY HasStatement, SMT
<1>4. HasColumns(b[i]) => \E s \in Statements(b) :
         s.op = "node" /\ s.row = <<"nodes", b[i].node>> /\ s.rec = b[i]
  BY HasStatement, SMT
<1>5. b[i].kind = "live_processes" => \E s \in Statements(b) :
         s.op = "snapshot" /\ s.row = SnapRow(b[i].node) /\ b[i].ts <= s.rec.ts
  BY HasStatement, SMT
<1>6. \A s \in Statements(b) :
         s.op \in {"summary", "live_node", "node", "snapshot"} => s \in Upserts(b)
  BY DEF Upserts
<1>7. CASE row = <<"summary", r.key>> /\ r.kind = "summary"
  BY <1>1, <1>2, <1>6, <1>7, Zenon
<1>8. CASE row = <<"live_nodes", r.node>> /\ r.kind = "live_node"
  BY <1>1, <1>3, <1>6, <1>8, Zenon
<1>9. CASE row = <<"nodes", r.node>> /\ HasColumns(r)
  BY <1>1, <1>4, <1>6, <1>9, Zenon
<1>10. CASE row = SnapRow(r.node) /\ r.kind = "live_processes" /\ row[1] = "live_snapshots"
  BY <1>1, <1>5, <1>6, <1>10, Zenon
<1> QED BY RowsOfIs, <1>7, <1>8, <1>9, <1>10, Zenon

\* A row that covers an upsert's record covers every record the upsert is for.
LEMMA CoversOlder ==
    ASSUME NEW R, R \subseteq AllRecords, NEW row, NEW v, Genuine(R, row, v), NEW q \in AllRecords,
           NEW r \in AllRecords, Covers(row, v, q),
           q = r \/ (row[1] = "live_snapshots" /\ r.ts <= q.ts)
    PROVE  Covers(row, v, r)
<1>1. CASE q = r
  BY <1>1
<1>2. CASE row[1] = "live_snapshots" /\ r.ts <= q.ts
  <2>1. r.ts \in Nat /\ q.ts \in Nat /\ v.ts \in Nat
    BY <1>2, AnyRecordType, GenuineNumbers, Zenon
  <2>2. q.ts <= v.ts
    BY <1>2, Zenon DEF Covers
  <2>3. r.ts <= v.ts
    BY <1>2, <2>1, <2>2, LessEqTransitive, Zenon
  <2>4. row[1] \notin {"summary", "nodes", "live_nodes"}
    BY <1>2
  <2> QED BY <2>3, <2>4, Zenon DEF Covers
<1> QED BY <1>1, <1>2

\* Rows that all moved ahead still cover a record.
LEMMA CoveredAhead ==
    ASSUME NEW R, R \subseteq AllRecords, NEW D, NEW E, DOMAIN D \subseteq DOMAIN E,
           \A row \in DOMAIN D : Genuine(R, row, D[row]) /\ Ahead(row, D[row], E[row]),
           \A row \in DOMAIN E : Genuine(R, row, E[row]),
           NEW r \in AllRecords, Covered(D, r)
    PROVE  Covered(E, r)
<1> SUFFICES ASSUME NEW row \in RowsOf(r) PROVE row \in DOMAIN E /\ Covers(row, E[row], r)
  BY Zenon DEF Covered
<1>1. row \in DOMAIN D /\ row \in DOMAIN E /\ Covers(row, D[row], r)
  BY Zenon DEF Covered
<1>2. row[1] = "summary" => r.kind = "summary"
  BY RowsOfIs
<1> QED BY <1>1, <1>2, CoversAhead, Zenon
-----------------------------------------------------------------------------
(***************************************************************************)
(* What each step does to the writers.                                     *)
(***************************************************************************)
Others(w) == \A v \in Writer \ {w} : writer'[v] = writer[v]

\* The fields an upsert, DELETE or INSERT leaves alone.
Keeps(w) ==
    /\ Others(w) /\ UNCHANGED <<db, processes, partitions, applied, last>>
    /\ DOMAIN writer' = Writer /\ \A v \in Writer : DOMAIN writer'[v] = Fields
    /\ \A f \in Fields \ {"rows", "stmts", "del", "ins"} : writer'[w][f] = writer[w][f]

LEMMA UpsertDoes ==
    ASSUME WriterInv, NEW w \in Writer, NEW s \in writer[w].stmts, ExecUpsert(w, s)
    PROVE  LET found == s.row \in DOMAIN View(w)
               old == View(w)[s.row]
               new == IF found THEN Updated(s.op, old, s.rec) ELSE Inserted(s.op, s.rec)
           IN  /\ Keeps(w)
               /\ writer'[w].rows = IF found /\ DoNothing(s.op) THEN writer[w].rows
                                    ELSE Over([x \in {s.row} |-> new], writer[w].rows)
               /\ writer'[w].stmts = IF s.op = "snapshot" /\ found /\ SnapshotStale(old, s.rec)
                                     THEN AfterStale(writer[w].stmts, s) ELSE writer[w].stmts \ {s}
               /\ writer'[w].del = writer[w].del /\ writer'[w].ins = writer[w].ins
<1> DEFINE found == s.row \in DOMAIN View(w)
           old == View(w)[s.row]
           new == IF found THEN Updated(s.op, old, s.rec) ELSE Inserted(s.op, s.rec)
           rows == IF found /\ DoNothing(s.op) THEN writer[w].rows
                   ELSE Over([x \in {s.row} |-> new], writer[w].rows)
           stmts == IF s.op = "snapshot" /\ found /\ SnapshotStale(old, s.rec)
                    THEN AfterStale(writer[w].stmts, s) ELSE writer[w].stmts \ {s}
<1>1. writer' = [writer EXCEPT ![w].rows = rows, ![w].stmts = stmts]
  BY Zenon DEF ExecUpsert
<1>2. UNCHANGED <<db, processes, partitions, applied, last>>
  BY Zenon DEF ExecUpsert
<1>3. DOMAIN writer = Writer /\ \A v \in Writer : DOMAIN writer[v] = Fields
  BY Zenon DEF WriterInv
<1> HIDE DEF rows, stmts
<1>4. /\ DOMAIN writer' = Writer /\ \A v \in Writer : DOMAIN writer'[v] = Fields
      /\ \A v \in Writer \ {w} : writer'[v] = writer[v]
      /\ \A f \in Fields \ {"rows", "stmts"} : writer'[w][f] = writer[w][f]
      /\ writer'[w].rows = rows /\ writer'[w].stmts = stmts
  BY <1>1, <1>3, Zenon DEF Fields
<1>5. writer'[w].del = writer[w].del /\ writer'[w].ins = writer[w].ins
  BY <1>4 DEF Fields
<1> QED BY <1>2, <1>4, <1>5, Zenon DEF Keeps, Others, rows, stmts

LEMMA DeleteDoes ==
    ASSUME WriterInv, NEW w \in Writer, NEW s \in writer[w].stmts, ExecDelete(w, s)
    PROVE  /\ Keeps(w)
           /\ writer'[w].rows = writer[w].rows /\ writer'[w].stmts = writer[w].stmts \ {s}
           /\ writer'[w].del = writer[w].del \cup {p \in processes : p.node = s.rec.node}
           /\ writer'[w].ins = writer[w].ins
<1>1. UNCHANGED <<db, processes, partitions, applied, last>>
  BY Zenon DEF ExecDelete
<1>2. DOMAIN writer = Writer /\ \A v \in Writer : DOMAIN writer[v] = Fields
  BY Zenon DEF WriterInv
<1>3. /\ DOMAIN writer' = Writer /\ \A v \in Writer : DOMAIN writer'[v] = Fields
      /\ \A v \in Writer \ {w} : writer'[v] = writer[v]
      /\ \A f \in Fields \ {"del", "stmts"} : writer'[w][f] = writer[w][f]
      /\ writer'[w].del = writer[w].del \cup {p \in processes : p.node = s.rec.node}
      /\ writer'[w].stmts = writer[w].stmts \ {s}
  BY <1>2, Zenon DEF Fields, ExecDelete
<1>4. writer'[w].rows = writer[w].rows /\ writer'[w].ins = writer[w].ins
  BY <1>3 DEF Fields
<1> QED BY <1>1, <1>3, <1>4, Zenon DEF Keeps, Others

LEMMA InsertDoes ==
    ASSUME WriterInv, NEW w \in Writer, NEW s \in writer[w].stmts, ExecInsert(w, s)
    PROVE  /\ Keeps(w)
           /\ writer'[w].rows = writer[w].rows /\ writer'[w].stmts = writer[w].stmts \ {s}
           /\ writer'[w].del = writer[w].del
           /\ writer'[w].ins = writer[w].ins \cup ProcessRows(s.rec)
<1>1. UNCHANGED <<db, processes, partitions, applied, last>>
  BY Zenon DEF ExecInsert
<1>2. DOMAIN writer = Writer /\ \A v \in Writer : DOMAIN writer[v] = Fields
  BY Zenon DEF WriterInv
<1>3. /\ DOMAIN writer' = Writer /\ \A v \in Writer : DOMAIN writer'[v] = Fields
      /\ \A v \in Writer \ {w} : writer'[v] = writer[v]
      /\ \A f \in Fields \ {"ins", "stmts"} : writer'[w][f] = writer[w][f]
      /\ writer'[w].ins = writer[w].ins \cup ProcessRows(s.rec)
      /\ writer'[w].stmts = writer[w].stmts \ {s}
  BY <1>2 DEF Fields, ExecInsert
<1>4. writer'[w].rows = writer[w].rows /\ writer'[w].del = writer[w].del
  BY <1>3 DEF Fields
<1> QED BY <1>1, <1>3, <1>4, Zenon DEF Keeps, Others

\* The other steps put a writer in a state of its own, with no rows.
Starts(w, pc, b, stmts, todo, created) ==
    /\ Others(w)
    /\ DOMAIN writer' = Writer /\ \A v \in Writer : DOMAIN writer'[v] = Fields
    /\ writer'[w].pc = pc /\ writer'[w].batch = b /\ writer'[w].stmts = stmts
    /\ writer'[w].todo = todo /\ writer'[w].created = created
    /\ writer'[w].rows = NoRows /\ writer'[w].del = {} /\ writer'[w].ins = {} /\ writer'[w].locks = {}

LEMMA StartsAs ==
    ASSUME WriterInv, NEW w \in Writer, NEW x, writer' = [writer EXCEPT ![w] = x], DOMAIN x = Fields,
           NEW pc, NEW b, NEW stmts, NEW todo, NEW created,
           x.pc = pc, x.batch = b, x.stmts = stmts, x.todo = todo, x.created = created,
           x.rows = NoRows, x.del = {}, x.ins = {}, x.locks = {}
    PROVE  Starts(w, pc, b, stmts, todo, created)
<1>1. DOMAIN writer = Writer /\ \A v \in Writer : DOMAIN writer[v] = Fields
  BY Zenon DEF WriterInv
<1>2. /\ DOMAIN writer' = Writer /\ writer'[w] = x
      /\ \A v \in Writer \ {w} : writer'[v] = writer[v]
  BY <1>1
<1>3. \A v \in Writer : DOMAIN writer'[v] = Fields
  BY <1>1, <1>2, Zenon
<1> QED BY <1>2, <1>3, Zenon DEF Starts, Others

LEMMA StartsIdle ==
    ASSUME WriterInv, NEW w \in Writer, writer' = [writer EXCEPT ![w] = Idle]
    PROVE  Starts(w, "idle", <<>>, {}, {}, FALSE)
<1>1. DOMAIN Idle = Fields
  BY DEF Idle, Fields
<1>2. /\ Idle.pc = "idle" /\ Idle.batch = <<>> /\ Idle.stmts = {} /\ Idle.todo = {} /\ Idle.created = FALSE
      /\ Idle.rows = NoRows /\ Idle.del = {} /\ Idle.ins = {} /\ Idle.locks = {}
  BY DEF Idle
<1> QED BY <1>1, <1>2, StartsAs, Zenon

\* The steps that end a transaction without a commit, or open one.
Restarts(w) ==
    /\ UNCHANGED <<db, processes, applied, last>> /\ partitions \subseteq partitions'
    /\ \/ partitions' = partitions /\ Starts(w, "idle", <<>>, {}, {}, FALSE)
       \/ /\ partitions' = partitions
          /\ \E b : Good(b) /\ Starts(w, "apply", b, Statements(b), {}, FALSE)
       \/ /\ partitions' = partitions
          /\ \E b : Good(b) /\ Starts(w, "create", b, {}, Months(b), FALSE)
       \/ \E b : /\ Good(b) /\ Starts(w, "apply", b, Statements(b), {}, TRUE)
                 /\ writer[w].pc = "create" /\ writer[w].todo = {} /\ writer[w].batch = b
                 /\ partitions' = partitions \cup writer[w].made

LEMMA BeginDoes ==
    ASSUME WriterInv, NEW w \in Writer, NEW b \in Batches, Begin(w, b)
    PROVE  Restarts(w)
<1> DEFINE x == [Idle EXCEPT !.pc = "apply", !.batch = b, !.stmts = Statements(b)]
<1>1. DOMAIN x = Fields
  BY DEF Idle, Fields
<1>2. /\ x.pc = "apply" /\ x.batch = b /\ x.stmts = Statements(b) /\ x.todo = {} /\ x.created = FALSE
      /\ x.rows = NoRows /\ x.del = {} /\ x.ins = {} /\ x.locks = {}
  BY DEF Idle
<1>3. writer' = [writer EXCEPT ![w] = x]
  BY Zenon DEF Begin
<1> HIDE DEF x
<1>4. Starts(w, "apply", b, Statements(b), {}, FALSE)
  BY <1>1, <1>2, <1>3, StartsAs, Zenon
<1>5. Good(b) /\ UNCHANGED <<db, processes, partitions, applied, last>>
  BY Zenon DEF Good, Begin
<1> QED BY <1>4, <1>5, Zenon DEF Restarts

LEMMA MissingDoes ==
    ASSUME WriterInv, NEW w \in Writer, NEW s \in writer[w].stmts, MissingPartition(w, s)
    PROVE  Restarts(w)
<1>1. UNCHANGED <<db, processes, partitions, applied, last>>
  BY Zenon DEF MissingPartition
<1>2. CASE writer[w].created
  <2>1. writer' = [writer EXCEPT ![w] = Idle]
    BY <1>2, Zenon DEF MissingPartition
  <2>2. Starts(w, "idle", <<>>, {}, {}, FALSE)
    BY <2>1, StartsIdle, Zenon
  <2> QED BY <1>1, <2>2, Zenon DEF Restarts
<1>3. CASE ~writer[w].created
  <2> DEFINE b == writer[w].batch
             x == [Idle EXCEPT !.pc = "create", !.batch = b, !.todo = Months(b)]
  <2>1. writer' = [writer EXCEPT ![w] = x]
    BY <1>3, Zenon DEF MissingPartition
  <2> HIDE DEF b
  <2>5. DOMAIN x = Fields
    BY DEF Idle, Fields
  <2>6. /\ x.pc = "create" /\ x.batch = b /\ x.stmts = {} /\ x.todo = Months(b) /\ x.created = FALSE
        /\ x.rows = NoRows /\ x.del = {} /\ x.ins = {} /\ x.locks = {}
    BY DEF Idle
  <2> HIDE DEF x
  <2>2. Starts(w, "create", b, {}, Months(b), FALSE)
    BY <2>1, <2>5, <2>6, StartsAs, Zenon
  <2>3. writer[w].pc # "idle"
    BY DEF MissingPartition, IsNext
  <2>4. Good(b)
    BY <2>3, Zenon DEF WriterInv, b
  <2> QED BY <1>1, <2>2, <2>4, Zenon DEF Restarts
<1> QED BY <1>2, <1>3, Zenon

LEMMA CreateDoes ==
    ASSUME WriterInv, NEW w \in Writer, CreatePartitions(w)
    PROVE  Restarts(w)
<1> DEFINE b == writer[w].batch
           x == [Idle EXCEPT !.pc = "apply", !.batch = b, !.stmts = Statements(b), !.created = TRUE]
<1>1. /\ UNCHANGED <<db, processes, applied, last>> /\ partitions \subseteq partitions'
      /\ partitions' = partitions \cup writer[w].made /\ writer' = [writer EXCEPT ![w] = x]
  BY Zenon DEF CreatePartitions
<1>2. writer[w].pc # "idle" /\ writer[w].pc = "create" /\ writer[w].todo = {}
  BY DEF CreatePartitions
<1>3. Good(b) /\ writer[w].batch = b
  BY <1>2, Zenon DEF WriterInv
<1> HIDE DEF b
<1>4. DOMAIN x = Fields
  BY DEF Idle, Fields
<1>5. /\ x.pc = "apply" /\ x.batch = b /\ x.stmts = Statements(b) /\ x.todo = {} /\ x.created = TRUE
      /\ x.rows = NoRows /\ x.del = {} /\ x.ins = {} /\ x.locks = {}
  BY DEF Idle
<1> HIDE DEF x
<1>6. Starts(w, "apply", b, Statements(b), {}, TRUE)
  BY <1>1, <1>4, <1>5, StartsAs, Zenon
<1> QED BY <1>1, <1>2, <1>3, <1>6, Zenon DEF Restarts

LEMMA FailDoes ==
    ASSUME WriterInv, NEW w \in Writer, Fail(w)
    PROVE  Restarts(w)
<1>1. Starts(w, "idle", <<>>, {}, {}, FALSE)
  BY StartsIdle, Zenon DEF Fail
<1> QED BY <1>1, Zenon DEF Restarts, Fail

LEMMA CommitDoes ==
    ASSUME WriterInv, NEW w \in Writer, Commit(w)
    PROVE  /\ Starts(w, "idle", <<>>, {}, {}, FALSE)
           /\ writer[w].pc = "apply" /\ writer[w].stmts = {} /\ Good(writer[w].batch)
           /\ db' = View(w) /\ processes' = (processes \ writer[w].del) \cup writer[w].ins
           /\ applied' = applied \cup {writer[w].batch} /\ partitions' = partitions
<1>1. Starts(w, "idle", <<>>, {}, {}, FALSE)
  BY StartsIdle, Zenon DEF Commit
<1>2. writer[w].pc = "apply" /\ writer[w].pc # "idle"
  BY DEF Commit
<1>3. Good(writer[w].batch)
  BY <1>2, Zenon DEF WriterInv
<1> QED BY <1>1, <1>2, <1>3, Zenon DEF Commit

\* ensure_partition: the lock and the look, or the table.
Ensures(w, p) == EnsurePartition(w, p) \/ CreateTable(w, p)

LEMMA EnsureDoes ==
    ASSUME WriterInv, NEW w \in Writer, NEW p \in writer[w].todo, Ensures(w, p)
    PROVE  /\ Others(w) /\ UNCHANGED <<db, processes, partitions, applied, last>>
           /\ DOMAIN writer' = Writer /\ \A v \in Writer : DOMAIN writer'[v] = Fields
           /\ \A f \in Fields \ {"todo", "locks", "made"} : writer'[w][f] = writer[w][f]
           /\ writer'[w].todo \subseteq writer[w].todo
           /\ writer[w].todo \subseteq writer'[w].todo \cup writer'[w].made \cup partitions
           /\ writer[w].made \subseteq writer'[w].made
           /\ \/ writer'[w].locks = writer[w].locks
              \/ /\ writer'[w].locks = writer[w].locks \cup {p[1]}
                 /\ \A v \in Writer \ {w} : p[1] \notin writer[v].locks
<1>1. UNCHANGED <<db, processes, partitions, applied, last>>
  BY Zenon DEF Ensures, EnsurePartition, CreateTable
<1>2. DOMAIN writer = Writer /\ \A v \in Writer : DOMAIN writer[v] = Fields
  BY Zenon DEF WriterInv
<1>3. CASE EnsurePartition(w, p)
  <2>1. /\ DOMAIN writer' = Writer /\ \A v \in Writer : DOMAIN writer'[v] = Fields
        /\ \A v \in Writer \ {w} : writer'[v] = writer[v]
        /\ \A f \in Fields \ {"todo", "locks"} : writer'[w][f] = writer[w][f]
        /\ writer'[w].todo = IF p \in partitions THEN writer[w].todo \ {p} ELSE writer[w].todo
        /\ writer'[w].locks = writer[w].locks \cup {p[1]}
    BY <1>2, <1>3, Zenon DEF Fields, EnsurePartition
  <2>2. writer'[w].made = writer[w].made
    BY <2>1 DEF Fields
  <2>3. \A v \in Writer \ {w} : p[1] \notin writer[v].locks
    BY <1>3, Zenon DEF EnsurePartition
  <2>4. /\ writer'[w].todo \subseteq writer[w].todo
        /\ writer[w].todo \subseteq writer'[w].todo \cup writer'[w].made \cup partitions
    BY <2>1
  <2> QED BY <1>1, <2>1, <2>2, <2>3, <2>4, Zenon DEF Others
<1>4. CASE CreateTable(w, p)
  <2>1. /\ DOMAIN writer' = Writer /\ \A v \in Writer : DOMAIN writer'[v] = Fields
        /\ \A v \in Writer \ {w} : writer'[v] = writer[v]
        /\ \A f \in Fields \ {"todo", "made"} : writer'[w][f] = writer[w][f]
        /\ writer'[w].todo = writer[w].todo \ {p} /\ writer'[w].made = writer[w].made \cup {p}
    BY <1>2, <1>4 DEF Fields, CreateTable
  <2>2. writer'[w].locks = writer[w].locks
    BY <2>1 DEF Fields
  <2>3. /\ writer'[w].todo \subseteq writer[w].todo /\ writer[w].made \subseteq writer'[w].made
        /\ writer[w].todo \subseteq writer'[w].todo \cup writer'[w].made \cup partitions
    BY <2>1
  <2> QED BY <1>1, <2>1, <2>2, <2>3, Zenon DEF Others
<1> QED BY <1>3, <1>4, Zenon DEF Ensures

\* A statement is executed.
Runs(w, s) == ExecUpsert(w, s) \/ ExecDelete(w, s) \/ ExecInsert(w, s)

LEMMA RunDoes ==
    ASSUME WriterInv, NEW w \in Writer, NEW s \in writer[w].stmts, Runs(w, s)
    PROVE  /\ Keeps(w) /\ writer'[w].stmts \subseteq writer[w].stmts
           /\ writer[w].pc = "apply" /\ Good(writer[w].batch) /\ s \in Statements(writer[w].batch)
<1>1. IsNext(w, s)
  BY Zenon DEF Runs, ExecUpsert, ExecDelete, ExecInsert
<1>2. writer[w].pc = "apply" /\ writer[w].pc # "idle"
  BY <1>1 DEF IsNext
<1>3. Good(writer[w].batch) /\ s \in Statements(writer[w].batch)
  BY <1>2, Zenon DEF WriterInv
<1>4. ASSUME ExecUpsert(w, s) PROVE Keeps(w) /\ writer'[w].stmts \subseteq writer[w].stmts
  <2>1. /\ Keeps(w)
        /\ writer'[w].stmts = AfterStale(writer[w].stmts, s) \/ writer'[w].stmts = writer[w].stmts \ {s}
    BY <1>4, UpsertDoes, Zenon
  <2> QED BY <2>1 DEF AfterStale
<1>5. ASSUME ExecDelete(w, s) PROVE Keeps(w) /\ writer'[w].stmts \subseteq writer[w].stmts
  BY <1>5, DeleteDoes, Zenon
<1>6. ASSUME ExecInsert(w, s) PROVE Keeps(w) /\ writer'[w].stmts \subseteq writer[w].stmts
  BY <1>6, InsertDoes, Zenon
<1> QED BY <1>2, <1>3, <1>4, <1>5, <1>6, Zenon DEF Runs

LEMMA StepKinds ==
    ASSUME WriterInv, [Next]_vars
    PROVE  \/ UNCHANGED vars
           \/ \E w \in Writer :
                 \/ \E s \in writer[w].stmts : Runs(w, s)
                 \/ \E p \in writer[w].todo : Ensures(w, p)
                 \/ Restarts(w)
                 \/ Commit(w)
<1> SUFFICES ASSUME Next
             PROVE  \E w \in Writer :
                       \/ \E s \in writer[w].stmts : Runs(w, s)
                       \/ \E p \in writer[w].todo : Ensures(w, p)
                       \/ Restarts(w)
                       \/ Commit(w)
  BY Zenon
<1>1. PICK w \in Writer :
        \/ \E b \in Batches : Begin(w, b)
        \/ \E s \in writer[w].stmts : Runs(w, s) \/ MissingPartition(w, s)
        \/ \E p \in writer[w].todo : Ensures(w, p)
        \/ CreatePartitions(w) \/ Commit(w) \/ Fail(w)
  BY Zenon DEF Next, Runs, Ensures
<1>2. (\E b \in Batches : Begin(w, b)) => Restarts(w)
  BY BeginDoes, Zenon
<1>3. (\E s \in writer[w].stmts : MissingPartition(w, s)) => Restarts(w)
  BY MissingDoes, Zenon
<1>4. CreatePartitions(w) \/ Fail(w) => Restarts(w)
  BY CreateDoes, FailDoes, Zenon
<1> QED BY <1>1, <1>2, <1>3, <1>4, Zenon
-----------------------------------------------------------------------------
LEMMA WriterInit == ASSUME Init PROVE WriterInv
<1>1. DOMAIN Idle = Fields
  BY DEF Idle, Fields
<1>2. /\ Idle.pc = "idle" /\ Idle.batch = <<>> /\ Idle.stmts = {} /\ Idle.rows = NoRows
  BY DEF Idle
<1>3. DOMAIN writer = Writer /\ \A w \in Writer : writer[w] = Idle
  BY DEF Init
<1>4. applied = {} /\ "idle" \in {"idle", "apply", "create"} /\ "idle" # "apply"
  BY DEF Init
<1>5. \A w \in Writer :
         /\ DOMAIN writer[w] = Fields
         /\ writer[w].pc = "idle" /\ writer[w].batch = <<>> /\ writer[w].stmts = {} /\ writer[w].rows = NoRows
  BY <1>1, <1>2, <1>3, Zenon
<1> QED BY <1>3, <1>4, <1>5 DEF WriterInv

\* One writer of the invariant.
WriterOk(me) ==
    /\ me.pc \in {"idle", "apply", "create"}
    /\ me.pc = "idle" => me.batch = <<>>
    /\ me.pc # "idle" => Good(me.batch)
    /\ me.pc # "apply" => me.rows = NoRows /\ me.stmts = {}
    /\ me.stmts \subseteq Statements(me.batch)

LEMMA WriterStep ==
    ASSUME WriterInv, [Next]_vars
    PROVE  WriterInv'
<1>1. \A w \in Writer : WriterOk(writer[w])
  BY Zenon DEF WriterInv, WriterOk
<1>2. SUFFICES /\ DOMAIN writer' = Writer /\ \A v \in Writer : DOMAIN writer'[v] = Fields
               /\ \A v \in Writer : WriterOk(writer'[v])
               /\ \A b \in applied' : Good(b)
  BY Zenon DEF WriterInv, WriterOk
<1>3. CASE UNCHANGED vars
  <2>1. writer' = writer /\ applied' = applied
    BY <1>3, Zenon DEF vars
  <2> QED BY <1>1, <2>1, Zenon DEF WriterInv
<1>4. ASSUME NEW w \in Writer, NEW s \in writer[w].stmts, Runs(w, s) PROVE <1>2!1
  <2>1. /\ Keeps(w) /\ writer'[w].stmts \subseteq writer[w].stmts
        /\ writer[w].pc = "apply" /\ Good(writer[w].batch)
    BY <1>4, RunDoes, Zenon
  <2>2. writer'[w].pc = writer[w].pc /\ writer'[w].batch = writer[w].batch
    BY <2>1 DEF Keeps, Fields
  <2>3. WriterOk(writer'[w])
    BY <1>1, <2>1, <2>2 DEF WriterOk
  <2>4. /\ DOMAIN writer' = Writer /\ \A v \in Writer : DOMAIN writer'[v] = Fields
        /\ \A v \in Writer \ {w} : writer'[v] = writer[v]
        /\ applied' = applied
    BY <2>1, Zenon DEF Keeps, Others
  <2> QED BY <1>1, <2>3, <2>4, Zenon DEF WriterInv
<1>5. ASSUME NEW w \in Writer, NEW p \in writer[w].todo, Ensures(w, p) PROVE <1>2!1
  <2>1. /\ Others(w) /\ applied' = applied
        /\ DOMAIN writer' = Writer /\ \A v \in Writer : DOMAIN writer'[v] = Fields
        /\ \A f \in Fields \ {"todo", "locks", "made"} : writer'[w][f] = writer[w][f]
    BY <1>5, EnsureDoes, Zenon
  <2>2. /\ writer'[w].pc = writer[w].pc /\ writer'[w].batch = writer[w].batch
        /\ writer'[w].rows = writer[w].rows /\ writer'[w].stmts = writer[w].stmts
    BY <2>1 DEF Fields
  <2>3. WriterOk(writer'[w])
    BY <1>1, <2>2, Zenon DEF WriterOk
  <2> QED BY <1>1, <2>1, <2>3, Zenon DEF WriterInv, Others
<1>6. ASSUME NEW w \in Writer, Restarts(w) PROVE <1>2!1
  <2>1. ASSUME Starts(w, "idle", <<>>, {}, {}, FALSE) PROVE WriterOk(writer'[w])
    BY <2>1 DEF Starts, WriterOk
  <2>2. ASSUME NEW b, NEW created, Good(b), Starts(w, "apply", b, Statements(b), {}, created)
        PROVE  WriterOk(writer'[w])
    BY <2>2 DEF Starts, WriterOk
  <2>3. ASSUME NEW b, Good(b), Starts(w, "create", b, {}, Months(b), FALSE) PROVE WriterOk(writer'[w])
    BY <2>3 DEF Starts, WriterOk
  <2>4. WriterOk(writer'[w]) /\ applied' = applied
    BY <1>6, <2>1, <2>2, <2>3, Zenon DEF Restarts
  <2>5. /\ DOMAIN writer' = Writer /\ \A v \in Writer : DOMAIN writer'[v] = Fields
        /\ \A v \in Writer \ {w} : writer'[v] = writer[v]
    BY <1>6, Zenon DEF Restarts, Starts, Others
  <2> QED BY <1>1, <2>4, <2>5, Zenon DEF WriterInv
<1>7. ASSUME NEW w \in Writer, Commit(w) PROVE <1>2!1
  <2>1. /\ Starts(w, "idle", <<>>, {}, {}, FALSE) /\ Good(writer[w].batch)
        /\ applied' = applied \cup {writer[w].batch}
    BY <1>7, CommitDoes, Zenon
  <2>2. WriterOk(writer'[w])
    BY <2>1 DEF Starts, WriterOk
  <2>3. \A b \in applied' : Good(b)
    BY <2>1, Zenon DEF WriterInv
  <2> QED BY <1>1, <2>1, <2>2, <2>3, Zenon DEF Starts, Others
<1> QED BY <1>3, <1>4, <1>5, <1>6, <1>7, StepKinds, Zenon

\* A writer is idle, or in the transaction of a batch it could plan.
THEOREM WriterInvariant == Spec => []WriterInv
<1>1. Init => WriterInv
  BY WriterInit
<1>2. WriterInv /\ [Next]_vars => WriterInv'
  BY WriterStep
<1> QED BY <1>1, <1>2, PTL DEF Spec
-----------------------------------------------------------------------------
(***************************************************************************)
(* Partitions: one order of locking for all writers.                       *)
(***************************************************************************)
LEMMA MonthTables ==
    ASSUME NEW b, NEW p \in Months(b)
    PROVE  p[1] \in {"event", "summary"}
BY DEF Months, OfKind

LockOk(me) ==
    /\ me.pc = "create" => me.todo \subseteq Months(me.batch)
    /\ me.pc # "create" => me.todo = {} /\ me.locks = {}
    /\ "summary" \in me.locks => \A p \in me.todo : p[1] # "event"
    /\ me.locks \subseteq {"event", "summary"}
Disjoint == \A w \in Writer : \A v \in Writer \ {w} : writer[w].locks \cap writer[v].locks = {}
Found(w) ==
    /\ writer[w].created => writer[w].pc = "apply" /\ Months(writer[w].batch) \subseteq partitions
    /\ writer[w].pc = "create" =>
         Months(writer[w].batch) \subseteq writer[w].todo \cup writer[w].made \cup partitions

LEMMA LockParts == LockInv <=> Disjoint /\ \A w \in Writer : LockOk(writer[w]) /\ Found(w)
BY Zenon DEF LockInv, LockOk, Disjoint, Found

LEMMA LockInit == ASSUME Init PROVE LockInv
<1>1. Idle.pc = "idle" /\ Idle.todo = {} /\ Idle.locks = {} /\ Idle.created = FALSE
  BY DEF Idle
<1>2. \A w \in Writer : writer[w] = Idle
  BY DEF Init
<1>3. \A w \in Writer : /\ writer[w].pc = "idle" /\ writer[w].todo = {} /\ writer[w].locks = {}
                        /\ writer[w].created = FALSE
  BY <1>1, <1>2, Zenon
<1>4. \A w \in Writer : LockOk(writer[w])
  BY <1>3 DEF LockOk
<1> QED BY <1>3, <1>4, LockParts DEF Disjoint, Found

\* A writer that let go of its locks, and created months if it says so.
LEMMA LockRestart ==
    ASSUME LockInv, NEW w \in Writer, Others(w), partitions \subseteq partitions',
           writer'[w].locks = {}, LockOk(writer'[w]), Found(w)'
    PROVE  LockInv'
<1>1. Disjoint /\ \A v \in Writer : LockOk(writer[v]) /\ Found(v)
  BY LockParts, Zenon
<1>2. \A v \in Writer \ {w} : writer'[v] = writer[v]
  BY Zenon DEF Others
<1>3. \A v \in Writer : LockOk(writer'[v])
  BY <1>1, <1>2, Zenon
<1>4. ASSUME NEW v \in Writer PROVE Found(v)'
  <2>1. CASE v = w
    BY <2>1, Zenon
  <2>2. CASE v # w
    <3>1. writer'[v] = writer[v] /\ Found(v)
      BY <1>1, <1>2, <2>2, Zenon
    <3> QED BY <3>1, Zenon DEF Found
  <2> QED BY <2>1, <2>2
<1>5. ASSUME NEW u \in Writer, NEW v \in Writer \ {u} PROVE writer'[u].locks \cap writer'[v].locks = {}
  <2>1. CASE u = w
    BY <2>1
  <2>2. CASE v = w
    BY <2>2
  <2>3. CASE u # w /\ v # w
    BY <1>1, <1>2, <2>3, Zenon DEF Disjoint
  <2> QED BY <2>1, <2>2, <2>3
<1>6. Disjoint'
  BY <1>5, Zenon DEF Disjoint
<1> QED BY <1>3, <1>4, <1>6, Zenon DEF LockInv, LockOk, Disjoint, Found

LEMMA LockStep ==
    ASSUME WriterInv, LockInv, [Next]_vars
    PROVE  LockInv'
<1>1. Disjoint /\ \A v \in Writer : LockOk(writer[v]) /\ Found(v)
  BY LockParts, Zenon
<1>2. CASE UNCHANGED vars
  BY <1>2, Zenon DEF LockInv, vars
<1>3. ASSUME NEW w \in Writer, NEW s \in writer[w].stmts, Runs(w, s) PROVE LockInv'
  <2>1. Keeps(w) /\ writer[w].pc = "apply"
    BY <1>3, RunDoes, Zenon
  <2>2. /\ writer'[w].pc = writer[w].pc /\ writer'[w].batch = writer[w].batch
        /\ writer'[w].todo = writer[w].todo /\ writer'[w].locks = writer[w].locks
        /\ writer'[w].made = writer[w].made /\ writer'[w].created = writer[w].created
    BY <2>1 DEF Keeps, Fields
  <2>3. writer'[w].locks = {}
    BY <1>1, <2>1, <2>2 DEF LockOk
  <2>4. LockOk(writer'[w])
    BY <1>1, <2>2, Zenon DEF LockOk
  <2>5. Others(w) /\ partitions' = partitions
    BY <2>1, Zenon DEF Keeps
  <2>6. Found(w)'
    BY <1>1, <2>2, <2>5, Zenon DEF Found
  <2> QED BY <2>3, <2>4, <2>5, <2>6, LockRestart, Zenon
<1>4. ASSUME NEW w \in Writer, NEW p \in writer[w].todo, Ensures(w, p) PROVE LockInv'
  <2>1. /\ Others(w) /\ partitions' = partitions
        /\ \A f \in Fields \ {"todo", "locks", "made"} : writer'[w][f] = writer[w][f]
        /\ writer'[w].todo \subseteq writer[w].todo
        /\ writer[w].todo \subseteq writer'[w].todo \cup writer'[w].made \cup partitions
        /\ writer[w].made \subseteq writer'[w].made
        /\ \/ writer'[w].locks = writer[w].locks
           \/ /\ writer'[w].locks = writer[w].locks \cup {p[1]}
              /\ \A v \in Writer \ {w} : p[1] \notin writer[v].locks
    BY <1>4, EnsureDoes, Zenon
  <2>2. /\ writer'[w].pc = writer[w].pc /\ writer'[w].batch = writer[w].batch
        /\ writer'[w].created = writer[w].created
    BY <2>1 DEF Fields
  <2>3. writer[w].pc = "create" /\ IsNextMonth(w, p)
    BY <1>4, Zenon DEF Ensures, EnsurePartition, CreateTable
  <2>4. writer[w].todo \subseteq Months(writer[w].batch) /\ writer[w].locks \subseteq {"event", "summary"}
    BY <1>1, <2>3, Zenon DEF LockOk
  <2>5. p[1] \in {"event", "summary"}
    BY <2>4, MonthTables, Zenon
  <2>6. p[1] = "summary" => \A q \in writer[w].todo \ {p} : q[1] # "event"
    BY <2>3 DEF IsNextMonth, SortsBefore
  <2>7. "summary" \in writer'[w].locks => \A q \in writer'[w].todo : q[1] # "event"
    <3>1. CASE "summary" \in writer[w].locks
      BY <1>1, <2>1, <3>1, Zenon DEF LockOk
    <3>2. CASE p[1] = "summary"
      BY <2>1, <2>6, <3>2
    <3> QED BY <2>1, <3>1, <3>2, Zenon
  <2>8. LockOk(writer'[w])
    BY <2>1, <2>2, <2>3, <2>4, <2>5, <2>7 DEF LockOk
  <2>9. \A v \in Writer \ {w} : writer'[v] = writer[v]
    BY <2>1, Zenon DEF Others
  <2>10. \A v \in Writer : LockOk(writer'[v])
    BY <1>1, <2>8, <2>9, Zenon
  <2>11. ASSUME NEW v \in Writer PROVE Found(v)'
    <3>1. /\ writer'[v].pc = writer[v].pc /\ writer'[v].batch = writer[v].batch
          /\ writer'[v].created = writer[v].created
          /\ writer[v].todo \cup writer[v].made \cup partitions
               \subseteq writer'[v].todo \cup writer'[v].made \cup partitions
      <4>1. CASE v = w
        BY <2>1, <2>2, <4>1
      <4>2. CASE v # w
        BY <2>9, <4>2, Zenon
      <4> QED BY <4>1, <4>2
    <3> QED BY <1>1, <2>1, <3>1, Zenon DEF Found
  <2>12. ASSUME NEW u \in Writer, NEW v \in Writer \ {u} PROVE writer'[u].locks \cap writer'[v].locks = {}
    <3>1. writer[u].locks \cap writer[v].locks = {}
      BY <1>1, Zenon DEF Disjoint
    <3>2. CASE u = w
      <4>1. /\ writer'[v].locks = writer[v].locks
            /\ writer'[w].locks # writer[w].locks => p[1] \notin writer[v].locks
        BY <2>1, <2>9, <3>2, Zenon
      <4> QED BY <2>1, <3>1, <3>2, <4>1
    <3>3. CASE v = w
      <4>1. /\ writer'[u].locks = writer[u].locks
            /\ writer'[w].locks # writer[w].locks => p[1] \notin writer[u].locks
        BY <2>1, <2>9, <3>3, Zenon
      <4> QED BY <2>1, <3>1, <3>3, <4>1
    <3>4. CASE u # w /\ v # w
      BY <2>9, <3>1, <3>4, Zenon
    <3> QED BY <3>2, <3>3, <3>4
  <2>13. Disjoint'
    BY <2>12, Zenon DEF Disjoint
  <2> QED BY <2>10, <2>11, <2>13, Zenon DEF LockInv, LockOk, Disjoint, Found
<1>5. ASSUME NEW w \in Writer, Restarts(w) PROVE LockInv'
  <2>1. partitions \subseteq partitions'
    BY <1>5, Zenon DEF Restarts
  <2>2. ASSUME Starts(w, "idle", <<>>, {}, {}, FALSE) PROVE LockInv'
    <3>1. LockOk(writer'[w]) /\ writer'[w].locks = {} /\ Others(w) /\ Found(w)'
      BY <2>2 DEF Starts, LockOk, Found
    <3> QED BY <2>1, <3>1, LockRestart, Zenon
  <2>3. ASSUME NEW b, Starts(w, "apply", b, Statements(b), {}, FALSE) PROVE LockInv'
    <3>1. LockOk(writer'[w]) /\ writer'[w].locks = {} /\ Others(w) /\ Found(w)'
      BY <2>3 DEF Starts, LockOk, Found
    <3> QED BY <2>1, <3>1, LockRestart, Zenon
  <2>4. ASSUME NEW b, Starts(w, "create", b, {}, Months(b), FALSE) PROVE LockInv'
    <3>1. LockOk(writer'[w]) /\ writer'[w].locks = {} /\ Others(w) /\ Found(w)'
      BY <2>4 DEF Starts, LockOk, Found
    <3> QED BY <2>1, <3>1, LockRestart, Zenon
  <2>5. ASSUME NEW b, Starts(w, "apply", b, Statements(b), {}, TRUE), writer[w].pc = "create",
               writer[w].todo = {}, writer[w].batch = b, partitions' = partitions \cup writer[w].made
        PROVE  LockInv'
    <3>1. LockOk(writer'[w]) /\ writer'[w].locks = {} /\ Others(w)
      BY <2>5 DEF Starts, LockOk
    <3>2. Found(w)'
      <4>1. Months(b) \subseteq partitions'
        BY <1>1, <2>5 DEF Found
      <4>2. writer'[w].pc = "apply" /\ writer'[w].batch = b
        BY <2>5, Zenon DEF Starts
      <4> QED BY <4>1, <4>2 DEF Found
    <3> QED BY <2>1, <3>1, <3>2, LockRestart, Zenon
  <2> QED BY <1>5, <2>2, <2>3, <2>4, <2>5, Zenon DEF Restarts
<1>6. ASSUME NEW w \in Writer, Commit(w) PROVE LockInv'
  <2>1. Starts(w, "idle", <<>>, {}, {}, FALSE) /\ partitions' = partitions
    BY <1>6, CommitDoes, Zenon
  <2>2. LockOk(writer'[w]) /\ writer'[w].locks = {} /\ Others(w) /\ Found(w)'
    BY <2>1 DEF Starts, LockOk, Found
  <2>3. partitions \subseteq partitions'
    BY <2>1, Zenon
  <2> QED BY <2>2, <2>3, LockRestart, Zenon
<1> QED BY <1>2, <1>3, <1>4, <1>5, <1>6, StepKinds, Zenon

LEMMA NoCreatorCycleHolds ==
    ASSUME WriterInv, LockInv
    PROVE  NoCreatorCycle
<1>1. \A w \in Writer : /\ writer[w].pc \in {"idle", "apply", "create"}
                        /\ writer[w].batch \in Batches \cup {<<>>}
  BY DEF WriterInv, Good
<1>2. Disjoint /\ \A w \in Writer : LockOk(writer[w]) /\ Found(w)
  BY LockParts, Zenon
<1>3. ASSUME NEW v \in Writer, NEW w \in Writer, Waits(v, w), writer[v].pc # "apply", writer[w].pc # "apply"
      PROVE  \E p \in writer[v].todo : p[1] \in writer[w].locks
  <2>1. ~WaitsToApply(v, w)
    BY <1>3, Zenon DEF WaitsToApply, IsNext
  <2>2. \A t : ~InUse(w, t)
    BY <1>3, Zenon DEF InUse
  <2> QED BY <1>3, <2>1, <2>2, Zenon DEF Waits, WaitsToCreate
<1>4. ASSUME NEW v \in Writer, NEW w \in Writer, Waits(v, w), Waits(w, v),
             writer[v].pc # "apply", writer[w].pc # "apply"
      PROVE  FALSE
  <2>1. PICK p \in writer[v].todo : p[1] \in writer[w].locks
    BY <1>3, <1>4, Zenon
  <2>2. PICK q \in writer[w].todo : q[1] \in writer[v].locks
    BY <1>3, <1>4, Zenon
  <2>3. v # w
    BY <1>4, Zenon DEF Waits
  <2>4. p[1] \in {"event", "summary"} /\ q[1] \in {"event", "summary"}
    BY <1>2, <2>1, <2>2, Zenon DEF LockOk
  <2>5. p[1] # q[1]
    BY <1>2, <2>1, <2>2, <2>3 DEF Disjoint
  <2>6. ("summary" \in writer[v].locks => p[1] # "event") /\ ("summary" \in writer[w].locks => q[1] # "event")
    BY <1>2, Zenon DEF LockOk
  <2> QED BY <2>1, <2>2, <2>4, <2>5, <2>6
<1>5. \A w \in Writer : writer[w].created => Months(writer[w].batch) \subseteq partitions
  BY <1>2, Zenon DEF Found
<1>6. \A v, w \in Writer : Waits(v, w) /\ Waits(w, v) => "apply" \in {writer[v].pc, writer[w].pc}
  BY <1>4
<1> QED BY <1>1, <1>5, <1>6, Zenon DEF NoCreatorCycle

\* Writers that create partitions at the same time never wait for each other,
\* for an advisory lock or for a table (one that applies may be waited for, and
\* wait); and none misses a month that it created or found: _plan's set of
\* months is made in one order, and ensure_partition keeps its locks to the end.
THEOREM CreatorsNeverCycle == Spec => []NoCreatorCycle
<1>1. Init => WriterInv /\ LockInv
  BY WriterInit, LockInit
<1>2. WriterInv /\ LockInv /\ [Next]_vars => WriterInv' /\ LockInv'
  BY WriterStep, LockStep
<1>3. WriterInv /\ LockInv => NoCreatorCycle
  BY NoCreatorCycleHolds
<1> QED BY <1>1, <1>2, <1>3, PTL DEF Spec
-----------------------------------------------------------------------------
(***************************************************************************)
(* Rows: the direction in which transactions take them.                    *)
(***************************************************************************)
LEMMA OverIs ==
    ASSUME NEW f, NEW g
    PROVE  /\ DOMAIN Over(f, g) = DOMAIN f \cup DOMAIN g
           /\ \A x \in DOMAIN f : Over(f, g)[x] = f[x]
           /\ \A x \in DOMAIN g : x \notin DOMAIN f => Over(f, g)[x] = g[x]
BY DEF Over

\* What a transaction sees is genuine, and ahead of what is committed.
LEMMA ViewOk ==
    ASSUME NEW R, R \subseteq AllRecords, NEW D, NEW rows, RowsOk(R, D, rows),
           \A row \in DOMAIN D : Genuine(R, row, D[row])
    PROVE  LET V == Over(rows, D)
           IN  /\ \A row \in DOMAIN V : Genuine(R, row, V[row])
               /\ \A row \in DOMAIN D : row \in DOMAIN V /\ Ahead(row, D[row], V[row])
<1> DEFINE V == Over(rows, D)
<1>1. /\ DOMAIN V = DOMAIN rows \cup DOMAIN D
      /\ \A x \in DOMAIN rows : V[x] = rows[x]
      /\ \A x \in DOMAIN D : x \notin DOMAIN rows => V[x] = D[x]
  BY OverIs, Zenon
<1> HIDE DEF V
<1>2. ASSUME NEW row \in DOMAIN V PROVE Genuine(R, row, V[row])
  BY <1>1, Zenon DEF RowsOk
<1>3. ASSUME NEW row \in DOMAIN D PROVE row \in DOMAIN V /\ Ahead(row, D[row], V[row])
  <2>1. CASE row \in DOMAIN rows
    BY <1>1, <2>1, Zenon DEF RowsOk
  <2>2. CASE row \notin DOMAIN rows
    BY <1>1, <2>2, AheadSelf, Zenon
  <2> QED BY <2>1, <2>2
<1> QED BY <1>2, <1>3, Zenon DEF V

\* The upserts that were done stay done when rows move ahead.
LEMMA DoneAhead ==
    ASSUME NEW b, Good(b), NEW R, R \subseteq AllRecords, NEW stmts, NEW V, NEW W, Done(b, stmts, V),
           \A row \in DOMAIN V : Genuine(R, row, V[row]), \A row \in DOMAIN W : Genuine(R, row, W[row]),
           \A row \in DOMAIN V : row \in DOMAIN W /\ Ahead(row, V[row], W[row])
    PROVE  Done(b, stmts, W)
<1> SUFFICES ASSUME NEW s \in Upserts(b) \ stmts
             PROVE  s.row \in DOMAIN W /\ Covers(s.row, W[s.row], s.rec)
  BY Zenon DEF Done
<1>1. s.row \in DOMAIN V /\ s.row \in DOMAIN W /\ Covers(s.row, V[s.row], s.rec)
  BY Zenon DEF Done
<1>2. s.row[1] = "summary" => s.rec.kind = "summary"
  BY UpsertIs
<1>3. s.rec \in Records(b)
  BY UpsertIs, Zenon
<1>4. s.rec \in AllRecords
  BY <1>3, Zenon DEF AllRecords, Good
<1> QED BY <1>1, <1>2, <1>4, CoversAhead, Zenon

\* An upsert: ON CONFLICT never takes a row back, and covers its record.
LEMMA UpsertRows ==
    ASSUME NEW b, Good(b), NEW R, R \subseteq AllRecords, Records(b) \subseteq R, NEW D, NEW rows,
           RowsOk(R, D, rows), \A row \in DOMAIN D : Genuine(R, row, D[row]),
           NEW s \in Upserts(b), NEW stmts, NEW left,
           \A t \in Upserts(b) : t \in stmts /\ t \notin left => t = s,
           Done(b, stmts, Over(rows, D))
    PROVE  LET V == Over(rows, D)
               found == s.row \in DOMAIN V
               new == IF found THEN Updated(s.op, V[s.row], s.rec) ELSE Inserted(s.op, s.rec)
               after == IF found /\ DoNothing(s.op) THEN rows ELSE Over([x \in {s.row} |-> new], rows)
           IN  RowsOk(R, D, after) /\ Done(b, left, Over(after, D))
<1> DEFINE V == Over(rows, D)
           found == s.row \in DOMAIN V
           new == IF found THEN Updated(s.op, V[s.row], s.rec) ELSE Inserted(s.op, s.rec)
           after == IF found /\ DoNothing(s.op) THEN rows ELSE Over([x \in {s.row} |-> new], rows)
           W == Over(after, D)
<1>1. /\ \A row \in DOMAIN V : Genuine(R, row, V[row])
      /\ \A row \in DOMAIN D : row \in DOMAIN V /\ Ahead(row, D[row], V[row])
  BY ViewOk, Zenon
<1>2. /\ DOMAIN V = DOMAIN rows \cup DOMAIN D
      /\ \A x \in DOMAIN rows : V[x] = rows[x]
      /\ \A x \in DOMAIN D : x \notin DOMAIN rows => V[x] = D[x]
  BY OverIs, Zenon
<1> HIDE DEF V, after
<1>3. /\ DOMAIN W = DOMAIN after \cup DOMAIN D
      /\ \A x \in DOMAIN after : W[x] = after[x]
      /\ \A x \in DOMAIN D : x \notin DOMAIN after => W[x] = D[x]
  BY OverIs, Zenon
<1> HIDE DEF W
<1>4. CASE found /\ DoNothing(s.op)
  <2>1. after = rows
    BY <1>4, Zenon DEF after
  <2>2. W = V
    BY <2>1, Zenon DEF W, V
  <2>3. Covers(s.row, V[s.row], s.rec)
    BY <1>1, <1>4, UpdateGenuine, Zenon
  <2>4. Done(b, left, V)
    BY <1>4, <2>3, Zenon DEF Done, V
  <2> QED BY <2>1, <2>2, <2>4, Zenon DEF V, W, after
<1>5. CASE ~(found /\ DoNothing(s.op))
  <2>1. after = Over([x \in {s.row} |-> new], rows)
    BY <1>5, Zenon DEF after
  <2>2. /\ Genuine(R, s.row, new) /\ Covers(s.row, new, s.rec)
        /\ found => Ahead(s.row, V[s.row], new)
    <3>1. CASE found
      <4>1. new = Updated(s.op, V[s.row], s.rec) /\ ~DoNothing(s.op)
        BY <1>5, <3>1, Zenon
      <4> QED BY <1>1, <3>1, <4>1, UpdateGenuine, Zenon
    <3>2. CASE ~found
      <4>1. new = Inserted(s.op, s.rec)
        BY <3>2, Zenon
      <4> QED BY <3>2, <4>1, InsertGenuine, Zenon
    <3> QED BY <3>1, <3>2, Zenon
  <2> HIDE DEF new
  <2>3. /\ DOMAIN after = DOMAIN rows \cup {s.row} /\ after[s.row] = new
        /\ \A x \in DOMAIN rows : x # s.row => after[x] = rows[x]
    BY <2>1 DEF Over
  <2>4. RowsOk(R, D, after)
    <3> SUFFICES ASSUME NEW row \in DOMAIN after
                 PROVE  Genuine(R, row, after[row]) /\ (row \in DOMAIN D => Ahead(row, D[row], after[row]))
      BY Zenon DEF RowsOk
    <3>1. CASE row # s.row
      BY <2>3, <3>1, Zenon DEF RowsOk
    <3>2. CASE row = s.row
      <4>1. after[row] = new /\ Genuine(R, row, new)
        BY <2>2, <2>3, <3>2, Zenon
      <4>2. ASSUME row \in DOMAIN D PROVE Ahead(row, D[row], new)
        <5>1. found /\ Ahead(row, D[row], V[row]) /\ Genuine(R, row, V[row]) /\ Genuine(R, row, D[row])
          BY <1>1, <3>2, <4>2, Zenon
        <5>2. Ahead(row, V[row], new)
          BY <2>2, <3>2, <5>1, Zenon
        <5> QED BY <4>1, <5>1, <5>2, AheadTransitive, Zenon
      <4> QED BY <4>1, <4>2, Zenon
    <3> QED BY <3>1, <3>2, Zenon
  <2>5. \A row \in DOMAIN W : Genuine(R, row, W[row])
    BY <2>4, ViewOk, Zenon DEF W
  <2>6. ASSUME NEW row \in DOMAIN V PROVE row \in DOMAIN W /\ Ahead(row, V[row], W[row])
    <3>1. row \in DOMAIN W
      BY <1>2, <1>3, <2>3, Zenon
    <3>2. CASE row = s.row
      <4>1. W[row] = new
        BY <1>3, <2>3, <3>2
      <4> QED BY <2>2, <3>1, <3>2, <4>1, Zenon
    <3>3. CASE row # s.row
      <4>1. W[row] = V[row]
        BY <1>2, <1>3, <2>3, <3>3
      <4> QED BY <1>1, <3>1, <4>1, AheadSelf, Zenon
    <3> QED BY <3>2, <3>3, Zenon
  <2>7. Done(b, stmts, W)
    BY <1>1, <2>5, <2>6, DoneAhead, Zenon DEF V
  <2>8. s.row \in DOMAIN W /\ Covers(s.row, W[s.row], s.rec)
    <3>1. s.row \in DOMAIN after
      BY <2>3, Zenon
    <3>2. s.row \in DOMAIN W /\ W[s.row] = new
      BY <1>3, <2>3, <3>1, Zenon
    <3> QED BY <2>2, <3>2, Zenon
  <2>9. Done(b, left, W)
    BY <2>7, <2>8, Zenon DEF Done
  <2> QED BY <2>4, <2>9, Zenon DEF W, after, new, V
<1> QED BY <1>4, <1>5, Zenon

LEMMA WrittenGood ==
    ASSUME WriterInv
    PROVE  /\ Written \subseteq AllRecords
           /\ \A b : Good(b) => Records(b) \subseteq AllRecords
           /\ \A w \in Writer : writer[w].pc = "apply" => Written \cup Records(writer[w].batch) \subseteq AllRecords
<1>1. \A b : Good(b) => Records(b) \subseteq AllRecords
  BY Zenon DEF AllRecords, Good
<1>2. Written \subseteq AllRecords
  BY <1>1, Zenon DEF Written, WriterInv
<1>3. ASSUME NEW w \in Writer, writer[w].pc = "apply" PROVE Good(writer[w].batch)
  <2>1. writer[w].pc # "idle"
    BY <1>3
  <2> QED BY <2>1, Zenon DEF WriterInv
<1> QED BY <1>1, <1>2, <1>3, Zenon

LEMMA NoRowsIs == DOMAIN NoRows = {}
BY DEF NoRows

LEMMA RowInit == ASSUME Init PROVE RowInv
<1>1. Idle.pc = "idle" /\ Idle.rows = NoRows
  BY DEF Idle
<1>2. \A w \in Writer : writer[w] = Idle
  BY DEF Init
<1>3. \A w \in Writer : writer[w].pc # "apply" /\ DOMAIN writer[w].rows = {}
  BY <1>1, <1>2, NoRowsIs
<1>4. DOMAIN db = {} /\ Written = {}
  BY NoRowsIs DEF Init, Written
<1> QED BY <1>3, <1>4 DEF RowInv, RowsOk

\* Steps that leave the tables and what was written as they are: it is enough
\* to look at the writer that moved.
LEMMA RowKept ==
    ASSUME RowInv, NEW w \in Writer, Others(w), db' = db, applied' = applied,
           RowsOk(Written \cup Records(writer'[w].batch), db, writer'[w].rows),
           writer'[w].pc = "apply" =>
              Done(writer'[w].batch, writer'[w].stmts, Over(writer'[w].rows, db)),
           \A v \in Writer \ {w} : DOMAIN writer'[w].rows \cap DOMAIN writer[v].rows = {}
    PROVE  RowInv'
<1>1. Written' = Written
  BY Zenon DEF Written
<1>2. \A v \in Writer \ {w} : writer'[v] = writer[v]
  BY Zenon DEF Others
<1>3. ASSUME NEW v \in Writer
      PROVE  /\ RowsOk(Written \cup Records(writer'[v].batch), db, writer'[v].rows)
             /\ writer'[v].pc = "apply" =>
                   Done(writer'[v].batch, writer'[v].stmts, Over(writer'[v].rows, db))
  <2>1. CASE v = w
    BY <2>1, Zenon
  <2>2. CASE v # w
    <3>1. writer'[v] = writer[v]
      BY <1>2, <2>2, Zenon
    <3> QED BY <3>1, Zenon DEF RowInv, View
  <2> QED BY <2>1, <2>2, Zenon
<1>4. ASSUME NEW u \in Writer, NEW v \in Writer \ {u}
      PROVE  DOMAIN writer'[u].rows \cap DOMAIN writer'[v].rows = {}
  <2>1. CASE u = w
    <3>1. writer'[v] = writer[v]
      BY <1>2, <2>1, Zenon
    <3> QED BY <2>1, <3>1, Zenon
  <2>2. CASE v = w
    <3>1. writer'[u] = writer[u] /\ DOMAIN writer'[w].rows \cap DOMAIN writer[u].rows = {}
      BY <1>2, <2>2, Zenon
    <3> QED BY <2>2, <3>1
  <2>3. CASE u # w /\ v # w
    BY <1>2, <2>3, Zenon DEF RowInv
  <2> QED BY <2>1, <2>2, <2>3
<1> QED BY <1>1, <1>3, <1>4, Zenon DEF RowInv, View

\* No upsert but s is removed, not even with a stale snapshot.
LEMMA UpsertRemoves ==
    ASSUME WriterInv, NEW w \in Writer, NEW s \in writer[w].stmts, ExecUpsert(w, s)
    PROVE  LET b == writer[w].batch
           IN  /\ s \in Upserts(b) /\ writer'[w].stmts \subseteq writer[w].stmts \ {s}
               /\ \A t \in Upserts(b) : t \in writer[w].stmts /\ t \notin writer'[w].stmts => t = s
<1> DEFINE b == writer[w].batch
<1>1. Good(b) /\ s \in Statements(b)
  BY RunDoes, Zenon DEF Runs
<1>2. \/ writer'[w].stmts = writer[w].stmts \ {s}
      \/ s.op = "snapshot" /\ writer'[w].stmts = AfterStale(writer[w].stmts, s)
  BY UpsertDoes, Zenon
<1>3. s \in Upserts(b)
  BY <1>1, Zenon DEF Upserts, ExecUpsert
<1>4. writer'[w].stmts \subseteq writer[w].stmts \ {s}
  BY <1>2, Zenon DEF AfterStale
<1>5. \A t \in Upserts(b) : t \in writer[w].stmts /\ t \notin writer'[w].stmts => t = s
  <2> SUFFICES ASSUME NEW t \in Upserts(b), t \in writer[w].stmts, t \notin writer'[w].stmts PROVE t = s
    BY Zenon
  <2>1. CASE writer'[w].stmts = writer[w].stmts \ {s}
    BY <2>1, Zenon
  <2>2. CASE s.op = "snapshot" /\ writer'[w].stmts = AfterStale(writer[w].stmts, s)
    <3>1. t.loop = s.loop /\ t.rec.node = s.rec.node /\ t \in Statements(b) /\ t.op \notin {"delete", "insert"}
      BY <2>2, Zenon DEF AfterStale, Upserts
    <3>2. s.loop = 5 /\ t.loop = 5
      BY <1>1, <2>2, <3>1, StatementIs
    <3>3. t.op \in {"snapshot", "delete", "insert"} /\ (t.op = s.op => t = s)
      BY <1>1, <3>1, <3>2, SnapshotStatements, SMT
    <3> QED BY <2>2, <3>1, <3>3
  <2> QED BY <1>2, <2>1, <2>2, Zenon
<1> QED BY <1>3, <1>4, <1>5, Zenon

LEMMA RowUpsert ==
    ASSUME WriterInv, RowInv, NEW w \in Writer, NEW s \in writer[w].stmts, ExecUpsert(w, s)
    PROVE  RowInv'
<1> DEFINE b == writer[w].batch
           rows == writer[w].rows
           R == Written \cup Records(b)
           V == Over(rows, db)
           found == s.row \in DOMAIN V
           new == IF found THEN Updated(s.op, V[s.row], s.rec) ELSE Inserted(s.op, s.rec)
           after == IF found /\ DoNothing(s.op) THEN rows ELSE Over([x \in {s.row} |-> new], rows)
<1>1. /\ Keeps(w) /\ writer[w].pc = "apply" /\ Good(b) /\ s \in Statements(b)
  BY RunDoes, Zenon DEF Runs
<1>2. /\ writer'[w].rows = after
      /\ \/ writer'[w].stmts = writer[w].stmts \ {s}
         \/ s.op = "snapshot" /\ writer'[w].stmts = AfterStale(writer[w].stmts, s)
  BY UpsertDoes, Zenon DEF View
<1>3. writer'[w].pc = writer[w].pc /\ writer'[w].batch = b
  BY <1>1 DEF Keeps, Fields
<1>4. s \in Upserts(b)
  BY <1>1, Zenon DEF Upserts, ExecUpsert
<1>5. \A t \in Upserts(b) : t \in writer[w].stmts /\ t \notin writer'[w].stmts => t = s
  BY UpsertRemoves, Zenon
<1>6. R \subseteq AllRecords /\ Records(b) \subseteq R
  BY <1>1, WrittenGood, Zenon
<1>7. RowsOk(R, db, rows) /\ Done(b, writer[w].stmts, V)
  BY <1>1, Zenon DEF RowInv, View
<1>8. \A row \in DOMAIN db : Genuine(R, row, db[row])
  <2>1. Written \subseteq R
    BY Zenon
  <2> HIDE DEF R
  <2> QED BY <2>1, GenuineMore, Zenon DEF RowInv
<1> HIDE DEF R, b, rows
<1>9. RowsOk(R, db, after) /\ Done(b, writer'[w].stmts, Over(after, db))
  BY <1>1, <1>4, <1>5, <1>6, <1>7, <1>8, UpsertRows, Zenon
<1>10. ASSUME NEW v \in Writer \ {w} PROVE DOMAIN after \cap DOMAIN writer[v].rows = {}
  <2>1. DOMAIN rows \cap DOMAIN writer[v].rows = {}
    BY Zenon DEF RowInv, rows
  <2>2. s.row \notin DOMAIN writer[v].rows
    BY Zenon DEF ExecUpsert, Locked
  <2>3. CASE after = rows
    BY <2>1, <2>3, Zenon
  <2>4. CASE after = Over([x \in {s.row} |-> new], rows)
    <3> HIDE DEF new
    <3>1. DOMAIN after = DOMAIN rows \cup {s.row}
      BY <2>4 DEF Over
    <3> HIDE DEF after
    <3> QED BY <2>1, <2>2, <3>1
  <2> QED BY <2>3, <2>4, Zenon
<1> HIDE DEF after
<1>11. Others(w) /\ db' = db /\ applied' = applied
  BY <1>1, Zenon DEF Keeps
<1> QED BY <1>2, <1>3, <1>9, <1>10, <1>11, RowKept, Zenon DEF R

\* DELETE and INSERT are no upserts, and touch no row of these tables.
LEMMA RowOther ==
    ASSUME WriterInv, RowInv, NEW w \in Writer, NEW s \in writer[w].stmts,
           ExecDelete(w, s) \/ ExecInsert(w, s)
    PROVE  RowInv'
<1> DEFINE b == writer[w].batch
<1>1. Keeps(w) /\ writer[w].pc = "apply" /\ s \in Statements(b)
  BY RunDoes, Zenon DEF Runs
<1>2. writer'[w].rows = writer[w].rows /\ writer'[w].stmts = writer[w].stmts \ {s}
  BY DeleteDoes, InsertDoes, Zenon
<1>3. writer'[w].pc = writer[w].pc /\ writer'[w].batch = b
  BY <1>1 DEF Keeps, Fields
<1>4. s \notin Upserts(b)
  BY DEF Upserts, ExecDelete, ExecInsert
<1>5. RowsOk(Written \cup Records(b), db, writer[w].rows) /\ Done(b, writer[w].stmts, Over(writer[w].rows, db))
  BY <1>1, Zenon DEF RowInv, View
<1>6. Done(b, writer[w].stmts \ {s}, Over(writer[w].rows, db))
  BY <1>4, <1>5, Zenon DEF Done
<1>7. \A v \in Writer \ {w} : DOMAIN writer[w].rows \cap DOMAIN writer[v].rows = {}
  BY Zenon DEF RowInv
<1>8. Others(w) /\ db' = db /\ applied' = applied
  BY <1>1, Zenon DEF Keeps
<1> QED BY <1>2, <1>3, <1>5, <1>6, <1>7, <1>8, RowKept, Zenon

LEMMA RowRestart ==
    ASSUME RowInv, NEW w \in Writer, Restarts(w)
    PROVE  RowInv'
<1>1. /\ Others(w) /\ db' = db /\ applied' = applied /\ writer'[w].rows = NoRows
      /\ writer'[w].pc = "apply" => writer'[w].stmts = Statements(writer'[w].batch)
  <2>1. /\ Others(w) /\ db' = db /\ applied' = applied /\ writer'[w].rows = NoRows
    BY Zenon DEF Restarts, Starts
  <2>2. ASSUME Starts(w, "idle", <<>>, {}, {}, FALSE) PROVE writer'[w].pc # "apply"
    BY <2>2 DEF Starts
  <2>3. ASSUME NEW b, NEW created, Starts(w, "apply", b, Statements(b), {}, created)
        PROVE  writer'[w].stmts = Statements(writer'[w].batch)
    BY <2>3, Zenon DEF Starts
  <2>4. ASSUME NEW b, Starts(w, "create", b, {}, Months(b), FALSE) PROVE writer'[w].pc # "apply"
    BY <2>4 DEF Starts
  <2> QED BY <2>1, <2>2, <2>3, <2>4, Zenon DEF Restarts
<1>2. DOMAIN writer'[w].rows = {}
  BY <1>1, NoRowsIs, Zenon
<1>3. RowsOk(Written \cup Records(writer'[w].batch), db, writer'[w].rows)
  BY <1>2, Zenon DEF RowsOk
<1>4. writer'[w].pc = "apply" => Done(writer'[w].batch, writer'[w].stmts, Over(writer'[w].rows, db))
  BY <1>1, Zenon DEF Done, Upserts
<1>5. \A v \in Writer \ {w} : DOMAIN writer'[w].rows \cap DOMAIN writer[v].rows = {}
  BY <1>2
<1> QED BY <1>1, <1>3, <1>4, <1>5, RowKept, Zenon

LEMMA RowEnsure ==
    ASSUME WriterInv, RowInv, NEW w \in Writer, NEW p \in writer[w].todo, Ensures(w, p)
    PROVE  RowInv'
<1>1. /\ Others(w) /\ db' = db /\ applied' = applied
      /\ \A f \in Fields \ {"todo", "locks", "made"} : writer'[w][f] = writer[w][f]
  BY EnsureDoes, Zenon
<1>2. /\ writer'[w].pc = writer[w].pc /\ writer'[w].batch = writer[w].batch
      /\ writer'[w].rows = writer[w].rows /\ writer'[w].stmts = writer[w].stmts
  BY <1>1 DEF Fields
<1>3. /\ RowsOk(Written \cup Records(writer[w].batch), db, writer[w].rows)
      /\ writer[w].pc = "apply" => Done(writer[w].batch, writer[w].stmts, Over(writer[w].rows, db))
      /\ \A v \in Writer \ {w} : DOMAIN writer[w].rows \cap DOMAIN writer[v].rows = {}
  BY Zenon DEF RowInv, View
<1> QED BY <1>1, <1>2, <1>3, RowKept, Zenon

\* What a commit does to the committed rows.
LEMMA CommitRows ==
    ASSUME WriterInv, RowInv, NEW w \in Writer, Commit(w)
    PROVE  LET b == writer[w].batch
           IN  /\ Written' = Written \cup Records(b) /\ Written' \subseteq AllRecords
               /\ db' = Over(writer[w].rows, db)
               /\ \A row \in DOMAIN db : /\ row \in DOMAIN db' /\ Ahead(row, db[row], db'[row])
                                         /\ Genuine(Written', row, db[row])
               /\ \A row \in DOMAIN db' : Genuine(Written', row, db'[row])
<1> DEFINE b == writer[w].batch
           R == Written \cup Records(b)
<1>1. /\ writer[w].pc = "apply" /\ Good(b) /\ db' = Over(writer[w].rows, db)
      /\ applied' = applied \cup {b}
  BY CommitDoes, Zenon DEF View
<1>2. Written' = R
  BY <1>1 DEF Written
<1>3. R \subseteq AllRecords /\ Written \subseteq R
  BY <1>1, WrittenGood, Zenon
<1>4. RowsOk(R, db, writer[w].rows)
  BY Zenon DEF RowInv
<1> HIDE DEF R
<1>5. \A row \in DOMAIN db : Genuine(R, row, db[row])
  BY <1>3, GenuineMore, Zenon DEF RowInv
<1> DEFINE V == Over(writer[w].rows, db)
<1>6. /\ \A row \in DOMAIN V : Genuine(R, row, V[row])
      /\ \A row \in DOMAIN db : row \in DOMAIN V /\ Ahead(row, db[row], V[row])
  BY <1>3, <1>4, <1>5, ViewOk, Zenon
<1> HIDE DEF V
<1>7. db' = V
  BY <1>1, Zenon DEF V
<1> QED BY <1>2, <1>3, <1>5, <1>6, <1>7, Zenon DEF R, V

LEMMA RowCommit ==
    ASSUME WriterInv, WriterInv', RowInv, NEW w \in Writer, Commit(w)
    PROVE  RowInv'
<1> DEFINE b == writer[w].batch
<1>1. /\ Starts(w, "idle", <<>>, {}, {}, FALSE) /\ writer[w].pc = "apply" /\ writer[w].stmts = {} /\ Good(b)
  BY CommitDoes, Zenon
<1>2. /\ Written' = Written \cup Records(b) /\ Written' \subseteq AllRecords
      /\ db' = Over(writer[w].rows, db)
      /\ \A row \in DOMAIN db : /\ row \in DOMAIN db' /\ Ahead(row, db[row], db'[row])
                                /\ Genuine(Written', row, db[row])
      /\ \A row \in DOMAIN db' : Genuine(Written', row, db'[row])
  BY CommitRows, Zenon
<1>3. db' = Over(writer[w].rows, db)
  BY <1>2, Zenon
<1>4. /\ Written' \subseteq AllRecords
      /\ \A row \in DOMAIN db : /\ row \in DOMAIN db' /\ Ahead(row, db[row], db'[row])
                                /\ Genuine(Written', row, db[row])
      /\ \A row \in DOMAIN db' : Genuine(Written', row, db'[row])
  BY <1>2, Zenon
<1>5. writer'[w].rows = NoRows /\ writer'[w].pc # "apply" /\ \A v \in Writer \ {w} : writer'[v] = writer[v]
  BY <1>1 DEF Starts, Others
<1>6. DOMAIN writer'[w].rows = {}
  BY <1>5, NoRowsIs, Zenon
<1>7. ASSUME NEW r \in Written' PROVE Covered(db', r)
  <2>1. CASE r \in Written
    <3>1. Covered(db, r) /\ r \in AllRecords /\ DOMAIN db \subseteq DOMAIN db'
      BY <1>2, <2>1, Zenon DEF RowInv
    <3>2. \A row \in DOMAIN db : Genuine(Written', row, db[row]) /\ Ahead(row, db[row], db'[row])
      BY <1>4, Zenon
    <3>3. Written' \subseteq AllRecords /\ \A row \in DOMAIN db' : Genuine(Written', row, db'[row])
      BY <1>4, Zenon
    <3> QED BY <3>1, <3>2, <3>3, CoveredAhead, Zenon
  <2>2. CASE r \in Records(b)
    <3> SUFFICES ASSUME NEW row \in RowsOf(r) PROVE row \in DOMAIN db' /\ Covers(row, db'[row], r)
      BY Zenon DEF Covered
    <3>1. PICK s \in Upserts(b) :
             s.row = row /\ (s.rec = r \/ (row[1] = "live_snapshots" /\ r.ts <= s.rec.ts))
      BY <1>1, <2>2, HasUpsert
    <3>2. Done(b, {}, db')
      BY <1>1, <1>2, Zenon DEF RowInv, View
    <3>3. row \in DOMAIN db' /\ Covers(row, db'[row], s.rec)
      BY <3>1, <3>2, Zenon DEF Done
    <3>4. r \in AllRecords /\ s.rec \in AllRecords
      BY <1>1, <2>2, UpsertIs, Zenon DEF AllRecords, Good
    <3>5. Written' \subseteq AllRecords /\ Genuine(Written', row, db'[row])
      BY <1>4, <3>3, Zenon
    <3> QED BY <3>1, <3>3, <3>4, <3>5, CoversOlder, Zenon
  <2> QED BY <1>2, <2>1, <2>2, Zenon
<1>8. ASSUME NEW v \in Writer \ {w}
      PROVE  /\ RowsOk(Written' \cup Records(writer[v].batch), db', writer[v].rows)
             /\ writer[v].pc = "apply" => Done(writer[v].batch, writer[v].stmts, Over(writer[v].rows, db'))
  <2> DEFINE S == Written' \cup Records(writer[v].batch)
             rows == writer[v].rows
  <2>1. DOMAIN rows \cap DOMAIN writer[w].rows = {}
    BY Zenon DEF RowInv
  <2>2. DOMAIN db' = DOMAIN writer[w].rows \cup DOMAIN db
    BY <1>3, OverIs, Zenon
  <2>3. \A row \in DOMAIN db : row \notin DOMAIN writer[w].rows => db'[row] = db[row]
    BY <1>3 DEF Over
  <2>4. Written \cup Records(writer[v].batch) \subseteq S /\ Written' \subseteq S
    BY <1>2
  <2>5. RowsOk(Written \cup Records(writer[v].batch), db, rows)
    BY Zenon DEF RowInv
  <2>6. S \subseteq AllRecords \/ writer[v].pc # "apply"
    BY <1>2, WrittenGood, Zenon
  <2> HIDE DEF S
  <2>7. RowsOk(S, db', rows)
    <3> SUFFICES ASSUME NEW row \in DOMAIN rows
                 PROVE  Genuine(S, row, rows[row]) /\ (row \in DOMAIN db' => Ahead(row, db'[row], rows[row]))
      BY Zenon DEF RowsOk
    <3>1. Genuine(S, row, rows[row])
      BY <2>4, <2>5, GenuineMore, Zenon DEF RowsOk
    <3>2. row \in DOMAIN db' => row \in DOMAIN db /\ db'[row] = db[row]
      BY <2>1, <2>2, <2>3
    <3> QED BY <2>5, <3>1, <3>2, Zenon DEF RowsOk
  <2>8. ASSUME writer[v].pc = "apply" PROVE Done(writer[v].batch, writer[v].stmts, Over(rows, db'))
    <3> DEFINE V == Over(rows, db)
               W == Over(rows, db')
    <3>1. Done(writer[v].batch, writer[v].stmts, V)
      BY <2>8, Zenon DEF RowInv, View
    <3>2. S \subseteq AllRecords /\ Good(writer[v].batch)
      <4>1. writer[v].pc # "idle"
        BY <2>8
      <4> QED BY <2>6, <2>8, <4>1, Zenon DEF WriterInv
    <3>3. \A row \in DOMAIN db : Genuine(S, row, db[row])
      BY <1>2, <2>4, GenuineMore, Zenon
    <3>4. \A row \in DOMAIN db' : Genuine(S, row, db'[row])
      BY <1>2, <2>4, GenuineMore, Zenon
    <3>5. RowsOk(S, db, rows)
      BY <2>4, <2>5, GenuineMore, Zenon DEF RowsOk
    <3>6. \A row \in DOMAIN V : Genuine(S, row, V[row])
      BY <3>2, <3>3, <3>5, ViewOk, Zenon
    <3>7. \A row \in DOMAIN W : Genuine(S, row, W[row])
      BY <2>7, <3>2, <3>4, ViewOk, Zenon
    <3>8. /\ DOMAIN V = DOMAIN rows \cup DOMAIN db
          /\ \A x \in DOMAIN rows : V[x] = rows[x]
          /\ \A x \in DOMAIN db : x \notin DOMAIN rows => V[x] = db[x]
      BY OverIs, Zenon
    <3>9. /\ DOMAIN W = DOMAIN rows \cup DOMAIN db'
          /\ \A x \in DOMAIN rows : W[x] = rows[x]
          /\ \A x \in DOMAIN db' : x \notin DOMAIN rows => W[x] = db'[x]
      BY OverIs, Zenon
    <3> HIDE DEF V, W
    <3>10. ASSUME NEW row \in DOMAIN V PROVE row \in DOMAIN W /\ Ahead(row, V[row], W[row])
      <4>1. CASE row \in DOMAIN rows
        <5>1. row \in DOMAIN W /\ W[row] = V[row]
          BY <3>8, <3>9, <4>1, Zenon
        <5> QED BY <3>2, <3>6, <5>1, AheadSelf, Zenon
      <4>2. CASE row \notin DOMAIN rows
        <5>1. row \in DOMAIN db
          BY <3>8, <4>2, Zenon
        <5>2. row \in DOMAIN W /\ V[row] = db[row] /\ W[row] = db'[row]
          BY <1>2, <3>8, <3>9, <4>2, <5>1, Zenon
        <5> QED BY <1>2, <5>1, <5>2, Zenon
      <4> QED BY <4>1, <4>2, Zenon
    <3>11. Done(writer[v].batch, writer[v].stmts, W)
      BY <3>1, <3>2, <3>6, <3>7, <3>10, DoneAhead, Zenon
    <3> QED BY <3>11, Zenon DEF W
  <2> QED BY <2>7, <2>8, Zenon DEF S
<1>9. ASSUME NEW v \in Writer
      PROVE  /\ RowsOk(Written' \cup Records(writer'[v].batch), db', writer'[v].rows)
             /\ writer'[v].pc = "apply" =>
                   Done(writer'[v].batch, writer'[v].stmts, Over(writer'[v].rows, db'))
  <2>1. CASE v = w
    BY <1>5, <1>6, <2>1, Zenon DEF RowsOk
  <2>2. CASE v # w
    BY <1>5, <1>8, <2>2, Zenon
  <2> QED BY <2>1, <2>2, Zenon
<1>10. ASSUME NEW u \in Writer, NEW v \in Writer \ {u}
      PROVE  DOMAIN writer'[u].rows \cap DOMAIN writer'[v].rows = {}
  <2>1. CASE u = w
    BY <1>6, <2>1
  <2>2. CASE v = w
    BY <1>6, <2>2
  <2>3. CASE u # w /\ v # w
    BY <1>5, <2>3, Zenon DEF RowInv
  <2> QED BY <2>1, <2>2, <2>3
<1> QED BY <1>2, <1>7, <1>9, <1>10, Zenon DEF RowInv, View

LEMMA RowStep ==
    ASSUME WriterInv, WriterInv', RowInv, [Next]_vars
    PROVE  RowInv'
<1>1. CASE UNCHANGED vars
  BY <1>1, Zenon DEF RowInv, View, Written, vars
<1>2. ASSUME NEW w \in Writer, NEW s \in writer[w].stmts, Runs(w, s) PROVE RowInv'
  BY <1>2, RowUpsert, RowOther, Zenon DEF Runs
<1>3. ASSUME NEW w \in Writer, NEW p \in writer[w].todo, Ensures(w, p) PROVE RowInv'
  BY <1>3, RowEnsure, Zenon
<1>4. ASSUME NEW w \in Writer, Restarts(w) PROVE RowInv'
  BY <1>4, RowRestart, Zenon
<1>5. ASSUME NEW w \in Writer, Commit(w) PROVE RowInv'
  BY <1>5, RowCommit, Zenon
<1> QED BY <1>1, <1>2, <1>3, <1>4, <1>5, StepKinds, Zenon
-----------------------------------------------------------------------------
(***************************************************************************)
(* Each row is as the newest record left it.                               *)
(***************************************************************************)
LEMMA SameNumber ==
    ASSUME NEW x \in Nat, NEW y \in Nat, x <= y, y <= x
    PROVE  x = y
OBVIOUS

LEMMA MinMaxIs ==
    ASSUME NEW S \in SUBSET Nat, NEW x \in S
    PROVE  /\ (\A y \in S : x <= y) => Min(S) = x
           /\ (\A y \in S : y <= x) => Max(S) = x
<1>1. ASSUME \A y \in S : x <= y PROVE Min(S) = x
  <2>1. Min(S) \in S /\ \A y \in S : Min(S) <= y
    BY <1>1, Zenon DEF Min
  <2> QED BY <1>1, <2>1, SameNumber, Zenon
<1>2. ASSUME \A y \in S : y <= x PROVE Max(S) = x
  <2>1. \A y, z \in S : y >= z <=> z <= y
    OBVIOUS
  <2>2. Max(S) \in S /\ \A y \in S : Max(S) >= y
    BY <1>2, <2>1, Zenon DEF Max
  <2> QED BY <1>2, <2>1, <2>2, SameNumber, Zenon
<1> QED BY <1>1, <1>2, Zenon

LEMMA NewestStoredHolds ==
    ASSUME WriterInv, RowInv
    PROVE  NewestStored
<1>1. \A r \in Written : \A row \in RowsOf(r) :
         row \in DOMAIN db /\ Covers(row, db[row], r) /\ Genuine(Written, row, db[row])
  BY Zenon DEF RowInv, Covered
<1>2. Written \subseteq AllRecords
  BY WrittenGood, Zenon
<1>3. ASSUME NEW k \in {r.key : r \in Of("summary")}
      PROVE  LET rs == {r \in Of("summary") : r.key = k}
                 row == db[<<"summary", k>>]
             IN  /\ \E r \in rs : row = [count |-> r.count, ts |-> r.ts]
                 /\ \A r \in rs : r.count <= row.count
  <2> DEFINE v == db[<<"summary", k>>]
  <2>1. ASSUME NEW r \in Written, r.kind = "summary", r.key = k
        PROVE  r.count <= v.count /\ SummaryFrom(Written, k, v)
    <3>1. <<"summary", k>> \in RowsOf(r)
      BY <2>1 DEF RowsOf
    <3>2. Covers(<<"summary", k>>, v, r) /\ Genuine(Written, <<"summary", k>>, v)
      BY <1>1, <3>1, Zenon
    <3>3. <<"summary", k>>[1] = "summary" /\ <<"summary", k>>[2] = k
      OBVIOUS
    <3> QED BY <3>2, <3>3, Zenon DEF Covers, Genuine
  <2>2. PICK r \in Written : r.kind = "summary" /\ r.key = k
    BY Zenon DEF Of
  <2>3. PICK q \in Written : q.kind = "summary" /\ q.key = k /\ v = [count |-> q.count, ts |-> q.ts]
    BY <2>1, <2>2, Zenon DEF SummaryFrom
  <2> HIDE DEF v
  <2>4. q \in {x \in Of("summary") : x.key = k} /\ \A x \in {y \in Of("summary") : y.key = k} : x.count <= v.count
    BY <2>1, <2>3, Zenon DEF Of
  <2> QED BY <2>3, <2>4, Zenon DEF v
<1>4. ASSUME NEW n \in {r.node : r \in Of("live_node")}
      PROVE  LET rs == {r \in Of("live_node") : r.node = n}
                 row == db[<<"live_nodes", n>>]
             IN  /\ \E r \in rs : r.ts = row.updated_at /\ \A c \in DOMAIN r.cols : row.cols[c] = r.cols[c]
                 /\ \A r \in rs : r.ts <= row.updated_at
  <2> DEFINE v == db[<<"live_nodes", n>>]
  <2>1. ASSUME NEW r \in Written, r.kind = "live_node", r.node = n
        PROVE  r.ts <= v.updated_at /\ LiveFrom(Written, n, v)
    <3>1. <<"live_nodes", n>> \in RowsOf(r)
      BY <2>1 DEF RowsOf
    <3>2. Covers(<<"live_nodes", n>>, v, r) /\ Genuine(Written, <<"live_nodes", n>>, v)
      BY <1>1, <3>1, Zenon
    <3>3. <<"live_nodes", n>>[1] = "live_nodes" /\ <<"live_nodes", n>>[2] = n
      OBVIOUS
    <3> QED BY <3>2, <3>3, Zenon DEF Covers, Genuine
  <2>2. PICK r \in Written : r.kind = "live_node" /\ r.node = n
    BY Zenon DEF Of
  <2>3. PICK q \in Written : /\ q.kind = "live_node" /\ q.node = n /\ v.updated_at = q.ts
                             /\ \A c \in DOMAIN q.cols : v.cols[c] = q.cols[c]
    BY <2>1, <2>2, Zenon DEF LiveFrom
  <2> HIDE DEF v
  <2>4. q \in {x \in Of("live_node") : x.node = n} /\ \A x \in {y \in Of("live_node") : y.node = n} : x.ts <= v.updated_at
    BY <2>1, <2>3, Zenon DEF Of
  <2> QED BY <2>3, <2>4, Zenon DEF v
<1>5. ASSUME NEW n \in {r.node : r \in Of("live_node") \cup Of("node_hardware")}
      PROVE  LET seen == {r.ts : r \in {q \in Of("live_node") \cup Of("node_hardware") : q.node = n}}
             IN  /\ db[<<"nodes", n>>].first_seen = Min(seen)
                 /\ db[<<"nodes", n>>].last_seen = Max(seen)
  <2> DEFINE v == db[<<"nodes", n>>]
             seen == {r.ts : r \in {q \in Of("live_node") \cup Of("node_hardware") : q.node = n}}
  <2>1. \A r : r \in ColumnsOf(Written, n) <=> r \in Of("live_node") \cup Of("node_hardware") /\ r.node = n
    BY DEF ColumnsOf, Of, HasColumns
  <2>2. ASSUME NEW r \in ColumnsOf(Written, n)
        PROVE  v.first_seen <= r.ts /\ r.ts <= v.last_seen /\ NodeFrom(Written, n, v) /\ r.ts \in Nat
    <3>1. <<"nodes", n>> \in RowsOf(r) /\ r \in Written
      BY DEF RowsOf, ColumnsOf
    <3>2. Covers(<<"nodes", n>>, v, r) /\ Genuine(Written, <<"nodes", n>>, v)
      BY <1>1, <3>1, Zenon
    <3>3. <<"nodes", n>>[1] = "nodes" /\ <<"nodes", n>>[2] = n
      OBVIOUS
    <3> QED BY <1>2, <3>1, <3>2, <3>3, AnyRecordType, Zenon DEF Covers, Genuine
  <2>3. PICK r \in ColumnsOf(Written, n) : TRUE
    BY <2>1, Zenon
  <2>4. NodeFrom(Written, n, v)
    BY <2>2, <2>3, Zenon
  <2> HIDE DEF v
  <2>5. seen = {x.ts : x \in ColumnsOf(Written, n)}
    BY <2>1, Zenon
  <2> HIDE DEF seen
  <2>6. v.first_seen \in seen /\ v.last_seen \in seen
    BY <2>4, <2>5, Zenon DEF NodeFrom
  <2>7. seen \in SUBSET Nat /\ \A y \in seen : v.first_seen <= y /\ y <= v.last_seen
    BY <2>2, <2>5, Zenon
  <2>8. Min(seen) = v.first_seen /\ Max(seen) = v.last_seen
    BY <2>6, <2>7, MinMaxIs, Zenon
  <2> QED BY <2>8, Zenon DEF v, seen
<1>6. ASSUME NEW r \in Of("live_processes") PROVE r.ts <= db[<<"live_snapshots", r.node>>].ts
  <2>1. <<"live_snapshots", r.node>> \in RowsOf(r) /\ r \in Written
    BY DEF RowsOf, Of, SnapRow
  <2>2. Covers(<<"live_snapshots", r.node>>, db[<<"live_snapshots", r.node>>], r)
    BY <1>1, <2>1, Zenon
  <2>3. <<"live_snapshots", r.node>>[1] = "live_snapshots"
    OBVIOUS
  <2> QED BY <2>2, <2>3, Zenon DEF Covers
<1> QED BY <1>3, <1>4, <1>5, <1>6, Zenon DEF NewestStored

\* Whatever the order in which batches are written, replayed and interleaved,
\* each row ends as the newest (fullest) of its records left it: the guards of
\* the ON CONFLICT clauses compare with what the transaction sees, and a row
\* it wrote is locked until it ends.
THEOREM NewestWins == Spec => []NewestStored
<1>1. Init => WriterInv /\ RowInv
  BY WriterInit, RowInit
<1>2. WriterInv /\ RowInv /\ [Next]_vars => WriterInv' /\ RowInv'
  BY WriterStep, RowStep
<1>3. WriterInv /\ RowInv => NewestStored
  BY NewestStoredHolds
<1> QED BY <1>1, <1>2, <1>3, PTL DEF Spec
-----------------------------------------------------------------------------
(***************************************************************************)
(* No step takes a row back.                                               *)
(***************************************************************************)
LEMMA ColumnValues ==
    ASSUME NEW n, NEW r \in ColumnsOf(AllRecords, n), NEW c \in DOMAIN r.cols, r.cols[c] # None
    PROVE  r.cols[c] \in Nat
<1>1. r \in AllRecords /\ HasColumns(r)
  BY Zenon DEF ColumnsOf
<1>2. PICK b \in {x \in Batches : ~Malformed(x)} : \E i \in DOMAIN b : r = b[i]
  BY <1>1, AnyRecord, Zenon DEF Good, Plan
<1>3. r.cols[c] \in Nat \cup {None}
  BY <1>1, <1>2, BatchAssumption, Zenon
<1> QED BY <1>3, Zenon

\* A value that was replaced by one of a later record is not a newer one.
LEMMA Later ==
    ASSUME NEW n, NEW c, NEW x, NEW y, NEW t \in Nat, x # None, y # None, Until(n, c, x, t),
           y = x \/ Since(n, c, y, t)
    PROVE  y >= x
<1>1. PICK q \in ColumnsOf(AllRecords, n) : c \in DOMAIN q.cols /\ x = q.cols[c] /\ q.ts <= t
  BY Zenon DEF Until
<1>2. x \in Nat
  BY <1>1, ColumnValues, Zenon
<1>3. CASE y = x
  BY <1>2, <1>3
<1>4. CASE Since(n, c, y, t)
  <2>1. PICK r \in ColumnsOf(AllRecords, n) : c \in DOMAIN r.cols /\ y = r.cols[c] /\ t <= r.ts
    BY <1>4, Zenon DEF Since
  <2>2. y \in Nat
    BY <2>1, ColumnValues, Zenon
  <2>3. /\ q \in AllRecords /\ r \in AllRecords /\ HasColumns(q) /\ HasColumns(r) /\ q.node = r.node
    BY Zenon DEF ColumnsOf
  <2>4. q.ts \in Nat /\ r.ts \in Nat
    BY <2>3, AnyRecordType, Zenon
  <2>5. q.ts <= r.ts
    BY <1>1, <2>1, <2>4, LessEqTransitive, Zenon
  <2>6. \A d \in DOMAIN q.cols \cap DOMAIN r.cols :
           q.cols[d] # None /\ r.cols[d] # None => q.cols[d] <= r.cols[d]
    BY <2>3, <2>5, Stamps, Zenon
  <2>7. c \in DOMAIN q.cols \cap DOMAIN r.cols
    BY <1>1, <2>1, Zenon
  <2>8. x <= y
    BY <1>1, <2>1, <2>6, <2>7, Zenon
  <2> QED BY <1>2, <2>2, <2>8
<1> QED BY <1>3, <1>4, Zenon

\* Every step leaves each committed row ahead of what it was.
LEMMA CommittedAhead ==
    ASSUME WriterInv, RowInv, [Next]_vars
    PROVE  \A row \in DOMAIN db : /\ row \in DOMAIN db' /\ Ahead(row, db[row], db'[row])
                                  /\ Genuine(Written, row, db[row])
<1>1. \A row \in DOMAIN db : Genuine(Written, row, db[row]) /\ Ahead(row, db[row], db[row])
  BY WrittenGood, AheadSelf, Zenon DEF RowInv
<1>2. CASE db' = db
  BY <1>1, <1>2, Zenon
<1>3. ASSUME NEW w \in Writer, Commit(w)
      PROVE  \A row \in DOMAIN db : row \in DOMAIN db' /\ Ahead(row, db[row], db'[row])
  BY <1>3, CommitRows, Zenon
<1>4. ASSUME NEW w \in Writer, NEW s \in writer[w].stmts, Runs(w, s) PROVE db' = db
  BY <1>4, RunDoes, Zenon DEF Keeps
<1>5. ASSUME NEW w \in Writer, NEW p \in writer[w].todo, Ensures(w, p) PROVE db' = db
  BY <1>5, EnsureDoes, Zenon
<1>6. ASSUME NEW w \in Writer, Restarts(w) PROVE db' = db
  BY <1>6, Zenon DEF Restarts
<1>7. UNCHANGED vars => db' = db
  BY Zenon DEF vars
<1> QED BY <1>1, <1>2, <1>3, <1>4, <1>5, <1>6, <1>7, StepKinds, Zenon

\* A node's label and boot_id, and its live columns, never go back to an older
\* value, whatever is replayed: the action property holds of every step.
THEOREM NothingReverts == Spec => NoReversion
<1> DEFINE A == \A n \in Node :
         /\ <<"nodes", n>> \in DOMAIN db =>
              LET old == db[<<"nodes", n>>]
                  new == db'[<<"nodes", n>>]
              IN  /\ <<"nodes", n>> \in DOMAIN db'
                  /\ \A c \in {"label", "boot_id"} :
                        old[c] # None => new[c] # None /\ new[c] >= old[c]
         /\ <<"live_nodes", n>> \in DOMAIN db =>
              LET old == db[<<"live_nodes", n>>].cols
                  new == db'[<<"live_nodes", n>>].cols
              IN  /\ <<"live_nodes", n>> \in DOMAIN db' /\ DOMAIN old \subseteq DOMAIN new
                  /\ \A c \in DOMAIN old : old[c] # None /\ new[c] # None => new[c] >= old[c]
<1>1. Init => WriterInv /\ RowInv
  BY WriterInit, RowInit
<1>2. WriterInv /\ RowInv /\ [Next]_vars => WriterInv' /\ RowInv'
  BY WriterStep, RowStep
<1>3. ASSUME WriterInv, RowInv, [Next]_vars PROVE A
  <2> SUFFICES ASSUME NEW n \in Node
               PROVE  /\ <<"nodes", n>> \in DOMAIN db =>
                           LET old == db[<<"nodes", n>>]
                               new == db'[<<"nodes", n>>]
                           IN  /\ <<"nodes", n>> \in DOMAIN db'
                               /\ \A c \in {"label", "boot_id"} :
                                     old[c] # None => new[c] # None /\ new[c] >= old[c]
                      /\ <<"live_nodes", n>> \in DOMAIN db =>
                           LET old == db[<<"live_nodes", n>>].cols
                               new == db'[<<"live_nodes", n>>].cols
                           IN  /\ <<"live_nodes", n>> \in DOMAIN db' /\ DOMAIN old \subseteq DOMAIN new
                               /\ \A c \in DOMAIN old :
                                     old[c] # None /\ new[c] # None => new[c] >= old[c]
    BY Zenon
  <2>1. \A row \in DOMAIN db : /\ row \in DOMAIN db' /\ Ahead(row, db[row], db'[row])
                               /\ Genuine(Written, row, db[row])
    BY <1>3, CommittedAhead, Zenon
  <2>2. Written \subseteq AllRecords
    BY <1>3, WrittenGood, Zenon
  <2>3. ASSUME <<"nodes", n>> \in DOMAIN db
        PROVE  LET old == db[<<"nodes", n>>]
                   new == db'[<<"nodes", n>>]
               IN  /\ <<"nodes", n>> \in DOMAIN db'
                   /\ \A c \in {"label", "boot_id"} :
                         old[c] # None => new[c] # None /\ new[c] >= old[c]
    <3> DEFINE row == <<"nodes", n>>
               old == db[row]
               new == db'[row]
    <3>1. row[1] = "nodes" /\ row[2] = n
      OBVIOUS
    <3>2. row \in DOMAIN db' /\ Ahead(row, old, new) /\ Genuine(Written, row, old)
      BY <2>1, <2>3, Zenon
    <3> HIDE DEF row
    <3>3. NodeAhead(n, old, new) /\ NodeFrom(Written, n, old)
      BY <3>1, <3>2, Zenon DEF Ahead, Genuine
    <3>4. old.last_seen \in Nat
      BY <2>2, <3>1, <3>2, GenuineNumbers, Zenon
    <3> HIDE DEF old, new
    <3>5. ASSUME NEW c \in {"label", "boot_id"}, old[c] # None PROVE new[c] # None /\ new[c] >= old[c]
      <4>1. Until(n, c, old[c], old.last_seen)
        BY <3>3, <3>5, Zenon DEF NodeFrom
      <4>2. new[c] # None /\ (new[c] = old[c] \/ Since(n, c, new[c], old.last_seen))
        BY <3>3, <3>5, Zenon DEF NodeAhead
      <4> QED BY <3>4, <3>5, <4>1, <4>2, Later, Zenon
    <3> QED BY <3>2, <3>5, Zenon DEF old, new, row
  <2>4. ASSUME <<"live_nodes", n>> \in DOMAIN db
        PROVE  LET old == db[<<"live_nodes", n>>].cols
                   new == db'[<<"live_nodes", n>>].cols
               IN  /\ <<"live_nodes", n>> \in DOMAIN db' /\ DOMAIN old \subseteq DOMAIN new
                   /\ \A c \in DOMAIN old : old[c] # None /\ new[c] # None => new[c] >= old[c]
    <3> DEFINE row == <<"live_nodes", n>>
               old == db[row]
               new == db'[row]
    <3>1. row[1] = "live_nodes" /\ row[2] = n
      OBVIOUS
    <3>2. row \in DOMAIN db' /\ Ahead(row, old, new) /\ Genuine(Written, row, old)
      BY <2>1, <2>4, Zenon
    <3> HIDE DEF row
    <3>3. LiveAhead(n, old, new) /\ LiveFrom(Written, n, old)
      BY <3>1, <3>2, Zenon DEF Ahead, Genuine
    <3>4. old.updated_at \in Nat
      BY <2>2, <3>1, <3>2, GenuineNumbers, Zenon
    <3> HIDE DEF old, new
    <3>5. ASSUME NEW c \in DOMAIN old.cols, old.cols[c] # None, new.cols[c] # None
          PROVE  new.cols[c] >= old.cols[c]
      <4>1. Until(n, c, old.cols[c], old.updated_at)
        BY <3>3, <3>5, Zenon DEF LiveFrom
      <4>2. new.cols[c] = old.cols[c] \/ Since(n, c, new.cols[c], old.updated_at)
        BY <3>3, <3>5, Zenon DEF LiveAhead
      <4> QED BY <3>4, <3>5, <4>1, <4>2, Later, Zenon
    <3>6. DOMAIN old.cols \subseteq DOMAIN new.cols
      BY <3>3, Zenon DEF LiveAhead
    <3> QED BY <3>2, <3>5, <3>6, Zenon DEF old, new, row
  <2> QED BY <2>3, <2>4, Zenon
<1>4. WriterInv /\ RowInv /\ [Next]_vars => [A]_vars
  BY <1>3
<1> QED BY <1>1, <1>2, <1>4, PTL DEF Spec, NoReversion
=============================================================================
