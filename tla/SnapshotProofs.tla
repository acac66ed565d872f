-------------------------- MODULE SnapshotProofs ----------------------------
(***************************************************************************)
(* Proofs about the censuses that transactions of DatabaseWriter replace,  *)
(* and about what upserts leave of a row, for any number of writers,       *)
(* batches and records.                                                    *)
(***************************************************************************)
EXTENDS DatabaseWriterProofs

(***************************************************************************)
(* Censuses: two writers never mix theirs.                                 *)
(***************************************************************************)
\* A census is written by three calls.
CensusOps == {"snapshot", "delete", "insert"}

LEMMA CensusCalls ==
    ASSUME NEW b, Good(b), NEW s \in Statements(b), s.loop = 5, NEW op \in CensusOps
    PROVE  /\ s.rec \in Records(b) /\ s.rec.kind = "live_processes"
           /\ \E t \in Statements(b) : t.loop = 5 /\ t.op = op /\ t.rec = s.rec
<1>1. PICK i \in Plan(b) : s.rec = b[i] /\ b[i].kind = "live_processes" /\ NewestCensus(b, i)
  BY StatementIs
<1>2. s.rec \in Records(b)
  BY <1>1, RecordType, Zenon
<1> DEFINE at == Min(CensusesOf(b, b[i].node))
           S(call, o, table) == Stmt(5, at, call, o, <<table, b[i].node>>, b[i])
<1>3. i \in {j \in OfKind(b, "live_processes") : NewestCensus(b, j)}
  BY <1>1, Zenon DEF OfKind
<1>4. /\ S(1, "snapshot", "live_snapshots") \in Statements(b)
      /\ S(2, "delete", "live_processes") \in Statements(b)
      /\ S(3, "insert", "live_processes") \in Statements(b)
  BY <1>3, Zenon DEF Statements
<1> HIDE DEF at
<1>5. \A call, o, table : S(call, o, table).loop = 5 /\ S(call, o, table).op = o /\ S(call, o, table).rec = b[i]
  BY DEF Stmt
<1> HIDE DEF S
<1>6. \E t \in Statements(b) : t.loop = 5 /\ t.op = op /\ t.rec = b[i]
  <2>1. CASE op = "snapshot"
    BY <1>4, <1>5, <2>1
  <2>2. CASE op = "delete"
    BY <1>4, <1>5, <2>2
  <2>3. CASE op = "insert"
    BY <1>4, <1>5, <2>3
  <2> QED BY <2>1, <2>2, <2>3, Zenon DEF CensusOps
<1> QED BY <1>1, <1>2, <1>6, Zenon

LEMMA WhichLoop ==
    ASSUME NEW b, NEW s \in Statements(b)
    PROVE  /\ s.op \in {"snapshot", "delete", "insert"} <=> s.loop = 5
           /\ s.op = "snapshot" <=> s.row[1] = "live_snapshots"
           /\ s.op = "snapshot" => s.row = SnapRow(s.rec.node)
BY StatementIs DEF SnapRow

LEMMA SnapRowIs ==
    ASSUME NEW m, NEW n
    PROVE  SnapRow(n)[1] = "live_snapshots" /\ (SnapRow(m) = SnapRow(n) <=> m = n)
BY DEF SnapRow

\* What a step says of a node whose census it does not touch.
LEMMA CensusKept ==
    ASSUME NEW w, NEW n, CensusOk(w, n), writer'[w].batch = writer[w].batch,
           SnapRow(n) \in DOMAIN writer'[w].rows <=> SnapRow(n) \in DOMAIN writer[w].rows,
           SnapRow(n) \in DOMAIN writer[w].rows => writer'[w].rows[SnapRow(n)] = writer[w].rows[SnapRow(n)],
           SnapRow(n) \in DOMAIN writer[w].rows /\ SnapRow(n) \in DOMAIN db =>
              SnapRow(n) \in DOMAIN db' /\ db'[SnapRow(n)] = db[SnapRow(n)],
           ProcessesOf(writer'[w].del, n) = ProcessesOf(writer[w].del, n),
           ProcessesOf(writer'[w].ins, n) = ProcessesOf(writer[w].ins, n),
           SnapRow(n) \in DOMAIN writer[w].rows => ProcessesOf(processes', n) = ProcessesOf(processes, n),
           CensusStmts(writer'[w].stmts, n) = CensusStmts(writer[w].stmts, n)
    PROVE  CensusOk(w, n)'
<1>1. ASSUME CensusAwaits(w, n) PROVE CensusAwaits(w, n)'
  BY <1>1, Zenon DEF CensusAwaits
<1>2. ASSUME CensusDropped(w, n) PROVE CensusDropped(w, n)'
  BY <1>2, Zenon DEF CensusDropped
<1>3. ASSUME NEW r \in Records(writer[w].batch), CensusReplaces(w, n, r) PROVE CensusReplaces(w, n, r)'
  <2>1. \A op : Pending(w, n, op)' <=> Pending(w, n, op)
    BY Zenon DEF Pending
  <2>2. SnapRow(n) \in DOMAIN writer[w].rows
    BY <1>3, Zenon DEF CensusReplaces
  <2>3. /\ Pending(w, n, "delete")' <=> Pending(w, n, "delete")
        /\ Pending(w, n, "insert")' <=> Pending(w, n, "insert")
    BY <2>1, Zenon
  <2>4. ProcessesOf(writer'[w].del, n) = IF Pending(w, n, "delete")' THEN {} ELSE ProcessesOf(processes', n)
    BY <1>3, <2>2, <2>3, Zenon DEF CensusReplaces
  <2>5. ProcessesOf(writer'[w].ins, n) = IF Pending(w, n, "insert")' THEN {} ELSE ProcessRows(r)
    BY <1>3, <2>3, Zenon DEF CensusReplaces
  <2>6. /\ r.kind = "live_processes" /\ r.node = n
        /\ SnapRow(n) \in DOMAIN writer'[w].rows /\ writer'[w].rows[SnapRow(n)].ts = r.ts
        /\ \A s \in CensusStmts(Statements(writer'[w].batch), n) : s.rec = r
        /\ \A s \in CensusStmts(writer'[w].stmts, n) : s.rec = r /\ s.op # "snapshot"
    BY <1>3, <2>2, Zenon DEF CensusReplaces
  <2> QED BY <2>4, <2>5, <2>6, Zenon DEF CensusReplaces
<1> QED BY <1>1, <1>2, <1>3, Zenon DEF CensusOk

LEMMA CensusStmtsLess ==
    ASSUME NEW stmts, NEW s, NEW n, ~(s.loop = 5 /\ s.rec.node = n)
    PROVE  CensusStmts(stmts \ {s}, n) = CensusStmts(stmts, n)
BY DEF CensusStmts

LEMMA CensusStmtsStale ==
    ASSUME NEW stmts, NEW s, NEW n, s.loop = 5
    PROVE  /\ s.rec.node # n => CensusStmts(AfterStale(stmts, s), n) = CensusStmts(stmts, n)
           /\ s.rec.node = n => CensusStmts(AfterStale(stmts, s), n) = {}
BY DEF CensusStmts, AfterStale

\* The upsert of live_snapshots decides: a census older than the stored one is
\* dropped with its DELETE and INSERT, any other replaces it.
LEMMA CensusUpsert ==
    ASSUME WriterInv, RowInv, NEW w \in Writer, NEW s \in writer[w].stmts, ExecUpsert(w, s),
           NEW n, CensusOk(w, n)
    PROVE  CensusOk(w, n)'
<1> DEFINE b == writer[w].batch
           rows == writer[w].rows
           V == Over(rows, db)
           found == s.row \in DOMAIN V
           new == IF found THEN Updated(s.op, V[s.row], s.rec) ELSE Inserted(s.op, s.rec)
           stale == s.op = "snapshot" /\ found /\ SnapshotStale(V[s.row], s.rec)
<1>1. /\ Keeps(w) /\ writer[w].pc = "apply" /\ Good(b) /\ s \in Statements(b)
  BY RunDoes, Zenon DEF Runs
<1>2. /\ writer'[w].rows = IF found /\ DoNothing(s.op) THEN rows ELSE Over([x \in {s.row} |-> new], rows)
      /\ writer'[w].stmts = IF stale THEN AfterStale(writer[w].stmts, s) ELSE writer[w].stmts \ {s}
      /\ writer'[w].del = writer[w].del /\ writer'[w].ins = writer[w].ins
  BY UpsertDoes, Zenon DEF View
<1>3. writer'[w].batch = b
  BY <1>1 DEF Keeps, Fields
<1>4. db' = db /\ processes' = processes
  BY <1>1, Zenon DEF Keeps
<1>5. /\ s.op \notin {"delete", "insert"}
      /\ s.op \in {"snapshot", "delete", "insert"} <=> s.loop = 5
      /\ s.op = "snapshot" <=> s.row[1] = "live_snapshots"
      /\ s.op = "snapshot" => s.row = SnapRow(s.rec.node)
  BY <1>1, WhichLoop, Zenon DEF ExecUpsert
<1>6. CASE ~(s.loop = 5 /\ s.rec.node = n)
  <2>1. s.row # SnapRow(n)
    BY <1>5, <1>6, SnapRowIs
  <2> HIDE DEF new
  <2>2. /\ SnapRow(n) \in DOMAIN writer'[w].rows <=> SnapRow(n) \in DOMAIN rows
        /\ SnapRow(n) \in DOMAIN rows => writer'[w].rows[SnapRow(n)] = rows[SnapRow(n)]
    <3>1. CASE found /\ DoNothing(s.op)
      BY <1>2, <3>1, Zenon
    <3>2. CASE ~(found /\ DoNothing(s.op))
      <4>1. writer'[w].rows = Over([x \in {s.row} |-> new], rows)
        BY <1>2, <3>2, Zenon
      <4> QED BY <2>1, <4>1 DEF Over
    <3> QED BY <3>1, <3>2, Zenon
  <2>3. CensusStmts(writer'[w].stmts, n) = CensusStmts(writer[w].stmts, n)
    <3>1. CASE stale
      <4>1. s.loop = 5 /\ s.rec.node # n
        BY <1>5, <1>6, <3>1
      <4>2. writer'[w].stmts = AfterStale(writer[w].stmts, s)
        BY <1>2, <3>1, Zenon
      <4>3. CensusStmts(AfterStale(writer[w].stmts, s), n) = CensusStmts(writer[w].stmts, n)
        BY <4>1, CensusStmtsStale, Zenon
      <4> QED BY <4>2, <4>3, Zenon
    <3>2. CASE ~stale
      <4>1. writer'[w].stmts = writer[w].stmts \ {s}
        BY <1>2, <3>2, Zenon
      <4>2. CensusStmts(writer[w].stmts \ {s}, n) = CensusStmts(writer[w].stmts, n)
        BY <1>6, CensusStmtsLess, Zenon
      <4> QED BY <4>1, <4>2, Zenon
    <3> QED BY <3>1, <3>2, Zenon
  <2> QED BY <1>2, <1>3, <1>4, <2>2, <2>3, CensusKept, Zenon
<1>7. CASE s.loop = 5 /\ s.rec.node = n
  <2>1. s.op = "snapshot" /\ s.row = SnapRow(n) /\ s \in CensusStmts(writer[w].stmts, n)
    BY <1>5, <1>7 DEF CensusStmts
  <2>2. CensusAwaits(w, n)
    BY <2>1, Zenon DEF CensusOk, CensusDropped, CensusReplaces
  <2>3. /\ SnapRow(n) \notin DOMAIN rows
        /\ ProcessesOf(writer[w].del, n) = {} /\ ProcessesOf(writer[w].ins, n) = {}
        /\ CensusStmts(writer[w].stmts, n) = CensusStmts(Statements(b), n)
    BY <2>2, Zenon DEF CensusAwaits
  <2>4. /\ found <=> SnapRow(n) \in DOMAIN db
        /\ found => V[SnapRow(n)] = db[SnapRow(n)]
    <3>1. /\ DOMAIN V = DOMAIN rows \cup DOMAIN db
          /\ \A x \in DOMAIN db : x \notin DOMAIN rows => V[x] = db[x]
      BY OverIs, Zenon
    <3> HIDE DEF V, rows
    <3> QED BY <2>1, <2>3, <3>1
  <2> HIDE DEF V
  <2>5. writer'[w].rows = Over([x \in {SnapRow(n)} |-> new], rows)
    BY <1>2, <2>1 DEF DoNothing
  <2> HIDE DEF new
  <2>6. SnapRow(n) \in DOMAIN writer'[w].rows /\ writer'[w].rows[SnapRow(n)] = new
    BY <2>5 DEF Over
  <2>7. new = IF found THEN SnapshotUpsert(V[SnapRow(n)], s.rec) ELSE [ts |-> s.rec.ts]
    BY <2>1, UpdatedIs, InsertedIs, Zenon DEF new
  <2>8. CASE stale
    <3>1. new = db[SnapRow(n)] /\ SnapRow(n) \in DOMAIN db
      BY <2>1, <2>4, <2>7, <2>8, Zenon DEF SnapshotUpsert
    <3>2. CensusStmts(writer'[w].stmts, n) = {}
      <4>1. writer'[w].stmts = AfterStale(writer[w].stmts, s)
        BY <1>2, <2>8, Zenon
      <4>2. CensusStmts(AfterStale(writer[w].stmts, s), n) = {}
        BY <1>7, CensusStmtsStale, Zenon
      <4> QED BY <4>1, <4>2, Zenon
    <3>3. \A t \in CensusStmts(Statements(b), n) : SnapshotStale(new, t.rec)
      <4>1. SnapshotStale(new, s.rec)
        BY <2>1, <2>4, <2>8, <3>1, Zenon
      <4>2. \A t \in CensusStmts(Statements(b), n) : t.rec = s.rec
        BY <1>1, <1>7, SnapshotStatements DEF CensusStmts
      <4> QED BY <4>1, <4>2, Zenon
    <3>4. CensusDropped(w, n)'
      BY <1>2, <1>3, <1>4, <2>3, <2>6, <3>1, <3>2, <3>3, Zenon DEF CensusDropped
    <3> QED BY <3>4, Zenon DEF CensusOk
  <2>9. CASE ~stale
    <3>1. new = [ts |-> s.rec.ts]
      BY <2>1, <2>7, <2>9, Zenon DEF SnapshotUpsert
    <3>2. writer'[w].rows[SnapRow(n)].ts = s.rec.ts
      BY <2>6, <3>1
    <3>3. writer'[w].stmts = writer[w].stmts \ {s}
      BY <1>2, <2>9, Zenon
    <3>4. \A t \in CensusStmts(writer'[w].stmts, n) :
             t \in Statements(b) /\ t.loop = 5 /\ t.rec.node = n /\ t # s
      BY <2>3, <3>3, Zenon DEF CensusStmts
    <3>5. \A t \in CensusStmts(writer'[w].stmts, n) : t.rec = s.rec /\ t.op # "snapshot"
      BY <1>1, <1>7, <2>1, <3>4, SnapshotStatements
    <3>6. /\ s.rec \in Records(b) /\ s.rec.kind = "live_processes"
      BY <1>1, <1>7, CensusCalls, Zenon DEF CensusOps
    <3>7. ASSUME NEW op \in {"delete", "insert"} PROVE Pending(w, n, op)'
      <4>1. PICK t \in Statements(b) : t.loop = 5 /\ t.op = op /\ t.rec = s.rec
        <5>1. op \in CensusOps
          BY DEF CensusOps
        <5> QED BY <1>1, <1>7, <5>1, CensusCalls
      <4>2. t \in CensusStmts(Statements(b), n)
        BY <1>7, <4>1, Zenon DEF CensusStmts
      <4>3. t # s
        BY <2>1, <4>1
      <4>4. t \in CensusStmts(writer'[w].stmts, n)
        BY <2>3, <3>3, <4>2, <4>3, Zenon DEF CensusStmts
      <4> QED BY <4>1, <4>4, Zenon DEF Pending
    <3>8. Pending(w, n, "delete")' /\ Pending(w, n, "insert")'
      BY <3>7, Zenon
    <3>9. \A t \in CensusStmts(Statements(b), n) : t.rec = s.rec
      BY <1>1, <1>7, SnapshotStatements DEF CensusStmts
    <3>10. CensusReplaces(w, n, s.rec)'
      BY <1>2, <1>3, <1>7, <2>3, <2>6, <3>2, <3>5, <3>6, <3>8, <3>9, Zenon DEF CensusReplaces
    <3> QED BY <1>3, <3>6, <3>10, Zenon DEF CensusOk
  <2> QED BY <2>8, <2>9, Zenon
<1> QED BY <1>6, <1>7, Zenon

\* A census whose DELETE or INSERT is next replaces the stored one.
LEMMA CensusUnderWay ==
    ASSUME WriterInv, NEW w \in Writer, NEW s \in writer[w].stmts, IsNext(w, s), s.op \in {"delete", "insert"},
           Good(writer[w].batch), s \in Statements(writer[w].batch), CensusOk(w, s.rec.node)
    PROVE  /\ s.loop = 5 /\ s.rec \in Records(writer[w].batch)
           /\ s \in CensusStmts(writer[w].stmts, s.rec.node)
           /\ CensusReplaces(w, s.rec.node, s.rec)
<1> DEFINE b == writer[w].batch
           n == s.rec.node
<1>1. s.loop = 5
  BY WhichLoop, Zenon
<1>2. s \in CensusStmts(writer[w].stmts, n)
  BY <1>1, Zenon DEF CensusStmts
<1>3. s.rec \in Records(b)
  BY <1>1, CensusCalls, Zenon DEF CensusOps
<1>4. ~CensusAwaits(w, n)
  <2> SUFFICES ASSUME CensusAwaits(w, n) PROVE FALSE
    BY Zenon
  <2>1. PICK t \in Statements(b) : t.loop = 5 /\ t.op = "snapshot" /\ t.rec = s.rec
    <3>1. "snapshot" \in CensusOps
      BY DEF CensusOps
    <3> QED BY <1>1, <3>1, CensusCalls
  <2>2. t \in CensusStmts(Statements(b), n)
    BY <2>1, Zenon DEF CensusStmts
  <2>3. t \in writer[w].stmts /\ t # s
    <3>1. t # s
      BY <2>1
    <3> QED BY <2>2, <3>1, Zenon DEF CensusAwaits, CensusStmts
  <2>4. Before(s, t)
    BY <2>3, Zenon DEF IsNext
  <2>5. s.op # "snapshot"
    OBVIOUS
  <2>6. ~Before(s, t)
    BY <1>1, <2>1, <2>5, SnapshotStatements
  <2> QED BY <2>4, <2>6, Zenon
<1>5. ~CensusDropped(w, n)
  BY <1>2, Zenon DEF CensusDropped
<1>6. PICK r \in Records(b) : CensusReplaces(w, n, r)
  BY <1>4, <1>5, Zenon DEF CensusOk
<1>7. r = s.rec
  BY <1>2, <1>6, Zenon DEF CensusReplaces
<1> QED BY <1>1, <1>2, <1>3, <1>6, <1>7, Zenon

LEMMA ProcessesOfRecord ==
    ASSUME NEW r, NEW n
    PROVE  ProcessesOf(ProcessRows(r), n) = IF r.node = n THEN ProcessRows(r) ELSE {}
BY DEF ProcessesOf, ProcessRows

LEMMA CensusDelete ==
    ASSUME WriterInv, NEW w \in Writer, NEW s \in writer[w].stmts, ExecDelete(w, s), NEW n,
           CensusOk(w, n)
    PROVE  CensusOk(w, n)'
<1> DEFINE b == writer[w].batch
           here == {p \in processes : p.node = s.rec.node}
<1>1. /\ Keeps(w) /\ Good(b) /\ s \in Statements(b)
  BY RunDoes, Zenon DEF Runs
<1>2. /\ writer'[w].rows = writer[w].rows /\ writer'[w].stmts = writer[w].stmts \ {s}
      /\ writer'[w].del = writer[w].del \cup here /\ writer'[w].ins = writer[w].ins
  BY DeleteDoes, Zenon
<1>3. writer'[w].batch = b
  BY <1>1 DEF Keeps, Fields
<1>4. db' = db /\ processes' = processes
  BY <1>1, Zenon DEF Keeps
<1>5. ProcessesOf(writer'[w].del, n) = ProcessesOf(writer[w].del, n)
                                       \cup IF s.rec.node = n THEN ProcessesOf(processes, n) ELSE {}
  <2>1. ProcessesOf(writer[w].del \cup here, n) = ProcessesOf(writer[w].del, n) \cup ProcessesOf(here, n)
    BY DEF ProcessesOf
  <2>2. ProcessesOf(here, n) = IF s.rec.node = n THEN ProcessesOf(processes, n) ELSE {}
    BY DEF ProcessesOf
  <2> HIDE DEF here
  <2> QED BY <1>2, <2>1, <2>2, Zenon
<1>6. CASE s.rec.node # n
  <2>1. ProcessesOf(writer'[w].del, n) = ProcessesOf(writer[w].del, n)
    BY <1>5, <1>6
  <2>2. CensusStmts(writer[w].stmts \ {s}, n) = CensusStmts(writer[w].stmts, n)
    BY <1>6, CensusStmtsLess, Zenon
  <2> QED BY <1>2, <1>3, <1>4, <2>1, <2>2, CensusKept, Zenon
<1>7. CASE s.rec.node = n
  <2>1. IsNext(w, s) /\ s.op = "delete"
    BY Zenon DEF ExecDelete
  <2>2. /\ s.loop = 5 /\ s.rec \in Records(b) /\ s \in CensusStmts(writer[w].stmts, n)
        /\ CensusReplaces(w, n, s.rec)
    <3>1. s.op \in {"delete", "insert"}
      BY <2>1
    <3> QED BY <1>1, <1>7, <2>1, <3>1, CensusUnderWay, Zenon
  <2>3. CensusStmts(writer'[w].stmts, n) = CensusStmts(writer[w].stmts, n) \ {s}
    BY <1>2 DEF CensusStmts
  <2>4. Pending(w, n, "delete")
    BY <2>1, <2>2, Zenon DEF Pending
  <2>5. ~Pending(w, n, "delete")'
    <3> SUFFICES ASSUME NEW t \in CensusStmts(writer'[w].stmts, n), t.op = "delete" PROVE FALSE
      BY Zenon DEF Pending
    <3>1. t \in writer[w].stmts /\ t.loop = 5 /\ t.rec.node = n /\ t # s
      BY <2>3, Zenon DEF CensusStmts
    <3>2. t \in Statements(b)
      BY <3>1, Zenon DEF WriterInv
    <3> QED BY <1>1, <1>7, <2>1, <2>2, <3>1, <3>2, SnapshotStatements
  <2>6. Pending(w, n, "insert")' <=> Pending(w, n, "insert")
    <3>1. \A t \in CensusStmts(writer[w].stmts, n) : t.op = "insert" => t # s
      BY <2>1
    <3> QED BY <2>3, <3>1, Zenon DEF Pending
  <2>7. ProcessesOf(writer[w].del, n) = {} /\ ProcessesOf(writer'[w].del, n) = ProcessesOf(processes, n)
    <3>1. ProcessesOf(writer[w].del, n) = {}
      BY <2>2, <2>4, Zenon DEF CensusReplaces
    <3> QED BY <1>5, <1>7, <3>1
  <2>8. /\ s.rec.kind = "live_processes" /\ s.rec.node = n
        /\ SnapRow(n) \in DOMAIN writer[w].rows /\ writer[w].rows[SnapRow(n)].ts = s.rec.ts
        /\ \A t \in CensusStmts(Statements(b), n) : t.rec = s.rec
        /\ \A t \in CensusStmts(writer[w].stmts, n) : t.rec = s.rec /\ t.op # "snapshot"
        /\ ProcessesOf(writer[w].ins, n) = IF Pending(w, n, "insert") THEN {} ELSE ProcessRows(s.rec)
    BY <2>2, Zenon DEF CensusReplaces
  <2>9. \A t \in CensusStmts(writer'[w].stmts, n) : t.rec = s.rec /\ t.op # "snapshot"
    BY <2>3, <2>8, Zenon
  <2>10. ProcessesOf(writer'[w].ins, n) = IF Pending(w, n, "insert")' THEN {} ELSE ProcessRows(s.rec)
    BY <1>2, <2>6, <2>8, Zenon
  <2>11. ProcessesOf(writer'[w].del, n)
            = IF Pending(w, n, "delete")' THEN {} ELSE ProcessesOf(processes', n)
    BY <1>4, <2>5, <2>7, Zenon
  <2>12. SnapRow(n) \in DOMAIN writer'[w].rows /\ writer'[w].rows[SnapRow(n)].ts = s.rec.ts
    BY <1>2, <2>8, Zenon
  <2>13. CensusReplaces(w, n, s.rec)'
    BY <1>3, <2>8, <2>9, <2>10, <2>11, <2>12, Zenon DEF CensusReplaces
  <2> QED BY <1>3, <2>2, <2>13, Zenon DEF CensusOk
<1> QED BY <1>6, <1>7, Zenon

LEMMA CensusInsert ==
    ASSUME WriterInv, NEW w \in Writer, NEW s \in writer[w].stmts, ExecInsert(w, s), NEW n,
           CensusOk(w, n)
    PROVE  CensusOk(w, n)'
<1> DEFINE b == writer[w].batch
<1>1. /\ Keeps(w) /\ Good(b) /\ s \in Statements(b)
  BY RunDoes, Zenon DEF Runs
<1>2. /\ writer'[w].rows = writer[w].rows /\ writer'[w].stmts = writer[w].stmts \ {s}
      /\ writer'[w].del = writer[w].del /\ writer'[w].ins = writer[w].ins \cup ProcessRows(s.rec)
  BY InsertDoes, Zenon
<1>3. writer'[w].batch = b
  BY <1>1 DEF Keeps, Fields
<1>4. db' = db /\ processes' = processes
  BY <1>1, Zenon DEF Keeps
<1>5. ProcessesOf(writer'[w].ins, n) = ProcessesOf(writer[w].ins, n)
                                       \cup IF s.rec.node = n THEN ProcessRows(s.rec) ELSE {}
  <2>1. ProcessesOf(writer[w].ins \cup ProcessRows(s.rec), n)
           = ProcessesOf(writer[w].ins, n) \cup ProcessesOf(ProcessRows(s.rec), n)
    BY DEF ProcessesOf
  <2>2. ProcessesOf(ProcessRows(s.rec), n) = IF s.rec.node = n THEN ProcessRows(s.rec) ELSE {}
    BY ProcessesOfRecord, Zenon
  <2> QED BY <1>2, <2>1, <2>2
<1>6. CASE s.rec.node # n
  <2>1. ProcessesOf(writer'[w].ins, n) = ProcessesOf(writer[w].ins, n)
    BY <1>5, <1>6
  <2>2. CensusStmts(writer[w].stmts \ {s}, n) = CensusStmts(writer[w].stmts, n)
    BY <1>6, CensusStmtsLess, Zenon
  <2> QED BY <1>2, <1>3, <1>4, <2>1, <2>2, CensusKept, Zenon
<1>7. CASE s.rec.node = n
  <2>1. IsNext(w, s) /\ s.op = "insert"
    BY Zenon DEF ExecInsert
  <2>2. /\ s.loop = 5 /\ s.rec \in Records(b) /\ s \in CensusStmts(writer[w].stmts, n)
        /\ CensusReplaces(w, n, s.rec)
    <3>1. s.op \in {"delete", "insert"}
      BY <2>1
    <3> QED BY <1>1, <1>7, <2>1, <3>1, CensusUnderWay, Zenon
  <2>3. CensusStmts(writer'[w].stmts, n) = CensusStmts(writer[w].stmts, n) \ {s}
    BY <1>2 DEF CensusStmts
  <2>4. Pending(w, n, "insert")
    BY <2>1, <2>2, Zenon DEF Pending
  <2>5. ~Pending(w, n, "insert")'
    <3> SUFFICES ASSUME NEW t \in CensusStmts(writer'[w].stmts, n), t.op = "insert" PROVE FALSE
      BY Zenon DEF Pending
    <3>1. t \in writer[w].stmts /\ t.loop = 5 /\ t.rec.node = n /\ t # s
      BY <2>3, Zenon DEF CensusStmts
    <3>2. t \in Statements(b)
      BY <3>1, Zenon DEF WriterInv
    <3> QED BY <1>1, <1>7, <2>1, <2>2, <3>1, <3>2, SnapshotStatements
  <2>6. Pending(w, n, "delete")' <=> Pending(w, n, "delete")
    <3>1. \A t \in CensusStmts(writer[w].stmts, n) : t.op = "delete" => t # s
      BY <2>1
    <3> QED BY <2>3, <3>1, Zenon DEF Pending
  <2>7. ProcessesOf(writer[w].ins, n) = {} /\ ProcessesOf(writer'[w].ins, n) = ProcessRows(s.rec)
    <3>1. ProcessesOf(writer[w].ins, n) = {}
      BY <2>2, <2>4, Zenon DEF CensusReplaces
    <3> QED BY <1>5, <1>7, <3>1
  <2>8. /\ s.rec.kind = "live_processes" /\ s.rec.node = n
        /\ SnapRow(n) \in DOMAIN writer[w].rows /\ writer[w].rows[SnapRow(n)].ts = s.rec.ts
        /\ \A t \in CensusStmts(Statements(b), n) : t.rec = s.rec
        /\ \A t \in CensusStmts(writer[w].stmts, n) : t.rec = s.rec /\ t.op # "snapshot"
        /\ ProcessesOf(writer[w].del, n) = IF Pending(w, n, "delete") THEN {} ELSE ProcessesOf(processes, n)
    BY <2>2, Zenon DEF CensusReplaces
  <2>9. \A t \in CensusStmts(writer'[w].stmts, n) : t.rec = s.rec /\ t.op # "snapshot"
    BY <2>3, <2>8, Zenon
  <2>10. ProcessesOf(writer'[w].del, n)
            = IF Pending(w, n, "delete")' THEN {} ELSE ProcessesOf(processes', n)
    BY <1>2, <1>4, <2>6, <2>8, Zenon
  <2>11. ProcessesOf(writer'[w].ins, n) = IF Pending(w, n, "insert")' THEN {} ELSE ProcessRows(s.rec)
    BY <2>5, <2>7, Zenon
  <2>12. SnapRow(n) \in DOMAIN writer'[w].rows /\ writer'[w].rows[SnapRow(n)].ts = s.rec.ts
    BY <1>2, <2>8, Zenon
  <2>13. CensusReplaces(w, n, s.rec)'
    BY <1>3, <2>8, <2>9, <2>10, <2>11, <2>12, Zenon DEF CensusReplaces
  <2> QED BY <1>3, <2>2, <2>13, Zenon DEF CensusOk
<1> QED BY <1>6, <1>7, Zenon

\* Steps that leave the tables and what was written as they are: it is enough
\* to look at the writer that moved.
LEMMA SnapshotKept ==
    ASSUME SnapshotInv, NEW w \in Writer, Others(w), db' = db, processes' = processes, applied' = applied,
           writer'[w].pc = "apply" => \A n : CensusOk(w, n)'
    PROVE  SnapshotInv'
<1>1. SnapshotWhole'
  BY Zenon DEF SnapshotInv, SnapshotWhole, Of, Written
<1>2. ASSUME NEW v \in Writer, NEW n, writer'[v].pc = "apply" PROVE CensusOk(v, n)'
  <2>1. CASE v = w
    BY <1>2, <2>1, Zenon
  <2>2. CASE v # w
    <3>1. writer'[v] = writer[v]
      BY <2>2, Zenon DEF Others
    <3>2. CensusOk(v, n)
      BY <1>2, <3>1, Zenon DEF SnapshotInv
    <3> QED BY <3>1, <3>2, CensusKept, Zenon
  <2> QED BY <2>1, <2>2, Zenon
<1> QED BY <1>1, <1>2, Zenon DEF SnapshotInv

LEMMA SnapshotRun ==
    ASSUME WriterInv, RowInv, SnapshotInv, NEW w \in Writer, NEW s \in writer[w].stmts, Runs(w, s)
    PROVE  SnapshotInv'
<1>1. /\ Others(w) /\ db' = db /\ processes' = processes /\ applied' = applied /\ writer[w].pc = "apply"
  BY RunDoes, Zenon DEF Keeps
<1>2. ASSUME NEW n PROVE CensusOk(w, n)'
  <2>1. CensusOk(w, n)
    BY <1>1, Zenon DEF SnapshotInv
  <2> QED BY <2>1, CensusUpsert, CensusDelete, CensusInsert, Zenon DEF Runs
<1> QED BY <1>1, <1>2, SnapshotKept, Zenon

LEMMA SnapshotRestart ==
    ASSUME SnapshotInv, NEW w \in Writer, Restarts(w)
    PROVE  SnapshotInv'
<1>1. /\ Others(w) /\ db' = db /\ processes' = processes /\ applied' = applied
      /\ writer'[w].rows = NoRows /\ writer'[w].del = {} /\ writer'[w].ins = {}
  BY Zenon DEF Restarts, Starts
<1>2. writer'[w].pc = "apply" => writer'[w].stmts = Statements(writer'[w].batch)
  <2>1. ASSUME Starts(w, "idle", <<>>, {}, {}, FALSE) PROVE writer'[w].pc # "apply"
    BY <2>1 DEF Starts
  <2>2. ASSUME NEW b, NEW created, Starts(w, "apply", b, Statements(b), {}, created)
        PROVE  writer'[w].stmts = Statements(writer'[w].batch)
    BY <2>2, Zenon DEF Starts
  <2>3. ASSUME NEW b, Starts(w, "create", b, {}, Months(b), FALSE) PROVE writer'[w].pc # "apply"
    BY <2>3 DEF Starts
  <2> QED BY <2>1, <2>2, <2>3, Zenon DEF Restarts
<1>3. DOMAIN writer'[w].rows = {}
  BY <1>1, NoRowsIs, Zenon
<1>4. ASSUME NEW n, writer'[w].pc = "apply" PROVE CensusOk(w, n)'
  <2>1. SnapRow(n) \notin DOMAIN writer'[w].rows
    BY <1>3
  <2>2. ProcessesOf(writer'[w].del, n) = {} /\ ProcessesOf(writer'[w].ins, n) = {}
    BY <1>1 DEF ProcessesOf
  <2>3. CensusStmts(writer'[w].stmts, n) = CensusStmts(Statements(writer'[w].batch), n)
    BY <1>2, <1>4, Zenon
  <2>4. CensusAwaits(w, n)'
    BY <2>1, <2>2, <2>3, Zenon DEF CensusAwaits
  <2> QED BY <2>4, Zenon DEF CensusOk
<1> QED BY <1>1, <1>4, SnapshotKept, Zenon

LEMMA SnapshotEnsure ==
    ASSUME WriterInv, SnapshotInv, NEW w \in Writer, NEW p \in writer[w].todo, Ensures(w, p)
    PROVE  SnapshotInv'
<1>1. /\ Others(w) /\ db' = db /\ processes' = processes /\ applied' = applied
      /\ \A f \in Fields \ {"todo", "locks", "made"} : writer'[w][f] = writer[w][f]
  BY EnsureDoes, Zenon
<1>2. writer[w].pc = "create"
  BY Zenon DEF Ensures, EnsurePartition, CreateTable
<1>3. writer'[w].pc # "apply"
  BY <1>1, <1>2 DEF Fields
<1> QED BY <1>1, <1>3, SnapshotKept, Zenon

\* What a commit does to the snapshot and the processes of a node: nothing,
\* when it brought no census or an older one; or it replaces the census by r.
CensusStays(n) ==
    /\ SnapRow(n) \in DOMAIN db' <=> SnapRow(n) \in DOMAIN db
    /\ SnapRow(n) \in DOMAIN db => db'[SnapRow(n)] = db[SnapRow(n)]
    /\ ProcessesOf(processes', n) = ProcessesOf(processes, n)
CensusBecomes(w, n, r) ==
    /\ SnapRow(n) \in DOMAIN writer[w].rows /\ SnapRow(n) \in DOMAIN db'
    /\ r.kind = "live_processes" /\ r.node = n /\ r.ts = db'[SnapRow(n)].ts
    /\ ProcessesOf(processes', n) = ProcessRows(r)
    /\ \A s \in CensusStmts(Statements(writer[w].batch), n) : s.rec = r

LEMMA CommitCensus ==
    ASSUME WriterInv, RowInv, SnapshotInv, NEW w \in Writer, Commit(w), NEW n
    PROVE  CensusStays(n) \/ \E r \in Records(writer[w].batch) : CensusBecomes(w, n, r)
<1> DEFINE row == SnapRow(n)
           rows == writer[w].rows
           del == writer[w].del
           ins == writer[w].ins
<1>1. /\ writer[w].pc = "apply" /\ writer[w].stmts = {} /\ db' = Over(rows, db)
      /\ processes' = (processes \ del) \cup ins
  BY CommitDoes, Zenon DEF View
<1>2. CensusOk(w, n)
  BY <1>1, Zenon DEF SnapshotInv
<1>3. /\ DOMAIN db' = DOMAIN rows \cup DOMAIN db
      /\ \A x \in DOMAIN rows : db'[x] = rows[x]
      /\ \A x \in DOMAIN db : x \notin DOMAIN rows => db'[x] = db[x]
  <2>1. /\ DOMAIN Over(rows, db) = DOMAIN rows \cup DOMAIN db
        /\ \A x \in DOMAIN rows : Over(rows, db)[x] = rows[x]
        /\ \A x \in DOMAIN db : x \notin DOMAIN rows => Over(rows, db)[x] = db[x]
    BY OverIs, Zenon
  <2> QED BY <1>1, <2>1, Zenon
<1>4. ProcessesOf(processes', n) = (ProcessesOf(processes, n) \ ProcessesOf(del, n)) \cup ProcessesOf(ins, n)
  BY <1>1 DEF ProcessesOf
<1>5. CASE CensusAwaits(w, n)
  <2>1. row \notin DOMAIN rows /\ ProcessesOf(del, n) = {} /\ ProcessesOf(ins, n) = {}
    BY <1>5, Zenon DEF CensusAwaits
  <2> QED BY <1>3, <1>4, <2>1 DEF CensusStays
<1>6. CASE CensusDropped(w, n)
  <2>1. /\ row \in DOMAIN rows /\ row \in DOMAIN db /\ rows[row] = db[row]
        /\ ProcessesOf(del, n) = {} /\ ProcessesOf(ins, n) = {}
    BY <1>6, Zenon DEF CensusDropped
  <2> QED BY <1>3, <1>4, <2>1 DEF CensusStays
<1>7. ASSUME NEW r \in Records(writer[w].batch), CensusReplaces(w, n, r)
      PROVE  CensusBecomes(w, n, r)
  <2>1. ~Pending(w, n, "delete") /\ ~Pending(w, n, "insert")
    BY <1>1 DEF Pending, CensusStmts
  <2>2. /\ r.kind = "live_processes" /\ r.node = n /\ row \in DOMAIN rows /\ rows[row].ts = r.ts
        /\ ProcessesOf(del, n) = ProcessesOf(processes, n) /\ ProcessesOf(ins, n) = ProcessRows(r)
        /\ \A s \in CensusStmts(Statements(writer[w].batch), n) : s.rec = r
    BY <1>7, <2>1, Zenon DEF CensusReplaces
  <2>3. row \in DOMAIN db' /\ r.ts = db'[row].ts
    BY <1>3, <2>2
  <2>4. ProcessesOf(processes', n) = ProcessRows(r)
    BY <1>4, <2>2
  <2> QED BY <2>2, <2>3, <2>4, Zenon DEF CensusBecomes
<1> QED BY <1>2, <1>5, <1>6, <1>7, Zenon DEF CensusOk

LEMMA SnapshotCommit ==
    ASSUME WriterInv, RowInv, SnapshotInv, NEW w \in Writer, Commit(w)
    PROVE  SnapshotInv'
<1>1. Starts(w, "idle", <<>>, {}, {}, FALSE)
  BY CommitDoes, Zenon
<1>2. writer'[w].pc # "apply" /\ \A v \in Writer \ {w} : writer'[v] = writer[v]
  BY <1>1 DEF Starts, Others
<1>3. Written' = Written \cup Records(writer[w].batch)
  BY CommitRows, Zenon
<1> DEFINE Whole(n, D, P, R) ==
              IF SnapRow(n) \notin DOMAIN D THEN ProcessesOf(P, n) = {}
              ELSE \E r \in R : /\ r.kind = "live_processes" /\ r.node = n /\ r.ts = D[SnapRow(n)].ts
                                /\ ProcessesOf(P, n) = ProcessRows(r)
<1>4. ASSUME NEW n \in Node PROVE Whole(n, db, processes, Written)
  <2>1. IF SnapRow(n) \notin DOMAIN db THEN ProcessesOf(processes, n) = {}
        ELSE \E r \in Of("live_processes") :
                r.node = n /\ r.ts = db[SnapRow(n)].ts /\ ProcessesOf(processes, n) = ProcessRows(r)
    BY Zenon DEF SnapshotInv, SnapshotWhole, SnapRow, ProcessesOf
  <2>2. \A r \in Of("live_processes") : r \in Written /\ r.kind = "live_processes"
    BY DEF Of
  <2> QED BY <2>1, <2>2, Zenon
<1>5. ASSUME NEW n \in Node PROVE Whole(n, db', processes', Written')
  <2> DEFINE row == SnapRow(n)
  <2>1. CensusStays(n) \/ \E r \in Records(writer[w].batch) : CensusBecomes(w, n, r)
    BY CommitCensus, Zenon
  <2>2. CASE CensusStays(n)
    <3>1. CASE row \notin DOMAIN db
      BY <1>4, <2>2, <3>1, Zenon DEF CensusStays
    <3>2. CASE row \in DOMAIN db
      <4>1. PICK r \in Written : /\ r.kind = "live_processes" /\ r.node = n /\ r.ts = db[row].ts
                                 /\ ProcessesOf(processes, n) = ProcessRows(r)
        BY <1>4, <3>2, Zenon
      <4>2. r \in Written'
        BY <1>3, <4>1
      <4> QED BY <2>2, <3>2, <4>1, <4>2, Zenon DEF CensusStays
    <3> QED BY <3>1, <3>2, Zenon
  <2>3. ASSUME NEW r \in Records(writer[w].batch), CensusBecomes(w, n, r)
        PROVE  Whole(n, db', processes', Written')
    <3>1. r \in Written'
      BY <1>3, <2>3
    <3> QED BY <2>3, <3>1, Zenon DEF CensusBecomes
  <2> QED BY <2>1, <2>2, <2>3, Zenon
<1>6. SnapshotWhole'
  <2>1. \A r \in Written' : r.kind = "live_processes" => r \in Of("live_processes")'
    BY DEF Of
  <2> SUFFICES ASSUME NEW n \in Node
               PROVE  IF SnapRow(n) \notin DOMAIN db' THEN ProcessesOf(processes', n) = {}
                      ELSE \E r \in Of("live_processes")' :
                              /\ r.node = n /\ r.ts = db'[SnapRow(n)].ts
                              /\ ProcessesOf(processes', n) = ProcessRows(r)
    BY Zenon DEF SnapshotWhole, SnapRow, ProcessesOf
  <2> QED BY <1>5, <2>1, Zenon
<1>7. ASSUME NEW v \in Writer, NEW n, writer'[v].pc = "apply" PROVE CensusOk(v, n)'
  <2>1. v # w
    BY <1>2, <1>7, Zenon
  <2>2. writer'[v] = writer[v]
    BY <1>2, <2>1, Zenon
  <2>3. CensusOk(v, n)
    BY <1>7, <2>2, Zenon DEF SnapshotInv
  <2> DEFINE row == SnapRow(n)
  <2>4. row \in DOMAIN writer[v].rows => row \notin DOMAIN writer[w].rows
    <3>1. DOMAIN writer[w].rows \cap DOMAIN writer[v].rows = {}
      BY <2>1, Zenon DEF RowInv
    <3> QED BY <3>1
  <2>5. row \in DOMAIN writer[v].rows =>
          /\ row \in DOMAIN db => row \in DOMAIN db' /\ db'[row] = db[row]
          /\ ProcessesOf(processes', n) = ProcessesOf(processes, n)
    BY <2>4, CommitCensus, Zenon DEF CensusStays, CensusBecomes
  <2> QED BY <2>2, <2>3, <2>5, CensusKept, Zenon
<1> QED BY <1>6, <1>7, Zenon DEF SnapshotInv

LEMMA SnapshotInit == ASSUME Init PROVE SnapshotInv
<1>1. Idle.pc = "idle"
  BY DEF Idle
<1>2. \A w \in Writer : writer[w].pc # "apply"
  BY <1>1 DEF Init
<1>3. DOMAIN db = {} /\ processes = {}
  BY NoRowsIs DEF Init
<1>4. SnapshotWhole
  BY <1>3 DEF SnapshotWhole
<1> QED BY <1>2, <1>4, Zenon DEF SnapshotInv

LEMMA SnapshotStep ==
    ASSUME WriterInv, RowInv, SnapshotInv, [Next]_vars
    PROVE  SnapshotInv'
<1>1. CASE UNCHANGED vars
  <2>1. UNCHANGED <<db, processes, applied, writer>>
    BY <1>1, Zenon DEF vars
  <2>2. SnapshotWhole'
    BY <2>1, Zenon DEF SnapshotInv, SnapshotWhole, Of, Written
  <2>3. ASSUME NEW w \in Writer, NEW n, writer'[w].pc = "apply" PROVE CensusOk(w, n)'
    <3>1. CensusOk(w, n)
      BY <2>1, <2>3, Zenon DEF SnapshotInv
    <3> QED BY <2>1, <3>1, CensusKept, Zenon
  <2> QED BY <2>2, <2>3, Zenon DEF SnapshotInv
<1>2. ASSUME NEW w \in Writer, NEW s \in writer[w].stmts, Runs(w, s) PROVE SnapshotInv'
  BY <1>2, SnapshotRun, Zenon
<1>3. ASSUME NEW w \in Writer, NEW p \in writer[w].todo, Ensures(w, p) PROVE SnapshotInv'
  BY <1>3, SnapshotEnsure, Zenon
<1>4. ASSUME NEW w \in Writer, Restarts(w) PROVE SnapshotInv'
  BY <1>4, SnapshotRestart, Zenon
<1>5. ASSUME NEW w \in Writer, Commit(w) PROVE SnapshotInv'
  BY <1>5, SnapshotCommit, Zenon
<1> QED BY <1>1, <1>2, <1>3, <1>4, <1>5, StepKinds, Zenon

\* _write_snapshot: whatever the writers interleave, retry or roll back, the
\* live_processes rows of a node are all and only those of one census, the one
\* whose time its live_snapshots row bears: the DELETE and the INSERTs take
\* effect with the row that announces them, or not at all.
THEOREM CensusesWhole == Spec => []SnapshotWhole
<1>1. Init => WriterInv /\ RowInv /\ SnapshotInv
  BY WriterInit, RowInit, SnapshotInit
<1>2. WriterInv /\ RowInv /\ SnapshotInv /\ [Next]_vars => WriterInv' /\ RowInv' /\ SnapshotInv'
  BY WriterStep, RowStep, SnapshotStep
<1>3. SnapshotInv => SnapshotWhole
  BY DEF SnapshotInv
<1> QED BY <1>1, <1>2, <1>3, PTL DEF Spec
-----------------------------------------------------------------------------
(***************************************************************************)
(* Levels and columns.  A row has a level (the samples of a summary, the   *)
(* time of any other) and columns; an upsert sets the columns its record   *)
(* has, if its level is not below the row's.                               *)
(***************************************************************************)
Kept(b) == {s \in Upserts(b) : ~DoNothing(s.op)}

Level(row, v) ==
    CASE row[1] = "summary" -> v.count
      [] row[1] = "nodes" -> v.last_seen
      [] row[1] = "live_nodes" -> v.updated_at
      [] row[1] = "live_snapshots" -> v.ts
RecordLevel(row, r) == IF row[1] = "summary" THEN r.count ELSE r.ts

Columns(row, v) ==
    CASE row[1] = "summary" -> [c \in {"ts"} |-> v.ts]
      [] row[1] = "nodes" -> [c \in {"label", "boot_id"} |-> v[c]]
      [] row[1] = "live_nodes" -> v.cols
      [] row[1] = "live_snapshots" -> NoRows
RecordColumns(row, r) ==
    CASE row[1] = "summary" -> [c \in {"ts"} |-> r.ts]
      [] row[1] = "nodes" -> [c \in {x \in {"label", "boot_id"} : Col(r, x) # None} |-> Col(r, c)]
      [] row[1] = "live_nodes" -> r.cols
      [] row[1] = "live_snapshots" -> NoRows

\* A value of the row's table: two with the same level and columns (and the
\* same first_seen) are equal.
Shaped(row, v) ==
    /\ row[1] = "summary" => v = [count |-> v.count, ts |-> v.ts]
    /\ row[1] = "nodes" => v = [label |-> v.label, boot_id |-> v.boot_id,
                                first_seen |-> v.first_seen, last_seen |-> v.last_seen]
    /\ row[1] = "live_nodes" => /\ v = [updated_at |-> v.updated_at, cols |-> v.cols]
                                /\ v.cols = [c \in DOMAIN v.cols |-> v.cols[c]]
    /\ row[1] = "live_snapshots" => v = [ts |-> v.ts]

\* Of two upserts of the same row and level, t comes later and sets c as well.
Overrides(t, s, c) ==
    /\ t.row = s.row /\ RecordLevel(t.row, t.rec) = RecordLevel(s.row, s.rec)
    /\ Before(s, t) /\ c \in DOMAIN RecordColumns(t.row, t.rec)

\* The row shows the upserts of E that are at its level, the last of them.
Shows(E, row, v) ==
    \A s \in E : s.row = row /\ RecordLevel(row, s.rec) = Level(row, v) =>
        \A c \in DOMAIN RecordColumns(row, s.rec) :
            /\ c \in DOMAIN Columns(row, v)
            /\ \/ \E t \in E : Overrides(t, s, c)
               \/ Columns(row, v)[c] = RecordColumns(row, s.rec)[c]

\* v differs from the stored value d only in columns that S has yet to set.
Alike(S, row, v, d) ==
    /\ Level(row, v) = Level(row, d) /\ DOMAIN Columns(row, v) = DOMAIN Columns(row, d)
    /\ row[1] = "nodes" => v.first_seen = d.first_seen
    /\ \A c \in DOMAIN Columns(row, d) :
          \/ Columns(row, v)[c] = Columns(row, d)[c]
          \/ \E s \in S : /\ s.row = row /\ RecordLevel(row, s.rec) = Level(row, d)
                          /\ c \in DOMAIN RecordColumns(row, s.rec)

LEMMA SummaryLevel ==
    ASSUME NEW row, row[1] = "summary", NEW v, NEW r
    PROVE  /\ Level(row, v) = v.count /\ RecordLevel(row, r) = r.count
           /\ DOMAIN Columns(row, v) = {"ts"} /\ Columns(row, v)["ts"] = v.ts
           /\ DOMAIN RecordColumns(row, r) = {"ts"} /\ RecordColumns(row, r)["ts"] = r.ts
BY DEF Level, RecordLevel, Columns, RecordColumns

LEMMA NodeLevel ==
    ASSUME NEW row, row[1] = "nodes", NEW v, NEW r
    PROVE  /\ Level(row, v) = v.last_seen /\ RecordLevel(row, r) = r.ts
           /\ DOMAIN Columns(row, v) = {"label", "boot_id"}
           /\ \A c \in {"label", "boot_id"} : Columns(row, v)[c] = v[c]
           /\ \A c : c \in DOMAIN RecordColumns(row, r) <=> c \in {"label", "boot_id"} /\ Col(r, c) # None
           /\ \A c \in DOMAIN RecordColumns(row, r) : RecordColumns(row, r)[c] = Col(r, c)
BY DEF Level, RecordLevel, Columns, RecordColumns

LEMMA LiveLevel ==
    ASSUME NEW row, row[1] = "live_nodes", NEW v, NEW r
    PROVE  /\ Level(row, v) = v.updated_at /\ RecordLevel(row, r) = r.ts
           /\ Columns(row, v) = v.cols /\ RecordColumns(row, r) = r.cols
BY DEF Level, RecordLevel, Columns, RecordColumns

LEMMA SnapshotLevel ==
    ASSUME NEW row, row[1] = "live_snapshots", NEW v, NEW r
    PROVE  /\ Level(row, v) = v.ts /\ RecordLevel(row, r) = r.ts
           /\ DOMAIN Columns(row, v) = {} /\ DOMAIN RecordColumns(row, r) = {}
BY DEF Level, RecordLevel, Columns, RecordColumns, NoRows

LEMMA RecordCols ==
    ASSUME NEW r \in AllRecords, HasColumns(r)
    PROVE  r.cols = [c \in DOMAIN r.cols |-> r.cols[c]]
<1>1. PICK b : Good(b) /\ \E i \in Plan(b) : r = b[i]
  BY AnyRecord, Zenon
<1>2. PICK i \in Plan(b) : r = b[i]
  BY <1>1, Zenon
<1>3. b \in Batches /\ ~Malformed(b) /\ i \in DOMAIN b
  BY <1>1, Zenon DEF Good, Plan
<1>4. r.cols \in [DOMAIN r.cols -> Nat \cup {None}]
  BY <1>2, <1>3, BatchAssumption, Zenon
<1> QED BY <1>4

LEMMA KeptIs ==
    ASSUME NEW b, Good(b), NEW s \in Kept(b)
    PROVE  /\ s.rec \in AllRecords /\ s.rec.ts \in Nat /\ s \in Upserts(b) /\ s.rec \in Records(b)
           /\ \/ /\ s.op = "summary" /\ s.rec.kind = "summary" /\ s.row = <<"summary", s.rec.key>>
                 /\ s.row[1] = "summary" /\ s.rec.count \in Nat
              \/ s.op = "node" /\ HasColumns(s.rec) /\ s.row = <<"nodes", s.rec.node>> /\ s.row[1] = "nodes"
              \/ /\ s.op = "live_node" /\ s.rec.kind = "live_node" /\ s.row = <<"live_nodes", s.rec.node>>
                 /\ s.row[1] = "live_nodes" /\ HasColumns(s.rec)
              \/ /\ s.op = "snapshot" /\ s.rec.kind = "live_processes" /\ s.row[1] = "live_snapshots"
                 /\ s.row = <<"live_snapshots", s.rec.node>>
<1>1. s \in Upserts(b) /\ ~DoNothing(s.op)
  BY Zenon DEF Kept
<1>2. /\ s.rec \in Records(b)
      /\ \/ s.op = "summary" /\ s.rec.kind = "summary" /\ s.row = <<"summary", s.rec.key>>
         \/ s.op \in {"event", "hardware"} /\ s.row[1] \in {"event", "hardware"}
         \/ s.op = "node" /\ HasColumns(s.rec) /\ s.row = <<"nodes", s.rec.node>>
         \/ s.op = "live_node" /\ s.rec.kind = "live_node" /\ s.row = <<"live_nodes", s.rec.node>>
         \/ s.op = "snapshot" /\ s.rec.kind = "live_processes" /\ s.row = <<"live_snapshots", s.rec.node>>
  BY <1>1, UpsertIs, Zenon
<1>3. s.op \notin {"event", "hardware"}
  BY <1>1, Zenon DEF DoNothing
<1>4. s.rec \in AllRecords
  BY <1>2, RecordType, Zenon DEF Records
<1>5. s.rec.ts \in Nat /\ (s.rec.kind = "summary" => s.rec.count \in Nat)
  BY <1>4, AnyRecordType, Zenon
<1> QED BY <1>1, <1>2, <1>3, <1>4, <1>5 DEF HasColumns

\* What an upsert that inserts leaves.
LEMMA InsertEffect ==
    ASSUME NEW b, Good(b), NEW s \in Kept(b)
    PROVE  LET new == Inserted(s.op, s.rec)
               set == RecordColumns(s.row, s.rec)
           IN  /\ Shaped(s.row, new) /\ Level(s.row, new) = RecordLevel(s.row, s.rec)
               /\ \A c \in DOMAIN set : c \in DOMAIN Columns(s.row, new) /\ Columns(s.row, new)[c] = set[c]
<1> DEFINE r == s.rec
           row == s.row
           new == Inserted(s.op, r)
           set == RecordColumns(row, r)
<1>1. r \in AllRecords
  BY KeptIs, Zenon
<1> HIDE DEF row, r
<1>2. CASE s.op = "summary" /\ row[1] = "summary"
  <2>1. new = [count |-> r.count, ts |-> r.ts]
    BY <1>2, InsertedIs, Zenon
  <2> HIDE DEF new
  <2>2. /\ Level(row, new) = new.count /\ RecordLevel(row, r) = r.count
        /\ DOMAIN Columns(row, new) = {"ts"} /\ Columns(row, new)["ts"] = new.ts
        /\ DOMAIN set = {"ts"} /\ set["ts"] = r.ts
    BY <1>2, SummaryLevel
  <2>3. Shaped(row, new)
    BY <1>2, <2>1 DEF Shaped
  <2>4. /\ Level(row, new) = RecordLevel(row, r)
        /\ \A c \in DOMAIN set : c \in DOMAIN Columns(row, new) /\ Columns(row, new)[c] = set[c]
    BY <2>1, <2>2
  <2> QED BY <2>3, <2>4, Zenon DEF new, row, r
<1>3. CASE s.op = "node" /\ row[1] = "nodes"
  <2>1. new = [label |-> Col(r, "label"), boot_id |-> Col(r, "boot_id"),
               first_seen |-> r.ts, last_seen |-> r.ts]
    BY <1>3, InsertedIs, Zenon
  <2> HIDE DEF new
  <2>2. /\ Level(row, new) = new.last_seen /\ RecordLevel(row, r) = r.ts
        /\ DOMAIN Columns(row, new) = {"label", "boot_id"}
        /\ \A c \in {"label", "boot_id"} : Columns(row, new)[c] = new[c]
        /\ \A c : c \in DOMAIN set <=> c \in {"label", "boot_id"} /\ Col(r, c) # None
        /\ \A c \in DOMAIN set : set[c] = Col(r, c)
    BY <1>3, NodeLevel
  <2>3. Shaped(row, new)
    BY <1>3, <2>1 DEF Shaped
  <2>4. \A c \in {"label", "boot_id"} : new[c] = Col(r, c)
    BY <2>1
  <2>5. \A c \in DOMAIN set : c \in DOMAIN Columns(row, new) /\ Columns(row, new)[c] = set[c]
    BY <2>2, <2>4
  <2>6. Level(row, new) = RecordLevel(row, r)
    BY <2>1, <2>2
  <2> QED BY <2>3, <2>5, <2>6, Zenon DEF new, row, r
<1>4. CASE s.op = "live_node" /\ row[1] = "live_nodes" /\ HasColumns(r)
  <2>1. new = [updated_at |-> r.ts, cols |-> r.cols]
    BY <1>4, InsertedIs, Zenon
  <2> HIDE DEF new
  <2>2. /\ Level(row, new) = new.updated_at /\ RecordLevel(row, r) = r.ts
        /\ Columns(row, new) = new.cols /\ set = r.cols
    BY <1>4, LiveLevel
  <2>3. r.cols = [c \in DOMAIN r.cols |-> r.cols[c]]
    BY <1>1, <1>4, RecordCols, Zenon
  <2>4. Shaped(row, new)
    BY <1>4, <2>1, <2>3 DEF Shaped
  <2>5. /\ Level(row, new) = RecordLevel(row, r)
        /\ \A c \in DOMAIN set : c \in DOMAIN Columns(row, new) /\ Columns(row, new)[c] = set[c]
    BY <2>1, <2>2
  <2> QED BY <2>4, <2>5, Zenon DEF new, row, r
<1>5. CASE s.op = "snapshot" /\ row[1] = "live_snapshots"
  <2>1. new = [ts |-> r.ts]
    BY <1>5, InsertedIs, Zenon
  <2> HIDE DEF new
  <2>2. Level(row, new) = new.ts /\ RecordLevel(row, r) = r.ts /\ DOMAIN set = {}
    BY <1>5, SnapshotLevel
  <2>3. Shaped(row, new)
    BY <1>5, <2>1 DEF Shaped
  <2>4. Level(row, new) = RecordLevel(row, r)
    BY <2>1, <2>2
  <2> QED BY <2>2, <2>3, <2>4, Zenon DEF new, row, r
<1> QED BY <1>2, <1>3, <1>4, <1>5, KeptIs, Zenon DEF row, r

\* What an upsert of a stored row leaves.
UpsertLeaves(row, r, old, new) ==
    LET set == RecordColumns(row, r)
        l == RecordLevel(row, r)
    IN  /\ l \in Nat /\ Level(row, old) \in Nat /\ Shaped(row, new)
        /\ l < Level(row, old) =>
              /\ Level(row, new) = Level(row, old) /\ DOMAIN Columns(row, new) = DOMAIN Columns(row, old)
              /\ \A c \in DOMAIN Columns(row, old) : Columns(row, new)[c] = Columns(row, old)[c]
        /\ Level(row, old) <= l =>
              /\ Level(row, new) = l /\ DOMAIN Columns(row, new) = DOMAIN set \cup DOMAIN Columns(row, old)
              /\ \A c \in DOMAIN set : Columns(row, new)[c] = set[c]
              /\ \A c \in DOMAIN Columns(row, old) :
                    c \notin DOMAIN set => Columns(row, new)[c] = Columns(row, old)[c]
        /\ row[1] = "nodes" /\ old.first_seen <= r.ts => new.first_seen = old.first_seen

LEMMA SummaryLeaves ==
    ASSUME NEW row, row[1] = "summary", NEW r, r.count \in Nat, NEW old, old.count \in Nat, Shaped(row, old)
    PROVE  UpsertLeaves(row, r, old, SummaryUpsert(old, r))
<1> DEFINE new == SummaryUpsert(old, r)
<1>1. new = IF r.count >= old.count THEN [count |-> r.count, ts |-> r.ts] ELSE old
  BY Zenon DEF SummaryUpsert
<1> HIDE DEF new
<1>2. Shaped(row, new)
  BY <1>1 DEF Shaped
<1>3. /\ Level(row, new) = new.count /\ Level(row, old) = old.count /\ RecordLevel(row, r) = r.count
      /\ DOMAIN Columns(row, new) = {"ts"} /\ Columns(row, new)["ts"] = new.ts
      /\ DOMAIN Columns(row, old) = {"ts"} /\ Columns(row, old)["ts"] = old.ts
      /\ DOMAIN RecordColumns(row, r) = {"ts"} /\ RecordColumns(row, r)["ts"] = r.ts
  BY SummaryLevel
<1>4. /\ r.count < old.count => new = old
      /\ old.count <= r.count => new.count = r.count /\ new.ts = r.ts
  BY <1>1
<1>5. row[1] # "nodes"
  OBVIOUS
<1>6. UpsertLeaves(row, r, old, new)
  BY <1>2, <1>3, <1>4, <1>5 DEF UpsertLeaves
<1> QED BY <1>6, Zenon DEF new

LEMMA LiveLeaves ==
    ASSUME NEW row, row[1] = "live_nodes", NEW r, r.ts \in Nat, NEW old, old.updated_at \in Nat, Shaped(row, old)
    PROVE  UpsertLeaves(row, r, old, LiveNodeUpsert(old, r))
<1> DEFINE new == LiveNodeUpsert(old, r)
           all == Over(r.cols, old.cols)
<1>1. new = IF old.updated_at <= r.ts THEN [updated_at |-> r.ts, cols |-> all] ELSE old
  BY Zenon DEF LiveNodeUpsert
<1>2. /\ DOMAIN all = DOMAIN r.cols \cup DOMAIN old.cols
      /\ \A x \in DOMAIN r.cols : all[x] = r.cols[x]
      /\ \A x \in DOMAIN old.cols : x \notin DOMAIN r.cols => all[x] = old.cols[x]
      /\ all = [x \in DOMAIN all |-> all[x]]
  BY DEF Over
<1> HIDE DEF new, all
<1>3. Shaped(row, new)
  BY <1>1, <1>2 DEF Shaped
<1>4. /\ Level(row, new) = new.updated_at /\ Level(row, old) = old.updated_at /\ RecordLevel(row, r) = r.ts
      /\ Columns(row, new) = new.cols /\ Columns(row, old) = old.cols /\ RecordColumns(row, r) = r.cols
  BY LiveLevel
<1>5. /\ r.ts < old.updated_at => new = old
      /\ old.updated_at <= r.ts => new.updated_at = r.ts /\ new.cols = all
  BY <1>1
<1>6. row[1] # "nodes"
  OBVIOUS
<1>7. UpsertLeaves(row, r, old, new)
  BY <1>2, <1>3, <1>4, <1>5, <1>6 DEF UpsertLeaves
<1> QED BY <1>7, Zenon DEF new

LEMMA SnapshotLeaves ==
    ASSUME NEW row, row[1] = "live_snapshots", NEW r, r.ts \in Nat, NEW old, old.ts \in Nat, Shaped(row, old)
    PROVE  UpsertLeaves(row, r, old, SnapshotUpsert(old, r))
<1> DEFINE new == SnapshotUpsert(old, r)
<1>1. new = IF old.ts > r.ts THEN old ELSE [ts |-> r.ts]
  BY Zenon DEF SnapshotUpsert, SnapshotStale
<1> HIDE DEF new
<1>2. Shaped(row, new)
  BY <1>1 DEF Shaped
<1>3. /\ Level(row, new) = new.ts /\ Level(row, old) = old.ts /\ RecordLevel(row, r) = r.ts
      /\ DOMAIN Columns(row, new) = {} /\ DOMAIN Columns(row, old) = {} /\ DOMAIN RecordColumns(row, r) = {}
  BY SnapshotLevel
<1>4. /\ r.ts < old.ts => new = old
      /\ old.ts <= r.ts => new.ts = r.ts
  BY <1>1
<1>5. row[1] # "nodes"
  OBVIOUS
<1>6. UpsertLeaves(row, r, old, new)
  BY <1>2, <1>3, <1>4, <1>5 DEF UpsertLeaves
<1> QED BY <1>6, Zenon DEF new

LEMMA NodeLeaves ==
    ASSUME NEW row, row[1] = "nodes", NEW r \in AllRecords, HasColumns(r), NEW old,
           old.first_seen \in Nat, old.last_seen \in Nat, Shaped(row, old)
    PROVE  UpsertLeaves(row, r, old, NodeUpsert(old, r))
<1> DEFINE new == NodeUpsert(old, r)
<1>1. r.ts \in Nat
  BY AnyRecordType, Zenon
<1>2. "label" \in DOMAIN r.cols => r.cols["label"] # None
  BY <1>1, LessEqSelf, Stamps, Zenon
<1>3. /\ new.first_seen = Min({old.first_seen, r.ts}) /\ new.last_seen = Max({old.last_seen, r.ts})
      /\ new["label"] = IF "label" \in DOMAIN r.cols /\ r.ts >= old.last_seen
                        THEN Col(r, "label") ELSE old["label"]
      /\ new["boot_id"] = IF Col(r, "boot_id") # None /\ r.ts >= old.last_seen
                          THEN Col(r, "boot_id") ELSE old["boot_id"]
      /\ new = [label |-> new.label, boot_id |-> new.boot_id,
                first_seen |-> new.first_seen, last_seen |-> new.last_seen]
  BY DEF NodeUpsert
<1> HIDE DEF new
<1>4. /\ new.first_seen = IF old.first_seen <= r.ts THEN old.first_seen ELSE r.ts
      /\ new.last_seen = IF old.last_seen <= r.ts THEN r.ts ELSE old.last_seen
  BY <1>1, <1>3, MinMaxOfTwo, Zenon
<1>5. Shaped(row, new)
  BY <1>3 DEF Shaped
<1>6. "label" \in DOMAIN r.cols <=> Col(r, "label") # None
  BY <1>2 DEF Col
<1>7. /\ r.ts < old.last_seen => /\ new.last_seen = old.last_seen
                                 /\ \A c \in {"label", "boot_id"} : new[c] = old[c]
      /\ old.last_seen <= r.ts =>
            /\ new.last_seen = r.ts
            /\ \A c \in {"label", "boot_id"} : new[c] = IF Col(r, c) # None THEN Col(r, c) ELSE old[c]
      /\ old.first_seen <= r.ts => new.first_seen = old.first_seen
  BY <1>1, <1>3, <1>4, <1>6
<1>8. /\ Level(row, new) = new.last_seen /\ Level(row, old) = old.last_seen /\ RecordLevel(row, r) = r.ts
      /\ DOMAIN Columns(row, new) = {"label", "boot_id"} /\ DOMAIN Columns(row, old) = {"label", "boot_id"}
      /\ \A c \in {"label", "boot_id"} : Columns(row, new)[c] = new[c]
      /\ \A c \in {"label", "boot_id"} : Columns(row, old)[c] = old[c]
  BY NodeLevel
<1>9. /\ \A c : c \in DOMAIN RecordColumns(row, r) <=> c \in {"label", "boot_id"} /\ Col(r, c) # None
      /\ \A c \in DOMAIN RecordColumns(row, r) : RecordColumns(row, r)[c] = Col(r, c)
  BY NodeLevel
<1>10. UpsertLeaves(row, r, old, new)
  BY <1>1, <1>5, <1>7, <1>8, <1>9 DEF UpsertLeaves
<1> QED BY <1>10, Zenon DEF new

LEMMA UpsertEffect ==
    ASSUME NEW b, Good(b), NEW s \in Kept(b), NEW R, R \subseteq AllRecords, NEW old,
           Genuine(R, s.row, old), Shaped(s.row, old)
    PROVE  UpsertLeaves(s.row, s.rec, old, Updated(s.op, old, s.rec))
<1>1. s.rec \in AllRecords /\ s.rec.ts \in Nat
  BY KeptIs, Zenon
<1>2. CASE s.op = "summary" /\ s.row[1] = "summary" /\ s.rec.count \in Nat
  <2>1. old.count \in Nat
    BY <1>2, GenuineNumbers, Zenon
  <2>2. Updated(s.op, old, s.rec) = SummaryUpsert(old, s.rec)
    BY <1>2, UpdatedIs, Zenon
  <2>3. UpsertLeaves(s.row, s.rec, old, SummaryUpsert(old, s.rec))
    BY <1>1, <1>2, <2>1, SummaryLeaves
  <2> QED BY <2>2, <2>3, Zenon
<1>3. CASE s.op = "node" /\ HasColumns(s.rec) /\ s.row[1] = "nodes"
  <2>1. old.first_seen \in Nat /\ old.last_seen \in Nat
    BY <1>3, GenuineNumbers, Zenon
  <2>2. Updated(s.op, old, s.rec) = NodeUpsert(old, s.rec)
    BY <1>3, UpdatedIs, Zenon
  <2>3. UpsertLeaves(s.row, s.rec, old, NodeUpsert(old, s.rec))
    BY <1>1, <1>3, <2>1, NodeLeaves
  <2> QED BY <2>2, <2>3, Zenon
<1>4. CASE s.op = "live_node" /\ s.row[1] = "live_nodes"
  <2>1. old.updated_at \in Nat
    BY <1>4, GenuineNumbers, Zenon
  <2>2. Updated(s.op, old, s.rec) = LiveNodeUpsert(old, s.rec)
    BY <1>4, UpdatedIs, Zenon
  <2>3. UpsertLeaves(s.row, s.rec, old, LiveNodeUpsert(old, s.rec))
    BY <1>1, <1>4, <2>1, LiveLeaves
  <2> QED BY <2>2, <2>3, Zenon
<1>5. CASE s.op = "snapshot" /\ s.row[1] = "live_snapshots"
  <2>1. old.ts \in Nat
    BY <1>5, GenuineNumbers, Zenon
  <2>2. Updated(s.op, old, s.rec) = SnapshotUpsert(old, s.rec)
    BY <1>5, UpdatedIs, Zenon
  <2>3. UpsertLeaves(s.row, s.rec, old, SnapshotUpsert(old, s.rec))
    BY <1>1, <1>5, <2>1, SnapshotLeaves
  <2> QED BY <2>2, <2>3, Zenon
<1> QED BY <1>2, <1>3, <1>4, <1>5, KeptIs, Zenon

LEMMA SameRow ==
    ASSUME NEW row, row[1] \in {"summary", "nodes", "live_nodes", "live_snapshots"}, NEW v, NEW d,
           Shaped(row, v), Shaped(row, d), Alike({}, row, v, d)
    PROVE  v = d
<1>1. /\ Level(row, v) = Level(row, d) /\ DOMAIN Columns(row, v) = DOMAIN Columns(row, d)
      /\ row[1] = "nodes" => v.first_seen = d.first_seen
      /\ \A c \in DOMAIN Columns(row, d) : Columns(row, v)[c] = Columns(row, d)[c]
  BY Zenon DEF Alike
<1>2. CASE row[1] = "summary"
  <2>1. v.count = d.count /\ v.ts = d.ts
    BY <1>1, <1>2, SummaryLevel
  <2> QED BY <1>2, <2>1 DEF Shaped
<1>3. CASE row[1] = "nodes"
  <2>1. v.last_seen = d.last_seen /\ \A c \in {"label", "boot_id"} : v[c] = d[c]
    BY <1>1, <1>3, NodeLevel
  <2>2. v.label = d.label /\ v.boot_id = d.boot_id /\ v.first_seen = d.first_seen
    BY <1>1, <1>3, <2>1
  <2> QED BY <1>3, <2>1, <2>2 DEF Shaped
<1>4. CASE row[1] = "live_nodes"
  <2>1. /\ v.updated_at = d.updated_at /\ DOMAIN v.cols = DOMAIN d.cols
        /\ \A c \in DOMAIN d.cols : v.cols[c] = d.cols[c]
    BY <1>1, <1>4, LiveLevel
  <2>2. v.cols = d.cols
    BY <1>4, <2>1 DEF Shaped
  <2> QED BY <1>4, <2>1, <2>2 DEF Shaped
<1>5. CASE row[1] = "live_snapshots"
  <2>1. v.ts = d.ts
    BY <1>1, <1>5, SnapshotLevel
  <2> QED BY <1>5, <2>1 DEF Shaped
<1> QED BY <1>2, <1>3, <1>4, <1>5

LEMMA LevelCovers ==
    ASSUME NEW b, Good(b), NEW s \in Kept(b), NEW v, Covers(s.row, v, s.rec)
    PROVE  /\ RecordLevel(s.row, s.rec) <= Level(s.row, v) /\ RecordLevel(s.row, s.rec) \in Nat
           /\ s.row[1] = "nodes" => v.first_seen <= s.rec.ts
<1>1. s.rec.ts \in Nat
  BY KeptIs, Zenon
<1>2. CASE s.row[1] = "summary" /\ s.rec.count \in Nat
  BY <1>2, SummaryLevel DEF Covers
<1>3. CASE s.row[1] = "nodes"
  BY <1>1, <1>3, NodeLevel DEF Covers
<1>4. CASE s.row[1] = "live_nodes"
  BY <1>1, <1>4, LiveLevel DEF Covers
<1>5. CASE s.row[1] = "live_snapshots"
  BY <1>1, <1>5, SnapshotLevel DEF Covers
<1> QED BY <1>2, <1>3, <1>4, <1>5, KeptIs, Zenon

LEMMA LoopStatement ==
    ASSUME NEW b, NEW s \in Statements(b), s.loop # 5
    PROVE  s.loop \in 1..4 /\ s.call \in {1, 2} /\ s.at \in Plan(b)
BY DEF Statements, Stmt, OfKind

LEMMA HasRowUpsert ==
    ASSUME NEW b, Good(b), NEW r \in Records(b), NEW row \in RowsOf(r)
    PROVE  \E s \in Upserts(b) : s.row = row
BY HasUpsert

\* The order of the statements of a batch is a strict one.
LEMMA BeforeOnce ==
    ASSUME NEW b, Good(b), NEW s \in Statements(b), NEW t \in Statements(b), Before(s, t)
    PROVE  ~Before(t, s) /\ s # t
<1>1. ASSUME NEW x \in Statements(b) PROVE x.loop \in Nat /\ x.at \in Nat /\ x.call \in Nat
  <2>1. CASE x.loop # 5
    <3>1. x.loop \in 1..4 /\ x.call \in {1, 2} /\ x.at \in Plan(b)
      BY <2>1, LoopStatement, Zenon
    <3>2. x.at \in Nat
      BY <3>1, RecordType, Zenon
    <3> QED BY <3>1, <3>2
  <2>2. CASE x.loop = 5
    <3>1. PICK i \in Plan(b) : /\ b[i].kind = "live_processes" /\ x.at = Min(CensusesOf(b, b[i].node))
                              /\ x.call \in {1, 2, 3}
      BY <2>2, StatementIs
    <3>2. CensusesOf(b, b[i].node) \in SUBSET Nat /\ CensusesOf(b, b[i].node) # {}
      BY <3>1, RecordType, Zenon DEF CensusesOf, OfKind
    <3>3. Min(CensusesOf(b, b[i].node)) \in Nat
      BY <3>2, LeastNatural DEF Min
    <3> QED BY <2>2, <3>1, <3>3
  <2> QED BY <2>1, <2>2, Zenon
<1>2. /\ s.loop \in Nat /\ s.at \in Nat /\ s.call \in Nat
      /\ t.loop \in Nat /\ t.at \in Nat /\ t.call \in Nat
  BY <1>1, Zenon
<1> QED BY <1>2 DEF Before

LEMMA ShowsInsert ==
    ASSUME NEW b, Good(b), NEW s \in Kept(b), NEW E, \A t \in E : t.row # s.row
    PROVE  Shows(E \cup {s}, s.row, Inserted(s.op, s.rec))
<1> DEFINE new == Inserted(s.op, s.rec)
           set == RecordColumns(s.row, s.rec)
<1>1. \A c \in DOMAIN set : c \in DOMAIN Columns(s.row, new) /\ Columns(s.row, new)[c] = set[c]
  BY InsertEffect, Zenon
<1> HIDE DEF new, set
<1>2. ASSUME NEW t \in E \cup {s}, t.row = s.row PROVE t = s
  BY <1>2, Zenon
<1>3. Shows(E \cup {s}, s.row, new)
  BY <1>1, <1>2, Zenon DEF Shows, set
<1> QED BY <1>3, Zenon DEF new

LEMMA LevelTie ==
    ASSUME NEW x \in Nat, NEW y \in Nat, NEW z \in Nat, x <= y, y <= z, x = z
    PROVE  x = y
OBVIOUS

LEMMA LevelOrder == ASSUME NEW x \in Nat, NEW y \in Nat PROVE (x < y /\ x # y /\ ~(y <= x)) \/ y <= x
OBVIOUS

\* The row shows one upsert more; what it overwrites was written before it.
LEMMA ShowsUpsert ==
    ASSUME NEW b, Good(b), NEW s \in Kept(b), NEW R, R \subseteq AllRecords, NEW old,
           Genuine(R, s.row, old), Shaped(s.row, old), NEW E, Shows(E, s.row, old),
           \A t \in E : t.row = s.row =>
              /\ Before(t, s) /\ RecordLevel(s.row, t.rec) \in Nat
              /\ RecordLevel(s.row, t.rec) <= Level(s.row, old)
    PROVE  Shows(E \cup {s}, s.row, Updated(s.op, old, s.rec))
<1> DEFINE new == Updated(s.op, old, s.rec)
           row == s.row
           set == RecordColumns(row, s.rec)
           l == RecordLevel(row, s.rec)
<1>1. UpsertLeaves(row, s.rec, old, new)
  BY UpsertEffect, Zenon
<1> HIDE DEF new, row
<1>2. l \in Nat /\ Level(row, old) \in Nat
  BY <1>1, Zenon DEF UpsertLeaves
<1> SUFFICES ASSUME NEW t \in E \cup {s}, t.row = row, RecordLevel(row, t.rec) = Level(row, new),
                    NEW c \in DOMAIN RecordColumns(row, t.rec)
             PROVE  /\ c \in DOMAIN Columns(row, new)
                    /\ \/ \E u \in E \cup {s} : Overrides(u, t, c)
                       \/ Columns(row, new)[c] = RecordColumns(row, t.rec)[c]
  BY Zenon DEF Shows, new, row
<1>3. CASE l < Level(row, old) /\ l # Level(row, old)
  <2>1. /\ Level(row, new) = Level(row, old) /\ DOMAIN Columns(row, new) = DOMAIN Columns(row, old)
        /\ \A x \in DOMAIN Columns(row, old) : Columns(row, new)[x] = Columns(row, old)[x]
    BY <1>1, <1>3, Zenon DEF UpsertLeaves
  <2>2. t # s /\ t \in E
    BY <1>3, <2>1, Zenon
  <2>3. /\ c \in DOMAIN Columns(row, old)
        /\ \/ \E u \in E : Overrides(u, t, c)
           \/ Columns(row, old)[c] = RecordColumns(row, t.rec)[c]
    BY <2>1, <2>2, Zenon DEF Shows, row
  <2> QED BY <2>1, <2>3, Zenon
<1>4. CASE Level(row, old) <= l
  <2>1. /\ Level(row, new) = l /\ DOMAIN Columns(row, new) = DOMAIN set \cup DOMAIN Columns(row, old)
        /\ \A x \in DOMAIN set : Columns(row, new)[x] = set[x]
        /\ \A x \in DOMAIN Columns(row, old) :
              x \notin DOMAIN set => Columns(row, new)[x] = Columns(row, old)[x]
    BY <1>1, <1>4, Zenon DEF UpsertLeaves
  <2> HIDE DEF set
  <2>2. CASE t = s
    BY <2>1, <2>2, Zenon DEF set
  <2>3. CASE t # s
    <3>1. t \in E /\ Before(t, s) /\ RecordLevel(row, t.rec) \in Nat /\ RecordLevel(row, t.rec) <= Level(row, old)
      BY <2>3, Zenon DEF row
    <3>2. RecordLevel(row, t.rec) = Level(row, old)
      <4>1. RecordLevel(row, t.rec) = l
        BY <2>1, Zenon
      <4> QED BY <1>2, <1>4, <3>1, <4>1, LevelTie, Zenon
    <3>3. /\ c \in DOMAIN Columns(row, old)
          /\ \/ \E u \in E : Overrides(u, t, c)
             \/ Columns(row, old)[c] = RecordColumns(row, t.rec)[c]
      BY <3>1, <3>2, Zenon DEF Shows, row
    <3>4. c \in DOMAIN Columns(row, new)
      BY <2>1, <3>3, Zenon
    <3>5. CASE c \in DOMAIN set
      <4>1. Overrides(s, t, c)
        BY <2>1, <3>1, <3>5, Zenon DEF Overrides, set, row
      <4> QED BY <3>4, <4>1, Zenon
    <3>6. CASE c \notin DOMAIN set
      BY <2>1, <3>3, <3>4, <3>6, Zenon
    <3> QED BY <3>5, <3>6, Zenon
  <2> QED BY <2>2, <2>3, Zenon
<1>5. (l < Level(row, old) /\ l # Level(row, old)) \/ Level(row, old) <= l
  BY <1>2, LevelOrder, Zenon
<1> QED BY <1>3, <1>4, <1>5, Zenon

\* An upsert of a batch that is stored already: what it changes, statements
\* that are to come will put right.
LEMMA AlikeUpsert ==
    ASSUME NEW b, Good(b), NEW s \in Kept(b), NEW R, R \subseteq AllRecords, NEW old,
           Genuine(R, s.row, old), Shaped(s.row, old), NEW d, NEW S, NEW T,
           Alike(S, s.row, old, d), Covers(s.row, d, s.rec), Shows(Kept(b), s.row, d),
           \A t \in S : t # s => t \in T,
           \A t \in Kept(b) : \A c : Overrides(t, s, c) => t \in T
    PROVE  Alike(T, s.row, Updated(s.op, old, s.rec), d)
<1> DEFINE new == Updated(s.op, old, s.rec)
           row == s.row
           set == RecordColumns(row, s.rec)
           l == RecordLevel(row, s.rec)
<1>1. UpsertLeaves(row, s.rec, old, new)
  BY UpsertEffect, Zenon
<1>2. l \in Nat /\ l <= Level(row, d) /\ (row[1] = "nodes" => d.first_seen <= s.rec.ts)
  BY LevelCovers, Zenon
<1>3. /\ Level(row, old) = Level(row, d) /\ DOMAIN Columns(row, old) = DOMAIN Columns(row, d)
      /\ row[1] = "nodes" => old.first_seen = d.first_seen
  BY Zenon DEF Alike
<1> HIDE DEF new, row
<1>4. row[1] = "nodes" => new.first_seen = d.first_seen
  BY <1>1, <1>2, <1>3, Zenon DEF UpsertLeaves
<1>5. Level(row, old) \in Nat
  BY <1>1, Zenon DEF UpsertLeaves
<1>6. CASE l < Level(row, old) /\ l # Level(row, old)
  <2>1. /\ Level(row, new) = Level(row, old) /\ DOMAIN Columns(row, new) = DOMAIN Columns(row, old)
        /\ \A x \in DOMAIN Columns(row, old) : Columns(row, new)[x] = Columns(row, old)[x]
    BY <1>1, <1>6, Zenon DEF UpsertLeaves
  <2>2. ASSUME NEW c \in DOMAIN Columns(row, d), Columns(row, new)[c] # Columns(row, d)[c]
        PROVE  \E t \in T : /\ t.row = row /\ RecordLevel(row, t.rec) = Level(row, d)
                            /\ c \in DOMAIN RecordColumns(row, t.rec)
    <3>1. Columns(row, old)[c] # Columns(row, d)[c]
      BY <1>3, <2>1, <2>2, Zenon
    <3>2. PICK t \in S : /\ t.row = row /\ RecordLevel(row, t.rec) = Level(row, d)
                         /\ c \in DOMAIN RecordColumns(row, t.rec)
      BY <3>1, Zenon DEF Alike, row
    <3>3. t # s
      BY <1>3, <1>6, <3>2, Zenon
    <3> QED BY <3>2, <3>3, Zenon
  <2> QED BY <1>3, <1>4, <2>1, <2>2, Zenon DEF Alike, new, row
<1>7. CASE Level(row, old) <= l
  <2>1. /\ Level(row, new) = l /\ DOMAIN Columns(row, new) = DOMAIN set \cup DOMAIN Columns(row, old)
        /\ \A x \in DOMAIN set : Columns(row, new)[x] = set[x]
        /\ \A x \in DOMAIN Columns(row, old) :
              x \notin DOMAIN set => Columns(row, new)[x] = Columns(row, old)[x]
    BY <1>1, <1>7, Zenon DEF UpsertLeaves
  <2>2. l = Level(row, d)
    BY <1>2, <1>3, <1>5, <1>7, SameNumber, Zenon
  <2>3. \A c \in DOMAIN set : /\ c \in DOMAIN Columns(row, d)
                              /\ \/ \E t \in Kept(b) : Overrides(t, s, c)
                                 \/ Columns(row, d)[c] = set[c]
    BY <2>2, Zenon DEF Shows, row
  <2> HIDE DEF set
  <2>4. DOMAIN Columns(row, new) = DOMAIN Columns(row, d)
    BY <1>3, <2>1, <2>3
  <2>5. ASSUME NEW c \in DOMAIN Columns(row, d), Columns(row, new)[c] # Columns(row, d)[c]
        PROVE  \E t \in T : /\ t.row = row /\ RecordLevel(row, t.rec) = Level(row, d)
                            /\ c \in DOMAIN RecordColumns(row, t.rec)
    <3>1. CASE c \in DOMAIN set
      <4>1. PICK t \in Kept(b) : Overrides(t, s, c)
        BY <2>1, <2>3, <2>5, <3>1, Zenon
      <4>2. t \in T
        BY <4>1, Zenon
      <4>3. t.row = row /\ RecordLevel(row, t.rec) = l /\ c \in DOMAIN RecordColumns(row, t.rec)
        BY <4>1, Zenon DEF Overrides, row
      <4> QED BY <2>2, <4>2, <4>3, Zenon
    <3>2. CASE c \notin DOMAIN set
      <4>1. Columns(row, old)[c] # Columns(row, d)[c]
        BY <1>3, <2>1, <2>5, <3>2, Zenon
      <4>2. PICK t \in S : /\ t.row = row /\ RecordLevel(row, t.rec) = Level(row, d)
                           /\ c \in DOMAIN RecordColumns(row, t.rec)
        BY <4>1, Zenon DEF Alike, row
      <4>3. t # s
        BY <3>2, <4>2, Zenon DEF set
      <4> QED BY <4>2, <4>3, Zenon
    <3> QED BY <3>1, <3>2, Zenon
  <2> QED BY <1>4, <2>1, <2>2, <2>4, <2>5, Zenon DEF Alike, new, row
<1>8. (l < Level(row, old) /\ l # Level(row, old)) \/ Level(row, old) <= l
  BY <1>2, <1>5, LevelOrder, Zenon
<1> QED BY <1>6, <1>7, <1>8, Zenon
=============================================================================
