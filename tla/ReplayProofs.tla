--------------------------- MODULE ReplayProofs -----------------------------
(***************************************************************************)
(* Proofs about a batch that is written once more, for any number of       *)
(* writers, batches and records.  Records of one batch may have the same   *)
(* level, so a replay may take a column through earlier values: the last   *)
(* of them at that level, which is the one stored, is still to come        *)
(* (Alike).                                                                *)
(***************************************************************************)
EXTENDS SnapshotProofs

\* What a transaction has done so far: statements in their order, on rows that
\* show them; what it inserted and DO NOTHING would leave alone is not stored.
Progress(me, D) ==
    LET done == Kept(me.batch) \ me.stmts
    IN  /\ \A t \in done : t.row \in DOMAIN me.rows /\ \A s \in me.stmts : Before(t, s)
        /\ \A row \in DOMAIN me.rows :
              /\ \E t \in Upserts(me.batch) \ me.stmts : t.row = row
              /\ row[1] \notin {"event", "hardware"} => Shows(done, row, me.rows[row])
              /\ row[1] \in {"event", "hardware"} => row \notin DOMAIN D

\* A transaction that writes batch b again: its rows are the stored ones but
\* for what is still to come.
Repeats(me, D) ==
    \A row \in DOMAIN me.rows :
        row \in DOMAIN D /\ Alike(me.stmts \cap Kept(me.batch), row, me.rows[row], D[row])

Replays(me, D, b) ==
    /\ \A row \in DOMAIN me.rows : Shaped(row, me.rows[row])
    /\ me.pc = "apply" => Progress(me, D) /\ (me.batch = b => Repeats(me, D))

\* The tables show batch b; the batch that was committed last.
Stored(b, D) == Done(b, {}, D) /\ \A s \in Kept(b) : Shows(Kept(b), s.row, D[s.row])
LastShown ==
    last # None =>
        /\ Good(last) /\ Stored(last, db)
        /\ \A s \in Kept(last) : s.op = "snapshot" /\ s.rec.ts = db[s.row].ts =>
              ProcessesOf(processes, s.rec.node) = ProcessRows(s.rec)

ReplayInv ==
    /\ db = [row \in DOMAIN db |-> db[row]]
    /\ \A row \in DOMAIN db : Shaped(row, db[row])
    /\ LastShown
    /\ \A w \in Writer : Replays(writer[w], db, last)

LEMMA ShowsOther ==
    ASSUME NEW E, NEW F, NEW row, NEW v, Shows(E, row, v), E \subseteq F, \A t \in F : t \notin E => t.row # row
    PROVE  Shows(F, row, v)
BY Zenon DEF Shows

LEMMA AlikeOther ==
    ASSUME NEW S, NEW T, NEW row, NEW v, NEW d, Alike(S, row, v, d), \A t \in S : t.row = row => t \in T
    PROVE  Alike(T, row, v, d)
BY Zenon DEF Alike

LEMMA AlikeSelf == ASSUME NEW S, NEW row, NEW d PROVE Alike(S, row, d, d)
BY Zenon DEF Alike

\* Steps that leave the tables as they are: it is enough to look at the writer
\* that moved.
LEMMA ReplayKept ==
    ASSUME ReplayInv, NEW w \in Writer, Others(w), UNCHANGED <<db, processes, last>>,
           Replays(writer'[w], db, last)
    PROVE  ReplayInv'
<1>1. db' = db /\ processes' = processes /\ last' = last
  BY Zenon
<1>2. LastShown'
  BY <1>1, Zenon DEF ReplayInv, LastShown
<1>3. ASSUME NEW v \in Writer PROVE Replays(writer'[v], db, last)
  <2>1. CASE v = w
    BY <2>1, Zenon
  <2>2. CASE v # w
    <3>1. writer'[v] = writer[v]
      BY <2>2, Zenon DEF Others
    <3> QED BY <3>1, Zenon DEF ReplayInv
  <2> QED BY <2>1, <2>2, Zenon
<1>4. \A v \in Writer : Replays(writer'[v], db', last')
  BY <1>1, <1>3, Zenon
<1>5. db' = [row \in DOMAIN db' |-> db'[row]] /\ \A row \in DOMAIN db' : Shaped(row, db'[row])
  BY <1>1, Zenon DEF ReplayInv
<1> QED BY <1>2, <1>4, <1>5, Zenon DEF ReplayInv

\* A statement that leaves the rows alone.
LEMMA SameRows ==
    ASSUME NEW me, NEW now, NEW D, NEW b, Replays(me, D, b), me.pc = "apply", now.batch = me.batch,
           now.rows = me.rows, now.stmts \subseteq me.stmts,
           \A t \in Kept(me.batch) : t \in me.stmts => t \in now.stmts
    PROVE  Replays(now, D, b)
<1> DEFINE done == Kept(me.batch) \ me.stmts
<1>1. Progress(me, D) /\ (me.batch = b => Repeats(me, D))
  BY Zenon DEF Replays
<1>2. Kept(now.batch) \ now.stmts = done /\ now.stmts \cap Kept(now.batch) = me.stmts \cap Kept(me.batch)
  BY DEF done
<1>3. \A t \in done : t.row \in DOMAIN now.rows /\ \A s \in now.stmts : Before(t, s)
  BY <1>1, Zenon DEF Progress
<1>4. ASSUME NEW row \in DOMAIN now.rows
      PROVE  /\ \E t \in Upserts(now.batch) \ now.stmts : t.row = row
             /\ row[1] \notin {"event", "hardware"} => Shows(done, row, now.rows[row])
             /\ row[1] \in {"event", "hardware"} => row \notin DOMAIN D
  BY <1>1, Zenon DEF Progress
<1>5. Progress(now, D)
  <2> HIDE DEF done
  <2> QED BY <1>2, <1>3, <1>4, Zenon DEF Progress
<1>6. now.batch = b => Repeats(now, D)
  BY <1>1, <1>2, Zenon DEF Repeats
<1> QED BY <1>5, <1>6, Zenon DEF Replays

LEMMA ReplayOther ==
    ASSUME WriterInv, ReplayInv, NEW w \in Writer, NEW s \in writer[w].stmts,
           ExecDelete(w, s) \/ ExecInsert(w, s)
    PROVE  ReplayInv'
<1> DEFINE b == writer[w].batch
<1>1. Keeps(w) /\ writer[w].pc = "apply"
  BY RunDoes, Zenon DEF Runs
<1>2. writer'[w].rows = writer[w].rows /\ writer'[w].stmts = writer[w].stmts \ {s}
  BY DeleteDoes, InsertDoes, Zenon
<1>3. writer'[w].batch = b
  BY <1>1 DEF Keeps, Fields
<1>4. s \notin Kept(b)
  BY DEF Kept, Upserts, ExecDelete, ExecInsert
<1>5. Others(w) /\ UNCHANGED <<db, processes, last>>
  BY <1>1, Zenon DEF Keeps
<1>6. Replays(writer[w], db, last)
  BY Zenon DEF ReplayInv
<1>7. Replays(writer'[w], db, last)
  <2> DEFINE me == writer[w]
             now == writer'[w]
  <2>1. /\ Replays(me, db, last) /\ me.pc = "apply" /\ now.batch = me.batch /\ now.rows = me.rows
        /\ now.stmts \subseteq me.stmts /\ \A t \in Kept(me.batch) : t \in me.stmts => t \in now.stmts
    BY <1>1, <1>2, <1>3, <1>4, <1>6, Zenon
  <2> HIDE DEF me, now
  <2>2. Replays(now, db, last)
    BY <2>1, SameRows, Zenon
  <2> QED BY <2>2, Zenon DEF now
<1> QED BY <1>5, <1>7, ReplayKept, Zenon

LEMMA ReplayRestart ==
    ASSUME ReplayInv, NEW w \in Writer, Restarts(w)
    PROVE  ReplayInv'
<1>1. /\ Others(w) /\ UNCHANGED <<db, processes, last>> /\ writer'[w].rows = NoRows
  BY Zenon DEF Restarts, Starts
<1>2. writer'[w].pc = "apply" => writer'[w].stmts = Statements(writer'[w].batch)
  <2>1. ASSUME Starts(w, "idle", <<>>, {}, {}, FALSE) PROVE writer'[w].pc # "apply"
    BY <2>1 DEF Starts
  <2>2. ASSUME NEW b, NEW created, Starts(w, "apply", b, Statements(b), {}, created)
        PROVE  writer'[w].stmts = Statements(writer'[w].batch)
    BY <2>2, Zenon DEF Starts
  <2>3. ASSUME NEW b, Starts(w, "create", b, {}, Months(b), FALSE) PROVE writer'[w].pc # "apply"
    BY <2>3 DEF Starts
  <2> QED BY <2>1, <2>2, <2>3, Zenon DEF Restarts
<1>3. DOMAIN writer'[w].rows = {}
  BY <1>1, NoRowsIs, Zenon
<1>4. writer'[w].pc = "apply" => Progress(writer'[w], db)
  BY <1>2, <1>3, Zenon DEF Progress, Kept, Upserts
<1>5. Repeats(writer'[w], db)
  BY <1>3, Zenon DEF Repeats
<1>6. Replays(writer'[w], db, last)
  BY <1>3, <1>4, <1>5, Zenon DEF Replays
<1> QED BY <1>1, <1>6, ReplayKept, Zenon

LEMMA ReplayEnsure ==
    ASSUME WriterInv, ReplayInv, NEW w \in Writer, NEW p \in writer[w].todo, Ensures(w, p)
    PROVE  ReplayInv'
<1>1. /\ Others(w) /\ UNCHANGED <<db, processes, last>>
      /\ \A f \in Fields \ {"todo", "locks", "made"} : writer'[w][f] = writer[w][f]
  BY EnsureDoes, Zenon
<1>2. /\ writer'[w].pc = writer[w].pc /\ writer'[w].batch = writer[w].batch
      /\ writer'[w].rows = writer[w].rows /\ writer'[w].stmts = writer[w].stmts
  BY <1>1 DEF Fields
<1>3. Replays(writer[w], db, last)
  BY Zenon DEF ReplayInv
<1>4. Replays(writer'[w], db, last)
  BY <1>2, <1>3, Zenon DEF Replays, Progress, Repeats
<1> QED BY <1>1, <1>4, ReplayKept, Zenon

\* A transaction with its rows sees V; s and no other upsert leaves stmts.
Sees(me, D, V) ==
    /\ DOMAIN V = DOMAIN me.rows \cup DOMAIN D
    /\ \A x \in DOMAIN me.rows : V[x] = me.rows[x]
    /\ \A x \in DOMAIN D : x \notin DOMAIN me.rows => V[x] = D[x]
Removes(me, s, left) ==
    /\ s \in me.stmts /\ left \subseteq me.stmts \ {s}
    /\ \A t \in Upserts(me.batch) : t \in me.stmts /\ t \notin left => t = s
Values(R, V) == R \subseteq AllRecords /\ \A row \in DOMAIN V : Genuine(R, row, V[row])
Shapes(D) == \A row \in DOMAIN D : Shaped(row, D[row])

\* new is what the row of upsert s should become.
Fits(me, left, D, b, s, new) ==
    /\ Shaped(s.row, new)
    /\ s.row[1] \notin {"event", "hardware"} => Shows(Kept(me.batch) \ left, s.row, new)
    /\ s.row[1] \in {"event", "hardware"} => s.row \notin DOMAIN D
    /\ me.batch = b => s.row \in DOMAIN D /\ Alike(left \cap Kept(me.batch), s.row, new, D[s.row])

LEMMA KeptUpsert ==
    ASSUME NEW me, Good(me.batch), me.pc = "apply", me.stmts \subseteq Statements(me.batch),
           NEW D, NEW V, Sees(me, D, V), NEW R, Values(R, V), Shapes(D),
           Done(me.batch, me.stmts, V), NEW b, Replays(me, D, b), me.batch = b => Stored(b, D),
           NEW s \in Kept(me.batch), NEW left, Removes(me, s, left)
    PROVE  Fits(me, left, D, b, s,
                IF s.row \in DOMAIN V THEN Updated(s.op, V[s.row], s.rec) ELSE Inserted(s.op, s.rec))
<1> DEFINE row == s.row
           old == V[row]
           done == Kept(me.batch) \ me.stmts
           new == IF row \in DOMAIN V THEN Updated(s.op, old, s.rec) ELSE Inserted(s.op, s.rec)
<1>1. /\ DOMAIN V = DOMAIN me.rows \cup DOMAIN D
      /\ \A x \in DOMAIN me.rows : V[x] = me.rows[x]
      /\ \A x \in DOMAIN D : x \notin DOMAIN me.rows => V[x] = D[x]
      /\ R \subseteq AllRecords /\ \A x \in DOMAIN V : Genuine(R, x, V[x])
      /\ \A x \in DOMAIN D : Shaped(x, D[x])
      /\ s \in me.stmts /\ left \subseteq me.stmts \ {s}
      /\ \A t \in Kept(me.batch) : t \in me.stmts /\ t \notin left => t = s
  BY Zenon DEF Sees, Values, Shapes, Removes, Kept
<1>2. Progress(me, D) /\ (me.batch = b => Repeats(me, D))
  BY Zenon DEF Replays
<1>3. Kept(me.batch) \ left = done \cup {s}
  BY <1>1, Zenon
<1>4. row[1] \notin {"event", "hardware"}
  BY KeptIs, Zenon
<1>5. CASE row \in DOMAIN V
  <2>1. new = Updated(s.op, old, s.rec)
    BY <1>5, Zenon
  <2>2. Shaped(row, old) /\ Genuine(R, row, old)
    BY <1>1, <1>5, Zenon DEF Replays
  <2>3. Shows(done, row, old)
    <3>1. CASE row \in DOMAIN me.rows
      BY <1>1, <1>2, <1>4, <3>1, Zenon DEF Progress
    <3>2. CASE row \notin DOMAIN me.rows
      <4>1. \A t \in done : t.row # row
        BY <1>2, <3>2, Zenon DEF Progress
      <4> HIDE DEF done
      <4> QED BY <4>1, Zenon DEF Shows
    <3> QED BY <3>1, <3>2, Zenon
  <2>4. ASSUME NEW t \in done, t.row = row
        PROVE  Before(t, s) /\ RecordLevel(row, t.rec) \in Nat /\ RecordLevel(row, t.rec) <= Level(row, old)
    <3>1. Before(t, s)
      BY <1>1, <1>2, Zenon DEF Progress
    <3>2. t \in Upserts(me.batch) \ me.stmts /\ t \in Kept(me.batch)
      BY Zenon DEF Kept
    <3>3. Covers(t.row, V[t.row], t.rec)
      BY <3>2, Zenon DEF Done
    <3> HIDE DEF old, done
    <3>4. Covers(row, old, t.rec)
      BY <2>4, <3>3, Zenon DEF old
    <3>5. RecordLevel(t.row, t.rec) \in Nat /\ RecordLevel(t.row, t.rec) <= Level(t.row, old)
      BY <2>4, <3>2, <3>4, LevelCovers, Zenon
    <3> QED BY <2>4, <3>1, <3>5, Zenon
  <2> HIDE DEF old, done, new
  <2>5. Shows(done \cup {s}, row, new)
    BY <1>1, <2>1, <2>2, <2>3, <2>4, ShowsUpsert, Zenon
  <2>6. Shaped(row, new)
    <3>1. UpsertLeaves(row, s.rec, old, new)
      BY <1>1, <2>1, <2>2, UpsertEffect, Zenon
    <3> QED BY <3>1, Zenon DEF UpsertLeaves
  <2>7. ASSUME me.batch = b PROVE row \in DOMAIN D /\ Alike(left \cap Kept(me.batch), row, new, D[row])
    <3> DEFINE d == D[row]
               S == me.stmts \cap Kept(me.batch)
               T == left \cap Kept(me.batch)
    <3>1. s \in Upserts(me.batch) \ {}
      BY Zenon DEF Kept
    <3>2. row \in DOMAIN D /\ Covers(row, d, s.rec) /\ Shows(Kept(me.batch), row, d)
      BY <2>7, <3>1, Zenon DEF Stored, Done
    <3>3. Alike(S, row, old, d)
      <4>1. CASE row \in DOMAIN me.rows
        BY <1>1, <1>2, <2>7, <4>1, Zenon DEF Repeats, old
      <4>2. CASE row \notin DOMAIN me.rows
        <5>1. old = d
          BY <1>1, <3>2, <4>2, Zenon DEF old
        <5> HIDE DEF d, S
        <5> QED BY <5>1, AlikeSelf, Zenon
      <4> QED BY <4>1, <4>2
    <3>4. \A t \in S : t # s => t \in T
      BY <1>1, Zenon
    <3>5. ASSUME NEW t \in Kept(me.batch), NEW c, Overrides(t, s, c) PROVE t \in T
      <4>1. t \in Statements(me.batch) /\ s \in Statements(me.batch) /\ Before(s, t)
        BY <3>5, Zenon DEF Kept, Upserts, Overrides
      <4>2. ~Before(t, s) /\ t # s
        BY <4>1, BeforeOnce, Zenon
      <4>3. t \in me.stmts
        BY <1>1, <1>2, <4>2, Zenon DEF Progress
      <4> QED BY <1>1, <4>2, <4>3, Zenon
    <3> HIDE DEF d, S, T
    <3>6. Alike(T, row, Updated(s.op, old, s.rec), d)
      BY <1>1, <2>2, <3>2, <3>3, <3>4, <3>5, AlikeUpsert, Zenon
    <3> QED BY <2>1, <3>2, <3>6, Zenon DEF T, d
  <2> QED BY <1>3, <1>4, <2>5, <2>6, <2>7, Zenon DEF Fits, new, old, row
<1>6. CASE row \notin DOMAIN V
  <2>1. new = Inserted(s.op, s.rec)
    BY <1>6, Zenon
  <2>2. \A t \in done : t.row # s.row
    BY <1>1, <1>2, <1>6, Zenon DEF Progress
  <2>3. me.batch # b
    <3>1. s \in Upserts(me.batch) \ {}
      BY Zenon DEF Kept
    <3> QED BY <1>1, <1>6, <3>1, Zenon DEF Stored, Done
  <2> HIDE DEF done, new
  <2>4. Shows(done \cup {s}, row, new)
    BY <2>1, <2>2, ShowsInsert, Zenon
  <2>5. Shaped(row, new)
    BY <2>1, InsertEffect, Zenon
  <2> QED BY <1>3, <1>4, <2>3, <2>4, <2>5, Zenon DEF Fits, new, old, row
<1> QED BY <1>5, <1>6

\* A transaction gets a row of its own, or another value of it.
LEMMA RowReplays ==
    ASSUME NEW me, NEW now, NEW D, NEW b, Replays(me, D, b), me.pc = "apply", now.batch = me.batch,
           NEW s \in Upserts(me.batch), Removes(me, s, now.stmts), \A t \in me.stmts \ {s} : Before(s, t),
           NEW new, now.rows = Over([x \in {s.row} |-> new], me.rows), Fits(me, now.stmts, D, b, s, new)
    PROVE  Replays(now, D, b)
<1> DEFINE B == me.batch
           done == Kept(B) \ me.stmts
           after == Kept(B) \ now.stmts
<1>1. Progress(me, D) /\ (B = b => Repeats(me, D))
  BY Zenon DEF Replays
<1>2. /\ DOMAIN now.rows = DOMAIN me.rows \cup {s.row} /\ now.rows[s.row] = new
      /\ \A x \in DOMAIN me.rows : x # s.row => now.rows[x] = me.rows[x]
  BY DEF Over
<1>3. /\ now.stmts \subseteq me.stmts \ {s}
      /\ \A t \in Upserts(B) : t \in me.stmts /\ t \notin now.stmts => t = s
  BY Zenon DEF Removes
<1>4. done \subseteq after /\ \A t \in after : t \in done \/ t = s
  BY <1>3, Zenon DEF Kept
<1>5. ASSUME NEW t \in after PROVE t.row \in DOMAIN now.rows /\ \A x \in now.stmts : Before(t, x)
  <2>1. CASE t \in done
    BY <1>1, <1>2, <1>3, <2>1, Zenon DEF Progress
  <2>2. CASE t = s
    BY <1>2, <1>3, <2>2, Zenon
  <2> QED BY <1>4, <2>1, <2>2, Zenon
<1>6. ASSUME NEW row \in DOMAIN now.rows
      PROVE  /\ \E t \in Upserts(B) \ now.stmts : t.row = row
             /\ row[1] \notin {"event", "hardware"} => Shows(after, row, now.rows[row])
             /\ row[1] \in {"event", "hardware"} => row \notin DOMAIN D
             /\ Shaped(row, now.rows[row])
             /\ B = b => row \in DOMAIN D /\ Alike(now.stmts \cap Kept(B), row, now.rows[row], D[row])
  <2>1. CASE row = s.row
    <3>1. \E t \in Upserts(B) \ now.stmts : t.row = row
      BY <1>3, <2>1, Zenon
    <3> QED BY <1>2, <2>1, <3>1, Zenon DEF Fits
  <2>2. CASE row \in DOMAIN me.rows /\ row # s.row
    <3> DEFINE v == now.rows[row]
    <3>1. v = me.rows[row]
      BY <1>2, <2>2, Zenon
    <3>2. /\ \E t \in Upserts(B) \ me.stmts : t.row = row
          /\ row[1] \notin {"event", "hardware"} => Shows(done, row, v)
          /\ row[1] \in {"event", "hardware"} => row \notin DOMAIN D
      BY <1>1, <2>2, <3>1, Zenon DEF Progress
    <3>3. \E t \in Upserts(B) \ now.stmts : t.row = row
      BY <1>3, <3>2, Zenon
    <3>4. Shaped(row, v)
      BY <2>2, <3>1, Zenon DEF Replays
    <3>5. ASSUME B = b PROVE row \in DOMAIN D /\ Alike(now.stmts \cap Kept(B), row, v, D[row])
      <4> DEFINE S == me.stmts \cap Kept(B)
                 T == now.stmts \cap Kept(B)
      <4>1. row \in DOMAIN D /\ Alike(S, row, v, D[row])
        BY <1>1, <2>2, <3>1, <3>5, Zenon DEF Repeats
      <4>2. \A t \in S : t.row = row => t \in T
        BY <1>3, <2>2, Zenon DEF Kept
      <4> HIDE DEF S, T, v, B
      <4>3. Alike(T, row, v, D[row])
        BY <4>1, <4>2, AlikeOther, Zenon
      <4> QED BY <4>1, <4>3, Zenon DEF T
    <3>6. \A t \in after : t \notin done => t.row # row
      BY <1>4, <2>2, Zenon
    <3> HIDE DEF done, after, v
    <3>7. row[1] \notin {"event", "hardware"} => Shows(after, row, v)
      BY <1>4, <3>2, <3>6, ShowsOther, Zenon
    <3> QED BY <3>2, <3>3, <3>4, <3>5, <3>7, Zenon DEF v
  <2> QED BY <1>2, <2>1, <2>2, Zenon
<1>7. Progress(now, D)
  BY <1>5, <1>6, Zenon DEF Progress
<1>8. now.batch = b => Repeats(now, D)
  BY <1>6, Zenon DEF Repeats
<1>9. \A row \in DOMAIN now.rows : Shaped(row, now.rows[row])
  BY <1>6, Zenon
<1> QED BY <1>7, <1>8, <1>9, Zenon DEF Replays

LEMMA ReplayUpsert ==
    ASSUME WriterInv, RowInv, ReplayInv, NEW w \in Writer, NEW s \in writer[w].stmts, ExecUpsert(w, s)
    PROVE  ReplayInv'
<1> DEFINE me == writer[w]
           now == writer'[w]
           R == Written \cup Records(me.batch)
           V == View(w)
           found == s.row \in DOMAIN V
           new == IF found THEN Updated(s.op, V[s.row], s.rec) ELSE Inserted(s.op, s.rec)
<1>1. Keeps(w) /\ me.pc = "apply" /\ Good(me.batch) /\ s \in Statements(me.batch)
  BY RunDoes, Zenon DEF Runs
<1>2. s \in Upserts(me.batch) /\ Removes(me, s, now.stmts)
  BY UpsertRemoves, Zenon DEF Removes
<1>3. now.rows = IF found /\ DoNothing(s.op) THEN me.rows ELSE Over([x \in {s.row} |-> new], me.rows)
  BY UpsertDoes, Zenon
<1>4. now.batch = me.batch
  BY <1>1 DEF Keeps, Fields
<1>5. Replays(me, db, last) /\ Shapes(db)
  BY Zenon DEF ReplayInv, Shapes
<1>6. /\ DOMAIN V = DOMAIN me.rows \cup DOMAIN db
      /\ \A x \in DOMAIN me.rows : V[x] = me.rows[x]
      /\ \A x \in DOMAIN db : x \notin DOMAIN me.rows => V[x] = db[x]
  BY OverIs, Zenon DEF View
<1>7. R \subseteq AllRecords /\ Written \subseteq R
  BY <1>1, WrittenGood, Zenon
<1>8. RowsOk(R, db, me.rows) /\ Done(me.batch, me.stmts, V)
  BY <1>1, Zenon DEF RowInv
<1>9. me.stmts \subseteq Statements(me.batch) /\ \A t \in me.stmts \ {s} : Before(s, t)
  BY Zenon DEF WriterInv, ExecUpsert, IsNext
<1>10. me.batch = last => Stored(last, db)
  <2>1. me.batch # None
    BY <1>1, BatchAssumption, Zenon DEF Good
  <2> QED BY <2>1, Zenon DEF ReplayInv, LastShown
<1> HIDE DEF R
<1>11. Values(R, V) /\ Sees(me, db, V)
  <2>1. \A row \in DOMAIN db : Genuine(R, row, db[row])
    BY <1>7, GenuineMore, Zenon DEF RowInv
  <2>2. \A row \in DOMAIN V : Genuine(R, row, V[row])
    BY <1>6, <1>8, <2>1, Zenon DEF RowsOk
  <2> QED BY <1>6, <1>7, <2>2, Zenon DEF Values, Sees
<1> HIDE DEF me, now, V
<1>12. ASSUME found /\ DoNothing(s.op) PROVE Replays(now, db, last)
  <2>1. now.rows = me.rows /\ now.stmts \subseteq me.stmts
    BY <1>2, <1>3, <1>12, Zenon DEF Removes
  <2>2. \A t \in Kept(me.batch) : t \in me.stmts => t \in now.stmts
    BY <1>2, <1>12, Zenon DEF Kept, Removes
  <2> QED BY <1>1, <1>4, <1>5, <2>1, <2>2, SameRows, Zenon
<1>13. ASSUME ~(found /\ DoNothing(s.op)) PROVE Replays(now, db, last)
  <2>1. now.rows = Over([x \in {s.row} |-> new], me.rows)
    BY <1>3, <1>13, Zenon
  <2>2. Fits(me, now.stmts, db, last, s, new)
    <3>1. CASE DoNothing(s.op)
      <4>1. s.row \notin DOMAIN db
        BY <1>6, <1>13, <3>1, Zenon
      <4>2. s.row[1] \in {"event", "hardware"}
        BY <1>1, <1>2, <3>1, UpsertIs DEF DoNothing
      <4>3. me.batch # last
        BY <1>2, <1>10, <4>1, Zenon DEF Stored, Done
      <4> HIDE DEF new
      <4>4. Shaped(s.row, new)
        BY <4>2 DEF Shaped
      <4> QED BY <4>1, <4>2, <4>3, <4>4, Zenon DEF Fits
    <3>2. CASE ~DoNothing(s.op)
      <4> DEFINE left == now.stmts
      <4>1. s \in Kept(me.batch) /\ Removes(me, s, left)
        BY <1>2, <3>2, Zenon DEF Kept
      <4> HIDE DEF left
      <4>2. Fits(me, left, db, last, s, new)
        BY <1>1, <1>5, <1>8, <1>9, <1>10, <1>11, <4>1, KeptUpsert, Zenon
      <4> QED BY <4>2, Zenon DEF left
    <3> QED BY <3>1, <3>2, Zenon
  <2> HIDE DEF new, found
  <2> QED BY <1>1, <1>2, <1>4, <1>5, <1>9, <2>1, <2>2, RowReplays, Zenon
<1>14. Replays(now, db, last)
  BY <1>12, <1>13, Zenon
<1>15. Others(w) /\ UNCHANGED <<db, processes, last>>
  BY <1>1, Zenon DEF Keeps
<1> QED BY <1>14, <1>15, ReplayKept, Zenon DEF now

\* A snapshot that its transaction did not find stale: the commit stores its
\* processes.
LEMMA CommittedCensus ==
    ASSUME WriterInv, SnapshotInv, NEW w \in Writer, Commit(w),
           NEW s \in Kept(writer[w].batch), s.op = "snapshot", s.row \in DOMAIN writer[w].rows,
           s.rec.ts = writer[w].rows[s.row].ts
    PROVE  ProcessesOf(processes', s.rec.node) = ProcessRows(s.rec)
<1> DEFINE n == s.rec.node
           row == SnapRow(n)
           rows == writer[w].rows
           b == writer[w].batch
           del == writer[w].del
           ins == writer[w].ins
<1>1. /\ writer[w].pc = "apply" /\ writer[w].stmts = {} /\ Good(b)
      /\ processes' = (processes \ del) \cup ins
  BY CommitDoes, Zenon
<1>2. s.rec.ts \in Nat /\ s \in Statements(b)
  BY <1>1, KeptIs, Zenon DEF Kept, Upserts
<1>3. s.loop = 5 /\ s.row = row
  BY <1>2, WhichLoop
<1>4. s \in CensusStmts(Statements(b), n)
  BY <1>2, <1>3, Zenon DEF CensusStmts
<1>5. CensusOk(w, n)
  BY <1>1, Zenon DEF SnapshotInv
<1>6. ~CensusAwaits(w, n)
  BY <1>3, Zenon DEF CensusAwaits
<1>7. ~CensusDropped(w, n)
  <2> SUFFICES ASSUME CensusDropped(w, n) PROVE FALSE
    BY Zenon
  <2>1. rows[row].ts > s.rec.ts
    BY <1>4, Zenon DEF CensusDropped, SnapshotStale
  <2> HIDE DEF row, rows
  <2>2. rows[row].ts = s.rec.ts
    BY <1>3, Zenon DEF rows
  <2> QED BY <1>2, <2>1, <2>2
<1>8. PICK r \in Records(b) : CensusReplaces(w, n, r)
  BY <1>5, <1>6, <1>7, Zenon DEF CensusOk
<1>9. ~Pending(w, n, "delete") /\ ~Pending(w, n, "insert")
  BY <1>1 DEF Pending, CensusStmts
<1>10. /\ s.rec = r
       /\ ProcessesOf(del, n) = ProcessesOf(processes, n) /\ ProcessesOf(ins, n) = ProcessRows(r)
  BY <1>4, <1>8, <1>9, Zenon DEF CensusReplaces
<1>11. ProcessesOf(processes', n) = (ProcessesOf(processes, n) \ ProcessesOf(del, n)) \cup ProcessesOf(ins, n)
  BY <1>1 DEF ProcessesOf
<1> HIDE DEF n, del, ins
<1>12. ProcessesOf(processes', n) = ProcessRows(r)
  BY <1>10, <1>11
<1> QED BY <1>10, <1>12, Zenon DEF n

\* Two transactions with the same batch have no rows to share: the one that
\* commits has them all.
LEMMA NoRival ==
    ASSUME WriterInv, RowInv, ReplayInv, NEW w \in Writer, Commit(w), NEW v \in Writer \ {w},
           writer[v].pc = "apply", writer[v].batch = writer[w].batch
    PROVE  DOMAIN writer[v].rows = {}
<1> SUFFICES ASSUME NEW row \in DOMAIN writer[v].rows PROVE FALSE
  OBVIOUS
<1> DEFINE b == writer[w].batch
<1>1. writer[w].pc = "apply" /\ writer[w].stmts = {} /\ Good(b)
  BY CommitDoes, Zenon
<1>2. Progress(writer[w], db) /\ Progress(writer[v], db)
  BY <1>1, Zenon DEF ReplayInv, Replays
<1>3. PICK t \in Upserts(b) : t.row = row
  BY <1>2, Zenon DEF Progress
<1>4. DOMAIN writer[w].rows \cap DOMAIN writer[v].rows = {}
  BY Zenon DEF RowInv
<1>5. row \notin DOMAIN writer[w].rows
  BY <1>4
<1>6. CASE ~DoNothing(t.op)
  <2>1. t \in Kept(b) \ writer[w].stmts
    BY <1>1, <1>3, <1>6, Zenon DEF Kept
  <2> QED BY <1>2, <1>3, <1>5, <2>1, Zenon DEF Progress
<1>7. CASE DoNothing(t.op)
  <2>1. row[1] \in {"event", "hardware"}
    BY <1>1, <1>3, <1>7, UpsertIs DEF DoNothing
  <2>2. row \notin DOMAIN db
    BY <1>2, <2>1, Zenon DEF Progress
  <2>3. Done(b, {}, Over(writer[w].rows, db))
    BY <1>1, Zenon DEF RowInv, View
  <2>4. row \in DOMAIN Over(writer[w].rows, db)
    BY <1>3, <2>3, Zenon DEF Done
  <2>5. DOMAIN Over(writer[w].rows, db) = DOMAIN writer[w].rows \cup DOMAIN db
    BY OverIs, Zenon
  <2> QED BY <1>5, <2>2, <2>4, <2>5
<1> QED BY <1>6, <1>7

LEMMA ReplayCommit ==
    ASSUME WriterInv, RowInv, SnapshotInv, ReplayInv, NEW w \in Writer, Commit(w)
    PROVE  ReplayInv'
<1> DEFINE b == writer[w].batch
           rows == writer[w].rows
<1>1. /\ Starts(w, "idle", <<>>, {}, {}, FALSE) /\ writer[w].pc = "apply" /\ writer[w].stmts = {} /\ Good(b)
  BY CommitDoes, Zenon
<1>2. db' = Over(rows, db) /\ last' = b
  BY Zenon DEF Commit, View
<1>3. /\ DOMAIN db' = DOMAIN rows \cup DOMAIN db
      /\ \A x \in DOMAIN rows : db'[x] = rows[x]
      /\ \A x \in DOMAIN db : x \notin DOMAIN rows => db'[x] = db[x]
  <2>1. /\ DOMAIN Over(rows, db) = DOMAIN rows \cup DOMAIN db
        /\ \A x \in DOMAIN rows : Over(rows, db)[x] = rows[x]
        /\ \A x \in DOMAIN db : x \notin DOMAIN rows => Over(rows, db)[x] = db[x]
    BY OverIs, Zenon
  <2> QED BY <1>2, <2>1, Zenon
<1>4. db' = [row \in DOMAIN db' |-> db'[row]]
  BY <1>2 DEF Over
<1>5. Replays(writer[w], db, last) /\ Progress(writer[w], db)
  BY <1>1, Zenon DEF ReplayInv, Replays
<1>6. ASSUME NEW row \in DOMAIN db' PROVE Shaped(row, db'[row])
  <2>1. CASE row \in DOMAIN rows
    BY <1>3, <1>5, <2>1, Zenon DEF Replays
  <2>2. CASE row \notin DOMAIN rows
    BY <1>3, <2>2, Zenon DEF ReplayInv
  <2> QED BY <2>1, <2>2, Zenon
<1>7. ASSUME NEW s \in Kept(b) PROVE s.row \in DOMAIN rows /\ db'[s.row] = rows[s.row] /\ Shows(Kept(b), s.row, db'[s.row])
  <2>1. Kept(b) \ writer[w].stmts = Kept(b)
    BY <1>1
  <2>2. s.row[1] \notin {"event", "hardware"}
    BY <1>1, KeptIs
  <2>3. s.row \in DOMAIN rows
    BY <1>5, <2>1, Zenon DEF Progress
  <2>4. Shows(Kept(b), s.row, rows[s.row])
    BY <1>5, <2>1, <2>2, <2>3, Zenon DEF Progress
  <2> QED BY <1>3, <2>3, <2>4, Zenon
<1>8. Done(b, {}, db')
  BY <1>1, <1>2, Zenon DEF RowInv, View
<1>9. LastShown'
  <2>1. ASSUME NEW s \in Kept(b), s.op = "snapshot", s.rec.ts = db'[s.row].ts
        PROVE  ProcessesOf(processes', s.rec.node) = ProcessRows(s.rec)
    <3>1. s.row \in DOMAIN rows /\ s.rec.ts = rows[s.row].ts
      BY <1>7, <2>1, Zenon
    <3> QED BY <2>1, <3>1, CommittedCensus, Zenon
  <2>2. Stored(b, db')
    BY <1>7, <1>8, Zenon DEF Stored
  <2> QED BY <1>1, <1>2, <2>1, <2>2, Zenon DEF LastShown
<1>10. ASSUME NEW v \in Writer PROVE Replays(writer'[v], db', b)
  <2>1. CASE v = w
    <3>1. writer'[w].rows = NoRows /\ writer'[w].pc # "apply"
      BY <1>1 DEF Starts
    <3>2. DOMAIN writer'[w].rows = {}
      BY <3>1, NoRowsIs, Zenon
    <3> QED BY <2>1, <3>1, <3>2, Zenon DEF Replays
  <2>2. CASE v # w
    <3>1. writer'[v] = writer[v]
      BY <1>1, <2>2, Zenon DEF Starts, Others
    <3>2. Replays(writer[v], db, last)
      BY Zenon DEF ReplayInv
    <3>3. DOMAIN rows \cap DOMAIN writer[v].rows = {}
      BY <2>2, Zenon DEF RowInv
    <3>4. \A row \in DOMAIN writer[v].rows : row \notin DOMAIN db => row \notin DOMAIN db'
      BY <1>3, <3>3
    <3>5. writer[v].pc = "apply" => Progress(writer[v], db')
      <4>1. writer[v].pc = "apply" => Progress(writer[v], db)
        BY <3>2, Zenon DEF Replays
      <4> QED BY <3>4, <4>1, Zenon DEF Progress
    <3>6. ASSUME writer[v].pc = "apply", writer[v].batch = b PROVE Repeats(writer[v], db')
      <4>1. DOMAIN writer[v].rows = {}
        BY <2>2, <3>6, NoRival, Zenon
      <4> QED BY <4>1, Zenon DEF Repeats
    <3> QED BY <3>1, <3>2, <3>5, <3>6, Zenon DEF Replays
  <2> QED BY <2>1, <2>2, Zenon
<1>11. \A v \in Writer : Replays(writer'[v], db', last')
  BY <1>2, <1>10, Zenon
<1> QED BY <1>4, <1>6, <1>9, <1>11, Zenon DEF ReplayInv

LEMMA ReplayInit == ASSUME Init PROVE ReplayInv
<1>1. Idle.pc # "apply" /\ Idle.rows = NoRows
  BY DEF Idle
<1>2. \A w \in Writer : writer[w] = Idle
  BY DEF Init
<1>3. DOMAIN db = {} /\ db = [row \in DOMAIN db |-> db[row]] /\ last = None
  BY DEF Init, NoRows
<1>4. \A w \in Writer : Replays(writer[w], db, last)
  BY <1>1, <1>2, NoRowsIs, Zenon DEF Replays
<1> QED BY <1>3, <1>4, Zenon DEF ReplayInv, LastShown

LEMMA ReplayStep ==
    ASSUME WriterInv, RowInv, SnapshotInv, ReplayInv, [Next]_vars
    PROVE  ReplayInv'
<1>1. CASE UNCHANGED vars
  BY <1>1, Zenon DEF ReplayInv, LastShown, vars
<1>2. ASSUME NEW w \in Writer, NEW s \in writer[w].stmts, Runs(w, s) PROVE ReplayInv'
  BY <1>2, ReplayUpsert, ReplayOther, Zenon DEF Runs
<1>3. ASSUME NEW w \in Writer, NEW p \in writer[w].todo, Ensures(w, p) PROVE ReplayInv'
  BY <1>3, ReplayEnsure, Zenon
<1>4. ASSUME NEW w \in Writer, Restarts(w) PROVE ReplayInv'
  BY <1>4, ReplayRestart, Zenon
<1>5. ASSUME NEW w \in Writer, Commit(w) PROVE ReplayInv'
  BY <1>5, ReplayCommit, Zenon
<1> QED BY <1>1, <1>2, <1>3, <1>4, <1>5, StepKinds, Zenon

\* A batch that is committed once more: nothing is left to come, so the rows are
\* the stored ones; a census that is not stale is the stored one.
LEMMA RepeatedCommit ==
    ASSUME WriterInv, RowInv, SnapshotInv, ReplayInv, NEW w \in Writer, Commit(w), writer[w].batch = last
    PROVE  UNCHANGED <<db, processes>>
<1> DEFINE b == writer[w].batch
           rows == writer[w].rows
           del == writer[w].del
           ins == writer[w].ins
<1>1. /\ writer[w].pc = "apply" /\ writer[w].stmts = {} /\ Good(b)
      /\ db' = Over(rows, db) /\ processes' = (processes \ del) \cup ins
  BY CommitDoes, Zenon DEF View
<1>2. Progress(writer[w], db) /\ Repeats(writer[w], db) /\ \A row \in DOMAIN rows : Shaped(row, rows[row])
  BY <1>1, Zenon DEF ReplayInv, Replays
<1>3. LastShown /\ last # None
  <2>1. b # None
    BY <1>1, BatchAssumption, Zenon DEF Good
  <2> QED BY <2>1, Zenon DEF ReplayInv
<1>4. ASSUME NEW row \in DOMAIN rows PROVE row \in DOMAIN db /\ rows[row] = db[row]
  <2>1. row \in DOMAIN db /\ Alike(writer[w].stmts \cap Kept(b), row, rows[row], db[row])
    BY <1>2, Zenon DEF Repeats
  <2>2. writer[w].stmts \cap Kept(b) = {}
    BY <1>1
  <2>3. Alike({}, row, rows[row], db[row])
    BY <2>1, <2>2, Zenon
  <2>4. row[1] \notin {"event", "hardware"}
    BY <1>2, <2>1, Zenon DEF Progress
  <2>5. PICK t \in Upserts(b) : t.row = row
    BY <1>2, Zenon DEF Progress
  <2>6. row[1] \in {"summary", "nodes", "live_nodes", "live_snapshots"}
    BY <1>1, <2>4, <2>5, UpsertIs
  <2>7. Shaped(row, rows[row]) /\ Shaped(row, db[row])
    BY <1>2, <2>1, Zenon DEF ReplayInv
  <2> QED BY <2>1, <2>3, <2>6, <2>7, SameRow
<1>5. db' = db
  <2>1. db = [row \in DOMAIN db |-> db[row]]
    BY Zenon DEF ReplayInv
  <2>2. Over(rows, db) = [row \in DOMAIN db |-> db[row]]
    <3> HIDE DEF rows
    <3> QED BY <1>4 DEF Over
  <2> QED BY <1>1, <2>1, <2>2, Zenon
<1>6. ASSUME NEW n PROVE ProcessesOf(processes', n) = ProcessesOf(processes, n)
  <2> DEFINE row == SnapRow(n)
             Same == ProcessesOf(processes', n) = ProcessesOf(processes, n)
  <2>1. CensusStays(n) \/ \E r \in Records(b) : CensusBecomes(w, n, r)
    BY CommitCensus, Zenon
  <2>2. ASSUME NEW r \in Records(b), CensusBecomes(w, n, r) PROVE Same
    <3>0. /\ row \in DOMAIN rows /\ r.kind = "live_processes" /\ r.node = n /\ r.ts = db'[row].ts
          /\ \A s \in CensusStmts(Statements(b), n) : s.rec = r
      BY <2>2, Zenon DEF CensusBecomes
    <3>1. row \in RowsOf(r)
      BY <3>0, Zenon DEF RowsOf
    <3>2. PICK s \in Upserts(b) : s.row = row
      BY <1>1, <3>1, HasRowUpsert, Zenon
    <3>3. s \in Statements(b)
      BY <3>2, Zenon DEF Upserts
    <3>4. row[1] = "live_snapshots"
      BY SnapRowIs, Zenon
    <3>5. s.op = "snapshot" /\ s.row = SnapRow(s.rec.node) /\ s.loop = 5
      BY <3>2, <3>3, <3>4, WhichLoop
    <3>6. s.rec.node = n
      BY <3>2, <3>5, SnapRowIs, Zenon
    <3>7. s \in Kept(b)
      BY <3>2, <3>5 DEF Kept, DoNothing
    <3>8. s.rec = r
      BY <3>0, <3>3, <3>5, <3>6, Zenon DEF CensusStmts
    <3>9. s.rec.ts = db[s.row].ts /\ s.row \in DOMAIN rows /\ s.rec.ts = rows[s.row].ts
      BY <1>4, <1>5, <3>0, <3>2, <3>8, Zenon
    <3>10. ProcessesOf(processes, n) = ProcessRows(s.rec)
      BY <1>3, <3>5, <3>6, <3>7, <3>9, Zenon DEF LastShown
    <3>11. ProcessesOf(processes', n) = ProcessRows(s.rec)
      BY <3>5, <3>6, <3>7, <3>9, CommittedCensus, Zenon
    <3> QED BY <3>10, <3>11, Zenon
  <2> QED BY <2>1, <2>2, Zenon DEF CensusStays
<1>7. processes' = processes
  <2>1. \A p : p \in processes' <=> p \in ProcessesOf(processes', p.node)
    BY Zenon DEF ProcessesOf
  <2>2. \A p : p \in processes <=> p \in ProcessesOf(processes, p.node)
    BY Zenon DEF ProcessesOf
  <2>3. \A p : p \in processes' <=> p \in processes
    BY <1>6, <2>1, <2>2, Zenon
  <2> QED BY <2>3
<1> QED BY <1>5, <1>7, Zenon

\* write() replayed from the spool after a lost acknowledgement: when the batch
\* of the latest commit is committed again, by whichever writer and however its
\* statements interleaved with those of others, every table is as it was.  The
\* keys, the guards of the upserts and the order of the statements are enough.
THEOREM ReplayIsIdle == Spec => ReplayChangesNothing
<1> DEFINE Inv == WriterInv /\ RowInv /\ SnapshotInv /\ ReplayInv
           Once == \A w \in Writer : Commit(w) /\ writer[w].batch = last => UNCHANGED <<db, processes>>
<1>1. Init => Inv
  BY WriterInit, RowInit, SnapshotInit, ReplayInit
<1>2. Inv /\ [Next]_vars => Inv'
  BY WriterStep, RowStep, SnapshotStep, ReplayStep
<1>3. Inv /\ [Next]_vars => [Once]_vars
  BY RepeatedCommit, Zenon
<1> QED BY <1>1, <1>2, <1>3, PTL DEF Spec, ReplayChangesNothing
=============================================================================
