--------------------------- MODULE DatabaseWriter ---------------------------
(***************************************************************************)
(* DatabaseWriter (database/writer.py): a batch of records becomes one     *)
(* PostgreSQL transaction of upserts.  A statement is one step, so two     *)
(* writers (a collector and the writer thread of the one it replaced) may  *)
(* interleave; the server gives each statement the committed rows, and     *)
(* keeps every row a transaction touched locked until it ends.             *)
(*                                                                         *)
(* db holds the rows of all tables, by table and key; live_processes is a  *)
(* table of its own, because it is replaced by DELETE and INSERT.  Record  *)
(* contents are stamped with the record's time, so that an older value is  *)
(* told from a newer one.  Batches are written in any order, and again.    *)
(***************************************************************************)
EXTENDS Integers, Sequences, FiniteSetsExt

CONSTANTS Writer,     \* processes that write to this database
          Node,
          Batches,    \* the batches they may write: sequences of records
          Cutoff,     \* now - retention: older rows of partitioned tables are not written
          MonthLen,   \* a partition holds this many units of time
          None

VARIABLES db, processes,  \* committed rows; the live_processes rows of each node
          partitions,     \* pairs of a table and a month
          writer,         \* what each writer is doing
          applied, last   \* history: batches committed, and the latest of them

vars == <<db, processes, partitions, writer, applied, last>>

Month(t) == t \div MonthLen
Partitioned(r) == r.kind \in {"summary", "event"}

\* _plan: a malformed record refuses the batch; rows beyond retention go.
Malformed(recs) == \E i \in DOMAIN recs : recs[i].kind = "unknown" \/ recs[i].ts = None
Plan(recs) == {i \in DOMAIN recs : ~(Partitioned(recs[i]) /\ recs[i].ts < Cutoff)}
OfKind(recs, k) == {i \in Plan(recs) : recs[i].kind = k}
Months(recs) == {<<recs[i].kind, Month(recs[i].ts)>> : i \in OfKind(recs, "summary") \cup OfKind(recs, "event")}

HasColumns(r) == r.kind \in {"live_node", "node_hardware"}

\* Batches are sequences of records with the fields of their kind.
ASSUME BatchAssumption ==
    /\ None \notin Nat \cup Batches
    /\ \A b \in Batches : Len(b) \in Nat /\ DOMAIN b = 1..Len(b)
    /\ \A b \in Batches : ~Malformed(b) => \A i \in DOMAIN b :
         /\ b[i].kind \in {"summary", "event", "live_node", "node_hardware", "live_processes"}
         /\ b[i].ts \in Nat
         /\ b[i].kind = "summary" => b[i].count \in Nat
         /\ HasColumns(b[i]) => b[i].cols \in [DOMAIN b[i].cols -> Nat \cup {None}]

\* The values of columns are stamps: a later record of a node has no older one.
\* Every node has a label.
ASSUME StampAssumption ==
    \A a, b \in {x \in Batches : ~Malformed(x)} : \A i \in DOMAIN a, j \in DOMAIN b :
        HasColumns(a[i]) /\ HasColumns(b[j]) /\ a[i].node = b[j].node /\ a[i].ts <= b[j].ts =>
            /\ "label" \in DOMAIN a[i].cols => a[i].cols["label"] # None
            /\ \A c \in DOMAIN a[i].cols \cap DOMAIN b[j].cols :
                  a[i].cols[c] # None /\ b[j].cols[c] # None => a[i].cols[c] <= b[j].cols[c]

ByMonth(p, q) == p[2] < q[2] \/ (p[2] = q[2] /\ p[1] = "event" /\ q[1] # "event")  \* Mutant

\* By table, then by month: the tables' names are in the order event, summary.
SortsBefore(p, q) == (p[1] = "event" /\ q[1] # "event") \/ (p[1] = q[1] /\ p[2] < q[2])

\* The live_processes records of node n; the last of the newest is written.
CensusesOf(recs, n) == {i \in OfKind(recs, "live_processes") : recs[i].node = n}
NewestCensus(recs, i) ==
    \A j \in CensusesOf(recs, recs[i].node) :
        recs[j].ts < recs[i].ts \/ (recs[j].ts = recs[i].ts /\ j <= i)

\* A statement, and its place: the loop of _apply, the record, the call.
Stmt(loop, at, call, op, row, rec) ==
    [loop |-> loop, at |-> at, call |-> call, op |-> op, row |-> row, rec |-> rec]

Before(s, t) ==
    \/ s.loop < t.loop
    \/ s.loop = t.loop /\ s.at < t.at
    \/ s.loop = t.loop /\ s.at = t.at /\ s.call < t.call

\* _apply: the statements of a batch, partitioned tables first.  The snapshots
\* are in the order of the dict, by the first record of each node.
Statements(recs) ==
    LET Each(loop, kind, call, op, row(_)) ==
            {Stmt(loop, i, call, op, row(recs[i]), recs[i]) : i \in OfKind(recs, kind)}
        Snapshot(call, op, table) ==
            {Stmt(5, Min(CensusesOf(recs, recs[i].node)), call, op, <<table, recs[i].node>>, recs[i]) :
                i \in {j \in OfKind(recs, "live_processes") : NewestCensus(recs, j)}}
    IN  Each(1, "summary", 1, "summary", LAMBDA r : <<"summary", r.key>>)
        \cup Each(2, "event", 1, "event", LAMBDA r : <<"event", r.key>>)
        \cup Each(3, "node_hardware", 1, "hardware", LAMBDA r : <<"hardware", <<r.node, r.boot_id>>>>)
        \cup Each(3, "node_hardware", 2, "node", LAMBDA r : <<"nodes", r.node>>)
        \cup Each(4, "live_node", 1, "live_node", LAMBDA r : <<"live_nodes", r.node>>)
        \cup Each(4, "live_node", 2, "node", LAMBDA r : <<"nodes", r.node>>)
        \cup Snapshot(1, "snapshot", "live_snapshots")
        \cup Snapshot(2, "delete", "live_processes")
        \cup Snapshot(3, "insert", "live_processes")
-----------------------------------------------------------------------------
(***************************************************************************)
(* The upserts: the row that is inserted, and what a stored row becomes.   *)
(***************************************************************************)
\* The entries of f, and those of g where f has none.
Over(f, g) == [x \in DOMAIN f \cup DOMAIN g |-> IF x \in DOMAIN f THEN f[x] ELSE g[x]]
Col(r, c) == IF c \in DOMAIN r.cols THEN r.cols[c] ELSE None

Inserted(op, r) ==
    CASE op = "summary"   -> [count |-> r.count, ts |-> r.ts]
      [] op = "event"     -> [copies |-> 1]
      [] op = "hardware"  -> [collected_at |-> r.ts]
      [] op = "node"      -> [label |-> Col(r, "label"), boot_id |-> Col(r, "boot_id"),
                              first_seen |-> r.ts, last_seen |-> r.ts]
      [] op = "live_node" -> [updated_at |-> r.ts, cols |-> r.cols]
      [] op = "snapshot"  -> [ts |-> r.ts]

SummaryAlways(old, r) == [count |-> r.count, ts |-> r.ts]  \* Mutant

SummaryUpsert(old, r) == IF r.count >= old.count THEN [count |-> r.count, ts |-> r.ts] ELSE old

\* What ON CONFLICT DO NOTHING is there against.
EventCopied(old) == [old EXCEPT !.copies = @ + 1]

NodeAlways(old, r) ==  \* Mutant: label and boot_id are not guarded by last_seen
    [label |-> IF "label" \in DOMAIN r.cols THEN Col(r, "label") ELSE old.label,
     boot_id |-> IF Col(r, "boot_id") # None THEN Col(r, "boot_id") ELSE old.boot_id,
     first_seen |-> Min({old.first_seen, r.ts}),
     last_seen |-> Max({old.last_seen, r.ts})]

NodeUpsert(old, r) ==
    [label |-> IF "label" \in DOMAIN r.cols /\ r.ts >= old.last_seen
               THEN Col(r, "label") ELSE old.label,
     boot_id |-> IF Col(r, "boot_id") # None /\ r.ts >= old.last_seen
                 THEN Col(r, "boot_id") ELSE old.boot_id,
     first_seen |-> Min({old.first_seen, r.ts}),
     last_seen |-> Max({old.last_seen, r.ts})]

LiveNodeUpsert(old, r) ==
    IF old.updated_at <= r.ts THEN [updated_at |-> r.ts, cols |-> Over(r.cols, old.cols)] ELSE old

SnapshotStale(old, r) == old.ts > r.ts
SnapshotUpsert(old, r) == IF SnapshotStale(old, r) THEN old ELSE [ts |-> r.ts]

Updated(op, old, r) ==
    CASE op = "summary"   -> SummaryUpsert(old, r)
      [] op = "event"     -> EventCopied(old)
      [] op = "node"      -> NodeUpsert(old, r)
      [] op = "live_node" -> LiveNodeUpsert(old, r)
      [] op = "snapshot"  -> SnapshotUpsert(old, r)
      [] OTHER            -> old

HardwareOnly(op) == op = "hardware"  \* Mutant: events have no natural key
DoNothing(op) == op \in {"event", "hardware"}
-----------------------------------------------------------------------------
NoRows == [r \in {} |-> None]
Idle == [pc |-> "idle", batch |-> <<>>, stmts |-> {}, rows |-> NoRows,
         del |-> {}, ins |-> {}, todo |-> {}, locks |-> {}, made |-> {}, created |-> FALSE]

Init ==
    /\ db = NoRows
    /\ processes = {}
    /\ partitions = {}
    /\ writer = [w \in Writer |-> Idle]
    /\ applied = {}
    /\ last = None

\* What a transaction sees: its own rows, and the committed ones.
View(w) == Over(writer[w].rows, db)
Locked(w, row) == \E v \in Writer \ {w} : row \in DOMAIN writer[v].rows

\* write(): plan the batch, connect, open the transaction.
Begin(w, b) ==
    /\ writer[w].pc = "idle"
    /\ ~Malformed(b)
    /\ writer' = [writer EXCEPT ![w] = [Idle EXCEPT !.pc = "apply", !.batch = b,
                                                   !.stmts = Statements(b)]]
    /\ UNCHANGED <<db, processes, partitions, applied, last>>

NoPartition(s) == Partitioned(s.rec) /\ <<s.rec.kind, Month(s.rec.ts)>> \notin partitions

\* CREATE TABLE ... PARTITION OF locks the parent until its transaction ends.
ParentLocked(w, s) ==
    Partitioned(s.rec) /\ \E v \in Writer \ {w} : \E p \in writer[v].made : p[1] = s.rec.kind

\* s is the statement of writer w that is executed next.
IsNext(w, s) ==
    /\ writer[w].pc = "apply" /\ s \in writer[w].stmts
    /\ \A t \in writer[w].stmts \ {s} : Before(s, t)

StaleReplaces(stmts, s) == stmts \ {s}  \* Mutant

\* A stale snapshot leaves the node's processes alone.
AfterStale(stmts, s) == {t \in stmts : ~(t.loop = s.loop /\ t.rec.node = s.rec.node)}

\* One upsert.  DO NOTHING on a row that is there takes no lock.
ExecUpsert(w, s) ==
    LET found == s.row \in DOMAIN View(w)
        old == View(w)[s.row]
        new == IF found THEN Updated(s.op, old, s.rec) ELSE Inserted(s.op, s.rec)
    IN  /\ IsNext(w, s)
        /\ s.op \notin {"delete", "insert"}
        /\ ~ParentLocked(w, s) /\ ~NoPartition(s)
        /\ ~Locked(w, s.row)
        /\ writer' = [writer EXCEPT
              ![w].rows = IF found /\ DoNothing(s.op) THEN @ ELSE Over([x \in {s.row} |-> new], @),
              ![w].stmts = IF s.op = "snapshot" /\ found /\ SnapshotStale(old, s.rec)
                           THEN AfterStale(@, s) ELSE @ \ {s}]
        /\ UNCHANGED <<db, processes, partitions, applied, last>>

\* DELETE FROM live_processes: the rows of the node it can see.
ExecDelete(w, s) ==
    /\ IsNext(w, s)
    /\ s.op = "delete"
    /\ writer' = [writer EXCEPT ![w].del = @ \cup {p \in processes : p.node = s.rec.node},
                                ![w].stmts = @ \ {s}]
    /\ UNCHANGED <<db, processes, partitions, applied, last>>

\* The rows of a census: one for each process, whatever the list repeats.
ProcessRows(r) == {[node |-> r.node, pid |-> p, ts |-> r.ts] : p \in Range(r.processes)}

ExecInsert(w, s) ==
    /\ IsNext(w, s)
    /\ s.op = "insert"
    /\ writer' = [writer EXCEPT ![w].ins = @ \cup ProcessRows(s.rec),
                                ![w].stmts = @ \ {s}]
    /\ UNCHANGED <<db, processes, partitions, applied, last>>

\* CheckViolation "no partition of relation": the attempt is rolled back; the
\* first time the months are created, the second time the error is raised.
MissingPartition(w, s) ==
    LET me == writer[w]
    IN  /\ IsNext(w, s)
        /\ ~ParentLocked(w, s) /\ NoPartition(s)
        /\ writer' = [writer EXCEPT ![w] = IF me.created THEN Idle
                                           ELSE [Idle EXCEPT !.pc = "create", !.batch = me.batch,
                                                             !.todo = Months(me.batch)]]
        /\ UNCHANGED <<db, processes, partitions, applied, last>>

\* p is the partition that writer w makes next.
IsNextMonth(w, p) == p \in writer[w].todo /\ \A q \in writer[w].todo \ {p} : SortsBefore(p, q)

\* ensure_partition, inside the transaction of _create_partitions: the
\* advisory lock of the table, which stays until that ends, and the look.
EnsurePartition(w, p) ==
    /\ writer[w].pc = "create" /\ IsNextMonth(w, p)
    /\ p[1] \notin writer[w].locks \/ p \in partitions
    /\ \A v \in Writer \ {w} : p[1] \notin writer[v].locks
    /\ writer' = [writer EXCEPT ![w].locks = @ \cup {p[1]},
                                ![w].todo = IF p \in partitions THEN @ \ {p} ELSE @]
    /\ UNCHANGED <<db, processes, partitions, applied, last>>

\* The transaction of writer v has inserted into table t.
InUse(v, t) ==
    writer[v].pc = "apply" /\ \E s \in Statements(writer[v].batch) \ writer[v].stmts : s.op = t

\* Not there: CREATE TABLE ... PARTITION OF, once the parent can be locked.
CreateTable(w, p) ==
    /\ writer[w].pc = "create" /\ IsNextMonth(w, p)
    /\ p[1] \in writer[w].locks /\ p \notin partitions
    /\ \A v \in Writer \ {w} : ~InUse(v, p[1])
    /\ writer' = [writer EXCEPT ![w].made = @ \cup {p}, ![w].todo = @ \ {p}]
    /\ UNCHANGED <<db, processes, partitions, applied, last>>

\* It commits, and _apply starts over.
CreatePartitions(w) ==
    LET me == writer[w]
    IN  /\ me.pc = "create" /\ me.todo = {}
        /\ partitions' = partitions \cup me.made
        /\ writer' = [writer EXCEPT ![w] = [Idle EXCEPT !.pc = "apply", !.batch = me.batch,
                                              !.stmts = Statements(me.batch), !.created = TRUE]]
        /\ UNCHANGED <<db, processes, applied, last>>

\* COMMIT; whether its answer arrives makes no difference here: the batch may
\* be written again in any case.
Commit(w) ==
    LET me == writer[w]
    IN  /\ me.pc = "apply" /\ me.stmts = {}
        /\ db' = View(w)
        /\ processes' = (processes \ me.del) \cup me.ins
        /\ writer' = [writer EXCEPT ![w] = Idle]
        /\ applied' = applied \cup {me.batch}
        /\ last' = me.batch
        /\ UNCHANGED partitions

\* A lost connection, a lock timeout, a deadlock the server broke, or a
\* statement it refused: the transaction is rolled back.
Fail(w) ==
    /\ writer[w].pc # "idle"
    /\ writer' = [writer EXCEPT ![w] = Idle]
    /\ UNCHANGED <<db, processes, partitions, applied, last>>

Next ==
    \E w \in Writer :
        \/ \E b \in Batches : Begin(w, b)
        \/ \E s \in writer[w].stmts :
              ExecUpsert(w, s) \/ ExecDelete(w, s) \/ ExecInsert(w, s) \/ MissingPartition(w, s)
        \/ \E p \in writer[w].todo : EnsurePartition(w, p) \/ CreateTable(w, p)
        \/ CreatePartitions(w) \/ Commit(w) \/ Fail(w)

Spec == Init /\ [][Next]_vars
-----------------------------------------------------------------------------
(***************************************************************************)
(* Properties.                                                             *)
(***************************************************************************)
Records(b) == {b[i] : i \in Plan(b)}
Written == UNION {Records(b) : b \in applied}
Of(kind) == {r \in Written : r.kind = kind}

\* Writer v waits for writer w: one that creates for the advisory lock of its
\* next table or for that table itself, one that applies for a row or a table.
WaitsToCreate(v, w) ==
    \E p \in writer[v].todo : IsNextMonth(v, p) /\
        (p[1] \in writer[w].locks \/ (p[1] \in writer[v].locks /\ p \notin partitions /\ InUse(w, p[1])))
WaitsToApply(v, w) ==
    \E s \in writer[v].stmts : IsNext(v, s) /\
        \/ s.row \in DOMAIN writer[w].rows
        \/ Partitioned(s.rec) /\ \E p \in writer[w].made : p[1] = s.rec.kind
Waits(v, w) == v # w /\ (WaitsToCreate(v, w) \/ WaitsToApply(v, w))

\* Types; two writers that create partitions never wait for each other: the
\* tables are locked in one order, whatever order the batch names them in, so
\* that a deadlock (40P01, which the server breaks, and which sends the batch to
\* the spool) takes a writer that is applying.  One that has created its months
\* finds them, retention apart: a second miss would quarantine the batch.
NoCreatorCycle ==
    /\ \A w \in Writer : /\ writer[w].pc \in {"idle", "apply", "create"}
                         /\ writer[w].batch \in Batches \cup {<<>>}
    /\ \A v, w \in Writer :
         Waits(v, w) /\ Waits(w, v) => "apply" \in {writer[v].pc, writer[w].pc}
    /\ \A w \in Writer : writer[w].created => Months(writer[w].batch) \subseteq partitions

\* "Live state only ever moves forward in time" and a summary of fewer samples
\* never overwrites: whatever the order and the number of times the batches
\* were written in, each row is as the newest (fullest) record left it.
NewestStored ==
    /\ \A k \in {r.key : r \in Of("summary")} :
          LET rs == {r \in Of("summary") : r.key = k}
              row == db[<<"summary", k>>]
          IN  /\ \E r \in rs : row = [count |-> r.count, ts |-> r.ts]
              /\ \A r \in rs : r.count <= row.count
    /\ \A n \in {r.node : r \in Of("live_node")} :
          LET rs == {r \in Of("live_node") : r.node = n}
              row == db[<<"live_nodes", n>>]
          IN  /\ \E r \in rs : r.ts = row.updated_at /\ \A c \in DOMAIN r.cols : row.cols[c] = r.cols[c]
              /\ \A r \in rs : r.ts <= row.updated_at
    /\ \A n \in {r.node : r \in Of("live_node") \cup Of("node_hardware")} :
          LET seen == {r.ts : r \in {q \in Of("live_node") \cup Of("node_hardware") : q.node = n}}
          IN  /\ db[<<"nodes", n>>].first_seen = Min(seen)
              /\ db[<<"nodes", n>>].last_seen = Max(seen)
    /\ \A r \in Of("live_processes") : r.ts <= db[<<"live_snapshots", r.node>>].ts

\* The processes stored for a node are those of one census, the one
\* live_snapshots names: the upsert that orders the snapshots also keeps two
\* writers from mixing theirs.
SnapshotWhole ==
    \A n \in Node :
        LET mine == {p \in processes : p.node = n}
            snap == <<"live_snapshots", n>>
        IN  IF snap \notin DOMAIN db THEN mine = {}
            ELSE \E r \in Of("live_processes") :
                    r.node = n /\ r.ts = db[snap].ts /\ mine = ProcessRows(r)

\* "A replayed older one cannot revert them": a node's label and boot_id never
\* go back to an older value, and neither does a live column (which a newer
\* record of a probe that has not said hello yet may empty).
NoReversion ==
    [][\A n \in Node :
         /\ <<"nodes", n>> \in DOMAIN db =>
              LET old == db[<<"nodes", n>>]
                  new == db'[<<"nodes", n>>]
              IN  /\ <<"nodes", n>> \in DOMAIN db'
                  /\ \A c \in {"label", "boot_id"} :
                        old[c] # None => new[c] # None /\ new[c] >= old[c]
         /\ <<"live_nodes", n>> \in DOMAIN db =>
              LET old == db[<<"live_nodes", n>>].cols
                  new == db'[<<"live_nodes", n>>].cols
              IN  /\ <<"live_nodes", n>> \in DOMAIN db' /\ DOMAIN old \subseteq DOMAIN new
                  /\ \A c \in DOMAIN old : old[c] # None /\ new[c] # None => new[c] >= old[c]
      ]_vars

\* "A batch replayed from the spool after a lost acknowledgement changes
\* nothing".
ReplayChangesNothing ==
    [][\A w \in Writer : Commit(w) /\ writer[w].batch = last => UNCHANGED <<db, processes>>]_vars
=============================================================================
