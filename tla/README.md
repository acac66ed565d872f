# A verification of node-monitor

node-monitor watches the login nodes of a system. A collector daemon keeps one
ssh session per node, in which a probe streams counters and censuses; pipelines
turn them into records; a single writer thread writes the records to
PostgreSQL, and spools them on disk while the database does not answer. This
directory holds TLA+ models of the parts in which order, failure and
concurrency matter, the TLC runs that check them on small instances, and TLAPS
proofs for instances of any size. Paths below are relative to
`src/node_monitor/`.

## Inventory

| Part | State | Operations | What makes it hard |
|---|---|---|---|
| Spool (`database/spool.py`) | batch files, `corrupt/`, sequence number | append, evict, quarantine, read, remove | size limit, refused system calls, restarts, wall clock |
| BufferedWriter (`database/buffered.py`) | outage fields, replay failures, skipped files, carried events | submit: store, replay, write, recover, fail | outages between any two steps, ambiguous commits, bad batches, budget, process death |
| DatabaseWriter (`database/writer.py`) | connection, tables | write, ping | idempotent replay, guards against older rows, partitions |
| RecordQueue (`collector/record_queue.py`) | durable list, live rows, closed | put, take, close, depth | two threads, coalescing |
| WriterThread (`collector/writer_thread.py`) | carried events | rounds, final rounds, shutdown | events that travel back, submits that raise, the last look at the queue |
| Daemon and fleet (`collector/daemon.py`, `collector/fleet.py`) | session tasks, stop flag | start, callbacks, crash, stop, flush, join | shutdown order, bounded join |
| Instance lock (`collector/instance.py`, `cli/main.py`) | `daemon.lock`, `daemon.json` | start, stop, status | separate processes, crashes, probes that take the lock |
| Upkeep (`collector/upkeep.py`) | due times, connection | tick, close | retries, a connection that died unnoticed |
| Maintenance (`database/maintenance.py`) | partitions, advisory locks | create, drop | several collectors, lock timeouts, the turn of the month |
| NodeSession (`collector/session.py`) | process group, failures, bye | run, stream, stop | timeouts against lines against stop, probes left behind |
| Pipeline (`pipeline/`) | open minute and interval, pending censuses | counters, census, flush | receive clock that steps back, resets, late messages |
| Probe (`probe/probe.py`) | lock, emitter, gpu state | acquire, emit, watch, census | two threads, signals, stalled reader |
| Migrations (`database/migrate.py`) | schema version | migrate | concurrent processes |

How they meet: sessions (NodeSession) feed pipelines on the event loop
(NodePipeline), whose records go through the queue to the writer thread
(Collector), from there to the database (DatabaseWriter) or the spool
(BufferedWriter); between rounds the thread runs Upkeep. The instance lock keeps
the daemon single, the probe lock the probe.

`PROJECT.json` lists all parts, also those that stay out, and the hazards at
their lines.

## Modules

- **Spool**: the directory as a set of batches, whose total is a fold; `DiskFaults` names the system
  calls that may be refused. A batch is its number in submission order.
- **BufferedWriter** (extends Spool): one `submit()` is a walk through `pc`, one
  step per write, ping, removal, eviction or store, so the database may change
  and the process may die in between. `Rejected`, `Exhausting` and `Damaged` are
  the batches that may fail for good, fail like an outage, or be unreadable. A
  malformed batch is refused even while the database is down (`Refused`), because
  `DatabaseWriter.write` plans a batch before it connects. `Unavailable` leaves
  open whether the commit happened.
- **BatchLedger**: what a BufferedWriter promises about one batch: new, taken,
  stored, written, quarantined, superseded or accounted for.
- **SpoolNames**: file names, the sequence number, restarts and the clock. It
  justifies the order Spool takes for granted.
- **RecordQueue**, **WriterThread**, **Collector**: each extends the one before.
  A queue operation is one step (it holds the lock throughout); the thread's
  look at `closed` and at `depth()` are two. Live state is a function from
  (node, column) to the put that last set it. `submit()` is what WriterThread
  sees of BufferedWriter: it returns events, or raises and keeps them.
- **InstanceLock**: daemons and operator commands as processes, one system call
  per step; the kernel frees a dead holder's lock.
- **DatabaseWriter**: a batch becomes a set of statements (`Statements`), each with
  its place: the loop of `_apply`, the record, the call. The one before all others
  that are left is executed next (`IsNext`), as a step on rows the transaction then
  has locked; what an upsert makes of the stored row is one operator per table.
  What a transaction sees are its own rows over the committed ones (`View`). A
  missing partition rolls back, creates the months and starts over, once. A
  creating transaction has, to its end, the advisory locks of its tables and the
  parents of the partitions it has made (`made`): `CreateTable` waits for everybody
  who has inserted into the table, and inserts wait for it (`ParentLocked`). Records carry their time as their content, so that older values are
  told from newer ones.
- **Maintenance**, **Upkeep**: the first holds the partitions, the advisory locks and
  the work on them, one statement per step; the second extends it by ticks, due
  times, the heartbeat, close and restart, the database's outages and long
  readers, and the passing of time. The partitions still to make or to drop are a
  set, worked off in the code's order (`First`). Time passes while a job runs, and
  the job goes by the time it began at (`Now`), as the code takes `now` once. Each
  collector has its own retention; one that keeps less also stands for one whose
  clock is ahead. Months are relative to the current one, so
  that the state space is finite while months turn for ever.
- **ProbeLock**, **NodeSession**: the flock and the pid file of the probes on a node,
  with takeover by SIGTERM and SIGKILL; then the session that starts them, whose
  connection may be cut, whose probe may stall and whose ssh may no longer heed
  SIGTERM. A signalled process group goes at some time or never; the session waits
  for it as long as the code does, kills it and moves on. The two
  sides share only the lines on their way and the connection, as in the program.
  Intervals are compared, not measured: the order of `healthy_after`,
  `max_lifetime`, `silence_timeout` and the waits of the takeover is that of the
  default configuration.
- **MinuteAggregator**, **UsageAggregator**, **NodePipeline**: the two aggregators and
  the pipeline that decides which samples are late. The open minute, the open
  interval and the previous message are sequences of length one, or empty for the
  code's None. A breakdown counts its keys, a
  process is a name with the row the probe sends for it.
- **GpuQueries**, **Probe**: the suspension of gpu queries; then main loop and watchdog
  around the emitter. A line is two chunks, so that the other thread can come in
  between; the signal handler sets its two fields in two steps.
- The **MC...** modules give instances for TLC. The **...Proofs** modules hold the
  theorems. Definitions marked "Mutant" are deliberately wrong variants of the
  definition after them, for checking that a property can fail. Variables marked
  "history" are not in the program; properties are stated with them.

## Runs

| Run | Bounds | What it shows |
|---|---|---|
| writer_faults | 3 batches, 2 fit; every system call may fail; one batch each live-only, damaged, exhausting, rejected | nothing is lost silently, order is kept, the outage fields agree |
| writer_crash | 3 batches (2 live-only) of 1 or 2 units, room for 3, one process death, the listing may use up the budget | implements BatchLedger; eviction drops the right batches |
| writer_liveness | 2 batches, moves and removals may fail | the spool drains, the outage ends, under fairness |
| spool_names | 4 writes, clock to 3 | names list in write order and never collide |
| collector | 2 nodes, 2 columns, 4 puts, 2 events, 1 final round | records are handed over once and in order, events are kept, shutdown ends |
| instance_lock | 3 daemons, 2 commands, `daemon.lock` exists | one daemon, truthful `stop`, `daemon.json` stays |
| instance_lock_clobber | 2 daemons, 2 commands, a new directory | **violated**, see below |
| database_writer | 2 writers, 4 batches of 2 nodes | rows are of the newest record, replay changes nothing, snapshots are whole, two writers that create partitions never wait for each other |
| upkeep | 2 collectors, 1 table, months of 2 units kept for 2 and 3 units, 2 ahead, maintenance every 3 units, up to 1 unit during a job | creates do not collide, no month goes that a batch needs and all collectors still keep, maintenance catches up, "stopped" is recorded |
| node_session | 3 probes, 2 faults | only the holder of the lock is signalled, ends are reported once, no tight loop; streams again and stops under fairness |
| node_pipeline | 2 sessions, 4 messages, clock to 3, set back once, 2 pending censuses | rows in order and once, samples counted once, rates of sessions only, sums agree |
| probe | 2 counters, 9 lines, 2 equal failures suspend for 1 census | whole lines, queries are suspended; signals and hangups end it under fairness |

Why the bounds are enough:

- Three batches let one wait, one be written and one arrive, and a spool of two
  makes room at the third. The code has three final rounds, the run one, with one
  more event than rounds, so that an event can be left over; the proofs are for
  any number. Two nodes and two columns tell a row from its parts. Three daemons
  let one crash, one run and one start.
- The four batches of `MCDatabaseWriter` repeat keys on purpose: a minute with
  fewer samples than before, a census older than one in the same batch, an event
  written twice, a node that reboots, two months and two tables in either order, a
  row beyond retention.
- In `upkeep` one collector keeps rows for a month and the other for longer, a unit
  may pass within a job (`MaxAge`), so that a job begins in one month and ends in
  the next, and maintenance rarer than the turn
  of months (one month is two units, the interval three), which is the hard case;
  in the program it is far more frequent. `CatchesUp` is a
  bounded form of liveness: after the database has been calm for `CalmUnits`.
- Three probes are one left by a cut, one that takes over from it and one that
  comes next while both are still there; two faults cut the connection and stall
  the probe, or make the client deaf to SIGTERM.
- A clock to 3 has three closed minutes and two intervals of two minutes. One step
  back reaches any earlier time.
- Nine lines in `probe` leave room for two failing censuses, a
  suspension and a third failure, which is where the count matters.

CHECK_DEADLOCK is off where the modelled program ends (Collector) or the bounds
on writes and clock run out (SpoolNames). The other modules that end
(NodeSession, NodePipeline, Probe) stutter in their last state instead.

### A disagreement with a comment

`instance_lock_clobber` checks a sentence of `collector/instance.py`: clear_stale
is "Done while holding the lock so a daemon starting right now is not clobbered".
Before `daemon.lock` exists it removes `daemon.json` without any lock, and a daemon
that starts in between loses its file.

### Known limits

These follow from the code as it is; the models leave them in or state their
properties around them.

1. A live-only spool file is dropped as superseded although the newer one holds
   other nodes (`database/buffered.py:178`, known: `docs/m1c-followups.md:51`).
2. File names sort in write order only while the wall clock does not step back
   (`database/spool.py:192`). `NewestStored` and `NoReversion` show why rows survive
   a replay in the wrong order all the same.
3. The events of a submit that raises at the very end are not returned by a next
   one (`collector/writer_thread.py:91`).
4. After a join timeout the instance lock is released while the writer thread
   still writes (`cli/main.py:515`, known: `docs/m1c-followups.md:64`). This is why
   DatabaseWriter has two writers.
5. `running_info` may return the file of a dead daemon, when the lock is held by a
   daemon that has not written its own yet, or by another command's probe.
6. Two collectors that list the same expired partition both drop it; the second
   has an error, and the rest of its maintenance waits for the retry.
7. After the receive clock was set back, samples are late until it has caught up;
   the first rate afterwards has counters of more time than its own.
8. A writer that creates partitions and one that applies a batch may deadlock: the
   first has made a partition of one table and waits for the parent of the next
   (`database/maintenance.py:87`), into which the second has inserted before it came
   to the table of the first. Two writers that apply may, over rows. The server
   ends one of the two (40P01), whose batch is spooled and tried again.
   `NoCreatorCycle` says that two writers that create never do.
9. A batch whose month expires between its plan and its second attempt, as time
   passes or because another collector on the same tables keeps less, is refused a
   second time (`database/writer.py:259`) and quarantined. `SecondApplyFits` says that
   there is no other reason.

## Fairness

- BufferedWriter: the writer thread finishes each `submit()` and calls it again,
  and time passes. No fairness is assumed of the database; the properties say
  "once it stays up". WriterThread never submits an empty list, so in this model
  the empty call stands for later calls after the bounded batches are used up:
  an idle collector with nothing to submit does not replay its spool. A submit
  handles at least one file before its budget is over (`SlowListing` is off in
  the liveness run).
- Collector: event loop and thread run, and a session told to stop ends, as
  `_end_process_group` bounds every wait.
- NodeSession: the event loop and the node's kernel run everything that can run,
  timers fire, and ssh follows its remote command. Nothing makes sshd notice a cut
  connection, so a probe may be left behind for ever; a stalled probe resumes.
  Faults are bounded by `MaxFaults`, so `StreamsAgain` says "once they are over".
  That a probe finds no pid in the lock file until its wait is over is not taken
  for granted either way (`NoPid` is not in the fairness).
- Probe: both threads are scheduled, the grace of a signal passes, and a handler
  that has begun runs to its end. Nothing is assumed of the reader.

## Proofs

Every theorem is for all values of the constants that the ASSUMEs allow: any
number of batches, nodes, probes, collectors, messages and faults. The ASSUMEs
ask that lengths, limits and intervals are natural numbers, positive where the
configuration's are, that counters are integers, and that `None` is none of the
values it stands beside. The inductive invariants are proved and need no run;
`CollectorInv` is also a run's invariant, as it has as conjuncts that durable
records are handed over in order (`DurableInOrder`), that coalescing hides no last
value (`LiveCoalesced`), that no put meets a closed queue (`NoPutAfterClose`) and
that events are kept (`EventsKept`).

| Module | Theorems | Inductive invariant |
|---|---|---|
| BufferedWriterProofs | `NoSilentLoss`, `WriteOrder`, `OutageCoherent`, `ImplementsLedger`, `EvictionOrder`, `AppendFits` | `WriterInv`, `PlaceInv`, `RoomInv`, `FitInv` |
| CollectorProofs | `CollectorInv`, `AllSubmitted`, `EventsFlushed`; SpoolNames: `ListedInWriteOrder`, `NothingReplaced`; InstanceLock: `SingleDaemon`, `StoppedIsGone`, `NotClobbered` | `CollectorInv`; `NamesInv`; `LockInv` |
| DatabaseWriterProofs | `NoCreatorCycle`, `NewestStored`, `NoReversion` | `WriterInv`, `LockInv`, `RowInv` |
| SnapshotProofs (extends it) | `SnapshotWhole` | `SnapshotInv` |
| ReplayProofs (extends that) | `ReplayChangesNothing` | `ReplayInv` |
| UpkeepProofs | `NoDuplicateCreate`, `SecondApplyFits`, `StoppedIsRecorded` | `LockInv`, `BatchInv`, `ClockInv` |
| SessionProofs | `OnlyHolderSignalled`, `SessionsEnd`, `NoTightLoop`; Probe: `WholeLines`, `SignalNamed`, `SuspendsQueries` | `ProbeLockInv`, `SessionInv`; `ThreadsInv`, `SignalInv`, `GpuInv` |
| NodePipelineProofs | `RowsInOrder`, `SamplesOnce`, `RatesOfSessions`, `PendingCensuses` | `RowsInv`, `HeardInv`, `PendingInv` |

- *BufferedWriter*: `WriterInv` is inductive. Its conjunct `Stages` says which
  batches each stage has dealt with: while files are replayed, every file not
  still to visit is held by the file system or the operator, so that when the
  loop reaches the fresh batch nothing older waits; this gives `WriteOrder`. A
  batch leaves the call's hands only when it is written, stored or named by an
  event; this gives `NoSilentLoss`.
- *BufferedWriter implements BatchLedger*: the ledger reads a batch's status off
  the places it is in, so a batch in two places would have a status that the
  code's next step does not account for. `PlaceInv` excludes this: a batch is in
  the spool, in `corrupt/` or superseded, the batch in progress is in none of
  them, and what a listing holds is still there when the loop reaches it. Then
  each action moves one batch at most (`Moves`), the move is one the ledger
  allows (`MovesAllowed`), and a step that moves none is a stutter. `EvictionOrder`
  needs `RoomInv` besides: only the loop that makes room has evicted anything.
- *Spool*: `AppendFits` needs that the loop stops at an empty spool at the latest
  (`RoomInv`), that the total is then 0, and that it is a number before
  (`TotalType`). The total is a fold: that the sums exist, and are natural numbers,
  is an induction on the number of files, in the form that no least counterexample
  exists (`LeastNatural`, from the well-foundedness of `<`).
- *SpoolNames*: `NamesInv` says that the next name sorts after all files of the
  spool and of `corrupt/`. A restart may lower the sequence number, below a
  file of `corrupt/`, so the proof needs that starting a process takes the clock
  forward.
- *Collector*: `CollectorInv` relates the phases of loop and thread to what queue
  and thread hold; `AllSubmitted` rests on the queue being closed only after the
  last put.
- *InstanceLock*: `LockInv` says who holds the lock in which step.
  `NotClobbered` is proved under `LockFileExists`; without it run
  instance_lock_clobber refutes it.
- *DatabaseWriter*: any number of writers, nodes and batches, written in any order
  and any number of times. `WriterInv` says that what a writer has left to execute
  are statements of its batch. `LockInv`: the lock of a table is taken after those
  of the tables that sort before it, and one writer has it. Two creators that wait
  for each other would each wait for an advisory lock of the other (a parent that is
  in use is in use by a writer that applies), each for one that sorts after its own.
  A month of the batch is to be made, made or there, so that it is there after
  the commit. `RowInv` gives `NewestStored` and
  `NoReversion`. A row is `Genuine`: every part of it comes from a record that was
  written, at the time the row says. It also `Covers` the records written to it: it
  is not older than any, its newest one is in it. A transaction's rows are genuine
  with regard to what was written and to its own batch, and `Ahead` of the committed
  ones in the direction each upsert guards; they cover the statements already
  executed (`Done`), so that a commit, when none is left, covers the batch. This
  survives other writers' commits only because no two transactions have touched the
  same row: the row locks are a conjunct. `SnapshotInv` follows the census of a node
  through a transaction: not begun, dropped as older, or replacing, with the node's
  processes deleted and inserted as far as the statements have come. Its commit
  then puts a whole census in place, and no other transaction can have deleted from
  the rows it replaces, because both would have the node's `live_snapshots` row.
  `ReplayInv` gives `ReplayChangesNothing`. A row has a level (the samples of a
  summary, the time of any other) and columns. The tables show the batch of the
  last commit (`Stored`): at a row's level, each column is as the last statement
  that sets it left it. Records of one batch may have the same level, so a
  transaction that writes this batch again may take a column through earlier
  values; `Alike` says that its rows differ from the stored ones only in columns
  that a statement still to come sets. At its commit none is left, so nothing
  differs. For this a transaction executes its statements in their order
  (`Progress`), and a commit in between has touched none of its rows.
  The two ASSUMEs say that a batch is a finite sequence of records with the fields
  of their kind, and that a column's values are stamps: `NoReversion` compares
  values, and could not tell an older one from a newer one otherwise.
- *Upkeep*: whoever has looked for a partition and not found it, or made it
  without having committed, holds the advisory lock of its table (`LockInv`), so
  nobody else can have made it since. `BatchInv` holds for the batch that is written:
  each of its partitions is there, made, to be made, or past the retention of some
  collector (`Lost`). What is being dropped is past the retention of the collector
  that drops it, by its time and so by now: time only makes months older. What is
  being made was not past its maker's retention when the job began; with the
  assumption on `Oldest` it is therefore never one of the oldest months, which the
  model does not tell apart, even after the longest job (`MaxAge`). A close that still uses its old connection, which may
  have died unnoticed, has both attempts left (`ClockInv`).
- *NodeSession*: the pid in the lock file may be that of a probe that has gone, or
  of one that has not got the lock. `ProbeLockInv` says that a probe others know of
  is past the takeover, and so holds the lock if it is alive. `SessionInv` ties the
  outcome of a session to `bye` and to the stage of its end, and says that a group
  that is there after the second wait has been sent SIGKILL.
- *NodePipeline*: after a step back of the clock the open minute may be later than
  the messages that arrive. `OrderInv` says that it is later than every emitted
  one all the same, and so is the earliest time in it; `RatesInv` that what a session
  has been connected for is at least what the open rates cover and what has
  passed since its last message. `PendingInv` compares the pending censuses with all
  that were heard of: from the open minute on (`Bound`), they are the newest.
- *Probe*: `ThreadsInv` says that whoever is in the middle of a line has the
  emitter's lock, and what has been received since the last whole line is what it
  wrote. `GpuInv` ties the streak of the code to the results that really came.

Only model-checked:

- the liveness properties (`SpoolDrains`, `OutageEnds`, `StopEnds`, `StreamsAgain`,
  `ProbeEnds`), which are out of the prover's reach;
- `UsersAddUp`: it compares sums before and after one cell has changed, and so needs
  that a fold does not depend on the order in which it takes its elements;
- `CatchesUp`, liveness in a bounded form: it holds for some bounds on the calm
  (`CalmUnits`) and not for others, and the proof would have to count the retries.

## Not modelled

Parts:

- *Migrations*: a loop of transactions under an advisory lock; what could go
  wrong lies in the SQL.
- *Rules and redaction* (`pipeline/classify.py`, `rules.py`, `redact.py`), the
  *parsers* of `/proc` and nvidia-smi, the *codec*, *configuration*, *queries* and
  *table output*: stateless text handling.
- *Soak and replay*: a test harness around the pipeline, which is modelled.

In the modelled parts:

- Spool and BufferedWriter: the `rows_beyond_retention` event, time stamps of
  events, a vanishing spool directory, temporary files of a dead process.
- WriterThread and Daemon: the death of the thread by a BaseException, a second
  cancellation of the event loop.
- InstanceLock: recycled pids and other hosts. A daemon is gone when it lets the
  lock go; its process may outlive this (limit 4).
- DatabaseWriter: connecting and the kinds of database errors are one action,
  `Fail`; the row contents.
- Maintenance: names of partitions and calendar arithmetic.
- NodeSession: the length of the backoff, the stderr log, events for malformed
  lines and a changed boot id.
- NodePipeline: hello and error messages, live rows, gauges, rounding.
- Probe: ProcessTracker, due times of the loop (any order of counters and
  censuses is allowed), `once()`, reaping of abandoned queries.
