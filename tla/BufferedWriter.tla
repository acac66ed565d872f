--------------------------- MODULE BufferedWriter ---------------------------
(***************************************************************************)
(* BufferedWriter (database/buffered.py): batches go to PostgreSQL, or to  *)
(* the spool while it does not answer.  One submit() is a sequence of      *)
(* steps, so that the database may come and go, and the process may die,   *)
(* between any two of them.                                                *)
(*                                                                         *)
(* Time is relative: next_retry is what is left of the wait, and Tick lets *)
(* it pass.  _outage_since is kept as whether it is set, _replayed_batches *)
(* and _superseded_batches as whether one of them is not zero: the code    *)
(* tests nothing else.  An event is its type and the batches it reports.   *)
(***************************************************************************)
EXTENDS Spool

CONSTANTS MinDelay, MaxDelay,  \* backoff
          MaxAttempts,         \* max_replay_attempts
          MaxCrashes,          \* bound: how often the process may die
          Rejected,            \* batches a write may fail for good (0: no records)
          Exhausting,          \* batches whose write may fail as an outage does
          Damaged,             \* batches whose spool file may be unreadable
          SlowListing,         \* listing the spool may use up the replay budget
          None

ASSUME WriterAssumption ==
    /\ MinDelay \in Nat \ {0}
    /\ MaxDelay \in Nat /\ MinDelay <= MaxDelay
    /\ MaxAttempts \in Nat \ {0}
    /\ MaxCrashes \in Nat
    /\ Rejected \subseteq Batch \cup {0}
    /\ Exhausting \subseteq Batch
    /\ Damaged \subseteq Batch
    /\ SlowListing \in BOOLEAN
    /\ None \notin Nat

VARIABLES
    \* BufferedWriter's fields
    connected, outage, next_retry, delay,
    skip, failures, backlog, carried,
    \* the submit() in progress: its batch (0: no records), the files still to
    \* visit, whether a batch was replayed, whether replay time was used, the
    \* files _make_room deleted, the events so far
    pc, cur, todo, wrote, spent, evicted, events,
    \* the environment: whether the database answers, how many batches were
    \* submitted, how often the process died
    up, n, crashes,
    \* history: committed batches; live-only batches dropped as superseded;
    \* batches some returned event reports; files a replay could not get rid
    \* of or the operator moved back; batches that died with the process
    written, dropped, reported, held, crashed

link    == <<connected, outage, next_retry, delay>>
memory  == <<skip, failures, backlog, carried>>
loop    == <<pc, todo, spent>>
locals  == <<cur, wrote, evicted>>
outside == <<up, n, crashes>>
history == <<written, dropped, reported, held, crashed>>
vars    == <<spoolVars, link, memory, loop, locals, events, outside, history>>

Event == [type : {"database_unavailable", "database_recovered", "spool_dropped",
                  "spool_write_failed", "spool_batch_quarantined"},
          about : SUBSET Batch]

Ev(t, S) == {[type |-> t, about |-> S]}

About(E) == UNION {e.about : e \in E}

PC == {"idle", "replay", "ping", "remove", "fresh", "fail",
       "store", "room", "append", "return", "raise"}

TypeOK ==
    /\ SpoolTypeOK
    /\ connected \in BOOLEAN /\ outage \in BOOLEAN
    /\ next_retry \in Nat \cup {None} /\ delay \in Nat \cup {None}
    /\ skip \subseteq Batch
    /\ failures \in [Batch -> Nat]
    /\ backlog \in BOOLEAN
    /\ carried \subseteq Event /\ events \subseteq Event
    /\ pc \in PC
    /\ cur \in Batch \cup {0}
    /\ todo \subseteq Batch
    /\ wrote \in BOOLEAN /\ spent \in BOOLEAN
    /\ evicted \subseteq Batch
    /\ up \in BOOLEAN
    /\ n \in 0..MaxBatch
    /\ crashes \in 0..MaxCrashes
    /\ written \subseteq Batch /\ dropped \subseteq Batch /\ reported \subseteq Batch
    /\ held \subseteq Batch /\ crashed \subseteq Batch

Init ==
    /\ SpoolInit
    /\ connected = FALSE /\ outage = FALSE /\ next_retry = None /\ delay = None
    /\ skip = {} /\ failures = [b \in Batch |-> 0] /\ backlog = FALSE /\ carried = {}
    /\ pc = "idle" /\ todo = {} /\ spent = FALSE
    /\ cur = 0 /\ wrote = FALSE /\ evicted = {} /\ events = {}
    /\ up \in BOOLEAN /\ n = 0 /\ crashes = 0
    /\ written = {} /\ dropped = {} /\ reported = {} /\ held = {} /\ crashed = {}

\* The records of the call, as a set of batches.
Current == {cur} \cap Batch
-----------------------------------------------------------------------------
(***************************************************************************)
(* submit(): called with the next batch, or with no records.  Within the   *)
(* wait after a failure the batch goes straight to the spool; else the     *)
(* replay starts, over the files listed now.                               *)
(***************************************************************************)
Submit(b) ==
    /\ pc = "idle"
    /\ b \in {0, n + 1}
    /\ cur' = b
    /\ n' = IF b = 0 THEN n ELSE b
    /\ events' = carried /\ carried' = {}
    /\ wrote' = FALSE
    /\ IF next_retry \notin {None, 0}
         THEN pc' = "store" /\ UNCHANGED <<todo, spent>>
         ELSE pc' = "replay" /\ todo' = files \ skip /\ spent' = SlowListing
    /\ UNCHANGED <<spoolVars, link, skip, failures, backlog, evicted, up, crashes, history>>
-----------------------------------------------------------------------------
(***************************************************************************)
(* _replay(): the listed batches, oldest first.                            *)
(***************************************************************************)
\* Mutant: the newest live-only batch is dropped with the others.
SupersededAll(f) == f \in LiveOnly /\ f \in todo

\* All live-only batches of the list but the newest.
Superseded(f) == f \in LiveOnly /\ \E g \in todo \cap LiveOnly : f < g

\* The loop is at file f.
At(f) == pc = "replay" /\ Oldest(f, todo)

\* read() does not fail, and the batch is passed to DatabaseWriter.write().
Readable(f) == At(f) /\ ~Superseded(f) /\ f \notin stuck

NextFile(f) == todo' = todo \ {f} /\ pc' = "replay" /\ spent' = TRUE

\* A file that is still there is skipped for the rest of the process.
SkipUnless(gone, f) ==
    /\ skip' = IF gone THEN skip ELSE skip \cup {f}
    /\ held' = IF gone THEN held ELSE held \cup {f}

Forget(f) == failures' = [failures EXCEPT ![f] = 0]

\* _drop_superseded
ReplayDrop(f) ==
    /\ At(f) /\ Superseded(f)
    /\ Forget(f)
    /\ \E ok \in Outcome("remove") :
         /\ Remove(f, ok)
         /\ SkipUnless(ok, f)
         /\ backlog' = (backlog \/ ok)
         /\ dropped' = IF ok THEN dropped \cup {f} ELSE dropped
    /\ NextFile(f)
    /\ UNCHANGED <<corrupt, stuck, link, carried, locals, events, outside,
                   written, reported, crashed>>

\* read() of a file known to be stuck: nothing happens.
ReplayStuck(f) ==
    /\ At(f) /\ ~Superseded(f) /\ f \in stuck
    /\ todo' = todo \ {f}
    /\ UNCHANGED <<spoolVars, link, memory, pc, spent, locals, events, outside, history>>

\* read() of an unreadable file moves it to corrupt/, or marks it stuck;
\* _finish turns what take_quarantined() returns into an event.
ReplayUnreadable(f) ==
    /\ Readable(f) /\ f \in Damaged
    /\ \E ok \in Outcome("move") :
         /\ Quarantine(f, ok)
         /\ stuck' = IF ok THEN stuck ELSE stuck \cup {f}
         /\ held' = IF ok THEN held ELSE held \cup {f}
    /\ events' = events \cup Ev("spool_batch_quarantined", {f})
    /\ NextFile(f)
    /\ UNCHANGED <<link, memory, locals, outside, written, dropped, reported, crashed>>

ReplayWrite(f) ==
    /\ Readable(f) /\ up
    /\ written' = written \cup {f}
    /\ pc' = "remove"
    /\ UNCHANGED <<spoolVars, link, memory, todo, spent, locals, events, outside,
                   dropped, reported, held, crashed>>

ReplayRemove(f) ==
    /\ pc = "remove" /\ Oldest(f, todo)
    /\ Forget(f)
    /\ \E ok \in Outcome("remove") : Remove(f, ok) /\ SkipUnless(ok, f)
    /\ wrote' = TRUE
    /\ backlog' = TRUE
    /\ NextFile(f)
    /\ UNCHANGED <<corrupt, stuck, link, carried, cur, evicted, events, outside,
                   written, dropped, reported, crashed>>

\* DatabaseWriter.write(S) raises DatabaseUnavailable: the database is gone,
\* maybe just after the commit, or the batch exhausts one of its resources.
Unavailable(S) ==
    \/ ~up /\ written' \in {written, written \cup S}
    \/ up /\ S \cap Exhausting # {} /\ UNCHANGED written

ReplayUnavailable(f) ==
    /\ Readable(f)
    /\ Unavailable({f})
    /\ pc' = "ping"
    /\ UNCHANGED <<spoolVars, link, memory, todo, spent, locals, events, outside,
                   dropped, reported, held, crashed>>

\* DatabaseWriter.write(b) raises anything else.  A malformed batch is refused
\* before the database is asked; a call without records has nothing malformed.
Refused(b) == b \in Rejected /\ (up \/ b # 0)

\* _quarantine_spooled
QuarantineSpooled(f) ==
    /\ Forget(f)
    /\ \E ok \in Outcome("move") : Quarantine(f, ok) /\ SkipUnless(ok, f)
    /\ events' = events \cup Ev("spool_batch_quarantined", {f})
    /\ NextFile(f)
    /\ UNCHANGED <<stuck, link, backlog, carried, locals, outside,
                   written, dropped, reported, crashed>>

ReplayRejected(f) ==
    /\ Readable(f) /\ Refused(f)
    /\ QuarantineSpooled(f)

\* Mutant: failures are never counted.
PingRetryUncounted(f) ==
    /\ pc = "ping" /\ Oldest(f, todo) /\ up
    /\ failures[f] + 1 < MaxAttempts
    /\ pc' = "fail"
    /\ UNCHANGED <<spoolVars, link, memory, todo, spent, locals, events, outside, history>>

\* ping() after a DatabaseUnavailable: if the database answers, the batch is
\* the suspect, and is given up after MaxAttempts failures.
PingRetry(f) ==
    /\ pc = "ping" /\ Oldest(f, todo) /\ up
    /\ failures[f] + 1 < MaxAttempts
    /\ failures' = [failures EXCEPT ![f] = @ + 1]
    /\ pc' = "fail"
    /\ UNCHANGED <<spoolVars, link, skip, backlog, carried, todo, spent, locals, events,
                   outside, history>>

PingGiveUp(f) ==
    /\ pc = "ping" /\ Oldest(f, todo) /\ up
    /\ failures[f] + 1 >= MaxAttempts
    /\ QuarantineSpooled(f)

PingFailed ==
    /\ pc = "ping" /\ ~up
    /\ pc' = "fail"
    /\ UNCHANGED <<spoolVars, link, memory, todo, spent, locals, events, outside, history>>

\* Mutant: the records are written at once, past the files left.
OutOfTimeOvertakes ==
    /\ pc = "replay" /\ todo # {} /\ spent
    /\ connected' = (connected \/ wrote)
    /\ next_retry' = IF wrote THEN None ELSE next_retry
    /\ pc' = "fresh"
    /\ UNCHANGED <<spoolVars, outage, delay, memory, todo, spent, locals, events,
                   outside, history>>

\* Mutant: the wait is not cleared.
OutOfTimeStillWaits ==
    /\ pc = "replay" /\ todo # {} /\ spent
    /\ connected' = (connected \/ wrote)
    /\ pc' = "store"
    /\ UNCHANGED <<spoolVars, outage, next_retry, delay, memory, todo, spent, locals, events,
                   outside, history>>

\* The budget is spent with files left: the records go behind them.
OutOfTime ==
    /\ pc = "replay" /\ todo # {} /\ spent
    /\ connected' = (connected \/ wrote)
    /\ next_retry' = IF wrote THEN None ELSE next_retry
    /\ pc' = "store"
    /\ UNCHANGED <<spoolVars, outage, delay, memory, todo, spent, locals, events,
                   outside, history>>
-----------------------------------------------------------------------------
(***************************************************************************)
(* The rest of _attempt(): the spool is drained.                           *)
(***************************************************************************)
\* _recover, if the condition holds; E are the events so far.
RecoverIf(c, E) ==
    IF c
      THEN /\ events' = E \cup (IF outage \/ backlog THEN Ev("database_recovered", {}) ELSE {})
           /\ connected' = TRUE /\ outage' = FALSE /\ next_retry' = None /\ delay' = None
           /\ backlog' = FALSE
      ELSE events' = E /\ UNCHANGED <<link, backlog>>

\* Mutant: no empty write to learn whether the outage is over.
DrainedNoProbe ==
    /\ pc = "replay" /\ todo = {}
    /\ IF cur # 0
         THEN pc' = "fresh" /\ UNCHANGED <<events, link, backlog>>
         ELSE pc' = "return" /\ RecoverIf(wrote, events)
    /\ UNCHANGED <<spoolVars, skip, failures, carried, todo, spent, locals, outside, history>>

Drained ==
    /\ pc = "replay" /\ todo = {}
    /\ IF cur # 0 \/ (outage /\ ~wrote)
         THEN pc' = "fresh" /\ UNCHANGED <<events, link, backlog>>
         ELSE pc' = "return" /\ RecoverIf(wrote, events)
    /\ UNCHANGED <<spoolVars, skip, failures, carried, todo, spent, locals, outside, history>>

FreshWrite ==
    /\ pc = "fresh" /\ up
    /\ written' = written \cup Current
    /\ RecoverIf(TRUE, events)
    /\ pc' = "return"
    /\ UNCHANGED <<spoolVars, skip, failures, carried, todo, spent, locals, outside,
                   dropped, reported, held, crashed>>

FreshUnavailable ==
    /\ pc = "fresh"
    /\ Unavailable(Current)
    /\ pc' = "fail"
    /\ UNCHANGED <<spoolVars, link, memory, todo, spent, locals, events, outside,
                   dropped, reported, held, crashed>>

\* The error is raised once _quarantine_fresh has kept the batch; a live-only
\* batch is not kept, only reported.
FreshRejected ==
    /\ pc = "fresh" /\ Refused(cur)
    /\ \E ok \in Outcome("move") :
         IF cur \in Batch \ LiveOnly THEN QuarantineRecords(cur, ok) ELSE UNCHANGED corrupt
    /\ RecoverIf(wrote, IF cur = 0 THEN events
                        ELSE events \cup Ev("spool_batch_quarantined", {cur}))
    /\ pc' = "raise"
    /\ UNCHANGED <<files, stuck, skip, failures, carried, todo, spent, locals, outside, history>>

\* _fail, up to its call of _store.
Fail ==
    /\ pc = "fail"
    /\ connected' = FALSE
    /\ outage' = TRUE
    /\ delay' = IF outage THEN (IF delay * 2 < MaxDelay THEN delay * 2 ELSE MaxDelay)
                ELSE MinDelay
    /\ next_retry' = delay'
    /\ events' = IF outage THEN events ELSE events \cup Ev("database_unavailable", {})
    /\ pc' = "store"
    /\ UNCHANGED <<spoolVars, memory, todo, spent, locals, outside, history>>
-----------------------------------------------------------------------------
(***************************************************************************)
(* _store() and Spool._append().                                           *)
(***************************************************************************)
Store ==
    /\ pc = "store"
    /\ \/ /\ cur = 0
          /\ pc' = "return" /\ UNCHANGED <<todo, events>>
       \/ /\ cur # 0 /\ Size[cur] > MaxBytes
          /\ pc' = "return" /\ UNCHANGED todo
          /\ events' = events \cup Ev("spool_write_failed", {cur})
       \/ /\ cur # 0 /\ Size[cur] <= MaxBytes
          /\ pc' = "room" /\ todo' = files /\ UNCHANGED events
    /\ UNCHANGED <<spoolVars, link, memory, spent, locals, outside, history>>

\* One turn of _make_room's loop; a file that cannot be deleted is passed over.
Evict(f) ==
    /\ pc = "room" /\ Overfull(Size[cur]) /\ FirstToEvict(f, todo)
    /\ \E ok \in Outcome("remove") :
         /\ Remove(f, ok)
         /\ evicted' = IF ok THEN evicted \cup {f} ELSE evicted
    /\ todo' = todo \ {f}
    /\ UNCHANGED <<corrupt, stuck, link, memory, pc, spent, cur, wrote, events,
                   outside, history>>

RoomMade ==
    /\ pc = "room" /\ (~Overfull(Size[cur]) \/ todo = {})
    /\ pc' = "append"
    /\ UNCHANGED <<spoolVars, link, memory, todo, spent, locals, events, outside, history>>

AppendFile ==
    /\ pc = "append"
    /\ \E ok \in Outcome("write") :
         /\ Write(cur, ok)
         /\ events' = events
              \cup (IF evicted = {} THEN {} ELSE Ev("spool_dropped", evicted))
              \cup (IF ok THEN {} ELSE Ev("spool_write_failed", {cur}))
    /\ evicted' = {}
    /\ pc' = "return"
    /\ UNCHANGED <<corrupt, stuck, link, memory, todo, spent, cur, wrote, outside, history>>

\* Mutant: the events of a call that raises are not carried.
FinishForgets ==
    /\ \/ pc = "return" /\ reported' = reported \cup About(events) /\ UNCHANGED carried
       \/ pc = "raise" /\ UNCHANGED <<reported, carried>>
    /\ pc' = "idle" /\ cur' = 0 /\ todo' = {} /\ events' = {}
    /\ UNCHANGED <<spoolVars, link, skip, failures, backlog, spent, wrote, evicted,
                   outside, written, dropped, held, crashed>>

\* submit() returns its events, or raises and carries them to the next call.
Finish ==
    /\ \/ pc = "return" /\ reported' = reported \cup About(events) /\ UNCHANGED carried
       \/ pc = "raise" /\ carried' = events /\ UNCHANGED reported
    /\ pc' = "idle" /\ cur' = 0 /\ todo' = {} /\ events' = {}
    /\ UNCHANGED <<spoolVars, link, skip, failures, backlog, spent, wrote, evicted,
                   outside, written, dropped, held, crashed>>
-----------------------------------------------------------------------------
(***************************************************************************)
(* The environment: time, the database, the operator, the process.         *)
(***************************************************************************)
Tick ==
    /\ next_retry \notin {None, 0}
    /\ next_retry' = next_retry - 1
    /\ UNCHANGED <<spoolVars, connected, outage, delay, memory, loop, locals, events,
                   outside, history>>

DatabaseChange ==
    /\ up' = ~up
    /\ UNCHANGED <<spoolVars, link, memory, loop, locals, events, n, crashes, history>>

\* The operator moves a quarantined file back into the spool (README, Spool);
\* bounds: once per batch, and not while _append is between two of its lines.
Requeue(f) ==
    /\ f \in corrupt \ held
    /\ pc \notin {"room", "append"}
    /\ corrupt' = corrupt \ {f}
    /\ files' = files \cup {f}
    /\ held' = held \cup {f}
    /\ UNCHANGED <<stuck, link, memory, loop, locals, events, outside,
                   written, dropped, reported, crashed>>

\* The process dies and a new one starts: memory is lost, the disk is not.
Crash ==
    /\ crashes < MaxCrashes
    /\ crashes' = crashes + 1
    /\ crashed' = crashed \cup Current \cup evicted \cup About(events) \cup About(carried)
    /\ connected' = FALSE /\ outage' = FALSE /\ next_retry' = None /\ delay' = None
    /\ skip' = {} /\ failures' = [b \in Batch |-> 0] /\ backlog' = FALSE /\ carried' = {}
    /\ pc' = "idle" /\ todo' = {} /\ spent' = FALSE
    /\ cur' = 0 /\ wrote' = FALSE /\ evicted' = {} /\ events' = {}
    /\ stuck' = {}
    /\ UNCHANGED <<files, corrupt, up, n, written, dropped, reported, held>>
-----------------------------------------------------------------------------
OnFile(f) ==
    \/ ReplayDrop(f) \/ ReplayStuck(f) \/ ReplayUnreadable(f)
    \/ ReplayWrite(f) \/ ReplayRemove(f) \/ ReplayUnavailable(f) \/ ReplayRejected(f)
    \/ PingRetry(f) \/ PingGiveUp(f) \/ Evict(f)

\* The steps of a submit() in progress.
Step ==
    \/ \E f \in Batch : OnFile(f)
    \/ PingFailed \/ OutOfTime \/ Drained
    \/ FreshWrite \/ FreshUnavailable \/ FreshRejected
    \/ Fail \/ Store \/ RoomMade \/ AppendFile \/ Finish

Call == \E b \in Batch \cup {0} : Submit(b)

Next ==
    \/ Call \/ Step
    \/ Tick \/ DatabaseChange \/ Crash
    \/ \E f \in Batch : Requeue(f)

Spec == Init /\ [][Next]_vars

(***************************************************************************)
(* The writer thread runs every submit() to its end and keeps calling it;  *)
(* time passes.                                                            *)
(***************************************************************************)
FairSpec == Spec /\ WF_vars(Step) /\ WF_vars(Call) /\ WF_vars(Tick)
-----------------------------------------------------------------------------
(***************************************************************************)
(* Properties.                                                             *)
(***************************************************************************)
\* The batches the call in progress still answers for.
InFlight == Current \cup evicted \cup About(events) \cup About(carried)

\* "The collector must never lose data to a database outage": every batch
\* handed to submit() was committed, is on disk, was dropped as superseded, is
\* reported by an event, or was in the hands of a process that died.
NoSilentLoss ==
    1..n \subseteq written \cup files \cup corrupt \cup dropped \cup reported
                     \cup InFlight \cup crashed

\* "Rows reach the database in the order they were produced": no batch waits
\* in the spool while a later one is committed, unless it was committed too, or
\* the file system kept it there, or the operator put it back.
WriteOrder == \A a \in files, b \in written : a < b => a \in written \cup held

\* The four fields that describe an outage agree between two calls: a backoff
\* exists exactly during an outage, a retry is only awaited when the last write
\* failed, and an outage with no retry set is one whose replay is under way.
OutageCoherent ==
    /\ outage <=> delay # None
    /\ delay # None => MinDelay <= delay /\ delay <= MaxDelay
    /\ next_retry # None => outage /\ ~connected
    /\ outage /\ next_retry = None => connected

\* Which batches each stage of submit() has already dealt with.
Stages ==
    /\ IF pc = "idle" THEN cur = 0 /\ events = {} ELSE carried = {}
    /\ pc \in {"room", "append"} => cur # 0
    /\ cur \in {0, n}
    /\ files \cup corrupt \cup todo \cup written \subseteq 1..n
    /\ skip \cup stuck \subseteq held
    /\ pc \in {"replay", "ping", "remove"} => files \ todo \subseteq held
    /\ pc = "fresh" => files \subseteq held
    /\ pc = "remove" => \A f \in todo : Oldest(f, todo) => f \in written
    /\ pc = "return" => Current \subseteq written \cup files \cup About(events)
    /\ pc = "raise" => Current \subseteq About(events)

\* The inductive invariant behind the three properties above.
WriterInv == TypeOK /\ NoSilentLoss /\ WriteOrder /\ OutageCoherent /\ Stages

\* _write() is called with room for the batch, however many steps ago the room
\* was made, unless the file system refuses to delete.
AppendFits ==
    [][AppendFile /\ "remove" \notin DiskFaults => Total(files) + Size[cur] <= MaxBytes]_vars

GoesFirst(e, f) == IF e \in LiveOnly <=> f \in LiveOnly THEN e <= f ELSE e \in LiveOnly

\* The batches dropped for room are the oldest, live-only ones before all
\* others, and no more of them than the new batch needs: the last one dropped
\* would not have fitted.
EvictionOrder ==
    "remove" \notin DiskFaults /\ pc \in {"room", "append"} =>
        \A e \in evicted :
            /\ \A f \in files : GoesFirst(e, f)
            /\ (\A d \in evicted : GoesFirst(d, e))
                  => Total(files \cup {e}) + Size[cur] > MaxBytes

\* Once the database stays up, a spooled batch does not stay in the spool:
\* "the next submit carries on".  Only a file that can be neither removed nor
\* moved is left, and skipped.
SpoolDrains ==
    <>[]up => \A b \in Batch : b \in files ~> b \notin files \/ b \in skip \cup stuck

\* Once the database stays up, the outage is over for good.
OutageEnds == <>[]up => <>[]~outage

(***************************************************************************)
(* What the ledger shows of a batch.                                       *)
(***************************************************************************)
LedgerStatus ==
    [b \in Batch |->
        CASE b > n -> "new"
          [] b \in written -> "written"
          [] b \in files \ written -> "stored"
          [] b \in corrupt \ (files \cup written) -> "quarantined"
          [] b \in dropped \ (corrupt \cup files \cup written) -> "superseded"
          [] OTHER -> IF b \in evicted \cup About(events) \cup About(carried) \cup reported \cup crashed
                      THEN "accounted" ELSE IF b = cur THEN "taken" ELSE "lost"]

Ledger == INSTANCE BatchLedger WITH status <- LedgerStatus, excused <- held

\* The batches of a BufferedWriter move through the ledger and no other way.
ImplementsLedger == Ledger!LedgerSpec
=============================================================================
