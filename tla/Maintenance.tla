---------------------------- MODULE Maintenance ----------------------------
(***************************************************************************)
(* Monthly partitions (database/maintenance.py), created and dropped by    *)
(* the collectors of several systems on the same tables, and created by    *)
(* DatabaseWriter for a batch whose month has none.                        *)
(*                                                                         *)
(* A month is its distance from the current one, 0 being the current and   *)
(* -1 the last; months older than Oldest are not told apart.  A partition  *)
(* is a pair of a table and a month.  Time passes while a job runs, and    *)
(* the job goes by the time it began at.  The database is up, down, or busy:*)
(* long transactions read the tables, and a lock may not be had within     *)
(* LOCK_TIMEOUT.                                                           *)
(***************************************************************************)
EXTENDS Integers, Sequences, Functions

CONSTANTS Collector,
          Tables,       \* PARTITIONED, in its order
          MonthLen,     \* length of a month, in units of time
          Keep,         \* retention of each table, as each collector has it configured
          Ahead,        \* months_ahead
          Oldest,       \* bound: months older than this are one
          MaxAge,       \* bound: units of time that pass while a job runs
          None

ASSUME MaintenanceAssumption ==
    /\ MonthLen \in Nat \ {0} /\ Ahead \in Nat /\ Tables \in Seq(Range(Tables))
    /\ MaxAge \in Nat /\ Keep \in [Collector -> [Range(Tables) -> Nat \ {0}]]
    /\ Oldest \in Int /\ Oldest < 0
    /\ \A c \in Collector, t \in Range(Tables) : (Oldest + 1) * MonthLen <= -MaxAge - Keep[c][t]
    /\ None \notin Collector

VARIABLES day,         \* units of time since the month began
          partitions,
          database,    \* up, busy, down
          advisory,    \* table -> holder of its advisory lock
          job          \* collector -> the database work in progress

Table == Range(Tables)
Idle == [pc |-> "idle", age |-> 0, todo |-> {}, looked |-> {}, made |-> {}, table |-> 0,
         skipped |-> FALSE, batch |-> {}]

\* The time a job was given: `now` is taken once, before it.
Now(c) == day - job[c].age

\* At that time month m is over, and every time in it is past the retention of
\* table t.
ExpiredEarly(c, t, m) ==  \* Mutant: the lower bound
    (m + 1) * MonthLen <= Now(c) /\ m * MonthLen <= Now(c) - Keep[c][t]
Expired(c, t, m) ==
    (m + 1) * MonthLen <= Now(c) /\ (m + 1) * MonthLen <= Now(c) - Keep[c][t]

\* ensure_partitions: the current month and those ahead, for every table.
ThisMonth == Table \X {0}  \* Mutant: none ahead
Upcoming == Table \X (0..Ahead)

\* The order of the work: the tables in theirs (the writer has one), and the
\* months of a table, sorted by name.
Position(t) == CHOOSE i \in DOMAIN Tables : Tables[i] = t
Before(p, q) ==
    \/ Position(p[1]) < Position(q[1])
    \/ Position(p[1]) = Position(q[1]) /\ p[2] <= q[2]
First(ps) == CHOOSE p \in ps : \A q \in ps : Before(p, q)
-----------------------------------------------------------------------------
(***************************************************************************)
(* ensure_partition: lock, look, create.  Upkeep's connection commits each *)
(* one; the writer's transaction keeps its locks until all are made.       *)
(***************************************************************************)
Creating(c) == job[c].pc \in {"upkeep", "writer"} /\ job[c].todo # {}
Wanted(c) == First(job[c].todo)
Rest(c) == job[c].todo \ {Wanted(c)}
Holds(c) == {t \in Table : advisory[t] = c}
Released(c) == [t \in Table |-> IF advisory[t] = c THEN None ELSE advisory[t]]

FreeAnyway(t) == TRUE  \* Mutant: no advisory lock
Free(t) == advisory[t] = None

\* Done with one partition; for Upkeep this ends a transaction.
NextToCreate(c, p, made) ==
    IF job[c].pc = "upkeep"
    THEN /\ job' = [job EXCEPT ![c] = [@ EXCEPT !.todo = job[c].todo \ {p}, !.looked = {}]]
         /\ partitions' = partitions \cup made
         /\ advisory' = Released(c)
    ELSE /\ job' = [job EXCEPT ![c] = [@ EXCEPT !.todo = job[c].todo \ {p}, !.looked = {},
                                                 !.made = job[c].made \cup made]]
         /\ advisory' = [advisory EXCEPT ![p[1]] = c]
         /\ UNCHANGED partitions

\* The lock is taken, unless this transaction has it, and to_regclass asked.
Look(c) ==
    /\ Creating(c) /\ job[c].looked = {}
    /\ Wanted(c)[1] \in Holds(c) \/ Free(Wanted(c)[1])
    /\ IF Wanted(c) \in partitions \cup job[c].made THEN NextToCreate(c, Wanted(c), {})
       ELSE /\ job' = [job EXCEPT ![c] = [@ EXCEPT !.looked = {Wanted(c)}]]
            /\ advisory' = [advisory EXCEPT ![Wanted(c)[1]] = c]
            /\ UNCHANGED partitions
    /\ UNCHANGED <<day, database>>

Create(c) ==
    /\ Creating(c)
    /\ \E p \in job[c].looked : NextToCreate(c, p, {p})
    /\ UNCHANGED <<day, database>>

\* The writer's transaction commits; the batch will be applied again.
CommitPartitions(c) ==
    /\ job[c].pc = "writer" /\ job[c].todo = {}
    /\ partitions' = partitions \cup job[c].made
    /\ advisory' = Released(c)
    /\ job' = [job EXCEPT ![c] = [@ EXCEPT !.pc = "again", !.made = {}]]
    /\ UNCHANGED <<day, database>>

\* LockNotAvailable, for the advisory lock or for the parent.
TimedOut(c) == Creating(c) /\ database = "busy"

(***************************************************************************)
(* apply_retention: list a table's partitions, then drop the expired ones. *)
(* One that cannot be locked is skipped.  One that another collector has   *)
(* dropped since the listing is an error, and ends the job.                *)
(***************************************************************************)
ListTable(c) ==
    /\ job[c].pc \in {"upkeep", "retain"} /\ job[c].todo = {} /\ job[c].table < Len(Tables)
    /\ LET t == Tables[job[c].table + 1]
       IN  job' = [job EXCEPT ![c] = [@ EXCEPT !.pc = "retain", !.table = job[c].table + 1,
                     !.todo = {p \in partitions : p[1] = t /\ Expired(c, t, p[2])}]]
    /\ UNCHANGED <<day, partitions, database, advisory>>

\* A writer that has made a partition of t and not committed locks the parent.
ParentLocked(c, t) == \E d \in Collector \ {c} : \E p \in job[d].made : p[1] = t

Drop(c) ==
    /\ job[c].pc = "retain" /\ job[c].todo # {}
    /\ \/ /\ database = "busy"
          /\ job' = [job EXCEPT ![c] = [@ EXCEPT !.todo = Rest(c), !.skipped = TRUE]]
          /\ UNCHANGED partitions
       \/ /\ ~ParentLocked(c, Wanted(c)[1])
          /\ Wanted(c) \in partitions
          /\ partitions' = partitions \ {Wanted(c)}
          /\ job' = [job EXCEPT ![c] = [@ EXCEPT !.todo = Rest(c)]]
    /\ UNCHANGED <<day, database, advisory>>

AlreadyDropped(c) ==
    /\ job[c].pc = "retain" /\ job[c].todo # {}
    /\ ~ParentLocked(c, Wanted(c)[1]) /\ Wanted(c) \notin partitions

Retained(c) == job[c].pc = "retain" /\ job[c].todo = {} /\ job[c].table = Len(Tables)

WorkStep(c) ==
    Look(c) \/ Create(c) \/ CommitPartitions(c) \/ ListTable(c) \/ Drop(c)
=============================================================================
