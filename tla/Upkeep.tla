------------------------------- MODULE Upkeep -------------------------------
(***************************************************************************)
(* Upkeep (collector/upkeep.py): each collector's writer thread ticks the  *)
(* heartbeat and the partition maintenance, and writes batches between     *)
(* ticks.  Time is relative: heartbeat and maintenance are what is left    *)
(* until each is due, 0 being due; a unit is the heartbeat interval.  The  *)
(* thread ticks every round, so what is due is begun before another unit   *)
(* passes; a tick with nothing due does nothing.                           *)
(***************************************************************************)
EXTENDS Maintenance

CONSTANTS HeartbeatInterval, RetryInterval, MaintenanceInterval,  \* in units
          CalmUnits,   \* bound: longer calms are not told apart
          MayStop      \* bound: the collectors that are stopped and started again

ASSUME IntervalAssumption ==
    /\ HeartbeatInterval \in Nat \ {0}
    /\ RetryInterval \in Nat \ {0}
    /\ MaintenanceInterval \in Nat \ {0}
    /\ CalmUnits \in Nat

VARIABLES conn,                    \* Upkeep's connection: none, open, dead (not noticed yet)
          heartbeat, maintenance,  \* time until due
          state,                   \* the collector: running, closing, and how its row in
                                   \* collector_heartbeat was left: stopped, or still running
          tries,                   \* attempts left at the last heartbeat
          calm                     \* how long the database has been up without being busy

upkeepVars == <<conn, heartbeat, maintenance, state, tries, calm>>
vars == <<day, partitions, database, advisory, job, upkeepVars>>

Init ==
    /\ day = 0 /\ partitions = {} /\ database = "up" /\ calm = 0
    /\ advisory = [t \in Table |-> None]
    /\ job = [c \in Collector |-> Idle]
    /\ conn = [c \in Collector |-> "none"]
    /\ heartbeat = [c \in Collector |-> 0]
    /\ maintenance = [c \in Collector |-> 0]
    /\ state = [c \in Collector |-> "running"]
    /\ tries = [c \in Collector |-> 0]

Ready(c) == state[c] = "running" /\ job[c].pc = "idle"
Answers(c) == database # "down" /\ conn[c] # "dead"

\* _tick when nothing but perhaps the heartbeat is due, or the heartbeat fails.
\* A failing heartbeat puts maintenance off, if that was due as well.
Tick(c) ==
    LET beatDue == heartbeat[c] = 0
        due == maintenance[c] = 0
    IN  /\ Ready(c) /\ (beatDue \/ due)
        /\ heartbeat' = [heartbeat EXCEPT ![c] = IF beatDue THEN HeartbeatInterval ELSE @]
        /\ IF beatDue /\ ~Answers(c)
           THEN /\ conn' = [conn EXCEPT ![c] = "none"]
                /\ maintenance' = [maintenance EXCEPT ![c] = IF due THEN HeartbeatInterval ELSE @]
                /\ UNCHANGED job
           ELSE /\ conn' = [conn EXCEPT ![c] = IF beatDue \/ (due /\ Answers(c)) THEN "open" ELSE @]
                /\ job' = IF due THEN [job EXCEPT ![c] = [Idle EXCEPT !.pc = "upkeep", !.todo = Upcoming]]
                          ELSE job
                /\ UNCHANGED maintenance
        /\ UNCHANGED <<day, partitions, database, advisory, state, tries, calm>>

EndJob(c) == job' = [job EXCEPT ![c] = Idle] /\ advisory' = Released(c)

\* A skipped partition brings the next maintenance forward.
AfterMaintain(c) == IF job[c].skipped THEN RetryInterval ELSE MaintenanceInterval

\* What is left of an interval that is counted from the tick's `now`.
Since(c, interval) == IF interval > job[c].age THEN interval - job[c].age ELSE 0

\* _maintain: done.
MaintainOk(c) ==
    /\ Retained(c) /\ Answers(c)
    /\ EndJob(c)
    /\ conn' = [conn EXCEPT ![c] = "open"]
    /\ maintenance' = [maintenance EXCEPT ![c] = Since(c, AfterMaintain(c))]
    /\ UNCHANGED <<day, partitions, database, heartbeat, state, tries, calm>>

\* It raised: the database went, a lock timed out, or another collector had
\* dropped the partition.
MaintainFailed(c) ==
    /\ job[c].pc \in {"upkeep", "retain"}
    /\ ~Answers(c) \/ TimedOut(c) \/ AlreadyDropped(c)
    /\ EndJob(c)
    /\ conn' = [conn EXCEPT ![c] = "none"]
    /\ maintenance' = [maintenance EXCEPT ![c] = Since(c, RetryInterval)]
    /\ UNCHANGED <<day, partitions, database, heartbeat, state, tries, calm>>

(***************************************************************************)
(* DatabaseWriter.write between two ticks, as far as partitions go: rows   *)
(* within retention, some of whose months have none.  (The locks of        *)
(* several tables are in DatabaseWriter.)  A lock that is not had in time  *)
(* sends the batch to the spool.                                           *)
(***************************************************************************)
Within(c, t, m, d) == m * MonthLen + d >= day - Keep[c][t]

Write(c) ==
    /\ Ready(c) /\ database # "down"
    /\ \E t \in Table, ms \in SUBSET (Oldest..0) :
         LET batch == {t} \X ms
         IN  /\ \A m \in ms : \E d \in 0..(MonthLen - 1) : Within(c, t, m, d) /\ m * MonthLen + d <= day
             /\ ~(batch \subseteq partitions)
             /\ job' = [job EXCEPT ![c] = [Idle EXCEPT !.pc = "writer", !.batch = batch,
                                                       !.todo = batch]]
    /\ UNCHANGED <<day, partitions, database, advisory, upkeepVars>>

\* _apply again: committed, or refused because a month is missing once more.
WriteAgain(c) ==
    /\ job[c].pc = "again"
    /\ job' = [job EXCEPT ![c] = Idle]
    /\ UNCHANGED <<day, partitions, database, advisory, upkeepVars>>

WriteFailed(c) ==
    /\ job[c].pc = "writer" /\ TimedOut(c)
    /\ EndJob(c)
    /\ UNCHANGED <<day, partitions, database, upkeepVars>>

\* A statement of a job reaches the server.
Work(c) ==
    /\ job[c].pc \in {"upkeep", "retain"} => Answers(c)
    /\ WorkStep(c)
    /\ UNCHANGED upkeepVars

(***************************************************************************)
(* close(): a last heartbeat, with a second attempt if there was a         *)
(* connection, which may have died unnoticed.                              *)
(***************************************************************************)
OneTry(c) == 1  \* Mutant
Attempts(c) == IF conn[c] # "none" THEN 2 ELSE 1

Close(c) ==
    /\ Ready(c) /\ c \in MayStop
    /\ state' = [state EXCEPT ![c] = "closing"]
    /\ tries' = [tries EXCEPT ![c] = Attempts(c)]
    /\ UNCHANGED <<day, partitions, database, advisory, job, conn, heartbeat, maintenance, calm>>

LastBeat(c) ==
    /\ state[c] = "closing"
    /\ conn' = [conn EXCEPT ![c] = "none"]
    /\ tries' = [tries EXCEPT ![c] = IF Answers(c) THEN 0 ELSE @ - 1]
    /\ state' = [state EXCEPT ![c] = IF Answers(c) THEN "stopped"
                                     ELSE IF tries[c] = 1 THEN "silent" ELSE @]
    /\ UNCHANGED <<day, partitions, database, advisory, job, heartbeat, maintenance, calm>>

\* A new process: everything is due.
Start(c) ==
    /\ state[c] \in {"stopped", "silent"}
    /\ state' = [state EXCEPT ![c] = "running"]
    /\ heartbeat' = [heartbeat EXCEPT ![c] = 0]
    /\ maintenance' = [maintenance EXCEPT ![c] = 0]
    /\ UNCHANGED <<day, partitions, database, advisory, job, conn, tries, calm>>

(***************************************************************************)
(* The database, its readers, and time.                                    *)
(***************************************************************************)
\* A server that goes rolls back what was open: the writer sees it at once,
\* Upkeep when it next uses its connection.
Outage ==
    /\ database # "down" /\ database' = "down" /\ calm' = 0
    /\ conn' = [c \in Collector |-> IF conn[c] = "open" THEN "dead" ELSE conn[c]]
    /\ job' = [c \in Collector |-> IF job[c].pc \in {"writer", "again"} THEN Idle
                                   ELSE [job[c] EXCEPT !.looked = {}]]
    /\ advisory' = [t \in Table |-> None]
    /\ UNCHANGED <<day, partitions, heartbeat, maintenance, state, tries>>

Weather ==
    /\ database' \in {"up", "busy"} \ {database} /\ calm' = 0
    /\ UNCHANGED <<day, partitions, advisory, job, conn, heartbeat, maintenance, state, tries>>

Older(m) == IF m = Oldest THEN Oldest ELSE m - 1
Left(n) == IF n = 0 THEN 0 ELSE n - 1

\* The same partitions after a unit of time, which may begin a month.
Later(ps) == IF day + 1 = MonthLen THEN {<<p[1], Older(p[2])>> : p \in ps} ELSE ps

\* A unit passes, also while jobs run.  What is due waits for a write, never for
\* as long as a unit.
Advance ==
    /\ \A c \in Collector :
         /\ job[c].pc # "idle" => job[c].age < MaxAge
         /\ state[c] = "running" /\ job[c].pc \notin {"upkeep", "retain"} =>
              heartbeat[c] > 0 /\ maintenance[c] > 0
    /\ day' = IF day + 1 = MonthLen THEN 0 ELSE day + 1
    /\ partitions' = Later(partitions)
    /\ job' = [c \in Collector |->
                 IF job[c].pc = "idle" THEN job[c]
                 ELSE [job[c] EXCEPT !.age = @ + 1, !.todo = Later(@), !.looked = Later(@),
                                     !.made = Later(@), !.batch = Later(@)]]
    /\ heartbeat' = [c \in Collector |-> Left(heartbeat[c])]
    /\ maintenance' = [c \in Collector |-> Left(maintenance[c])]
    /\ calm' = IF database = "up" /\ calm < CalmUnits THEN calm + 1 ELSE calm
    /\ UNCHANGED <<database, advisory, conn, state, tries>>

Own(c) ==
    Tick(c) \/ MaintainOk(c) \/ MaintainFailed(c) \/ WriteAgain(c) \/ WriteFailed(c) \/ Work(c)
    \/ LastBeat(c)

Next ==
    \/ \E c \in Collector : Own(c) \/ Write(c) \/ Close(c) \/ Start(c)
    \/ Outage \/ Weather \/ Advance

Spec == Init /\ [][Next]_vars
-----------------------------------------------------------------------------
TypeOK ==
    /\ day \in 0..(MonthLen - 1)
    /\ partitions \subseteq Table \X (Oldest..Ahead)
    /\ database \in {"up", "busy", "down"} /\ calm \in 0..CalmUnits
    /\ advisory \in [Table -> Collector \cup {None}]
    /\ conn \in [Collector -> {"none", "open", "dead"}]
    /\ heartbeat \in [Collector -> 0..HeartbeatInterval]
    /\ \A c \in Collector : maintenance[c] \in Nat /\ (state[c] = "closing" => tries[c] \in 1..2)

\* Types; and CREATE never meets a partition that another session has made
\* since the look: ensure_partition's advisory lock covers both, up to the
\* commit ("without the lock two concurrent CREATE ... can fail").
NoDuplicateCreate ==
    /\ TypeOK
    /\ \A c \in Collector : job[c].looked \cap
         (partitions \cup UNION {job[d].made : d \in Collector}) = {}

\* The second _apply misses a partition that it made or found only if every time
\* in that month is past the retention of some collector by now: retention run
\* by any collector, with its own settings and while time goes on, takes nothing
\* that all of them still keep.
SecondApplyFits ==
    \A c \in Collector : job[c].pc = "again" =>
        \A p \in job[c].batch : p \notin partitions =>
            \E d \in Collector : \A x \in 0..(MonthLen - 1) : ~Within(d, p[1], p[2], x)

\* A close that ends while the database answers has recorded "stopped", also
\* when Upkeep's idle connection had died with a restart.
StoppedIsRecorded ==
    [][\A c \in Collector :
          state[c] = "closing" /\ database # "down" => state'[c] # "silent"]_vars

Calm ==
    calm = CalmUnits /\ \A c \in Collector :
        state[c] = "running" /\ job[c].pc = "idle" /\ maintenance[c] > 0

\* After a calm of CalmUnits the current month has its partitions, also where
\* it turns just before a maintenance is due, whatever outages and lost races
\* came before; and no partition has been expired for as long as the interval of
\* maintenance: a drop that was skipped, failed, or lost to another collector
\* has been made up for.
CatchesUp ==
    Calm => /\ \A t \in Table : <<t, 0>> \in partitions
            /\ \A p \in partitions, c \in Collector :
                 (p[2] + 1) * MonthLen > day - Keep[c][p[1]] - MaintenanceInterval
=============================================================================
