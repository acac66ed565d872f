------------------------------ MODULE Collector ------------------------------
(***************************************************************************)
(* The collector daemon (collector/daemon.py, collector/fleet.py and the   *)
(* `daemon start --foreground` command): the event loop runs the probe     *)
(* sessions, whose callbacks put records in the queue, next to the writer  *)
(* thread; at the end it flushes the pipelines, closes the queue, waits    *)
(* for the thread for a bounded time and gives up the instance lock.       *)
(*                                                                         *)
(* A pipeline is the records a callback makes of a message: possibly a     *)
(* durable record, possibly a live row of its node.                        *)
(***************************************************************************)
EXTENDS WriterThread

CONSTANT MaxPuts   \* bound: put() calls

ASSUME CollectorAssumption ==
    MaxPuts \in Nat \ {0, 1} /\ MaxEvents \in Nat /\ FinalRounds \in Nat \ {0}

VARIABLES
    dpc,      \* "start", "starting", "collecting", "stopping", "flushing",
              \* "closing", "joining", "returned", "released"
    active,   \* nodes whose session runs
    stop,     \* the stop event, or duration_sec is over
    refused,  \* a put() met a closed queue
    \* history: put() calls, durable records put, and the last put of each cell
    puts, accepted, latest

loopVars == <<dpc, active, stop, refused, puts, accepted, latest>>
vars     == <<queueVars, threadVars, loopVars>>

TypeOK ==
    /\ QueueTypeOK /\ ThreadTypeOK
    /\ dpc \in {"start", "starting", "collecting", "stopping", "flushing", "closing",
                "joining", "returned", "released"}
    /\ active \subseteq Node
    /\ stop \in BOOLEAN /\ refused \in BOOLEAN
    /\ puts \in 0..MaxPuts
    /\ accepted \in Seq(Nat) /\ latest \in Cells

Init ==
    /\ QueueInit /\ ThreadInit
    /\ dpc = "start" /\ active = {} /\ stop = FALSE /\ refused = FALSE
    /\ puts = 0 /\ accepted = <<>> /\ latest = Blank
-----------------------------------------------------------------------------
\* A call of queue.put() from the event loop, with a durable record or not.
PutRecords(isDurable, row) ==
    LET records == IF isDurable THEN <<puts + 1>> ELSE <<>> IN
    /\ puts' = puts + 1
    /\ IF closed
         THEN refused' = TRUE /\ UNCHANGED <<queueVars, accepted, latest>>
         ELSE /\ Put(records, row)
              /\ accepted' = accepted \o records
              /\ latest' = [c \in Cell |-> IF row[c] # 0 THEN row[c] ELSE latest[c]]
              /\ UNCHANGED refused
    /\ UNCHANGED threadVars

\* _schema_ok() is false: run() returns 2.
SchemaOutOfDate ==
    /\ dpc = "start"
    /\ dpc' = "returned"
    /\ UNCHANGED <<queueVars, threadVars, active, stop, refused, puts, accepted, latest>>

StartThread ==
    /\ dpc = "start"
    /\ tpc' = "take"
    /\ dpc' = "starting"
    /\ UNCHANGED <<queueVars, roundVars, sinkVars, active, stop, refused, puts, accepted, latest>>

\* collector_started is put and every session runs.
StartSessions ==
    /\ dpc = "starting"
    /\ PutRecords(TRUE, Blank)
    /\ dpc' = "collecting" /\ active' = Node
    /\ UNCHANGED stop

\* _on_message, _on_event: what the pipeline makes of it is put.
Callback(node) ==
    /\ node \in active /\ puts < MaxPuts - 1
    /\ \E isDurable \in BOOLEAN, columns \in SUBSET Column :
         /\ isDurable \/ columns # {}
         /\ PutRecords(isDurable, LiveRow(node, columns, puts + 1))
    /\ UNCHANGED <<dpc, active, stop>>

\* A session fails; _on_crash puts an event and the others carry on.
SessionCrash(node) ==
    /\ node \in active /\ puts < MaxPuts - 1
    /\ PutRecords(TRUE, Blank)
    /\ active' = active \ {node}
    /\ UNCHANGED <<dpc, stop>>

\* request_stop(), SIGTERM, or the end of duration_sec.
RequestStop ==
    /\ ~stop
    /\ stop' = TRUE
    /\ UNCHANGED <<queueVars, threadVars, dpc, active, refused, puts, accepted, latest>>

\* run_sessions(): told to stop, or every session has ended.
StopSessions ==
    /\ dpc = "collecting" /\ (stop \/ active = {})
    /\ dpc' = "stopping"
    /\ UNCHANGED <<queueVars, threadVars, active, stop, refused, puts, accepted, latest>>

SessionStopped(node) ==
    /\ dpc = "stopping" /\ node \in active
    /\ active' = active \ {node}
    /\ UNCHANGED <<queueVars, threadVars, dpc, stop, refused, puts, accepted, latest>>

\* _stop_all() has awaited every session.
AllStopped ==
    /\ dpc = "stopping" /\ active = {}
    /\ dpc' = "flushing"
    /\ UNCHANGED <<queueVars, threadVars, active, stop, refused, puts, accepted, latest>>

\* _finish_queue(): what the pipelines still hold, and collector_stopped.
FinishQueue ==
    /\ dpc = "flushing"
    /\ PutRecords(TRUE, Blank)
    /\ dpc' = "closing"
    /\ UNCHANGED <<active, stop>>

CloseQueue ==
    /\ dpc = "closing"
    /\ Close
    /\ dpc' = "joining"
    /\ UNCHANGED <<threadVars, active, stop, refused, puts, accepted, latest>>

\* _join_writer(): the thread has ended, or WRITER_JOIN_TIMEOUT_SEC is over.
JoinWriter ==
    /\ dpc = "joining"
    /\ dpc' = "returned"
    /\ UNCHANGED <<queueVars, threadVars, active, stop, refused, puts, accepted, latest>>

\* daemon_start's finally: lock.release().
ReleaseLock ==
    /\ dpc = "returned"
    /\ dpc' = "released"
    /\ UNCHANGED <<queueVars, threadVars, active, stop, refused, puts, accepted, latest>>
-----------------------------------------------------------------------------
\* What the event loop does of its own accord.
LoopStep ==
    \/ StartSessions \/ StopSessions \/ AllStopped \/ FinishQueue \/ CloseQueue
    \/ JoinWriter \/ ReleaseLock
    \/ \E node \in Node : SessionStopped(node)

Next ==
    \/ SchemaOutOfDate \/ StartThread \/ LoopStep \/ RequestStop
    \/ \E node \in Node : Callback(node) \/ SessionCrash(node)
    \/ ThreadNext /\ UNCHANGED loopVars

Spec == Init /\ [][Next]_vars

\* The event loop and the thread run, and a session told to stop ends.
FairSpec == Spec /\ WF_vars(LoopStep) /\ WF_vars(ThreadNext /\ UNCHANGED loopVars)
-----------------------------------------------------------------------------
\* Durable records reach submit() in the order in which they were put, none of
\* them lost or repeated by the hand-off between the threads.
DurableInOrder == accepted = sent \o taken \o durable

\* Coalescing live rows loses nothing a reader could see: the last put of each
\* cell waits in the queue, or else is in the thread's hands, or else submitted.
LiveCoalesced ==
    \A c \in Cell :
      latest[c] = IF live[c] # 0 THEN live[c]
                  ELSE IF takenLive[c] # 0 THEN takenLive[c] ELSE shown[c]

\* "RecordQueue is closed" is never raised: no callback, and not the
\* final flush, meets a closed queue.
NoPutAfterClose == ~refused

\* When the thread ends, everything put has been submitted: the last flush
\* cannot slip in between the thread's two looks at the queue.
AllSubmitted ==
    tpc \in {"final", "shutdown", "done"} => sent = accepted /\ shown = latest /\ closed

\* No event is lost on its way back into submit(): each is submitted, carried by
\* the thread or by BufferedWriter, whichever calls return, raise or make more.
EventsKept == 1..made = handed \cup carried \cup next \cup inner

\* The final rounds hand over every event the thread was given before the last
\* of them: an event is only dropped if the last round itself returned it.
EventsFlushed == tpc = "done" => \A e \in carried : givenIn[e] = FinalRounds

\* Once the daemon is told to stop while it runs, the writer thread ends.
StopEnds == stop /\ tpc # "unborn" ~> tpc = "done"
-----------------------------------------------------------------------------
\* The inductive invariant: the phases of the loop and of the thread, and what
\* the queue and the thread hold in each of them.
LoopPhase ==
    /\ dpc \notin {"collecting", "stopping"} => active = {}
    /\ dpc \in {"start", "starting"} => puts = 0
    /\ dpc \in {"start", "starting", "collecting", "stopping", "flushing"} => puts < MaxPuts
    /\ closed => dpc \in {"joining", "returned", "released"}
    /\ dpc = "start" => tpc = "unborn"

ThreadPhase ==
    /\ tpc # "durable" => taken = <<>>
    /\ tpc \notin {"durable", "live"} => takenLive = Blank
    /\ tpc \notin {"live", "tick"} => next = {}
    /\ tpc \in {"live", "tick"} => carried = {}
    /\ rounds > 0 => tpc \in {"durable", "live", "tick", "final", "shutdown", "done"}
    /\ rounds > 0 => taken = <<>> /\ takenLive = Blank
    /\ tpc \in {"empty?", "final", "shutdown", "done"} \/ rounds > 0 => closed
    /\ tpc \in {"final", "shutdown", "done"} \/ rounds > 0 => durable = <<>> /\ live = Blank
    /\ \A e \in next : givenIn[e] = rounds
    /\ tpc # "durable" => \A e \in carried : givenIn[e] = rounds
    /\ tpc \in {"shutdown", "done"} => carried = {} \/ rounds = FinalRounds

CollectorInv ==
    /\ TypeOK /\ LoopPhase /\ ThreadPhase
    /\ DurableInOrder /\ LiveCoalesced /\ NoPutAfterClose /\ EventsKept
=============================================================================
