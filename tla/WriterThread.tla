---------------------------- MODULE WriterThread ----------------------------
(***************************************************************************)
(* The single thread that writes to the database                           *)
(* (collector/writer_thread.py), from its point of view: BufferedWriter is *)
(* a submit() that returns events or raises and carries them to the next   *)
(* call, whatever becomes of the records (module BufferedWriter).  Upkeep  *)
(* is a tick() that may return events.                                     *)
(***************************************************************************)
EXTENDS RecordQueue

CONSTANTS MaxEvents,    \* bound: events made by submit() and tick()
          FinalRounds   \* _FINAL_ROUNDS

VARIABLES
    tpc,        \* "unborn", "take", "durable", "live", "tick", "closed?",
                \* "empty?", "final", "shutdown", "done"
    taken,      \* durable records taken from the queue, not yet submitted
    takenLive,  \* live cells taken from the queue, not yet submitted
    carried,    \* _carried between rounds, the local `carried` within one
    next,       \* next_carried
    rounds,     \* final rounds begun
    inner,      \* BufferedWriter._carried
    made,       \* events made so far: 1..made
    \* history: durable records, live cells and events passed to submit(), and
    \* the number of final rounds begun when the thread was given an event
    sent, shown, handed, givenIn

roundVars  == <<taken, takenLive, carried, next, rounds>>
sinkVars   == <<inner, made, sent, shown, handed, givenIn>>
threadVars == <<tpc, roundVars, sinkVars>>

ThreadTypeOK ==
    /\ tpc \in {"unborn", "take", "durable", "live", "tick", "closed?", "empty?",
                "final", "shutdown", "done"}
    /\ taken \in Seq(Nat) /\ takenLive \in Cells
    /\ rounds \in 0..FinalRounds
    /\ made \in 0..MaxEvents
    /\ carried \subseteq 1..made /\ next \subseteq 1..made
    /\ inner \subseteq 1..made /\ handed \subseteq 1..made
    /\ sent \in Seq(Nat) /\ shown \in Cells
    /\ givenIn \in [1..MaxEvents -> 0..FinalRounds]

ThreadInit ==
    /\ tpc = "unborn"
    /\ taken = <<>> /\ takenLive = Blank /\ carried = {} /\ next = {} /\ rounds = 0
    /\ inner = {} /\ made = 0 /\ sent = <<>> /\ shown = Blank /\ handed = {}
    /\ givenIn = [e \in 1..MaxEvents |-> 0]
-----------------------------------------------------------------------------
\* The next k events.
New(k) == made + 1 .. made + k

Make(k) == made + k <= MaxEvents /\ made' = made + k

Give(E) == givenIn' = [e \in 1..MaxEvents |-> IF e \in E THEN rounds ELSE givenIn[e]]

\* _submit(): the events of a call that returns are carried by the thread, those
\* of a call that raises by BufferedWriter; the records are gone either way.
Submitted ==
    \/ \E k \in 0..1 :
         /\ Make(k) /\ Give(inner \cup New(k))
         /\ next' = next \cup inner \cup New(k) /\ inner' = {}
    \/ Make(1) /\ inner' = inner \cup New(1) /\ UNCHANGED <<next, givenIn>>

TakeRecords ==
    /\ tpc = "take"
    /\ taken' = durable /\ takenLive' = live
    /\ Take
    /\ tpc' = "durable"
    /\ UNCHANGED <<carried, next, rounds, sinkVars>>

SubmitDurable ==
    /\ tpc = "durable"
    /\ IF taken = <<>> /\ carried = {}
         THEN UNCHANGED <<next, inner, made, givenIn>> ELSE Submitted
    /\ sent' = sent \o taken /\ taken' = <<>>
    /\ handed' = handed \cup carried /\ carried' = {}
    /\ tpc' = "live"
    /\ UNCHANGED <<queueVars, takenLive, rounds, shown>>

SubmitLive ==
    /\ tpc = "live"
    /\ IF takenLive = Blank THEN UNCHANGED <<next, inner, made, givenIn>> ELSE Submitted
    /\ shown' = Overlay(shown, takenLive) /\ takenLive' = Blank
    /\ tpc' = "tick"
    /\ UNCHANGED <<queueVars, taken, carried, rounds, sent, handed>>

\* The end of _round(); a final round makes no upkeep tick.
EndRound ==
    /\ tpc = "tick"
    /\ \E k \in IF rounds = 0 THEN 0..1 ELSE {0} :
         Make(k) /\ Give(New(k)) /\ carried' = next \cup New(k)
    /\ next' = {}
    /\ tpc' = IF rounds = 0 THEN "closed?" ELSE "final"
    /\ UNCHANGED <<queueVars, taken, takenLive, rounds, inner, sent, shown, handed>>

\* Mutant: a closed queue is taken to be empty.
CheckClosedOnly ==
    /\ tpc = "closed?"
    /\ tpc' = IF closed THEN "final" ELSE "take"
    /\ UNCHANGED <<queueVars, roundVars, sinkVars>>

\* queue.closed, then queue.depth(): two turns of the queue's lock.
CheckClosed ==
    /\ tpc = "closed?"
    /\ tpc' = IF closed THEN "empty?" ELSE "take"
    /\ UNCHANGED <<queueVars, roundVars, sinkVars>>

CheckEmpty ==
    /\ tpc = "empty?"
    /\ tpc' = IF HasRecords THEN "take" ELSE "final"
    /\ UNCHANGED <<queueVars, roundVars, sinkVars>>

\* Mutant: the final rounds are left out.
NoFinalRound ==
    /\ tpc = "final"
    /\ tpc' = "shutdown"
    /\ UNCHANGED <<queueVars, roundVars, sinkVars>>

FinalRound ==
    /\ tpc = "final"
    /\ IF carried # {} /\ rounds < FinalRounds
         THEN tpc' = "durable" /\ rounds' = rounds + 1
         ELSE tpc' = "shutdown" /\ UNCHANGED rounds
    /\ UNCHANGED <<queueVars, taken, takenLive, carried, next, sinkVars>>

\* _shutdown()
Shutdown ==
    /\ tpc = "shutdown"
    /\ tpc' = "done"
    /\ UNCHANGED <<queueVars, roundVars, sinkVars>>

ThreadNext ==
    \/ TakeRecords \/ SubmitDurable \/ SubmitLive \/ EndRound
    \/ CheckClosed \/ CheckEmpty \/ FinalRound \/ Shutdown
=============================================================================
