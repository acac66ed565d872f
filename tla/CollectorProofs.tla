--------------------------- MODULE CollectorProofs ---------------------------
(***************************************************************************)
(* Proofs about the collector daemon: for any nodes and columns, any       *)
(* number of puts and events and any number of final rounds, the hand-off  *)
(* from the event loop to the writer thread keeps order and loses nothing. *)
(* Then the files of its state directory: the names of the spool, and the  *)
(* single-instance guard.                                                  *)
(***************************************************************************)
EXTENDS Collector, SpoolNames, InstanceLock, SequenceTheorems, TLAPS

\* The row of a callback and the merge of put() are functions on the cells.
LEMMA RowTypes ==
    /\ Blank \in Cells
    /\ \A node, columns : \A v \in Nat : LiveRow(node, columns, v) \in Cells
    /\ \A a, b \in Cells : Overlay(a, b) \in Cells
BY DEF Cells, Blank, LiveRow, Overlay

\* A put() of an open queue, as PutRecords makes it.
LEMMA PutOpen ==
    ASSUME TypeOK, ~closed, NEW isDurable \in BOOLEAN, NEW row \in Cells,
           PutRecords(isDurable, row)
    PROVE  \E records \in Seq(Nat) :
             /\ durable' = durable \o records /\ accepted' = accepted \o records
             /\ live' = Overlay(live, row)
             /\ latest' = [c \in Cell |-> IF row[c] # 0 THEN row[c] ELSE latest[c]]
             /\ puts' = puts + 1
             /\ UNCHANGED <<closed, refused, threadVars>>
<1> DEFINE records == IF isDurable THEN <<puts + 1>> ELSE <<>>
<1>1. puts + 1 \in Nat
  BY CollectorAssumption DEF TypeOK
<1>2. records \in Seq(Nat)
  BY <1>1
<1> QED BY <1>2, Zenon DEF PutRecords, Put

\* Every step is one that puts, one of the loop that leaves the records alone,
\* the closing of the queue, or one of the thread.
Puts ==
    \/ StartSessions \/ FinishQueue
    \/ \E node \in Node : Callback(node) \/ SessionCrash(node)

Quiet ==
    \/ SchemaOutOfDate \/ StartThread \/ RequestStop \/ StopSessions \/ AllStopped
    \/ JoinWriter \/ ReleaseLock
    \/ \E node \in Node : SessionStopped(node)

\* What the steps that put have in common: the queue is open, and the row is one.
LEMMA PutStep ==
    ASSUME CollectorInv, Puts
    PROVE  ~closed /\ \E isDurable \in BOOLEAN, row \in Cells : PutRecords(isDurable, row)
<1> USE RowTypes
<1>1. CASE StartSessions
  BY <1>1, Zenon DEF StartSessions, CollectorInv, LoopPhase
<1>2. CASE FinishQueue
  BY <1>2, Zenon DEF FinishQueue, CollectorInv, LoopPhase
<1>3. ASSUME NEW node \in Node, Callback(node)
      PROVE  ~closed /\ \E isDurable \in BOOLEAN, row \in Cells : PutRecords(isDurable, row)
  <2>1. ~closed
    BY <1>3 DEF Callback, CollectorInv, LoopPhase
  <2>2. puts + 1 \in Nat
    BY CollectorAssumption DEF CollectorInv, TypeOK
  <2>3. PICK isDurable \in BOOLEAN, columns \in SUBSET Column :
          PutRecords(isDurable, LiveRow(node, columns, puts + 1))
    BY <1>3 DEF Callback
  <2>4. LiveRow(node, columns, puts + 1) \in Cells
    BY <2>2
  <2> QED BY <2>1, <2>3, <2>4
<1>4. ASSUME NEW node \in Node, SessionCrash(node)
      PROVE  ~closed /\ \E isDurable \in BOOLEAN, row \in Cells : PutRecords(isDurable, row)
  BY <1>4, Zenon DEF SessionCrash, CollectorInv, LoopPhase
<1> QED BY <1>1, <1>2, <1>3, <1>4 DEF Puts

\* The four kinds of step.
LEMMA NextCases ==
    Next <=> Puts \/ Quiet \/ CloseQueue \/ (ThreadNext /\ UNCHANGED loopVars)
BY DEF Next, LoopStep, Puts, Quiet

\* The quiet steps change the loop's own state and, once, start the thread.
LEMMA QuietStep ==
    ASSUME CollectorInv, Quiet
    PROVE  /\ UNCHANGED <<queueVars, roundVars, sinkVars, refused, puts, accepted, latest>>
           /\ tpc' = tpc \/ (tpc = "unborn" /\ tpc' = "take")
<1> USE DEF threadVars

<1>1. CASE SchemaOutOfDate
  BY <1>1 DEF SchemaOutOfDate
<1>2. CASE StartThread
  BY <1>2 DEF StartThread, CollectorInv, LoopPhase
<1>3. CASE RequestStop
  BY <1>3 DEF RequestStop
<1>4. CASE StopSessions
  BY <1>4 DEF StopSessions
<1>5. CASE AllStopped
  BY <1>5 DEF AllStopped
<1>6. CASE JoinWriter
  BY <1>6 DEF JoinWriter
<1>7. CASE ReleaseLock
  BY <1>7 DEF ReleaseLock
<1>8. ASSUME NEW node \in Node, SessionStopped(node)
      PROVE  UNCHANGED <<queueVars, threadVars, refused, puts, accepted, latest>>
  BY <1>8 DEF SessionStopped
<1> QED BY <1>1, <1>2, <1>3, <1>4, <1>5, <1>6, <1>7, <1>8 DEF Quiet
\* Concatenation of durable records is associative.
LEMMA Associative ==
    ASSUME NEW s \in Seq(Nat), NEW t \in Seq(Nat), NEW u \in Seq(Nat)
    PROVE  (s \o t) \o u = s \o (t \o u)
OBVIOUS

\* The order of the durable records survives every step.
LEMMA OrderStep ==
    ASSUME CollectorInv, Next
    PROVE  DurableInOrder'
<1> USE DEF DurableInOrder
<1>1. DurableInOrder /\ sent \in Seq(Nat) /\ taken \in Seq(Nat) /\ durable \in Seq(Nat)
  BY DEF CollectorInv, TypeOK, ThreadTypeOK, QueueTypeOK
<1>2. CASE Puts
  <2>1. PICK records \in Seq(Nat) :
          /\ durable' = durable \o records /\ accepted' = accepted \o records
          /\ UNCHANGED threadVars
    BY <1>2, PutStep, PutOpen, Zenon DEF CollectorInv
  <2>2. sent' = sent /\ taken' = taken
    BY <2>1 DEF threadVars, roundVars, sinkVars
  <2>3. sent \o taken \in Seq(Nat)
    BY <1>1, ConcatProperties
  <2>4. ((sent \o taken) \o durable) \o records = (sent \o taken) \o (durable \o records)
    BY <1>1, <2>3, Associative, Zenon
  <2> QED BY <1>1, <2>1, <2>2, <2>4
<1>3. CASE Quiet
  BY <1>1, <1>3, QuietStep DEF queueVars, roundVars, sinkVars
<1>4. CASE CloseQueue
  BY <1>1, <1>4 DEF CloseQueue, Close, threadVars, roundVars, sinkVars
<1>5. CASE ThreadNext /\ UNCHANGED loopVars
  <2>0. accepted' = accepted
    BY <1>5 DEF loopVars
  <2>1. CASE TakeRecords
    <3>1. taken = <<>> /\ taken' = durable /\ durable' = <<>> /\ sent' = sent
      BY <2>1 DEF TakeRecords, Take, sinkVars, CollectorInv, ThreadPhase
    <3>2. sent \o <<>> = sent /\ (sent \o durable) \o <<>> = sent \o durable
      BY <1>1, ConcatEmptySeq, ConcatProperties
    <3> QED BY <1>1, <2>0, <3>1, <3>2
  <2>2. CASE SubmitDurable
    <3>1. sent' = sent \o taken /\ taken' = <<>> /\ durable' = durable
      BY <2>2 DEF SubmitDurable, queueVars
    <3>2. (sent \o taken) \o <<>> = sent \o taken
      BY <1>1, ConcatEmptySeq, ConcatProperties
    <3> QED BY <1>1, <2>0, <3>1, <3>2
  <2>3. CASE SubmitLive
    BY <1>1, <2>0, <2>3 DEF SubmitLive, queueVars
  <2>4. CASE EndRound
    BY <1>1, <2>0, <2>4 DEF EndRound, queueVars
  <2>5. CASE CheckClosed \/ CheckEmpty \/ Shutdown
    BY <1>1, <2>0, <2>5, Zenon DEF CheckClosed, CheckEmpty, Shutdown, queueVars, roundVars, sinkVars
  <2>6. CASE FinalRound
    BY <1>1, <2>0, <2>6 DEF FinalRound, queueVars, sinkVars
  <2> QED BY <1>5, <2>1, <2>2, <2>3, <2>4, <2>5, <2>6 DEF ThreadNext
<1> QED BY <1>2, <1>3, <1>4, <1>5, NextCases

\* The last value of each cell survives every step.
LEMMA LiveStep ==
    ASSUME CollectorInv, Next
    PROVE  LiveCoalesced'
<1> USE DEF LiveCoalesced
<1>1. LiveCoalesced /\ live \in Cells /\ takenLive \in Cells /\ shown \in Cells /\ latest \in Cells
  BY DEF CollectorInv, TypeOK, ThreadTypeOK, QueueTypeOK
<1>2. CASE Puts
  <2>1. PICK row \in Cells :
          /\ live' = Overlay(live, row)
          /\ latest' = [c \in Cell |-> IF row[c] # 0 THEN row[c] ELSE latest[c]]
          /\ UNCHANGED threadVars
    BY <1>2, PutStep, PutOpen DEF CollectorInv
  <2>2. takenLive' = takenLive /\ shown' = shown
    BY <2>1 DEF threadVars, roundVars, sinkVars
  <2> QED BY <1>1, <2>1, <2>2 DEF Overlay, Cells
<1>3. CASE Quiet
  BY <1>1, <1>3, QuietStep DEF queueVars, roundVars, sinkVars
<1>4. CASE CloseQueue
  BY <1>1, <1>4 DEF CloseQueue, Close, threadVars, roundVars, sinkVars
<1>5. CASE ThreadNext /\ UNCHANGED loopVars
  <2>0. latest' = latest
    BY <1>5 DEF loopVars
  <2>1. CASE TakeRecords
    <3>1. takenLive = Blank /\ takenLive' = live /\ live' = Blank /\ shown' = shown
      BY <2>1 DEF TakeRecords, Take, sinkVars, CollectorInv, ThreadPhase
    <3> QED BY <1>1, <2>0, <3>1 DEF Blank
  <2>2. CASE SubmitLive
    <3>1. shown' = Overlay(shown, takenLive) /\ takenLive' = Blank /\ live' = live
      BY <2>2 DEF SubmitLive, queueVars
    <3> QED BY <1>1, <2>0, <3>1 DEF Blank, Overlay
  <2>3. CASE SubmitDurable
    BY <1>1, <2>0, <2>3 DEF SubmitDurable, queueVars
  <2>4. CASE EndRound
    BY <1>1, <2>0, <2>4 DEF EndRound, queueVars
  <2>5. CASE CheckClosed \/ CheckEmpty \/ Shutdown
    BY <1>1, <2>0, <2>5 DEF CheckClosed, CheckEmpty, Shutdown, queueVars, roundVars, sinkVars
  <2>6. CASE FinalRound
    BY <1>1, <2>0, <2>6 DEF FinalRound, queueVars, sinkVars
  <2> QED BY <1>5, <2>1, <2>2, <2>3, <2>4, <2>5, <2>6 DEF ThreadNext
<1> QED BY <1>2, <1>3, <1>4, <1>5, NextCases

\* A submit() adds the events it makes, and loses none that were carried.
LEMMA SubmittedEvents ==
    ASSUME made \in Nat, Submitted
    PROVE  /\ made' \in Nat /\ made <= made' /\ made' <= MaxEvents
           /\ next' \cup inner' = next \cup inner \cup (made + 1 .. made')
           /\ \A e \in next' : e \in next \/ e \in inner \cup (made + 1 .. made')
           /\ \/ givenIn' = givenIn /\ next' = next
              \/ givenIn' = [e \in 1..MaxEvents |->
                              IF e \in inner \cup (made + 1 .. made') THEN rounds ELSE givenIn[e]]
<1>1. ASSUME NEW k \in 0..1, Make(k), Give(inner \cup New(k)),
             next' = next \cup inner \cup New(k), inner' = {}
      PROVE  /\ made' = made + k /\ made' \in Nat /\ made <= made' /\ made' <= MaxEvents
             /\ New(k) = made + 1 .. made'
  BY <1>1 DEF Make, New
<1>2. ASSUME Make(1)
      PROVE  /\ made' = made + 1 /\ made' \in Nat /\ made <= made' /\ made' <= MaxEvents
             /\ New(1) = made + 1 .. made'
  BY <1>2 DEF Make, New
<1>3. CASE \E k \in 0..1 :
             /\ Make(k) /\ Give(inner \cup New(k))
             /\ next' = next \cup inner \cup New(k) /\ inner' = {}
  BY <1>1, <1>3 DEF Give
<1>4. CASE Make(1) /\ inner' = inner \cup New(1) /\ UNCHANGED <<next, givenIn>>
  BY <1>2, <1>4
<1> QED BY <1>3, <1>4 DEF Submitted

\* The events survive every step.
LEMMA EventsStep ==
    ASSUME CollectorInv, Next
    PROVE  EventsKept'
<1> USE DEF EventsKept
<1>1. EventsKept /\ made \in Nat
  BY DEF CollectorInv, TypeOK, ThreadTypeOK
<1>2. CASE Puts
  <2>1. UNCHANGED threadVars
    BY <1>2, PutStep, PutOpen DEF CollectorInv
  <2> QED BY <1>1, <2>1 DEF threadVars, roundVars, sinkVars
<1>3. CASE Quiet
  BY <1>1, <1>3, QuietStep DEF roundVars, sinkVars
<1>4. CASE CloseQueue
  BY <1>1, <1>4 DEF CloseQueue, threadVars, roundVars, sinkVars
<1>5. CASE ThreadNext /\ UNCHANGED loopVars
  <2>1. CASE TakeRecords
    BY <1>1, <2>1 DEF TakeRecords, sinkVars
  <2>2. CASE SubmitDurable
    <3>1. handed' = handed \cup carried /\ carried' = {}
      BY <2>2 DEF SubmitDurable
    <3>2. CASE UNCHANGED <<next, inner, made>>
      BY <1>1, <3>1, <3>2
    <3>3. CASE Submitted
      BY <1>1, <3>1, <3>3, SubmittedEvents
    <3> QED BY <2>2, <3>2, <3>3 DEF SubmitDurable
  <2>3. CASE SubmitLive
    <3>1. handed' = handed /\ carried' = carried
      BY <2>3 DEF SubmitLive
    <3>2. CASE UNCHANGED <<next, inner, made>>
      BY <1>1, <3>1, <3>2
    <3>3. CASE Submitted
      BY <1>1, <3>1, <3>3, SubmittedEvents
    <3> QED BY <2>3, <3>2, <3>3 DEF SubmitLive
  <2>4. CASE EndRound
    <3>1. carried = {}
      BY <2>4 DEF EndRound, CollectorInv, ThreadPhase
    <3>2. PICK k \in 0..1 : made' = made + k /\ carried' = next \cup (made + 1 .. made + k)
      BY <2>4 DEF EndRound, Make, New
    <3>3. next' = {} /\ inner' = inner /\ handed' = handed
      BY <2>4 DEF EndRound
    <3> QED BY <1>1, <3>1, <3>2, <3>3
  <2>5. CASE CheckClosed \/ CheckEmpty \/ Shutdown
    BY <1>1, <2>5 DEF CheckClosed, CheckEmpty, Shutdown, roundVars, sinkVars
  <2>6. CASE FinalRound
    BY <1>1, <2>6 DEF FinalRound, sinkVars
  <2> QED BY <1>5, <2>1, <2>2, <2>3, <2>4, <2>5, <2>6 DEF ThreadNext
<1> QED BY <1>2, <1>3, <1>4, <1>5, NextCases

\* The types survive every step; the bounds on puts come from the phases.
LEMMA TypeStep ==
    ASSUME CollectorInv, Next
    PROVE  TypeOK'
<1>1. TypeOK /\ QueueTypeOK /\ ThreadTypeOK
  BY DEF CollectorInv, TypeOK
<1>2. CASE Puts
  <2>1. PICK records \in Seq(Nat), row \in Cells :
          /\ durable' = durable \o records /\ accepted' = accepted \o records
          /\ live' = Overlay(live, row)
          /\ latest' = [c \in Cell |-> IF row[c] # 0 THEN row[c] ELSE latest[c]]
          /\ puts' = puts + 1
          /\ UNCHANGED <<closed, refused, threadVars>>
    BY <1>2, PutStep, PutOpen, Zenon DEF CollectorInv
  <2>2. QueueTypeOK'
    BY <1>1, <2>1, RowTypes DEF QueueTypeOK
  <2>3. ThreadTypeOK'
    BY <1>1, <2>1 DEF ThreadTypeOK, threadVars, roundVars, sinkVars
  <2>4. accepted' \in Seq(Nat) /\ latest' \in Cells
    BY <1>1, <2>1 DEF TypeOK, Cells
  <2>5. /\ dpc' \in {"start", "starting", "collecting", "stopping", "flushing", "closing",
                     "joining", "returned", "released"}
        /\ active' \subseteq Node /\ stop' \in BOOLEAN
    BY <1>1, <1>2, Zenon DEF Puts, StartSessions, FinishQueue, Callback, SessionCrash, TypeOK
  <2>6. puts < MaxPuts
    BY <1>2, CollectorAssumption, Zenon
       DEF Puts, StartSessions, FinishQueue, Callback, SessionCrash, CollectorInv, LoopPhase, TypeOK
  <2>7. puts' \in 0..MaxPuts
    BY <1>1, <2>1, <2>6, CollectorAssumption DEF TypeOK
  <2> QED BY <1>1, <2>1, <2>2, <2>3, <2>4, <2>5, <2>7 DEF TypeOK
<1>3. CASE Quiet
  <2>1. /\ UNCHANGED <<queueVars, roundVars, sinkVars, refused, puts, accepted, latest>>
        /\ tpc' = tpc \/ (tpc = "unborn" /\ tpc' = "take")
    BY <1>3, QuietStep
  <2>2. QueueTypeOK' /\ ThreadTypeOK'
    BY <1>1, <2>1 DEF QueueTypeOK, ThreadTypeOK, queueVars, roundVars, sinkVars
  <2>3. /\ dpc' \in {"start", "starting", "collecting", "stopping", "flushing", "closing",
                     "joining", "returned", "released"}
        /\ active' \subseteq Node /\ stop' \in BOOLEAN
    BY <1>1, <1>3, Zenon DEF Quiet, SchemaOutOfDate, StartThread, RequestStop, StopSessions, AllStopped,
                      JoinWriter, ReleaseLock, SessionStopped, TypeOK
  <2> QED BY <1>1, <2>1, <2>2, <2>3 DEF TypeOK
<1>4. CASE CloseQueue
  <2>1. ThreadTypeOK'
    BY <1>1, <1>4 DEF CloseQueue, ThreadTypeOK, threadVars, roundVars, sinkVars
  <2> QED BY <1>1, <1>4, <2>1 DEF CloseQueue, Close, TypeOK, QueueTypeOK
<1>5. CASE ThreadNext /\ UNCHANGED loopVars
  <2>1. QueueTypeOK'
    <3>1. Take \/ UNCHANGED queueVars
      BY <1>5 DEF ThreadNext, TakeRecords, SubmitDurable, SubmitLive, EndRound, CheckClosed,
                  CheckEmpty, FinalRound, Shutdown
    <3>2. CASE Take
      BY <1>1, <3>2, RowTypes DEF Take, QueueTypeOK
    <3>3. CASE UNCHANGED queueVars
      BY <1>1, <3>3 DEF queueVars, QueueTypeOK
    <3> QED BY <3>1, <3>2, <3>3
  <2>2. ThreadTypeOK'
    <3> USE DEF ThreadTypeOK
    <3>1. CASE TakeRecords
      BY <1>1, <3>1 DEF TakeRecords, sinkVars, QueueTypeOK
    <3>2. ASSUME Submitted, rounds' = rounds
          PROVE  /\ made' \in 0..MaxEvents /\ made <= made'
                 /\ next' \subseteq 1..made' /\ inner' \subseteq 1..made'
                 /\ givenIn' \in [1..MaxEvents -> 0..FinalRounds]
      <4>1. made \in Nat /\ next \subseteq 1..made /\ inner \subseteq 1..made
        BY <1>1
      <4>2. /\ made' \in Nat /\ made <= made' /\ made' <= MaxEvents
            /\ next' \cup inner' = next \cup inner \cup (made + 1 .. made')
            /\ \/ givenIn' = givenIn
               \/ givenIn' = [e \in 1..MaxEvents |->
                               IF e \in inner \cup (made + 1 .. made') THEN rounds ELSE givenIn[e]]
        BY <3>2, <4>1, SubmittedEvents
      <4>3. next' \subseteq 1..made' /\ inner' \subseteq 1..made'
        BY <4>1, <4>2
      <4>4. givenIn' \in [1..MaxEvents -> 0..FinalRounds]
        <5>1. rounds \in 0..FinalRounds /\ givenIn \in [1..MaxEvents -> 0..FinalRounds]
          BY <1>1
        <5> QED BY <4>2, <5>1
      <4>5. made' \in 0..MaxEvents
        BY <4>2, CollectorAssumption
      <4> QED BY <4>2, <4>3, <4>4, <4>5
    <3>3. CASE SubmitDurable
      <4>1. CASE UNCHANGED <<next, inner, made, givenIn>>
        BY <1>1, <3>3, <4>1 DEF SubmitDurable
      <4>2. CASE Submitted
        BY <1>1, <3>2, <3>3, <4>2 DEF SubmitDurable
      <4> QED BY <3>3, <4>1, <4>2 DEF SubmitDurable
    <3>4. CASE SubmitLive
      <4>1. CASE UNCHANGED <<next, inner, made, givenIn>>
        BY <1>1, <3>4, <4>1, RowTypes DEF SubmitLive
      <4>2. CASE Submitted
        BY <1>1, <3>2, <3>4, <4>2, RowTypes DEF SubmitLive
      <4> QED BY <3>4, <4>1, <4>2 DEF SubmitLive
    <3>5. CASE EndRound
      <4>1. PICK k \in 0..1 :
              made + k <= MaxEvents /\ made' = made + k /\ Give(New(k)) /\ carried' = next \cup New(k)
        BY <3>5 DEF EndRound, Make
      <4>2. carried' \subseteq 1..made' /\ made' \in 0..MaxEvents /\ made <= made'
        BY <1>1, <4>1, CollectorAssumption DEF New
      <4>3. givenIn' \in [1..MaxEvents -> 0..FinalRounds]
        BY <1>1, <4>1 DEF Give
      <4> QED BY <1>1, <3>5, <4>2, <4>3 DEF EndRound
    <3>6. CASE CheckClosed \/ CheckEmpty \/ Shutdown
      BY <1>1, <3>6, Zenon DEF CheckClosed, CheckEmpty, Shutdown, roundVars, sinkVars
    <3>7. CASE FinalRound
      <4>1. rounds' \in 0..FinalRounds
        BY <1>1, <3>7, CollectorAssumption DEF FinalRound
      <4> QED BY <1>1, <3>7, <4>1 DEF FinalRound, sinkVars
    <3> QED BY <1>5, <3>1, <3>3, <3>4, <3>5, <3>6, <3>7 DEF ThreadNext
  <2> QED BY <1>1, <1>5, <2>1, <2>2 DEF TypeOK, loopVars
<1> QED BY <1>2, <1>3, <1>4, <1>5, NextCases

\* The phases of the event loop.
LEMMA LoopPhaseStep ==
    ASSUME CollectorInv, Next
    PROVE  LoopPhase'
<1> USE DEF LoopPhase
<1>1. LoopPhase /\ puts \in Nat
  BY CollectorAssumption DEF CollectorInv, TypeOK
<1>2. CASE Puts
  <2>1. puts' = puts + 1 /\ closed' = closed /\ tpc' = tpc
    BY <1>2, PutStep, PutOpen DEF CollectorInv, threadVars
  <2>2. CASE StartSessions
    BY <1>1, <2>1, <2>2, CollectorAssumption DEF StartSessions
  <2>3. CASE FinishQueue
    BY <1>1, <2>1, <2>3 DEF FinishQueue
  <2>4. ASSUME NEW node \in Node, Callback(node) \/ SessionCrash(node)
        PROVE  /\ dpc' = dpc /\ dpc \in {"collecting", "stopping"}
               /\ active' \subseteq active /\ puts < MaxPuts - 1
    BY <1>1, <2>4, Zenon DEF Callback, SessionCrash
  <2>5. CASE \E node \in Node : Callback(node) \/ SessionCrash(node)
    <3>1. dpc' = dpc /\ dpc \in {"collecting", "stopping"} /\ puts < MaxPuts - 1
      BY <2>4, <2>5
    <3>2. puts' < MaxPuts
      BY <1>1, <2>1, <3>1, CollectorAssumption
    <3> QED BY <1>1, <2>1, <3>1, <3>2
  <2> QED BY <1>2, <2>2, <2>3, <2>5 DEF Puts
<1>3. CASE Quiet
  <2>1. puts' = puts /\ closed' = closed /\ (tpc' = tpc \/ dpc' = "starting")
    BY <1>3 DEF Quiet, SchemaOutOfDate, StartThread, RequestStop, StopSessions, AllStopped,
                JoinWriter, ReleaseLock, SessionStopped, queueVars, threadVars
  <2> QED BY <1>1, <1>3, <2>1
          DEF Quiet, SchemaOutOfDate, StartThread, RequestStop, StopSessions, AllStopped,
              JoinWriter, ReleaseLock, SessionStopped
<1>4. CASE CloseQueue
  BY <1>1, <1>4 DEF CloseQueue, threadVars
<1>5. CASE ThreadNext /\ UNCHANGED loopVars
  <2>1. tpc # "unborn" /\ closed' = closed
    BY <1>5 DEF ThreadNext, TakeRecords, Take, SubmitDurable, SubmitLive, EndRound,
                CheckClosed, CheckEmpty, FinalRound, Shutdown, queueVars
  <2> QED BY <1>1, <1>5, <2>1 DEF loopVars
<1> QED BY <1>2, <1>3, <1>4, <1>5, NextCases

\* The phases of the writer thread.
LEMMA ThreadPhaseStep ==
    ASSUME CollectorInv, Next
    PROVE  ThreadPhase'
<1> USE DEF ThreadPhase
<1>1. ThreadPhase /\ rounds \in Nat /\ rounds <= FinalRounds /\ FinalRounds \in Nat
  BY CollectorAssumption DEF CollectorInv, TypeOK, ThreadTypeOK
<1>2. CASE Puts
  <2>1. ~closed /\ UNCHANGED <<closed, threadVars>>
    BY <1>2, PutStep, PutOpen DEF CollectorInv
  <2> QED BY <1>1, <2>1 DEF threadVars, roundVars, sinkVars
<1>3. CASE Quiet
  <2>1. /\ UNCHANGED <<queueVars, roundVars, sinkVars>>
        /\ tpc' = tpc \/ (tpc = "unborn" /\ tpc' = "take")
    BY <1>3, QuietStep
  <2> QED BY <1>1, <2>1 DEF queueVars, roundVars, sinkVars
<1>4. CASE CloseQueue
  BY <1>1, <1>4 DEF CloseQueue, Close, threadVars, roundVars, sinkVars
<1>5. CASE ThreadNext /\ UNCHANGED loopVars
  <2>1. CASE TakeRecords
    BY <1>1, <2>1 DEF TakeRecords, Take, sinkVars
  <2>2. ASSUME Submitted, rounds' = rounds
        PROVE  \A e \in next' : givenIn'[e] = rounds'
    <3>1. made \in Nat /\ MaxEvents \in Nat /\ next \subseteq 1..made /\ inner \subseteq 1..made
      BY CollectorAssumption DEF CollectorInv, TypeOK, ThreadTypeOK
    <3>2. /\ made' \in Nat /\ made <= made' /\ made' <= MaxEvents
          /\ next' \cup inner' = next \cup inner \cup (made + 1 .. made')
          /\ \A e \in next' : e \in next \/ e \in inner \cup (made + 1 .. made')
          /\ \/ givenIn' = givenIn /\ next' = next
             \/ givenIn' = [e \in 1..MaxEvents |->
                             IF e \in inner \cup (made + 1 .. made') THEN rounds ELSE givenIn[e]]
      BY <2>2, <3>1, SubmittedEvents
    <3>3. next' \subseteq 1..MaxEvents
      BY <3>1, <3>2
    <3> QED BY <1>1, <2>2, <3>2, <3>3, Zenon
  <2>3. CASE SubmitDurable
    <3>1. \A e \in next' : givenIn'[e] = rounds'
      <4>1. CASE UNCHANGED <<next, inner, made, givenIn>>
        BY <1>1, <2>3, <4>1 DEF SubmitDurable
      <4>2. CASE Submitted
        BY <2>2, <2>3, <4>2 DEF SubmitDurable
      <4> QED BY <2>3, <4>1, <4>2 DEF SubmitDurable
    <3> QED BY <1>1, <2>3, <3>1 DEF SubmitDurable, queueVars
  <2>4. CASE SubmitLive
    <3>1. \A e \in next' : givenIn'[e] = rounds'
      <4>1. CASE UNCHANGED <<next, inner, made, givenIn>>
        BY <1>1, <2>4, <4>1 DEF SubmitLive
      <4>2. CASE Submitted
        BY <2>2, <2>4, <4>2 DEF SubmitLive
      <4> QED BY <2>4, <4>1, <4>2 DEF SubmitLive
    <3> QED BY <1>1, <2>4, <3>1 DEF SubmitLive, queueVars
  <2>5. CASE EndRound
    <3>1. PICK k \in 0..1 :
            made + k <= MaxEvents /\ Give(New(k)) /\ carried' = next \cup New(k)
      BY <2>5 DEF EndRound, Make
    <3>2. rounds' = rounds /\ next' = {}
      BY <2>5 DEF EndRound
    <3>3. made \in Nat /\ MaxEvents \in Nat /\ made <= MaxEvents /\ next \subseteq 1..made
      BY CollectorAssumption DEF CollectorInv, TypeOK, ThreadTypeOK
    <3>4. New(k) \subseteq 1..MaxEvents /\ next \subseteq 1..MaxEvents
      BY <3>1, <3>3 DEF New
    <3>5. \A e \in carried' : givenIn'[e] = rounds'
      BY <1>1, <3>1, <3>2, <3>4 DEF Give
    <3> QED BY <1>1, <2>5, <3>2, <3>5 DEF EndRound, queueVars
  <2>6. CASE CheckClosed
    BY <1>1, <2>6 DEF CheckClosed, queueVars, roundVars, sinkVars
  <2>7. CASE CheckEmpty
    BY <1>1, <2>7 DEF CheckEmpty, HasRecords, queueVars, roundVars, sinkVars
  <2>8. CASE FinalRound
    BY <1>1, <2>8 DEF FinalRound, queueVars, sinkVars
  <2>9. CASE Shutdown
    BY <1>1, <2>9 DEF Shutdown, queueVars, roundVars, sinkVars
  <2> QED BY <1>5, <2>1, <2>3, <2>4, <2>5, <2>6, <2>7, <2>8, <2>9, Zenon DEF ThreadNext
<1> QED BY <1>2, <1>3, <1>4, <1>5, NextCases

\* No put meets a closed queue.
LEMMA OpenStep ==
    ASSUME CollectorInv, Next
    PROVE  NoPutAfterClose'
<1> USE DEF NoPutAfterClose
<1>1. NoPutAfterClose
  BY DEF CollectorInv
<1>2. CASE Puts
  BY <1>1, <1>2, PutStep, PutOpen DEF CollectorInv
<1>3. CASE Quiet
  BY <1>1, <1>3, QuietStep
<1>4. CASE CloseQueue
  BY <1>1, <1>4 DEF CloseQueue
<1>5. CASE ThreadNext /\ UNCHANGED loopVars
  BY <1>1, <1>5 DEF loopVars
<1> QED BY <1>2, <1>3, <1>4, <1>5, NextCases

\* The invariant holds when the daemon starts.
LEMMA InitInv == Init => CollectorInv
<1> SUFFICES ASSUME Init PROVE CollectorInv
  OBVIOUS
<1> USE CollectorAssumption DEF Init, QueueInit, ThreadInit
<1>0. <<>> \in Seq(Nat) /\ Blank \in Cells /\ {} \subseteq 1..0
  BY RowTypes
<1>1. QueueTypeOK
  BY <1>0, Zenon DEF QueueTypeOK
<1>2. ThreadTypeOK
  BY <1>0 DEF ThreadTypeOK
<1>3. TypeOK
  <2>1. /\ active \subseteq Node /\ puts \in 0..MaxPuts
        /\ accepted \in Seq(Nat) /\ latest \in Cells
    BY <1>0
  <2>2. stop \in BOOLEAN /\ refused \in BOOLEAN
    BY Zenon
  <2>3. dpc = "start"
    OBVIOUS
  <2> HIDE CollectorAssumption DEF Init, QueueInit, ThreadInit
  <2> QED BY <1>1, <1>2, <2>1, <2>2, <2>3 DEF TypeOK
<1>4. LoopPhase /\ ThreadPhase
  BY DEF LoopPhase, ThreadPhase
<1>5. DurableInOrder /\ NoPutAfterClose /\ EventsKept
  BY DEF DurableInOrder, NoPutAfterClose, EventsKept
<1>6. LiveCoalesced
  BY DEF LiveCoalesced, Blank
<1> QED BY <1>3, <1>4, <1>5, <1>6 DEF CollectorInv

\* The phases of Daemon.run() and WriterThread.run(), and what the queue and the
\* thread hold in each of them, for any bounds.
THEOREM Invariance == Spec => []CollectorInv
<1>1. CollectorInv /\ [Next]_vars => CollectorInv'
  <2> SUFFICES ASSUME CollectorInv, [Next]_vars PROVE CollectorInv'
    OBVIOUS
  <2>1. CASE Next
    BY <2>1, TypeStep, LoopPhaseStep, ThreadPhaseStep, OrderStep, LiveStep, OpenStep, EventsStep
       DEF CollectorInv
  <2>2. CASE UNCHANGED vars
    <3>1. UNCHANGED <<durable, live, closed, tpc, taken, takenLive, carried, next, rounds>>
      BY <2>2, Zenon DEF vars, queueVars, threadVars, roundVars
    <3>2. UNCHANGED <<inner, made, sent, shown, handed, givenIn>>
      BY <2>2, Zenon DEF vars, threadVars, sinkVars
    <3>3. UNCHANGED <<dpc, active, stop, refused, puts, accepted, latest>>
      BY <2>2, Zenon DEF vars, loopVars
    <3>4. QueueTypeOK' /\ ThreadTypeOK' /\ TypeOK'
      <4>1. QueueTypeOK /\ ThreadTypeOK /\ TypeOK
        BY Zenon DEF CollectorInv, TypeOK
      <4>2. QueueTypeOK'
        BY <3>1, <4>1 DEF QueueTypeOK
      <4>3. ThreadTypeOK'
        BY <3>1, <3>2, <4>1 DEF ThreadTypeOK
      <4> QED BY <3>3, <4>1, <4>2, <4>3 DEF TypeOK
    <3>5. LoopPhase'
      BY <3>1, <3>3 DEF CollectorInv, LoopPhase
    <3>6. ThreadPhase'
      BY <3>1, <3>2 DEF CollectorInv, ThreadPhase
    <3>7. DurableInOrder' /\ LiveCoalesced'
      BY <3>1, <3>2, <3>3, Zenon DEF CollectorInv, DurableInOrder, LiveCoalesced
    <3>8. NoPutAfterClose' /\ EventsKept'
      BY <3>1, <3>2, <3>3 DEF CollectorInv, NoPutAfterClose, EventsKept
    <3> QED BY <3>4, <3>5, <3>6, <3>7, <3>8, Zenon DEF CollectorInv
  <2> QED BY <2>1, <2>2
<1> QED BY <1>1, InitInv, PTL DEF Spec

\* RecordQueue hands every durable record to submit() once and in put order.
THEOREM DurableOrder == Spec => []DurableInOrder
<1>1. CollectorInv => DurableInOrder
  BY DEF CollectorInv
<1> QED BY <1>1, Invariance, PTL

\* Coalescing in put() never hides the newest value of a column of a node.
THEOREM LiveNewest == Spec => []LiveCoalesced
<1>1. CollectorInv => LiveCoalesced
  BY DEF CollectorInv
<1> QED BY <1>1, Invariance, PTL

\* The shutdown order of Daemon.run() keeps put() from raising.
THEOREM PutsMeetOpenQueue == Spec => []NoPutAfterClose
<1>1. CollectorInv => NoPutAfterClose
  BY DEF CollectorInv
<1> QED BY <1>1, Invariance, PTL

\* WriterThread.run() leaves its loop only when everything put is submitted.
THEOREM QueueDrained == Spec => []AllSubmitted
<1>1. CollectorInv => AllSubmitted
  <2> SUFFICES ASSUME CollectorInv, tpc \in {"final", "shutdown", "done"}
               PROVE  sent = accepted /\ shown = latest /\ closed
    BY DEF AllSubmitted
  <2>1. closed /\ durable = <<>> /\ live = Blank /\ taken = <<>> /\ takenLive = Blank
    BY DEF CollectorInv, ThreadPhase
  <2>2. sent \in Seq(Nat) /\ sent \o <<>> = sent
    BY ConcatEmptySeq DEF CollectorInv, TypeOK, ThreadTypeOK
  <2>3. sent = accepted
    BY <2>1, <2>2 DEF CollectorInv, DurableInOrder
  <2>4. \A c \in Cell : latest[c] = shown[c]
    BY <2>1 DEF CollectorInv, LiveCoalesced, Blank
  <2>5. shown = latest
    BY <2>4 DEF CollectorInv, TypeOK, ThreadTypeOK, Cells
  <2> QED BY <2>1, <2>3, <2>5
<1> QED BY <1>1, Invariance, PTL

\* No event is lost between submit(), _carried and the next round.
THEOREM EventsNotLost == Spec => []EventsKept
<1>1. CollectorInv => EventsKept
  BY DEF CollectorInv
<1> QED BY <1>1, Invariance, PTL

\* Only events that the last final round returned are left at the end.
THEOREM FinalRoundsFlush == Spec => []EventsFlushed
<1>1. CollectorInv => EventsFlushed
  BY DEF CollectorInv, ThreadPhase, EventsFlushed
<1> QED BY <1>1, Invariance, PTL
-----------------------------------------------------------------------------
(***************************************************************************)
(* The names of the spool's files: for any number of writes, restarts and  *)
(* moves, under a clock that does not step back.                           *)
(***************************************************************************)
\* Where the name is not taken, a file is simply added.
LEMMA PutNew ==
    ASSUME NEW D, NEW f, \A g \in D : ~SameName(f, g)
    PROVE  PutFile(D, f) = D \cup {f}
BY DEF PutFile

\* Two files of the spool and of corrupt/ never have the same name.
LEMMA DistinctNames ==
    ASSUME NamesInv, NEW f \in directory \cup corrupt, NEW g \in directory \cup corrupt,
           SameName(f, g)
    PROVE  f = g
<1>1. f \in File /\ g \in File
  BY DEF NamesInv, NamesTypeOK
<1>2. ~SortsBefore(f, g) /\ ~SortsBefore(g, f)
  BY <1>1 DEF SameName, SortsBefore, File
<1>3. f.write = g.write
  BY <1>1, <1>2 DEF NamesInv, File
<1> QED
  BY <1>3 DEF NamesInv

\* The name a write takes is new and sorts behind all others.
LEMMA NewFileLast ==
    ASSUME NamesInv, NEW f \in directory \cup corrupt
    PROVE  ~SameName(NewFile, f) /\ SortsBefore(f, NewFile) /\ f.write < NewFile.write
<1>1. f \in File /\ now \in Nat /\ seq \in Nat /\ writes \in Nat
  BY DEF NamesInv, NamesTypeOK
<1>2. f.write <= writes /\ (f.stamp < now \/ (f.stamp = now /\ f.seq <= seq))
  BY DEF NamesInv
<1> QED
  BY <1>1, <1>2 DEF NewFile, SameName, SortsBefore, File

-----------------------------------------------------------------------------
\* Writes, moves, removals, restarts and the passing of time keep the names of
\* all files in the order of their writes.
LEMMA NamesStep == NamesInv /\ [NamesNext]_namesVars => NamesInv'
<1> SUFFICES ASSUME NamesInv, [NamesNext]_namesVars PROVE NamesInv'
  OBVIOUS
<1> DEFINE All == directory \cup corrupt
<1>1. ASSUME NextNumber, All' \subseteq All \cup {NewFile}, directory' \cap corrupt' = {},
             directory' \subseteq All \cup {NewFile}, corrupt' \subseteq All \cup {NewFile}
      PROVE  NamesInv'
  <2>1. now \in Nat /\ seq \in Nat /\ writes \in Nat /\ All \subseteq File
    BY DEF NamesInv, NamesTypeOK
  <2>2. now' = now /\ seq' = seq + 1 /\ writes' = writes + 1
    BY <1>1 DEF NextNumber
  <2>3. NewFile \in File /\ NewFile.write = writes + 1
        /\ NewFile.stamp = now /\ NewFile.seq = seq + 1
    BY <2>1 DEF NewFile, File
  <2>4. NamesTypeOK'
    BY <1>1, <2>1, <2>2, <2>3 DEF NamesTypeOK
  <2>5. \A f \in All' : /\ f.write <= writes'
                        /\ f.stamp < now' \/ (f.stamp = now' /\ f.seq <= seq')
    <3> SUFFICES ASSUME NEW f \in All \cup {NewFile}
                 PROVE  /\ f.write <= writes'
                        /\ f.stamp < now' \/ (f.stamp = now' /\ f.seq <= seq')
      BY <1>1
    <3>1. CASE f = NewFile
      BY <3>1, <2>1, <2>2, <2>3
    <3>2. CASE f \in All
      <4>1. f.write <= writes /\ (f.stamp < now \/ (f.stamp = now /\ f.seq <= seq))
        BY <3>2 DEF NamesInv
      <4>2. f.write \in Nat /\ f.seq \in Nat
        BY <3>2, <2>1 DEF File
      <4> QED
        BY <4>1, <4>2, <2>1, <2>2
    <3> QED
      BY <3>1, <3>2
  <2>6. \A f, g \in All' : /\ f.write < g.write => SortsBefore(f, g)
                           /\ f.write = g.write => f = g
    <3> SUFFICES ASSUME NEW f \in All \cup {NewFile}, NEW g \in All \cup {NewFile}
                 PROVE  /\ f.write < g.write => SortsBefore(f, g)
                        /\ f.write = g.write => f = g
      BY <1>1
    <3>1. f.write \in Nat /\ g.write \in Nat
      BY <2>1, <2>3 DEF File
    <3>2. CASE f \in All /\ g \in All
      BY <3>2 DEF NamesInv
    <3>3. CASE f \in All /\ g = NewFile
      BY <3>1, <3>3, NewFileLast
    <3>4. CASE f = NewFile /\ g \in All
      BY <3>1, <3>4, NewFileLast
    <3> QED
      BY <3>1, <3>2, <3>3, <3>4
  <2> QED
    BY <1>1, <2>4, <2>5, <2>6 DEF NamesInv
<1>2. ASSUME directory' \subseteq All, corrupt' \subseteq All, directory' \cap corrupt' = {},
             writes' = writes, now' = now, seq' = seq
      PROVE  NamesInv'
  BY <1>2 DEF NamesInv, NamesTypeOK
<1>3. CASE AppendFile
  <2>1. PutFile(directory, NewFile) = directory \cup {NewFile} /\ NewFile \notin corrupt
    BY PutNew, NewFileLast DEF SameName
  <2> QED
    BY <1>1, <1>3, <2>1 DEF AppendFile, NamesInv
<1>4. CASE QuarantineRecords
  <2>1. PutFile(corrupt, NewFile) = corrupt \cup {NewFile} /\ NewFile \notin directory
    BY PutNew, NewFileLast DEF SameName
  <2> QED
    BY <1>1, <1>4, <2>1 DEF QuarantineRecords, NamesInv
<1>5. ASSUME NEW f \in directory, Remove(f) PROVE NamesInv'
  BY <1>2, <1>5 DEF Remove, NamesInv
<1>6. ASSUME NEW f \in directory, Quarantine(f) PROVE NamesInv'
  <2>1. PutFile(corrupt, f) \subseteq corrupt \cup {f}
    BY DEF PutFile
  <2> QED
    BY <1>2, <1>6, <2>1 DEF Quarantine, NamesInv
<1>7. ASSUME NEW f \in corrupt, Requeue(f) PROVE NamesInv'
  <2>1. PutFile(directory, f) \subseteq directory \cup {f}
    BY DEF PutFile
  <2> QED
    BY <1>2, <1>7, <2>1 DEF Requeue, NamesInv
<1>8. CASE Restart \/ ClockTick
  <2>1. now \in Nat /\ now' = now + 1 /\ seq' \in Nat /\ UNCHANGED <<writes, directory, corrupt>>
    BY <1>8 DEF Restart, ClockTick, NamesInv, NamesTypeOK, File
  <2>2. \A f \in All : f.stamp < now'
    BY <2>1 DEF NamesInv, NamesTypeOK, File
  <2> QED
    BY <2>1, <2>2 DEF NamesInv, NamesTypeOK
<1>9. CASE UNCHANGED namesVars
  BY <1>2, <1>9 DEF namesVars, NamesInv
<1> QED
  BY <1>3, <1>4, <1>5, <1>6, <1>7, <1>8, <1>9 DEF NamesNext

\* The names of all files, in the spool or set aside, follow the writes.
THEOREM NamesInvariance == NamesSpec => []NamesInv
<1>1. NamesInit => NamesInv
  BY DEF NamesInit, NamesInv, NamesTypeOK
<1> QED
  BY <1>1, NamesStep, PTL DEF NamesSpec

\* The directory lists batches in the order in which they were stored, so that
\* replay and eviction may go by name.
THEOREM ListedOrder == NamesSpec => []ListedInWriteOrder
<1>1. NamesInv => ListedInWriteOrder
  BY DEF NamesInv, ListedInWriteOrder
<1> QED
  BY NamesInvariance, <1>1, PTL

\* No file of the spool or of corrupt/ is ever overwritten by another.
THEOREM NeverReplaced == NamesSpec => NothingReplaced
<1> DEFINE Kept == \A f \in directory \cup corrupt : f \in directory' \cup corrupt' \/ Remove(f)
<1>1. NamesInv /\ [NamesNext]_namesVars => [Kept]_namesVars
  <2> SUFFICES ASSUME NamesInv, NamesNext PROVE Kept
    OBVIOUS
  <2>1. CASE AppendFile
    BY <2>1, NewFileLast DEF AppendFile, PutFile
  <2>2. CASE QuarantineRecords
    BY <2>2, NewFileLast DEF QuarantineRecords, PutFile
  <2>3. ASSUME NEW f \in directory, Remove(f) PROVE Kept
    BY <2>3 DEF Remove
  <2>4. ASSUME NEW f \in directory, Quarantine(f) PROVE Kept
    BY <2>4, DistinctNames DEF Quarantine, PutFile
  <2>5. ASSUME NEW f \in corrupt, Requeue(f) PROVE Kept
    BY <2>5, DistinctNames DEF Requeue, PutFile
  <2>6. CASE Restart \/ ClockTick
    BY <2>6 DEF Restart, ClockTick
  <2> QED
    BY <2>1, <2>2, <2>3, <2>4, <2>5, <2>6 DEF NamesNext
<1> QED
  BY NamesInvariance, <1>1, PTL DEF NamesSpec, NothingReplaced

-----------------------------------------------------------------------------
(***************************************************************************)
(* The single-instance guard, for any sets of daemons and of commands.     *)
(***************************************************************************)
\* The invariant holds before any process runs.
LEMMA LockStart == LockInit => LockInv
BY LockAssumption DEF LockInit, LockInv, LockTypeOK, Held, NotClobbered

\* Every system call of a daemon preserves it.
LEMMA DaemonInv ==
    ASSUME LockInv, NEW d \in Daemon, DaemonStep(d)
    PROVE  LockInv'
<1> USE LockAssumption DEF LockInv, LockTypeOK, Held, NotClobbered, Moves
<1>1. CASE Open(d)
  BY <1>1 DEF Open
<1>2. CASE Flock(d)
  BY <1>2 DEF Flock
<1>3. CASE AlreadyRunning(d)
  BY <1>3 DEF AlreadyRunning
<1>4. CASE WriteInfo(d)
  BY <1>4 DEF WriteInfo
<1>5. CASE Return(d)
  BY <1>5 DEF Return
<1>6. CASE UnlinkInfo(d)
  BY <1>6 DEF UnlinkInfo
<1>7. CASE Unlock(d)
  BY <1>7 DEF Unlock
<1>8. CASE Crash(d)
  BY <1>8 DEF Crash
<1> QED BY <1>1, <1>2, <1>3, <1>4, <1>5, <1>6, <1>7, <1>8, Zenon DEF DaemonStep

\* Every step of a command preserves it.
LEMMA CommandInv ==
    ASSUME LockInv, NEW c \in Command, CommandStep(c)
    PROVE  LockInv'
<1> USE LockAssumption DEF LockInv, LockTypeOK, Held, NotClobbered, Does
<1>1. CASE Begin(c)
  BY <1>1 DEF Begin
<1>2. CASE ProbeOpen(c)
  BY <1>2 DEF ProbeOpen
<1>3. CASE ProbeLock(c)
  BY <1>3 DEF ProbeLock
<1>4. CASE ProbeDrop(c)
  BY <1>4 DEF ProbeDrop
<1>5. CASE ReadInfo(c)
  BY <1>5 DEF ReadInfo
<1>6. CASE StaleOpen(c)
  BY <1>6 DEF StaleOpen
<1>7. CASE StaleLock(c)
  BY <1>7 DEF StaleLock
<1>8. CASE RemoveInfo(c)
  BY <1>8 DEF RemoveInfo
<1>9. CASE StaleDrop(c)
  BY <1>9 DEF StaleDrop
<1>10. CASE Report(c)
  BY <1>10 DEF Report
<1>11. CASE Signal(c)
  BY <1>11 DEF Signal
<1>12. CASE Stopped(c)
  BY <1>12 DEF Stopped
<1>13. CASE StillRunning(c)
  BY <1>13 DEF StillRunning
<1>14. CASE StoppedDrop(c)
  BY <1>14 DEF StoppedDrop
<1> QED BY <1>1, <1>2, <1>3, <1>4, <1>5, <1>6, <1>7, <1>8, <1>9, <1>10, <1>11, <1>12,
           <1>13, <1>14, Zenon DEF CommandStep

\* The lock discipline of acquire(), release(), _probe() and clear_stale() is an
\* invariant of any number of daemons and commands.
THEOREM LockInvariance == LockSpec => []LockInv
<1>1. LockInv /\ [LockNext]_lockVars => LockInv'
  <2> SUFFICES ASSUME LockInv, [LockNext]_lockVars PROVE LockInv'
    OBVIOUS
  <2>1. CASE UNCHANGED lockVars
    BY <2>1 DEF lockVars, LockInv, LockTypeOK, NotClobbered
  <2>2. CASE LockNext
    BY <2>2, DaemonInv, CommandInv DEF LockNext
  <2> QED BY <2>1, <2>2
<1> QED BY <1>1, LockStart, PTL DEF LockSpec

\* acquire() admits one daemon at a time, crashes and probes included.
THEOREM OneDaemon == LockSpec => []SingleDaemon
<1>1. LockInv => SingleDaemon
  BY DEF LockInv, SingleDaemon
<1> QED BY <1>1, LockInvariance, PTL

\* A daemon that `stop` reports stopped never holds the lock again.
THEOREM StoppedMeansGone == LockSpec => []StoppedIsGone
<1>1. LockInv => StoppedIsGone
  BY LockAssumption DEF LockInv, LockTypeOK, StoppedIsGone, Held
<1> QED BY <1>1, LockInvariance, PTL

\* Where an earlier run has left daemon.lock, clear_stale() never removes the
\* daemon.json of a running daemon.
THEOREM Unclobbered == ASSUME LockFileExists PROVE LockSpec => []NotClobbered
<1>1. LockInv => NotClobbered
  BY DEF LockInv
<1> QED BY <1>1, LockInvariance, PTL
=============================================================================
