------------------------ MODULE BufferedWriterProofs ------------------------
(***************************************************************************)
(* Proofs about BufferedWriter, for any number of batches, any sizes,      *)
(* backoff and attempts, and any set of faults.                            *)
(***************************************************************************)
EXTENDS BufferedWriter, FiniteSetTheorems, TLAPS

-----------------------------------------------------------------------------
(***************************************************************************)
(* Events.                                                                 *)
(***************************************************************************)
\* The batches reported by two sets of events are those reported by either.
LEMMA AboutUnion == \A E, F : About(E \cup F) = About(E) \cup About(F)
BY DEF About

\* A single event reports its own batches.
LEMMA AboutEv == \A t, S : About(Ev(t, S)) = S
BY DEF About, Ev

\* An event adds the batches it reports.
LEMMA AboutMore == \A E, t, S : About(E \cup Ev(t, S)) = About(E) \cup S
BY AboutUnion, AboutEv

\* No events report nothing.
LEMMA AboutNone == About({}) = {}
BY DEF About

\* _recover reports no batch.
LEMMA RecoverReports ==
    ASSUME NEW c, NEW E, RecoverIf(c, E)
    PROVE  About(events') = About(E)
BY AboutMore DEF RecoverIf

\* The events BufferedWriter makes are events.
LEMMA EvType ==
    ASSUME NEW S \in SUBSET Batch,
           NEW t \in {"database_unavailable", "database_recovered", "spool_dropped",
                      "spool_write_failed", "spool_batch_quarantined"}
    PROVE  Ev(t, S) \subseteq Event
BY DEF Ev, Event

\* The batches an event reports are batches.
LEMMA AboutType == \A E \in SUBSET Event : About(E) \subseteq Batch
BY DEF About, Event

-----------------------------------------------------------------------------
(***************************************************************************)
(* Batches.                                                                *)
(***************************************************************************)
\* 0, an empty list of records, is not a batch.
LEMMA ZeroNoBatch == 0 \notin Batch
BY SpoolAssumption DEF Batch

\* Batches and their number are natural numbers.
LEMMA NumbersType == TypeOK => n \in Nat /\ cur \in Nat /\ files \subseteq Nat /\ Batch \subseteq Nat
BY SpoolAssumption DEF TypeOK, SpoolTypeOK, Batch

\* The batch in progress is the last one submitted.
LEMMA CurrentTaken ==
    ASSUME TypeOK, Stages
    PROVE  Current \subseteq 1..n /\ (cur # 0 => cur \in 1..n)
BY SpoolAssumption, ZeroNoBatch DEF TypeOK, Stages, Current, Batch

\* A fresh batch that is refused is reported, whatever else happens to it.
LEMMA RejectedReports ==
    ASSUME TypeOK, FreshRejected
    PROVE  About(events') = About(events) \cup Current
<1>1. PICK E : /\ E = IF cur = 0 THEN events
                      ELSE events \cup Ev("spool_batch_quarantined", {cur})
               /\ RecoverIf(wrote, E)
  BY DEF FreshRejected
<1>2. CASE cur = 0
  BY <1>1, <1>2, RecoverReports, ZeroNoBatch DEF Current
<1>3. CASE cur # 0
  <2>1. About(E) = About(events) \cup {cur}
    BY <1>1, <1>3, AboutMore
  <2> QED
    BY <1>1, <1>3, <2>1, RecoverReports, Zenon DEF Current, TypeOK
<1> QED
  BY <1>2, <1>3

\* _append reports the files it deleted, and the batch if it was not stored.
LEMMA AppendReports ==
    ASSUME AppendFile
    PROVE  \E ok \in Outcome("write") :
               /\ Write(cur, ok)
               /\ About(events') = About(events) \cup evicted \cup (IF ok THEN {} ELSE {cur})
<1>1. PICK ok \in Outcome("write") :
          /\ Write(cur, ok)
          /\ events' = events \cup (IF evicted = {} THEN {} ELSE Ev("spool_dropped", evicted))
                              \cup (IF ok THEN {} ELSE Ev("spool_write_failed", {cur}))
  BY Zenon DEF AppendFile
<1> DEFINE D == events \cup (IF evicted = {} THEN {} ELSE Ev("spool_dropped", evicted))
<1>2. About(D) = About(events) \cup evicted
  <2>1. CASE evicted = {}
    BY <2>1
  <2>2. CASE evicted # {}
    BY <2>2, AboutMore
  <2> QED
    BY <2>1, <2>2
<1>3. About(D \cup Ev("spool_write_failed", {cur})) = About(D) \cup {cur}
  BY AboutMore
<1>4. About(events') = IF ok THEN About(D) ELSE About(D) \cup {cur}
  <2>1. events' = IF ok THEN D ELSE D \cup Ev("spool_write_failed", {cur})
    BY <1>1
  <2> HIDE DEF D
  <2> QED
    BY <1>3, <2>1
<1> QED
  BY <1>1, <1>2, <1>4, Zenon
-----------------------------------------------------------------------------
(***************************************************************************)
(* Type correctness.                                                       *)
(***************************************************************************)
\* Every step of submit() and of its environment keeps the types of the
\* writer's fields, of the spool and of the history.
LEMMA TypeStep == WriterInv /\ [Next]_vars => TypeOK'
<1> SUFFICES ASSUME TypeOK, OutageCoherent, Stages, [Next]_vars PROVE TypeOK'
  BY DEF WriterInv
<1> USE DEF PC, spoolVars, link, memory, loop, locals, outside, history
<1>1. ASSUME NEW b \in Batch \cup {0}, Submit(b) PROVE TypeOK'
  <2>1. n' \in 0..MaxBatch /\ cur' \in Batch \cup {0}
    BY <1>1, SpoolAssumption DEF Submit, Batch, TypeOK
  <2>2. spent' \in BOOLEAN
    BY <1>1, WriterAssumption DEF Submit, TypeOK
  <2>3. todo' \subseteq Batch /\ pc' \in PC
    BY <1>1, Zenon DEF Submit, TypeOK, SpoolTypeOK
  <2> QED
    BY <1>1, <2>1, <2>2, <2>3, Zenon DEF Submit, TypeOK, SpoolTypeOK
<1>2. ASSUME NEW f \in Batch, ReplayDrop(f) PROVE TypeOK'
  BY <1>2 DEF ReplayDrop, At, NextFile, SkipUnless, Forget, Remove, Outcome, TypeOK,
     SpoolTypeOK
<1>3. ASSUME NEW f \in Batch, ReplayStuck(f) PROVE TypeOK'
  BY <1>3 DEF ReplayStuck, At, TypeOK, SpoolTypeOK
<1>4. ASSUME NEW f \in Batch, ReplayUnreadable(f) PROVE TypeOK'
  BY <1>4, EvType DEF ReplayUnreadable, Readable, At, Oldest, NextFile, Quarantine,
     Outcome, TypeOK, SpoolTypeOK
<1>5. ASSUME NEW f \in Batch, ReplayWrite(f) PROVE TypeOK'
  BY <1>5 DEF ReplayWrite, Readable, At, Oldest, TypeOK, SpoolTypeOK
<1>6. ASSUME NEW f \in Batch, ReplayRemove(f) PROVE TypeOK'
  BY <1>6 DEF ReplayRemove, NextFile, SkipUnless, Forget, Remove, Outcome, TypeOK,
     SpoolTypeOK
<1>7. ASSUME NEW f \in Batch, ReplayUnavailable(f) PROVE TypeOK'
  BY <1>7 DEF ReplayUnavailable, Readable, At, Oldest, Unavailable, TypeOK,
     SpoolTypeOK
<1>8. ASSUME NEW f \in Batch, QuarantineSpooled(f), f \in todo, pc \in {"replay", "ping"} PROVE TypeOK'
  BY <1>8, EvType DEF QuarantineSpooled, NextFile, SkipUnless, Forget, Quarantine,
     Outcome, TypeOK, SpoolTypeOK
<1>9. ASSUME NEW f \in Batch, PingRetry(f) PROVE TypeOK'
  <2>1. failures' \in [Batch -> Nat]
    BY <1>9 DEF PingRetry, TypeOK
  <2> QED
    BY <1>9, <2>1 DEF PingRetry, TypeOK, SpoolTypeOK
<1>10. ASSUME NEW f \in Batch, Evict(f) PROVE TypeOK'
  BY <1>10 DEF Evict, Remove, Outcome, TypeOK, SpoolTypeOK
<1>11. CASE PingFailed
  BY <1>11 DEF PingFailed, TypeOK, SpoolTypeOK
<1>12. CASE OutOfTime
  BY <1>12 DEF OutOfTime, TypeOK, SpoolTypeOK
<1>13. CASE Drained
  BY <1>13, EvType, Zenon DEF Drained, RecoverIf, TypeOK, SpoolTypeOK
<1>14. CASE FreshWrite
  BY <1>14, EvType, Zenon DEF FreshWrite, RecoverIf, Current, TypeOK, SpoolTypeOK
<1>15. CASE FreshUnavailable
  BY <1>15 DEF FreshUnavailable, Unavailable, Current, TypeOK, SpoolTypeOK
<1>16. CASE FreshRejected
  BY <1>16, EvType, Zenon DEF FreshRejected, RecoverIf, QuarantineRecords, Outcome, TypeOK,
     SpoolTypeOK
<1>17. CASE Fail
  <2>1. outage => delay \in Nat
    BY DEF OutageCoherent, TypeOK
  <2>2. delay' \in Nat /\ next_retry' \in Nat
    BY <1>17, <2>1, WriterAssumption DEF Fail, TypeOK
  <2>3. events' \subseteq Event
    BY <1>17, EvType DEF Fail, TypeOK
  <2> QED
    BY <1>17, <2>2, <2>3, Zenon DEF Fail, TypeOK, SpoolTypeOK
<1>18. CASE Store
  BY <1>18, EvType DEF Store, TypeOK, SpoolTypeOK
<1>19. CASE RoomMade
  BY <1>19 DEF RoomMade, TypeOK, SpoolTypeOK
<1>20. CASE AppendFile
  <2>1. cur \in Batch
    BY <1>20 DEF AppendFile, Stages, TypeOK
  <2>2. events' \subseteq Event
    BY <1>20, <2>1, EvType DEF AppendFile, TypeOK
  <2>3. files' \subseteq Batch
    BY <1>20, <2>1 DEF AppendFile, Write, TypeOK, SpoolTypeOK
  <2> QED
    BY <1>20, <2>2, <2>3, Zenon DEF AppendFile, TypeOK, SpoolTypeOK
<1>21. CASE Finish
  BY <1>21, AboutType DEF Finish, TypeOK, SpoolTypeOK
<1>22. CASE Tick
  BY <1>22, WriterAssumption DEF Tick, TypeOK, SpoolTypeOK
<1>23. CASE DatabaseChange
  BY <1>23 DEF DatabaseChange, TypeOK, SpoolTypeOK
<1>24. CASE Crash
  <2>1. crashed' \subseteq Batch
    BY <1>24, AboutType DEF Crash, Current, TypeOK
  <2>2. crashes' \in 0..MaxCrashes
    BY <1>24, WriterAssumption DEF Crash, TypeOK
  <2> QED
    BY <1>24, <2>1, <2>2, Zenon DEF Crash, TypeOK, SpoolTypeOK
<1>25. ASSUME NEW f \in Batch, Requeue(f) PROVE TypeOK'
  BY <1>25 DEF Requeue, TypeOK, SpoolTypeOK
<1>26. CASE UNCHANGED vars
  BY <1>26 DEF vars, TypeOK, SpoolTypeOK
<1> QED
  BY <1>1, <1>2, <1>3, <1>4, <1>5, <1>6, <1>7, <1>8, <1>9, <1>10, <1>11, <1>12, <1>13,
     <1>14, <1>15, <1>16, <1>17, <1>18, <1>19, <1>20, <1>21, <1>22, <1>23, <1>24,
     <1>25, <1>26 DEF Next, Call, Step, OnFile, ReplayRejected, PingGiveUp, Readable,
     At, Oldest

-----------------------------------------------------------------------------
(***************************************************************************)
(* The outage state.                                                       *)
(***************************************************************************)
\* _fail, _recover and the end of the replay budget are the only places that
\* touch the outage fields, and each leaves them in agreement.
LEMMA CoherentStep == WriterInv /\ [Next]_vars => OutageCoherent'
<1> SUFFICES ASSUME TypeOK, OutageCoherent, [Next]_vars PROVE OutageCoherent'
  BY DEF WriterInv
<1> USE WriterAssumption DEF OutageCoherent
<1>1. CASE UNCHANGED link
  BY <1>1 DEF link
<1>2. CASE Fail
  BY <1>2 DEF Fail, TypeOK
<1>3. CASE OutOfTime
  BY <1>3 DEF OutOfTime, TypeOK
<1>4. ASSUME NEW c, NEW E, RecoverIf(c, E) PROVE OutageCoherent'
  BY <1>4 DEF RecoverIf, link
<1>5. CASE Tick
  BY <1>5 DEF Tick, TypeOK
<1>6. CASE Crash
  BY <1>6 DEF Crash
<1>7. CASE Drained
  BY <1>1, <1>4, <1>7 DEF Drained, link
<1>8. CASE FreshWrite \/ FreshRejected
  BY <1>4, <1>8, Zenon DEF FreshWrite, FreshRejected
<1>9. ASSUME NEW f \in Batch, OnFile(f) PROVE UNCHANGED link
  BY <1>9 DEF OnFile, ReplayDrop, ReplayStuck, ReplayUnreadable, ReplayWrite, ReplayRemove,
     ReplayUnavailable, ReplayRejected, QuarantineSpooled, PingRetry, PingGiveUp, Evict, link
<1> QED
  BY <1>1, <1>2, <1>3, <1>5, <1>6, <1>7, <1>8, <1>9, Zenon DEF Next, Call, Submit, Step, PingFailed,
     FreshUnavailable, Store, RoomMade, AppendFile, Finish, DatabaseChange, Requeue, vars, link

-----------------------------------------------------------------------------
(***************************************************************************)
(* The stages of submit().                                                 *)
(***************************************************************************)
\* Every step leaves the stage it leads to with what that stage relies on.
LEMMA StagesStep == WriterInv /\ [Next]_vars => Stages'
<1> SUFFICES ASSUME TypeOK, Stages, [Next]_vars PROVE Stages'
  BY DEF WriterInv
<1> USE DEF PC, spoolVars, link, memory, loop, locals, outside, history
<1>1. ASSUME NEW b \in Batch \cup {0}, Submit(b) PROVE Stages'
  <2>1. n \in Nat /\ n' \in Nat /\ n <= n' /\ cur' \in {0, n'}
    BY <1>1, SpoolAssumption DEF Submit, TypeOK, Batch
  <2>2. 1..n \subseteq 1..n'
    BY <2>1
  <2>3. pc' = "replay" => files \ todo' \subseteq held
    BY <1>1 DEF Submit, Stages
  <2>4. todo' \subseteq 1..n
    BY <1>1 DEF Submit, Stages
  <2>5. pc' \in {"replay", "store"}
    BY <1>1 DEF Submit
  <2> QED
    BY <1>1, <2>1, <2>2, <2>3, <2>4, <2>5 DEF Submit, Stages
<1>2. ASSUME NEW f \in Batch, ReplayDrop(f) PROVE Stages'
  BY <1>2 DEF ReplayDrop, At, NextFile, SkipUnless, Forget, Remove, Outcome, Stages,
     Current
<1>3. ASSUME NEW f \in Batch, ReplayStuck(f) PROVE Stages'
  BY <1>3 DEF ReplayStuck, At, Stages, Current
<1>4. ASSUME NEW f \in Batch, ReplayUnreadable(f) PROVE Stages'
  BY <1>4 DEF ReplayUnreadable, Readable, At, Oldest, NextFile, Quarantine, Outcome,
     Stages, Current
<1>5. ASSUME NEW f \in Batch, ReplayWrite(f) PROVE Stages'
  BY <1>5 DEF ReplayWrite, Readable, At, Oldest, Stages, Current
<1>6. ASSUME NEW f \in Batch, ReplayRemove(f) PROVE Stages'
  BY <1>6 DEF ReplayRemove, NextFile, SkipUnless, Forget, Remove, Outcome, Stages,
     Current
<1>7. ASSUME NEW f \in Batch, ReplayUnavailable(f) PROVE Stages'
  BY <1>7 DEF ReplayUnavailable, Readable, At, Oldest, Unavailable, Stages, Current
<1>8. ASSUME NEW f \in Batch, QuarantineSpooled(f), f \in todo, pc \in {"replay", "ping"} PROVE Stages'
  BY <1>8 DEF QuarantineSpooled, NextFile, SkipUnless, Forget, Quarantine, Outcome,
     Stages, Current
<1>9. ASSUME NEW f \in Batch, PingRetry(f) PROVE Stages'
  BY <1>9 DEF PingRetry, Stages, Current
<1>10. ASSUME NEW f \in Batch, Evict(f) PROVE Stages'
  BY <1>10 DEF Evict, Remove, Outcome, Stages, Current
<1>11. CASE PingFailed
  BY <1>11 DEF PingFailed, Stages, Current
<1>12. CASE OutOfTime
  BY <1>12 DEF OutOfTime, Stages, Current
<1>13. CASE Drained
  BY <1>13, ZeroNoBatch DEF Drained, RecoverIf, Stages, Current
<1>14. CASE FreshWrite
  BY <1>14, CurrentTaken DEF FreshWrite, RecoverIf, Current, Stages, Current
<1>15. CASE FreshUnavailable
  BY <1>15, CurrentTaken DEF FreshUnavailable, Unavailable, Current, Stages, Current
<1>16. CASE FreshRejected
  <2>1. Current' \subseteq About(events')
    BY <1>16, RejectedReports DEF FreshRejected, Current
  <2>2. corrupt' \subseteq 1..n
    BY <1>16, CurrentTaken, ZeroNoBatch DEF FreshRejected, QuarantineRecords, Stages
  <2> QED
    BY <1>16, <2>1, <2>2, Zenon DEF FreshRejected, Stages
<1>17. CASE Fail
  BY <1>17 DEF Fail, Stages, Current
<1>18. CASE Store
  <2>1. CASE cur = 0
    BY <1>18, <2>1, ZeroNoBatch DEF Store, Stages, Current
  <2>2. CASE cur # 0
    BY <1>18, <2>2, AboutMore DEF Store, Stages, Current
  <2> QED
    BY <2>1, <2>2
<1>19. CASE RoomMade
  BY <1>19 DEF RoomMade, Stages, Current
<1>20. CASE AppendFile
  <2>1. Current' \subseteq files' \cup About(events')
    BY <1>20, AppendReports DEF AppendFile, Write, Current
  <2>2. files' \subseteq files \cup {cur} /\ cur \in 1..n
    BY <1>20, CurrentTaken DEF AppendFile, Write, Stages
  <2> QED
    BY <1>20, <2>1, <2>2, Zenon DEF AppendFile, Stages
<1>21. CASE Finish
  BY <1>21 DEF Finish, Stages, Current
<1>22. CASE Tick
  BY <1>22 DEF Tick, Stages, Current
<1>23. CASE DatabaseChange
  BY <1>23 DEF DatabaseChange, Stages, Current
<1>24. CASE Crash
  BY <1>24 DEF Crash, Current, Stages, Current
<1>25. ASSUME NEW f \in Batch, Requeue(f) PROVE Stages'
  BY <1>25 DEF Requeue, Stages, Current
<1>26. CASE UNCHANGED vars
  BY <1>26 DEF vars, Stages, Current
<1> QED
  BY <1>1, <1>2, <1>3, <1>4, <1>5, <1>6, <1>7, <1>8, <1>9, <1>10, <1>11, <1>12, <1>13,
     <1>14, <1>15, <1>16, <1>17, <1>18, <1>19, <1>20, <1>21, <1>22, <1>23, <1>24,
     <1>25, <1>26 DEF Next, Call, Step, OnFile, ReplayRejected, PingGiveUp, Readable,
     At, Oldest

-----------------------------------------------------------------------------
(***************************************************************************)
(* The order of writes.                                                    *)
(***************************************************************************)
\* A spooled batch is written when it is the oldest left, a fresh one when
\* nothing is left; a batch enters the spool only behind all written ones.
LEMMA OrderStep == WriterInv /\ [Next]_vars => WriteOrder'
<1> SUFFICES ASSUME TypeOK, WriteOrder, Stages, [Next]_vars PROVE WriteOrder'
  BY DEF WriterInv
<1> USE DEF spoolVars, history
<1>1. ASSUME written' = written, files' \subseteq files, held \subseteq held'
      PROVE  WriteOrder'
  BY <1>1 DEF WriteOrder
<1>2. ASSUME NEW f, Oldest(f, todo), pc = "replay", files' = files, held' = held,
             written' \in {written, written \cup {f}}
      PROVE  WriteOrder'
  <2>1. \A a \in files : a < f => a \in held
    <3> SUFFICES ASSUME NEW a \in files, a < f PROVE a \notin todo
      BY <1>2 DEF Stages
    <3>1. a \in Nat /\ f \in Nat
      BY <1>2, NumbersType DEF Oldest, TypeOK
    <3> QED
      BY <1>2, <3>1 DEF Oldest
  <2> QED
    BY <1>2, <2>1 DEF WriteOrder
<1>3. ASSUME pc = "fresh", files' = files, held' = held PROVE WriteOrder'
  BY <1>3 DEF WriteOrder, Stages
<1>4. CASE AppendFile
  <2>1. cur \in 1..n /\ cur = n
    BY <1>4, CurrentTaken DEF AppendFile, Stages
  <2>2. \A b \in written : ~(cur < b)
    BY <2>1 DEF Stages, TypeOK
  <2>3. files' \subseteq files \cup {cur} /\ written' = written /\ held' = held
    BY <1>4 DEF AppendFile, Write
  <2> QED
    BY <2>2, <2>3 DEF WriteOrder
<1>5. ASSUME NEW f \in Batch, Requeue(f) PROVE WriteOrder'
  BY <1>5, Zenon DEF Requeue, WriteOrder
<1>6. ASSUME NEW f \in Batch, ReplayWrite(f) \/ ReplayUnavailable(f) PROVE WriteOrder'
  BY <1>2, <1>6 DEF ReplayWrite, ReplayUnavailable, Unavailable, Readable, At
<1>7. CASE FreshWrite \/ FreshUnavailable
  BY <1>3, <1>7, Zenon DEF FreshWrite, FreshUnavailable
<1>8. ASSUME NEW f \in Batch, OnFile(f), ~ReplayWrite(f), ~ReplayUnavailable(f)
      PROVE  WriteOrder'
  BY <1>1, <1>8, Zenon DEF OnFile, ReplayDrop, ReplayStuck, ReplayUnreadable, ReplayRemove,
     ReplayRejected, QuarantineSpooled, PingRetry, PingGiveUp, Evict, Remove, Quarantine,
     SkipUnless
<1> QED
  BY <1>1, <1>4, <1>5, <1>6, <1>7, <1>8, Zenon DEF Next, Call, Submit, Step, PingFailed, OutOfTime,
     Drained, FreshRejected, Fail, Store, RoomMade, Finish, Tick, DatabaseChange, Crash, vars

-----------------------------------------------------------------------------
(***************************************************************************)
(* Nothing is lost in silence.                                             *)
(***************************************************************************)
\* No step takes a batch from where it is kept without putting it, or a
\* report of it, somewhere else.
LEMMA LossStep == WriterInv /\ [Next]_vars => NoSilentLoss'
<1> SUFFICES ASSUME TypeOK, NoSilentLoss, Stages, [Next]_vars PROVE NoSilentLoss'
  BY DEF WriterInv
<1> USE DEF PC, spoolVars, link, memory, loop, locals, outside, history
<1>1. ASSUME NEW b \in Batch \cup {0}, Submit(b) PROVE NoSilentLoss'
  <2>1. 1..n' \subseteq 1..n \cup Current'
    BY <1>1, SpoolAssumption DEF Submit, TypeOK, Batch, Current
  <2>2. Current = {}
    BY <1>1, ZeroNoBatch DEF Submit, Stages, Current
  <2> QED
    BY <1>1, <2>1, <2>2, AboutNone, Zenon DEF Submit, Stages, NoSilentLoss, InFlight
<1>2. ASSUME NEW f \in Batch, ReplayDrop(f) PROVE NoSilentLoss'
  BY <1>2 DEF ReplayDrop, At, NextFile, SkipUnless, Forget, Remove, Outcome,
     NoSilentLoss, InFlight, Current
<1>3. ASSUME NEW f \in Batch, ReplayStuck(f) PROVE NoSilentLoss'
  BY <1>3 DEF ReplayStuck, At, NoSilentLoss, InFlight, Current
<1>4. ASSUME NEW f \in Batch, ReplayUnreadable(f) PROVE NoSilentLoss'
  BY <1>4, AboutUnion DEF ReplayUnreadable, Readable, At, Oldest, NextFile,
     Quarantine, Outcome, NoSilentLoss, InFlight, Current
<1>5. ASSUME NEW f \in Batch, ReplayWrite(f) PROVE NoSilentLoss'
  BY <1>5 DEF ReplayWrite, Readable, At, Oldest, NoSilentLoss, InFlight, Current
<1>6. ASSUME NEW f \in Batch, ReplayRemove(f) PROVE NoSilentLoss'
  <2>1. f \in written
    BY <1>6 DEF ReplayRemove, Oldest, Stages
  <2>2. files \subseteq files' \cup {f}
    BY <1>6 DEF ReplayRemove, Remove
  <2> QED
    BY <1>6, <2>1, <2>2, Zenon DEF ReplayRemove, NoSilentLoss, InFlight, Current
<1>7. ASSUME NEW f \in Batch, ReplayUnavailable(f) PROVE NoSilentLoss'
  BY <1>7 DEF ReplayUnavailable, Readable, At, Oldest, Unavailable, NoSilentLoss,
     InFlight, Current
<1>8. ASSUME NEW f \in Batch, QuarantineSpooled(f), f \in todo, pc \in {"replay", "ping"} PROVE NoSilentLoss'
  BY <1>8, AboutUnion DEF QuarantineSpooled, NextFile, SkipUnless, Forget, Quarantine,
     Outcome, NoSilentLoss, InFlight, Current
<1>9. ASSUME NEW f \in Batch, PingRetry(f) PROVE NoSilentLoss'
  BY <1>9 DEF PingRetry, NoSilentLoss, InFlight, Current
<1>10. ASSUME NEW f \in Batch, Evict(f) PROVE NoSilentLoss'
  BY <1>10 DEF Evict, Remove, Outcome, NoSilentLoss, InFlight, Current
<1>11. CASE PingFailed
  BY <1>11 DEF PingFailed, NoSilentLoss, InFlight, Current
<1>12. CASE OutOfTime
  BY <1>12 DEF OutOfTime, NoSilentLoss, InFlight, Current
<1>13. CASE Drained
  BY <1>13, AboutUnion DEF Drained, RecoverIf, NoSilentLoss, InFlight, Current
<1>14. CASE FreshWrite
  BY <1>14, AboutUnion DEF FreshWrite, RecoverIf, Current, NoSilentLoss, InFlight,
     Current
<1>15. CASE FreshUnavailable
  BY <1>15 DEF FreshUnavailable, Unavailable, Current, NoSilentLoss, InFlight, Current
<1>16. CASE FreshRejected
  BY <1>16, RejectedReports DEF FreshRejected, QuarantineRecords, NoSilentLoss, InFlight,
     Current
<1>17. CASE Fail
  BY <1>17, AboutUnion DEF Fail, NoSilentLoss, InFlight, Current
<1>18. CASE Store
  BY <1>18, AboutUnion DEF Store, NoSilentLoss, InFlight, Current
<1>19. CASE RoomMade
  BY <1>19 DEF RoomMade, NoSilentLoss, InFlight, Current
<1>20. CASE AppendFile
  BY <1>20, AppendReports DEF AppendFile, Write, NoSilentLoss, InFlight, Current
<1>21. CASE Finish
  <2>1. CASE pc = "return"
    BY <1>21, <2>1 DEF Finish, Stages, NoSilentLoss, InFlight
  <2>2. CASE pc = "raise"
    BY <1>21, <2>2, AboutNone, Zenon DEF Finish, Stages, NoSilentLoss, InFlight
  <2> QED
    BY <1>21, <2>1, <2>2 DEF Finish
<1>22. CASE Tick
  BY <1>22 DEF Tick, NoSilentLoss, InFlight, Current
<1>23. CASE DatabaseChange
  BY <1>23 DEF DatabaseChange, NoSilentLoss, InFlight, Current
<1>24. CASE Crash
  BY <1>24, AboutNone DEF Crash, Current, NoSilentLoss, InFlight, Current
<1>25. ASSUME NEW f \in Batch, Requeue(f) PROVE NoSilentLoss'
  BY <1>25 DEF Requeue, NoSilentLoss, InFlight, Current
<1>26. CASE UNCHANGED vars
  BY <1>26 DEF vars, NoSilentLoss, InFlight, Current
<1> QED
  BY <1>1, <1>2, <1>3, <1>4, <1>5, <1>6, <1>7, <1>8, <1>9, <1>10, <1>11, <1>12, <1>13,
     <1>14, <1>15, <1>16, <1>17, <1>18, <1>19, <1>20, <1>21, <1>22, <1>23, <1>24,
     <1>25, <1>26 DEF Next, Call, Step, OnFile, ReplayRejected, PingGiveUp, Readable,
     At, Oldest

-----------------------------------------------------------------------------
(***************************************************************************)
(* The theorems.                                                           *)
(***************************************************************************)
\* A new process with an empty spool satisfies the invariant.
LEMMA InitInv == Init => WriterInv
<1> SUFFICES ASSUME Init PROVE WriterInv
  OBVIOUS
<1> USE DEF Init, SpoolInit
<1>1. TypeOK
  <2>1. n \in 0..MaxBatch /\ crashes \in 0..MaxCrashes
    BY SpoolAssumption, WriterAssumption
  <2> QED
    BY <2>1, Zenon DEF TypeOK, SpoolTypeOK, PC
<1>2. NoSilentLoss
  BY DEF NoSilentLoss
<1>3. WriteOrder /\ OutageCoherent
  BY DEF WriteOrder, OutageCoherent
<1>4. Stages
  BY DEF Stages
<1> QED
  BY <1>1, <1>2, <1>3, <1>4 DEF WriterInv

\* The invariant of submit() holds whatever the database, the disk, the
\* operator and the process do between two of its steps.
THEOREM Invariance == Spec => []WriterInv
<1>1. WriterInv /\ [Next]_vars => WriterInv'
  BY TypeStep, LossStep, OrderStep, CoherentStep, StagesStep DEF WriterInv
<1> QED
  BY InitInv, <1>1, PTL DEF Spec

\* The fields of BufferedWriter and of its spool keep their types.
THEOREM TypeCorrect == Spec => []TypeOK
<1>1. WriterInv => TypeOK
  BY DEF WriterInv
<1> QED
  BY Invariance, <1>1, PTL

\* No batch handed to submit() disappears without an event: outages, rejected
\* batches, a full disk, a full spool and unreadable files included.
THEOREM NothingLost == Spec => []NoSilentLoss
<1>1. WriterInv => NoSilentLoss
  BY DEF WriterInv
<1> QED
  BY Invariance, <1>1, PTL

\* Rows reach the database in the order they were produced, across outages,
\* replays cut short by the budget, and restarts.
THEOREM WrittenInOrder == Spec => []WriteOrder
<1>1. WriterInv => WriteOrder
  BY DEF WriterInv
<1> QED
  BY Invariance, <1>1, PTL

\* connected, outage_since, next_retry and delay never contradict each other.
THEOREM OutageStateCoherent == Spec => []OutageCoherent
<1>1. WriterInv => OutageCoherent
  BY DEF WriterInv
<1> QED
  BY Invariance, <1>1, PTL

-----------------------------------------------------------------------------
(***************************************************************************)
(* The ledger.  A batch has one place at a time, which is what lets every  *)
(* step of submit() move at most one batch of the ledger.                  *)
(***************************************************************************)
\* The stages in which nothing has been done yet with the batch in progress.
Pending == {"replay", "ping", "remove", "fresh", "fail", "store", "room", "append"}

\* The batches given up with a report, or lost with a process.
Gone == evicted \cup About(events) \cup About(carried) \cup reported \cup crashed

\* The files of a listing are there until the loop over it reaches them; a
\* batch is in the spool, in corrupt/ or superseded, and not in two of these;
\* only batches that were submitted are known anywhere; and the batch in
\* progress is nowhere yet.
PlaceInv ==
    /\ pc \in {"replay", "ping", "remove", "room"} => todo \subseteq files
    /\ files \cap corrupt = {} /\ (files \cup corrupt) \cap dropped = {}
    /\ dropped \cup Gone \subseteq 1..n
    /\ pc \in Pending => cur \notin files \cup corrupt \cup dropped \cup Gone

\* No step puts a batch in two places, or touches one not yet submitted.
LEMMA PlaceStep == WriterInv /\ PlaceInv /\ [Next]_vars => PlaceInv'
<1> SUFFICES ASSUME TypeOK, Stages, PlaceInv, [Next]_vars PROVE PlaceInv'
  BY DEF WriterInv
<1> USE DEF Pending, spoolVars, link, memory, loop, locals, outside, history
<1>1. ASSUME NEW b \in Batch \cup {0}, Submit(b) PROVE PlaceInv'
  <2>1. n \in Nat /\ n' \in Nat /\ n <= n' /\ cur' \in {0, n + 1}
    BY <1>1, SpoolAssumption DEF Submit, TypeOK, Batch
  <2>2. 1..n \subseteq 1..n' /\ cur' \notin 1..n
    BY <2>1
  <2>3. Gone' = Gone
    BY <1>1, AboutNone, Zenon DEF Submit, Stages, Gone
  <2>4. files \cup corrupt \cup dropped \cup Gone \subseteq 1..n
    BY DEF PlaceInv, Stages
  <2>5. pc' \in {"replay", "ping", "remove", "room"} => todo' \subseteq files
    BY <1>1 DEF Submit
  <2> QED
    BY <1>1, <2>2, <2>3, <2>4, <2>5 DEF Submit, PlaceInv
<1>2. ASSUME NEW f \in Batch, ReplayDrop(f) PROVE PlaceInv'
  <2>1. Gone' = Gone /\ f \in files /\ f \in 1..n
    BY <1>2 DEF ReplayDrop, At, Oldest, Gone, PlaceInv, Stages
  <2> QED
    BY <1>2, <2>1 DEF ReplayDrop, At, NextFile, Remove, PlaceInv
<1>3. ASSUME NEW f \in Batch, ReplayStuck(f) PROVE PlaceInv'
  BY <1>3 DEF ReplayStuck, Gone, PlaceInv
<1>4. ASSUME NEW f \in Batch, f \in todo, pc \in {"replay", "ping"}, NextFile(f),
             \E ok \in Outcome("move") : Quarantine(f, ok),
             events' = events \cup Ev("spool_batch_quarantined", {f}),
             UNCHANGED <<cur, evicted, carried, reported, crashed, dropped, n>>
      PROVE  PlaceInv'
  <2>1. About(events') = About(events) \cup {f}
    BY <1>4, AboutMore
  <2>2. Gone' = Gone \cup {f}
    BY <1>4, <2>1 DEF Gone
  <2>3. f \in files /\ f \in 1..n
    BY <1>4 DEF PlaceInv, Stages
  <2> QED
    BY <1>4, <2>2, <2>3 DEF NextFile, Quarantine, PlaceInv
<1>5. ASSUME NEW f \in Batch, ReplayUnreadable(f) PROVE PlaceInv'
  BY <1>4, <1>5 DEF ReplayUnreadable, Readable, At, Oldest
<1>6. ASSUME NEW f \in Batch, QuarantineSpooled(f), f \in todo, pc \in {"replay", "ping"}
      PROVE  PlaceInv'
  BY <1>4, <1>6 DEF QuarantineSpooled
<1>7. ASSUME NEW f \in Batch, ReplayWrite(f) PROVE PlaceInv'
  BY <1>7 DEF ReplayWrite, Readable, At, Gone, PlaceInv
<1>8. ASSUME NEW f \in Batch, ReplayUnavailable(f) PROVE PlaceInv'
  BY <1>8 DEF ReplayUnavailable, Readable, At, Gone, PlaceInv
<1>9. ASSUME NEW f \in Batch, ReplayRemove(f) PROVE PlaceInv'
  BY <1>9 DEF ReplayRemove, NextFile, Remove, Gone, PlaceInv
<1>10. ASSUME NEW f \in Batch, PingRetry(f) PROVE PlaceInv'
  BY <1>10 DEF PingRetry, Gone, PlaceInv
<1>11. ASSUME NEW f \in Batch, Evict(f) PROVE PlaceInv'
  <2>1. Gone' \subseteq Gone \cup {f} /\ f \in files /\ f \in 1..n /\ f \in todo
    BY <1>11, Zenon DEF Evict, FirstToEvict, Gone, PlaceInv, Stages
  <2> QED
    BY <1>11, <2>1 DEF Evict, Remove, PlaceInv
<1>12. CASE PingFailed \/ OutOfTime \/ RoomMade \/ Tick \/ DatabaseChange \/ UNCHANGED vars
  BY <1>12, Zenon DEF PingFailed, OutOfTime, RoomMade, Tick, DatabaseChange, vars, Gone, PlaceInv
<1>14. CASE Drained
  BY <1>14, RecoverReports DEF Drained, Gone, PlaceInv
<1>15. CASE FreshWrite
  <2>1. About(events') = About(events)
    BY <1>15, RecoverReports, Zenon DEF FreshWrite
  <2> QED
    BY <1>15, <2>1 DEF FreshWrite, Gone, PlaceInv
<1>16. CASE FreshUnavailable
  BY <1>16 DEF FreshUnavailable, Gone, PlaceInv
<1>17. CASE FreshRejected
  <2>1. Gone' = Gone \cup Current
    BY <1>17, RejectedReports DEF FreshRejected, Gone
  <2>2. corrupt' \subseteq corrupt \cup Current
    BY <1>17 DEF FreshRejected, QuarantineRecords, Current
  <2>3. Current \subseteq 1..n
    BY CurrentTaken
  <2> QED
    BY <1>17, <2>1, <2>2, <2>3, Zenon DEF FreshRejected, PlaceInv, Current
<1>18. CASE Fail
  <2>1. events' \in {events, events \cup Ev("database_unavailable", {})}
    BY <1>18 DEF Fail
  <2>2. About(events') = About(events)
    BY <2>1, AboutMore
  <2> QED
    BY <1>18, <2>2 DEF Fail, Gone, PlaceInv
<1>19. CASE Store
  <2>1. Gone' \subseteq Gone \cup Current
    BY <1>19, AboutMore DEF Store, Gone, Current, TypeOK
  <2>2. pc' \in Pending => Gone' = Gone
    BY <1>19 DEF Store, Gone
  <2> QED
    BY <1>19, <2>1, <2>2, CurrentTaken DEF Store, PlaceInv
<1>20. CASE AppendFile
  <2>1. cur \in 1..n
    BY <1>20, CurrentTaken, Zenon DEF AppendFile, Stages
  <2>2. Gone' \subseteq Gone \cup {cur}
    BY <1>20, AppendReports DEF AppendFile, Gone
  <2> QED
    BY <1>20, <2>1, <2>2 DEF AppendFile, Write, PlaceInv
<1>21. CASE Finish
  <2>1. Gone' = Gone
    BY <1>21, AboutNone DEF Finish, Gone, Stages
  <2> QED
    BY <1>21, <2>1 DEF Finish, PlaceInv
<1>22. CASE Crash
  <2>1. Gone' = Gone \cup Current
    BY <1>22, AboutNone DEF Crash, Gone
  <2> QED
    BY <1>22, <2>1, CurrentTaken DEF Crash, PlaceInv
<1>23. ASSUME NEW f \in Batch, Requeue(f) PROVE PlaceInv'
  BY <1>23, Zenon DEF Requeue, Gone, PlaceInv
<1> QED
  BY <1>1, <1>2, <1>3, <1>5, <1>6, <1>7, <1>8, <1>9, <1>10, <1>11, <1>12, <1>14, <1>15, <1>16,
     <1>17, <1>18, <1>19, <1>20, <1>21, <1>22, <1>23 DEF Next, Call, Step, OnFile,
     ReplayRejected, PingGiveUp, Readable, At, Oldest

\* A new process with an empty spool has its batches nowhere yet.
LEMMA PlaceInit == Init => PlaceInv
BY AboutNone DEF Init, SpoolInit, PlaceInv, Gone, Pending

\* A batch is never in two of the spool, corrupt/ and the superseded ones, and the
\* batch submit() is busy with is in none of them, whatever the order of the steps.
THEOREM PlacesInvariant == Spec => [](WriterInv /\ PlaceInv)
<1>1. PlaceInv /\ WriterInv /\ [Next]_vars => PlaceInv'
  BY PlaceStep
<1> QED
  BY Invariance, PlaceInit, <1>1, PTL DEF Spec

\* The status of a batch, one test after the other.
StatusOf(b) ==
    IF b > n THEN "new"
    ELSE IF b \in written THEN "written"
    ELSE IF b \in files THEN "stored"
    ELSE IF b \in corrupt THEN "quarantined"
    ELSE IF b \in dropped THEN "superseded"
    ELSE IF b \in Gone THEN "accounted"
    ELSE IF b = cur THEN "taken" ELSE "lost"

\* No two cases of LedgerStatus hold of the same batch.
LEMMA StatusIs ==
    WriterInv /\ PlaceInv => LedgerStatus = [b \in Batch |-> StatusOf(b)]
<1> SUFFICES ASSUME WriterInv, PlaceInv, NEW b \in Batch PROVE LedgerStatus[b] = StatusOf(b)
  BY DEF LedgerStatus
<1>1. b \in written \cup files \cup corrupt \cup dropped => ~(b > n)
  BY NumbersType DEF WriterInv, Stages, PlaceInv
<1> QED
  BY <1>1 DEF LedgerStatus, StatusOf, Gone

\* What a step shows in the ledger, from what it does to the status of each
\* batch: at most one batch f moves, to status s.
LEMMA LedgerMove ==
    ASSUME WriterInv, PlaceInv, WriterInv', PlaceInv', NEW f \in Batch, NEW s,
           \A b \in Batch : b # f => StatusOf(b)' = StatusOf(b),
           StatusOf(f)' = s
    PROVE  LedgerStatus' = [LedgerStatus EXCEPT ![f] = s] /\ LedgerStatus[f] = StatusOf(f)
<1>1. LedgerStatus = [b \in Batch |-> StatusOf(b)]
  BY StatusIs
<1>2. (WriterInv /\ PlaceInv => LedgerStatus = [b \in Batch |-> StatusOf(b)])'
  BY StatusIs, PTL
<1>3. LedgerStatus' = [b \in Batch |-> StatusOf(b)']
  BY <1>2
<1> QED
  BY <1>1, <1>3

\* The same for a step that moves no batch.
LEMMA LedgerStill ==
    ASSUME WriterInv, PlaceInv, WriterInv', PlaceInv',
           \A b \in Batch : StatusOf(b)' = StatusOf(b)
    PROVE  LedgerStatus' = LedgerStatus
<1>1. LedgerStatus = [b \in Batch |-> StatusOf(b)]
  BY StatusIs
<1>2. (WriterInv /\ PlaceInv => LedgerStatus = [b \in Batch |-> StatusOf(b)])'
  BY StatusIs, PTL
<1>3. LedgerStatus' = [b \in Batch |-> StatusOf(b)']
  BY <1>2
<1> QED
  BY <1>1, <1>3

\* The moves of one batch that the ledger allows, as the writer's state shows
\* them.
Moves(f) ==
    \/ StatusOf(f)' = StatusOf(f) /\ held' \in {held, held \cup {f}}
    \/ /\ StatusOf(f) = "new" /\ StatusOf(f)' = "taken" /\ held' = held
       /\ cur = 0 /\ \A a \in Batch : a < f => a <= n
    \/ StatusOf(f) = "taken" /\ StatusOf(f)' = "stored" /\ held' = held
    \/ /\ StatusOf(f) \in {"taken", "stored"} /\ held' = held
       /\ StatusOf(f)' \in {"quarantined", "accounted"}
    \/ /\ StatusOf(f) \in {"taken", "stored"} /\ StatusOf(f)' = "written" /\ held' = held
       /\ \A a \in files : a < f => a \in held
    \/ /\ StatusOf(f) = "stored" /\ StatusOf(f)' = "superseded" /\ held' = held
       /\ f \in LiveOnly /\ \E c \in LiveOnly \cap files : f < c
    \/ StatusOf(f) = "quarantined" /\ StatusOf(f)' = "stored" /\ held' = held \cup {f}

\* Such a move, with every other batch where it was, is a step of the ledger.
LEMMA MovesAllowed ==
    ASSUME WriterInv, PlaceInv, WriterInv', PlaceInv', NEW f \in Batch, Moves(f),
           \A b \in Batch : b # f => StatusOf(b)' = StatusOf(b)
    PROVE  [Ledger!LedgerNext]_(Ledger!ledgerVars)
<1> USE DEF Ledger!LedgerNext, Ledger!ledgerVars, Ledger!Become
<1>1. \A b \in Batch : LedgerStatus[b] = StatusOf(b)
  BY StatusIs
<1>2. LedgerStatus' = [LedgerStatus EXCEPT ![f] = StatusOf(f)']
  BY LedgerMove
<1>3. CASE StatusOf(f)' = StatusOf(f) /\ held' \in {held, held \cup {f}}
  <2>1. LedgerStatus' = LedgerStatus
    BY <1>3, LedgerStill
  <2> QED
    BY <1>3, <2>1 DEF Ledger!Excuse
<1>4. CASE /\ StatusOf(f) = "new" /\ StatusOf(f)' = "taken" /\ held' = held
           /\ cur = 0 /\ \A a \in Batch : a < f => a <= n
  <2>1. \A a \in Batch : a < f => StatusOf(a) \notin {"new", "taken"}
    BY <1>4, ZeroNoBatch, NumbersType DEF StatusOf, WriterInv
  <2>2. Ledger!Take(f)
    BY <1>1, <1>2, <1>4, <2>1 DEF Ledger!Take
  <2> QED
    BY <2>2
<1>5. CASE StatusOf(f) = "taken" /\ StatusOf(f)' = "stored" /\ held' = held
  <2>1. Ledger!Keep(f)
    BY <1>1, <1>2, <1>5 DEF Ledger!Keep
  <2> QED
    BY <2>1
<1>6. CASE /\ StatusOf(f) \in {"taken", "stored"} /\ held' = held
           /\ StatusOf(f)' \in {"quarantined", "accounted"}
  <2>1. Ledger!Reject(f) \/ Ledger!GiveUp(f)
    BY <1>1, <1>2, <1>6, Zenon DEF Ledger!Reject, Ledger!GiveUp
  <2> QED
    BY <2>1
<1>7. CASE /\ StatusOf(f) \in {"taken", "stored"} /\ StatusOf(f)' = "written" /\ held' = held
           /\ \A a \in files : a < f => a \in held
  <2>1. \A a \in Batch : StatusOf(a) = "stored" => a \in files
    BY DEF StatusOf
  <2>2. Ledger!Commit(f)
    BY <1>1, <1>2, <1>7, <2>1 DEF Ledger!Commit
  <2> QED
    BY <2>2
<1>8. CASE /\ StatusOf(f) = "stored" /\ StatusOf(f)' = "superseded" /\ held' = held
           /\ f \in LiveOnly /\ \E c \in LiveOnly \cap files : f < c
  <2>1. PICK c \in LiveOnly \cap files : f < c
    BY <1>8
  <2>2. c \in Batch /\ c \in 1..n /\ n \in Nat
    BY <2>1, NumbersType, SpoolAssumption, Zenon DEF WriterInv, Stages
  <2>4. StatusOf(c) # "new"
    BY <2>2 DEF StatusOf
  <2>3. Ledger!Supersede(f)
    BY <1>1, <1>2, <1>8, <2>1, <2>2, <2>4 DEF Ledger!Supersede
  <2> QED
    BY <2>3
<1>9. CASE StatusOf(f) = "quarantined" /\ StatusOf(f)' = "stored" /\ held' = held \cup {f}
  <2>1. Ledger!Retry(f)
    BY <1>1, <1>2, <1>9 DEF Ledger!Retry
  <2> QED
    BY <2>1
<1> QED
  BY <1>3, <1>4, <1>5, <1>6, <1>7, <1>8, <1>9, Zenon DEF Moves

\* Every step of the writer and of its environment is a step of the ledger, or
\* leaves the ledger as it was.
LEMMA LedgerStep ==
    ASSUME WriterInv, PlaceInv, WriterInv', PlaceInv', [Next]_vars
    PROVE  [Ledger!LedgerNext]_(Ledger!ledgerVars)
<1> USE DEF spoolVars, link, memory, loop, locals, outside, history
<1> DEFINE Goal == [Ledger!LedgerNext]_(Ledger!ledgerVars)
<1> DEFINE Others(f) == \A b \in Batch : b # f => StatusOf(b)' = StatusOf(b)
<1> SUFFICES Goal
  OBVIOUS
<1>1. ASSUME NEW f \in Batch, Moves(f), Others(f) PROVE Goal
  BY <1>1, MovesAllowed
<1>2. ASSUME UNCHANGED <<n, cur, files, corrupt, written, dropped, held>>, Gone' = Gone
      PROVE  Goal
  <2>1. \A b \in Batch : StatusOf(b)' = StatusOf(b)
    BY <1>2 DEF StatusOf
  <2> QED
    BY <1>2, <2>1, LedgerStill DEF Ledger!ledgerVars
<1> HIDE DEF Goal
<1>3. TypeOK /\ Stages /\ n \in Nat /\ cur \in Nat
  BY NumbersType DEF WriterInv
<1>4. ASSUME NEW b \in Batch \cup {0}, Submit(b) PROVE Goal
  <2>1. Gone' = Gone /\ cur = 0
    BY <1>3, <1>4, AboutNone, Zenon DEF Submit, Stages, Gone
  <2>2. CASE b = 0
    BY <1>2, <1>4, <2>1, <2>2 DEF Submit
  <2>3. CASE b # 0
    <3>1. b = n + 1 /\ b \in Batch /\ n' = b /\ cur' = b
      BY <1>4, <2>3 DEF Submit
    <3>2. UNCHANGED <<files, corrupt, written, dropped, held>>
      BY <1>4 DEF Submit
    <3>3. b \notin files \cup corrupt \cup written \cup dropped \cup Gone
      BY <1>3, <3>1 DEF Stages, PlaceInv
    <3>4. StatusOf(b) = "new" /\ StatusOf(b)' = "taken"
      BY <1>3, <2>1, <3>1, <3>2, <3>3 DEF StatusOf
    <3>5. \A a \in Batch : a < b => a <= n
      BY <1>3, <3>1 DEF Batch
    <3>6. Others(b)
      BY <1>3, <2>1, <3>1, <3>2, ZeroNoBatch DEF StatusOf, Batch
    <3> QED
      BY <1>1, <2>1, <3>1, <3>2, <3>4, <3>5, <3>6 DEF Moves
  <2> QED
    BY <2>2, <2>3
<1>5. ASSUME NEW f \in Batch, f \in todo, pc \in {"replay", "ping", "remove", "room"}
      PROVE  f \in files /\ ~(f > n) /\ f \notin corrupt \cup dropped
  <2>1. f \in files /\ f \notin corrupt \cup dropped
    BY <1>3, <1>5, Zenon DEF PlaceInv
  <2>2. f \in 1..n /\ n \in Nat
    BY <1>3, <2>1, Zenon DEF Stages, TypeOK
  <2> QED
    BY <2>1, <2>2
<1>6. ASSUME NEW f \in Batch, ReplayDrop(f) PROVE Goal
  <2>1. Gone' = Gone /\ f \in files /\ ~(f > n) /\ f \notin corrupt \cup dropped
    BY <1>5, <1>6 DEF ReplayDrop, At, Oldest, Gone
  <2>2. UNCHANGED <<n, cur, corrupt, written>>
    BY <1>6 DEF ReplayDrop
  <2>3. CASE files' = files /\ held' = held \cup {f} /\ dropped' = dropped
    BY <1>1, <2>1, <2>2, <2>3, Zenon DEF Moves, StatusOf
  <2>4. CASE files' = files \ {f} /\ held' = held /\ dropped' = dropped \cup {f}
    <3>1. f \in LiveOnly /\ \E c \in LiveOnly \cap files : f < c
      BY <1>6 DEF ReplayDrop, At, Superseded, PlaceInv
    <3>2. Others(f)
      BY <2>1, <2>2, <2>4 DEF StatusOf
    <3>3. Moves(f)
      BY <2>1, <2>2, <2>4, <3>1, Zenon DEF Moves, StatusOf
    <3> QED
      BY <1>1, <3>2, <3>3
  <2> QED
    BY <1>6, <2>3, <2>4 DEF ReplayDrop, Remove, SkipUnless
<1>7. ASSUME NEW f \in Batch, f \in todo, pc \in {"replay", "ping"},
             events' = events \cup Ev("spool_batch_quarantined", {f}),
             \/ files' = files \ {f} /\ corrupt' = corrupt \cup {f} /\ held' = held
             \/ files' = files /\ corrupt' = corrupt /\ held' = held \cup {f},
             UNCHANGED <<cur, evicted, carried, reported, crashed, dropped, n, written>>
      PROVE  Goal
  <2>4. About(events') = About(events) \cup {f}
    BY <1>7, AboutMore
  <2>5. f \in files /\ ~(f > n) /\ f \notin corrupt \cup dropped
    BY <1>5, <1>7
  <2>1. Gone' = Gone \cup {f} /\ f \in files /\ ~(f > n) /\ f \notin corrupt \cup dropped
    BY <1>7, <2>4, <2>5 DEF Gone
  <2>2. Others(f)
    BY <1>7, <2>1 DEF StatusOf
  <2>3. Moves(f)
    BY <1>7, <2>1, Zenon DEF Moves, StatusOf
  <2> QED
    BY <1>1, <2>2, <2>3
<1>8. ASSUME NEW f \in Batch, ReplayUnreadable(f) PROVE Goal
  BY <1>7, <1>8, Zenon DEF ReplayUnreadable, Readable, At, Oldest, Quarantine
<1>9. ASSUME NEW f \in Batch, QuarantineSpooled(f), f \in todo, pc \in {"replay", "ping"}
      PROVE  Goal
  BY <1>7, <1>9 DEF QuarantineSpooled, Quarantine, SkipUnless
<1>10. ASSUME NEW f \in Batch, ReplayWrite(f) \/ ReplayUnavailable(f) PROVE Goal
  <2>1. /\ pc = "replay" /\ Oldest(f, todo) /\ written' \in {written, written \cup {f}}
        /\ UNCHANGED <<n, cur, files, corrupt, dropped, held>> /\ Gone' = Gone
    BY <1>10, Zenon DEF ReplayWrite, ReplayUnavailable, Unavailable, Readable, At, Gone
  <2>2. \A a \in files : a < f => a \in held
    <3> SUFFICES ASSUME NEW a \in files, a < f PROVE a \notin todo
      BY <1>3, <2>1 DEF Stages
    <3>1. a \in Nat /\ f \in Nat
      BY <1>3, NumbersType
    <3> QED
      BY <2>1, <3>1 DEF Oldest
  <2>3. f \in files /\ ~(f > n) /\ f \notin corrupt \cup dropped
    BY <1>5, <2>1 DEF Oldest
  <2>4. Others(f)
    BY <2>1 DEF StatusOf
  <2>5. Moves(f)
    BY <2>1, <2>2, <2>3, Zenon DEF Moves, StatusOf
  <2> QED
    BY <1>1, <2>4, <2>5
<1>11. ASSUME NEW f \in Batch, ReplayRemove(f) PROVE Goal
  <2>1. /\ f \in written /\ written' = written /\ held' \in {held, held \cup {f}}
        /\ files' \in {files, files \ {f}}
        /\ UNCHANGED <<n, cur, corrupt, dropped>> /\ Gone' = Gone
    BY <1>3, <1>11, Zenon DEF ReplayRemove, Remove, SkipUnless, Oldest, Stages, Gone
  <2>2. Others(f)
    BY <2>1 DEF StatusOf
  <2>3. Moves(f)
    BY <2>1, Zenon DEF Moves, StatusOf
  <2> QED
    BY <1>1, <2>2, <2>3
<1>12. ASSUME NEW f \in Batch, ReplayStuck(f) \/ PingRetry(f) PROVE Goal
  BY <1>2, <1>12, Zenon DEF ReplayStuck, PingRetry, Gone
<1>13. ASSUME NEW f \in Batch, Evict(f) PROVE Goal
  <2>1. /\ f \in files /\ ~(f > n) /\ f \notin corrupt \cup dropped
        /\ UNCHANGED <<n, cur, corrupt, written, dropped, held>>
    BY <1>5, <1>13 DEF Evict, FirstToEvict
  <2>2. \/ files' = files /\ Gone' = Gone
        \/ files' = files \ {f} /\ Gone' = Gone \cup {f}
    BY <1>13 DEF Evict, Remove, Gone
  <2>3. Others(f)
    BY <2>1, <2>2 DEF StatusOf
  <2>4. Moves(f)
    BY <2>1, <2>2, Zenon DEF Moves, StatusOf
  <2> QED
    BY <1>1, <2>3, <2>4
<1>14. CASE PingFailed \/ OutOfTime \/ RoomMade \/ Tick \/ DatabaseChange \/ UNCHANGED vars
  BY <1>2, <1>14, Zenon DEF PingFailed, OutOfTime, RoomMade, Tick, DatabaseChange, vars, Gone
<1>15. CASE Drained
  <2>1. About(events') = About(events)
    BY <1>15, RecoverReports DEF Drained
  <2> QED
    BY <1>2, <1>15, <2>1 DEF Drained, Gone
<1>16. CASE Fail
  <2>1. events' \in {events, events \cup Ev("database_unavailable", {})}
    BY <1>16 DEF Fail
  <2>2. About(events') = About(events)
    BY <2>1, AboutMore
  <2> QED
    BY <1>2, <1>16, <2>2 DEF Fail, Gone
\* What is done with the batch in progress, and nothing else.
<1>17. ASSUME pc \in Pending, UNCHANGED <<n, cur, dropped, held>>,
              \A b \in Batch : b # cur =>
                  /\ (b \in files') = (b \in files) /\ (b \in corrupt') = (b \in corrupt)
                  /\ (b \in written') = (b \in written) /\ (b \in Gone') = (b \in Gone),
              cur \in Batch => Moves(cur)
       PROVE  Goal
  <2>1. \A b \in Batch : b # cur => StatusOf(b)' = StatusOf(b)
    BY <1>17, Zenon DEF StatusOf
  <2>2. CASE cur \in Batch
    BY <1>1, <1>17, <2>1, <2>2
  <2>3. CASE cur \notin Batch
    BY <1>17, <2>1, <2>3, LedgerStill DEF Goal, Ledger!ledgerVars
  <2> QED
    BY <2>2, <2>3
<1>18. ASSUME cur \in Batch, pc \in Pending
       PROVE  /\ ~(cur > n) /\ cur \notin files \cup corrupt \cup dropped \cup Gone
              /\ StatusOf(cur) = IF cur \in written THEN "written" ELSE "taken"
  <2>1. ~(cur > n) /\ cur \notin files \cup corrupt \cup dropped \cup Gone
    BY <1>3, <1>18 DEF Stages, PlaceInv, Pending
  <2> QED
    BY <2>1 DEF StatusOf
<1>19. CASE FreshWrite \/ FreshUnavailable
  <2>1. About(events') = About(events)
    BY <1>19, RecoverReports, Zenon DEF FreshWrite, FreshUnavailable
  <2>2. /\ pc \in Pending /\ Gone' = Gone /\ written' \in {written, written \cup Current}
        /\ UNCHANGED <<n, cur, files, corrupt, dropped, held>> /\ files \subseteq held
    BY <1>3, <1>19, <2>1, Zenon DEF FreshWrite, FreshUnavailable, Unavailable, Gone, Pending, Stages
  <2>3. ASSUME cur \in Batch PROVE Moves(cur)
    BY <1>18, <2>2, <2>3, Zenon DEF Moves, StatusOf
  <2> QED
    BY <1>17, <2>2, <2>3 DEF Current
<1>20. CASE FreshRejected
  <2>1. About(events') = About(events) \cup Current
    BY <1>3, <1>20, RejectedReports
  <2>2. /\ pc \in Pending /\ Gone' = Gone \cup Current /\ corrupt' \in {corrupt, corrupt \cup {cur}}
        /\ UNCHANGED <<n, cur, files, written, dropped, held>>
    BY <1>20, <2>1 DEF FreshRejected, QuarantineRecords, Gone, Pending
  <2>3. ASSUME cur \in Batch PROVE Moves(cur)
    BY <1>18, <2>2, <2>3, Zenon DEF Moves, StatusOf, Current
  <2> QED
    BY <1>17, <2>2, <2>3 DEF Current
<1>21. CASE Store
  <2>1. /\ pc \in Pending /\ UNCHANGED <<n, cur, files, corrupt, written, dropped, held>>
        /\ events' \in {events, events \cup Ev("spool_write_failed", {cur})}
        /\ UNCHANGED <<evicted, carried, reported, crashed>>
    BY <1>21 DEF Store, Pending
  <2>2. Gone' \in {Gone, Gone \cup {cur}}
    BY <2>1, AboutMore DEF Gone
  <2>3. ASSUME cur \in Batch PROVE Moves(cur)
    BY <1>18, <2>1, <2>2, <2>3, Zenon DEF Moves, StatusOf
  <2> QED
    BY <1>17, <2>1, <2>2, <2>3
<1>22. CASE AppendFile
  <2>1. PICK ok \in Outcome("write") :
            /\ Write(cur, ok)
            /\ About(events') = About(events) \cup evicted \cup (IF ok THEN {} ELSE {cur})
    BY <1>22, AppendReports
  <2>2. Gone' = IF ok THEN Gone ELSE Gone \cup {cur}
    BY <1>22, <2>1, Zenon DEF AppendFile, Gone
  <2>3. pc \in Pending /\ UNCHANGED <<n, cur, corrupt, written, dropped, held>>
    BY <1>22 DEF AppendFile, Pending
  <2>4. ASSUME cur \in Batch PROVE Moves(cur)
    BY <1>18, <2>1, <2>2, <2>3, <2>4, Zenon DEF Moves, StatusOf, Write
  <2> QED
    BY <1>17, <2>1, <2>2, <2>3, <2>4 DEF Write
<1>23. CASE Finish
  <2>1. /\ Gone' = Gone /\ UNCHANGED <<n, files, corrupt, written, dropped, held>>
        /\ Current \subseteq written \cup files \cup Gone
    BY <1>3, <1>23, AboutNone, Zenon DEF Finish, Gone, Stages
  <2>2. \A b \in Batch : StatusOf(b)' = StatusOf(b)
    BY <1>23, <2>1, ZeroNoBatch DEF Finish, StatusOf, Current
  <2> QED
    BY <2>1, <2>2, LedgerStill DEF Goal, Ledger!ledgerVars
<1>24. CASE Crash
  <2>1. Gone' = Gone \cup Current /\ cur' = 0
    BY <1>24, AboutNone DEF Crash, Gone
  <2>2. UNCHANGED <<n, files, corrupt, written, dropped, held>>
    BY <1>24 DEF Crash
  <2>3. \A b \in Batch : b # cur => StatusOf(b)' = StatusOf(b)
    BY <2>1, <2>2, ZeroNoBatch DEF StatusOf, Current
  <2>4. ASSUME NEW f \in Batch, f = cur PROVE Moves(f)
    BY <1>3, <2>1, <2>2, <2>4, ZeroNoBatch, Zenon DEF Moves, StatusOf, Current, Stages
  <2>5. CASE cur \in Batch
    BY <1>1, <2>3, <2>4, <2>5
  <2>6. CASE cur \notin Batch
    BY <2>2, <2>3, <2>6, LedgerStill DEF Goal, Ledger!ledgerVars
  <2> QED
    BY <2>5, <2>6
<1>25. ASSUME NEW f \in Batch, Requeue(f) PROVE Goal
  <2>1. /\ f \in corrupt /\ f \notin files \cup dropped /\ ~(f > n)
        /\ files' = files \cup {f} /\ corrupt' = corrupt \ {f} /\ held' = held \cup {f}
        /\ UNCHANGED <<n, cur, written, dropped>> /\ Gone' = Gone
    <3>1. f \in corrupt /\ f \notin files \cup dropped /\ f \in 1..n
      BY <1>3, <1>25, Zenon DEF Requeue, Stages, PlaceInv
    <3>2. ~(f > n)
      BY <1>3, <3>1
    <3>3. /\ files' = files \cup {f} /\ corrupt' = corrupt \ {f} /\ held' = held \cup {f}
          /\ UNCHANGED <<n, cur, written, dropped>> /\ Gone' = Gone
      BY <1>25, Zenon DEF Requeue, Gone
    <3> QED
      BY <3>1, <3>2, <3>3, Zenon
  <2>2. Others(f)
    BY <2>1 DEF StatusOf
  <2>3. Moves(f)
    BY <2>1, Zenon DEF Moves, StatusOf
  <2> QED
    BY <1>1, <2>2, <2>3
<1> QED
  BY <1>4, <1>6, <1>8, <1>9, <1>10, <1>11, <1>12, <1>13, <1>14, <1>15, <1>16, <1>19, <1>20,
     <1>21, <1>22, <1>23, <1>24, <1>25 DEF Next, Call, Step, OnFile, ReplayRejected, PingGiveUp,
     Readable, At, Oldest

\* The batches of a BufferedWriter move through the ledger and no other way:
\* submit(), the replay, the eviction of files and the operator's moves together
\* do what the abstract ledger promises, for any number of batches and faults.
THEOREM LedgerImplemented == Spec => ImplementsLedger
<1>1. Init => Ledger!LedgerInit
  BY SpoolAssumption DEF Init, SpoolInit, Ledger!LedgerInit, LedgerStatus, Batch
<1>2. WriterInv /\ PlaceInv /\ (WriterInv /\ PlaceInv)' /\ [Next]_vars
        => [Ledger!LedgerNext]_(Ledger!ledgerVars)
  BY LedgerStep
<1> QED
  BY PlacesInvariant, <1>1, <1>2, PTL DEF Spec, ImplementsLedger, Ledger!LedgerSpec

-----------------------------------------------------------------------------
(***************************************************************************)
(* Making room.                                                            *)
(***************************************************************************)
\* Between two calls of _append nothing is evicted; within one, where unlink()
\* does not fail, the files still to visit are the files there are.
RoomInv ==
    /\ pc \notin {"room", "append"} => evicted = {}
    /\ "remove" \notin DiskFaults /\ pc = "room" => todo = files
    /\ EvictionOrder

\* No two batches go before each other.
LEMMA GoesFirstOrder ==
    ASSUME NEW d \in Batch, NEW e \in Batch, GoesFirst(d, e), GoesFirst(e, d)
    PROVE  d = e
BY DEF GoesFirst, Batch

\* The file _make_room deletes next goes before all others.
LEMMA EvictedFirst ==
    ASSUME NEW S \in SUBSET Batch, NEW f, FirstToEvict(f, S)
    PROVE  f \in S /\ \A g \in S : GoesFirst(f, g)
BY DEF FirstToEvict, Oldest, GoesFirst, Batch

\* A file is deleted only while the new batch does not fit beside the files
\* there are, this file included.
LEMMA RoomStep == WriterInv /\ RoomInv /\ [Next]_vars => RoomInv'
<1> SUFFICES ASSUME TypeOK, Stages, RoomInv, [Next]_vars PROVE RoomInv'
  BY DEF WriterInv
<1> USE DEF spoolVars, link, memory, loop, locals, outside, history
<1>1. ASSUME pc' \notin {"room", "append"}, evicted' = {} PROVE RoomInv'
  BY <1>1 DEF RoomInv, EvictionOrder
<1>2. ASSUME pc \notin {"room", "append"}, pc' \notin {"room", "append"}, evicted' = evicted
      PROVE  RoomInv'
  BY <1>1, <1>2 DEF RoomInv
<1>3. ASSUME pc = "room", pc' = "append" \/ (pc' = "room" /\ todo' = todo),
             UNCHANGED <<files, evicted, cur>>
      PROVE  RoomInv'
  BY <1>3 DEF RoomInv, EvictionOrder
<1>4. ASSUME UNCHANGED <<pc, todo, files, evicted, cur>> PROVE RoomInv'
  BY <1>4 DEF RoomInv, EvictionOrder
<1>5. ASSUME NEW f \in Batch, Evict(f) PROVE RoomInv'
  <2> SUFFICES ASSUME "remove" \notin DiskFaults PROVE RoomInv'
    BY <1>5, Zenon DEF Evict, RoomInv, EvictionOrder
  <2>1. /\ pc = "room" /\ pc' = "room" /\ cur' = cur /\ todo = files /\ todo' = todo \ {f}
        /\ files' = files \ {f} /\ evicted' = evicted \cup {f} /\ Overfull(Size[cur])
    BY <1>5 DEF Evict, Remove, Outcome, RoomInv
  <2>2. f \in files /\ \A g \in files : GoesFirst(f, g)
    BY <1>5, <2>1, EvictedFirst, Zenon DEF Evict, TypeOK, SpoolTypeOK
  <2>3. \A e \in evicted : \A g \in files : GoesFirst(e, g)
    BY <2>1, Zenon DEF RoomInv, EvictionOrder
  <2>4. \A e \in evicted' : \A g \in files' : GoesFirst(e, g)
    BY <2>1, <2>2, <2>3
  <2>5. ASSUME NEW e \in evicted', \A d \in evicted' : GoesFirst(d, e)
        PROVE  Total(files' \cup {e}) + Size[cur] > MaxBytes
    <3>1. e = f
      <4>1. e = f \/ e \in evicted
        BY <2>1
      <4>2. CASE e \in evicted
        <5>1. GoesFirst(e, f) /\ GoesFirst(f, e) /\ e \in Batch
          BY <2>1, <2>2, <2>3, <2>5, <4>2 DEF TypeOK
        <5> QED
          BY <5>1, GoesFirstOrder
      <4> QED
        BY <4>1, <4>2
    <3>2. files' \cup {e} = files
      BY <2>1, <2>2, <3>1
    <3> QED
      BY <2>1, <3>2 DEF Overfull
  <2> QED
    BY <2>1, <2>4, <2>5 DEF RoomInv, EvictionOrder
<1>6. CASE Store
  BY <1>1, <1>6, Zenon DEF Store, RoomInv, EvictionOrder
<1>7. CASE AppendFile \/ Crash
  BY <1>1, <1>7, Zenon DEF AppendFile, Crash
<1>8. CASE RoomMade
  BY <1>3, <1>8 DEF RoomMade
<1>9. CASE Tick \/ DatabaseChange \/ UNCHANGED vars
  BY <1>4, <1>9, Zenon DEF Tick, DatabaseChange, vars
<1>10. ASSUME NEW f \in Batch, Requeue(f) PROVE RoomInv'
  BY <1>2, <1>10 DEF Requeue
<1>11. ASSUME NEW f \in Batch, OnFile(f), ~Evict(f) PROVE RoomInv'
  BY <1>2, <1>11, Zenon DEF OnFile, ReplayDrop, ReplayStuck, ReplayUnreadable, ReplayWrite,
     ReplayRemove, ReplayUnavailable, ReplayRejected, QuarantineSpooled, PingRetry, PingGiveUp,
     Readable, At, NextFile
<1>12. ASSUME NEW b \in Batch \cup {0}, Submit(b) PROVE RoomInv'
  BY <1>2, <1>12 DEF Submit
<1>13. CASE PingFailed \/ OutOfTime \/ Drained \/ FreshWrite \/ FreshUnavailable
            \/ FreshRejected \/ Fail \/ Finish
  BY <1>2, <1>13, Zenon DEF PingFailed, OutOfTime, Drained, FreshWrite, FreshUnavailable,
     FreshRejected, Fail, Finish
<1> QED
  BY <1>5, <1>6, <1>7, <1>8, <1>9, <1>10, <1>11, <1>12, <1>13 DEF Next, Call, Step

\* The batches dropped for room are the oldest, live-only ones before all
\* others, and the last one dropped would not have fitted.
THEOREM EvictedInOrder == Spec => []EvictionOrder
<1>1. Init => RoomInv
  BY DEF Init, RoomInv, EvictionOrder
<1>2. WriterInv /\ RoomInv /\ [Next]_vars => RoomInv'
  BY RoomStep
<1>3. RoomInv => EvictionOrder
  BY DEF RoomInv
<1> QED
  BY Invariance, <1>1, <1>2, <1>3, PTL DEF Spec

(***************************************************************************)
(* size_bytes().  Total is a fold; that it has a value, and which kind of  *)
(* value, is shown by induction on the number of files: a least number of  *)
(* files with no such value does not exist.                                *)
(***************************************************************************)
LEMMA LeastNatural ==
    ASSUME NEW T \in SUBSET Nat, T # {}
    PROVE  \E x \in T : \A y \in T : x <= y
<1> DEFINE R == {ss \in Nat \X Nat : ss[1] < ss[2]}
<1>1. IsWellFoundedOn(R, Nat)
  BY NatLessThanWellFounded, Zenon DEF OpToRel
<1>2. \A x, y \in Nat : y < x => <<y, x>> \in R
  OBVIOUS
<1> HIDE DEF R
<1>3. PICK x \in T : \A y \in T : ~(<<y, x>> \in R)
  BY <1>1, WFMin, Zenon
<1>4. ASSUME NEW y \in T PROVE x <= y
  <2>1. x \in Nat /\ y \in Nat /\ ~(y < x)
    BY <1>2, <1>3, Zenon
  <2> QED BY <2>1
<1> QED BY <1>4

\* The fold of Total, one element at a time.
Taken(s) == CHOOSE b \in s : TRUE
Sums(g, s) == IF s = {} THEN 0 ELSE Size[Taken(s)] + g[s \ {Taken(s)}]

LEMMA TotalIs ==
    ASSUME NEW S
    PROVE  Total(S) = (CHOOSE g : g = [s \in SUBSET S |-> Sums(g, s)])[S]
BY DEF Total, MapThenFoldSet, Sums, Taken

LEMMA TakenIs ==
    ASSUME NEW S \in SUBSET Batch, NEW s \in SUBSET S
    PROVE  /\ Cardinality(s) \in Nat /\ Cardinality(s) <= Cardinality(S)
           /\ s = {} <=> Cardinality(s) = 0
           /\ s # {} => /\ s \ {Taken(s)} \in SUBSET S /\ Size[Taken(s)] \in Nat
                        /\ Cardinality(s \ {Taken(s)}) = Cardinality(s) - 1
<1>1. IsFiniteSet(S) /\ IsFiniteSet(s) /\ Cardinality(s) <= Cardinality(S)
  <2>1. IsFiniteSet(Batch)
    BY FS_Interval, SpoolAssumption DEF Batch
  <2>2. IsFiniteSet(S)
    BY <2>1, FS_Subset
  <2> QED BY <2>2, FS_Subset
<1>2. Cardinality(s) \in Nat /\ (s = {} <=> Cardinality(s) = 0)
  BY <1>1, FS_CardinalityType, FS_EmptySet
<1>3. ASSUME s # {}
      PROVE  /\ s \ {Taken(s)} \in SUBSET S /\ Size[Taken(s)] \in Nat
             /\ Cardinality(s \ {Taken(s)}) = Cardinality(s) - 1
  <2>1. Taken(s) \in s
    BY <1>3 DEF Taken
  <2>2. Cardinality(s \ {Taken(s)}) = Cardinality(s) - 1
    BY <1>1, <2>1, FS_RemoveElement, Zenon
  <2>3. Size[Taken(s)] \in Nat
    BY <2>1, SpoolAssumption
  <2> QED BY <2>2, <2>3
<1> QED BY <1>1, <1>2, <1>3

\* There are such sums, for sets of any number of elements.
LEMMA SumsExist ==
    ASSUME NEW S \in SUBSET Batch
    PROVE  \E g : g = [s \in SUBSET S |-> Sums(g, s)]
<1> DEFINE UpTo(k) == \E g \in [SUBSET S -> Nat] :
                        \A s \in SUBSET S : Cardinality(s) <= k => g[s] = Sums(g, s)
<1>1. UpTo(0)
  <2> DEFINE g == [s \in SUBSET S |-> 0]
  <2>1. ASSUME NEW s \in SUBSET S, Cardinality(s) <= 0 PROVE g[s] = Sums(g, s)
    <3>1. Cardinality(s) \in Nat /\ (s = {} <=> Cardinality(s) = 0)
      BY TakenIs, Zenon
    <3>2. s = {}
      BY <2>1, <3>1
    <3> QED BY <3>2 DEF Sums
  <2>2. g \in [SUBSET S -> Nat]
    OBVIOUS
  <2> HIDE DEF g
  <2> QED BY <2>1, <2>2
<1>2. ASSUME NEW k \in Nat, UpTo(k) PROVE UpTo(k + 1)
  <2>1. PICK g \in [SUBSET S -> Nat] : \A s \in SUBSET S : Cardinality(s) <= k => g[s] = Sums(g, s)
    BY <1>2
  <2> DEFINE h == [s \in SUBSET S |-> IF Cardinality(s) <= k THEN g[s] ELSE Sums(g, s)]
  <2>2. ASSUME NEW s \in SUBSET S PROVE h[s] \in Nat /\ h[s] = IF Cardinality(s) <= k THEN g[s] ELSE Sums(g, s)
    <3>1. Sums(g, s) \in Nat
      <4>1. s # {} => s \ {Taken(s)} \in SUBSET S /\ Size[Taken(s)] \in Nat
        BY TakenIs, Zenon
      <4>2. s # {} => g[s \ {Taken(s)}] \in Nat
        BY <4>1, Zenon
      <4> QED BY <4>1, <4>2 DEF Sums
    <3> QED BY <3>1
  <2>3. h \in [SUBSET S -> Nat]
    BY <2>2, Zenon
  <2> HIDE DEF h
  <2>4. ASSUME NEW s \in SUBSET S, Cardinality(s) <= k + 1 PROVE h[s] = Sums(h, s)
    <3>1. h[s] = Sums(g, s)
      BY <2>1, <2>2
    <3>2. s # {} => h[s \ {Taken(s)}] = g[s \ {Taken(s)}]
      <4> SUFFICES ASSUME s # {} PROVE h[s \ {Taken(s)}] = g[s \ {Taken(s)}]
        OBVIOUS
      <4> DEFINE rest == s \ {Taken(s)}
      <4>1. rest \in SUBSET S /\ Cardinality(rest) = Cardinality(s) - 1 /\ Cardinality(s) \in Nat
        BY TakenIs, Zenon
      <4> HIDE DEF rest
      <4>2. Cardinality(rest) <= k
        BY <2>4, <4>1
      <4>3. h[rest] = g[rest]
        BY <2>2, <4>1, <4>2
      <4> QED BY <4>3, Zenon DEF rest
    <3> QED BY <3>1, <3>2 DEF Sums
  <2> QED BY <2>3, <2>4
<1> HIDE DEF UpTo
<1>3. ASSUME NEW k \in Nat PROVE UpTo(k)
  <2> SUFFICES ASSUME ~UpTo(k) PROVE FALSE
    OBVIOUS
  <2>1. PICK j \in {m \in Nat : ~UpTo(m)} : \A m \in {m \in Nat : ~UpTo(m)} : j <= m
    <3> DEFINE T == {m \in Nat : ~UpTo(m)}
    <3>1. T \in SUBSET Nat /\ T # {}
      OBVIOUS
    <3> HIDE DEF T
    <3>2. \E j \in T : \A m \in T : j <= m
      BY <3>1, LeastNatural
    <3> QED BY <3>2 DEF T
  <2>2. j # 0
    BY <1>1, <2>1
  <2>3. j - 1 \in Nat /\ (j - 1) + 1 = j
    BY <2>1, <2>2
  <2>4. UpTo(j - 1)
    BY <2>1, <2>3
  <2>5. UpTo((j - 1) + 1)
    BY <1>2, <2>3, <2>4
  <2> QED BY <2>1, <2>3, <2>5
<1>4. S \in SUBSET S /\ Cardinality(S) \in Nat
  BY TakenIs, Zenon
<1>5. PICK g \in [SUBSET S -> Nat] : \A s \in SUBSET S : Cardinality(s) <= Cardinality(S) => g[s] = Sums(g, s)
  BY <1>3, <1>4, Zenon DEF UpTo
<1>6. \A s \in SUBSET S : g[s] = Sums(g, s)
  BY <1>5, TakenIs, Zenon
<1>7. g = [s \in SUBSET S |-> Sums(g, s)]
  BY <1>6
<1> QED BY <1>7

\* size_bytes() is a number, and 0 for an empty spool.
LEMMA TotalType ==
    ASSUME NEW S \in SUBSET Batch
    PROVE  Total(S) \in Nat /\ (S = {} => Total(S) = 0)
<1> DEFINE g == CHOOSE f : f = [s \in SUBSET S |-> Sums(f, s)]
<1>1. g = [s \in SUBSET S |-> Sums(g, s)] /\ Total(S) = g[S]
  BY SumsExist, TotalIs, Zenon
<1> HIDE DEF g
<1>2. \A s \in SUBSET S : g[s] = Sums(g, s)
  BY <1>1, Zenon
<1>3. ASSUME NEW s \in SUBSET S PROVE g[s] \in Nat
  <2> SUFFICES ASSUME g[s] \notin Nat PROVE FALSE
    OBVIOUS
  <2> DEFINE T == {Cardinality(r) : r \in {r \in SUBSET S : g[r] \notin Nat}}
  <2>1. T \in SUBSET Nat /\ T # {}
    <3>1. \A r \in SUBSET S : Cardinality(r) \in Nat
      BY TakenIs, Zenon
    <3> QED BY <3>1, Zenon
  <2>2. PICK j \in T : \A m \in T : j <= m
    BY <2>1, LeastNatural, Zenon
  <2>3. PICK r \in SUBSET S : g[r] \notin Nat /\ j = Cardinality(r)
    BY <2>2
  <2>4. r # {}
    <3>1. g[{}] = 0
      BY <1>2, Zenon DEF Sums
    <3> QED BY <2>3, <3>1
  <2>5. /\ r \ {Taken(r)} \in SUBSET S /\ Size[Taken(r)] \in Nat
        /\ Cardinality(r \ {Taken(r)}) = j - 1 /\ j \in Nat
    BY <2>3, <2>4, TakenIs, Zenon
  <2>6. g[r \ {Taken(r)}] \in Nat
    BY <2>2, <2>5
  <2>7. g[r] = Size[Taken(r)] + g[r \ {Taken(r)}]
    BY <1>2, <2>4, Zenon DEF Sums
  <2> QED BY <2>3, <2>5, <2>6, <2>7
<1>4. S = {} => g[S] = 0
  BY <1>2 DEF Sums
<1> QED BY <1>1, <1>3, <1>4, Zenon

(***************************************************************************)
(* The new batch by itself is not too long, and once room has been made it *)
(* fits: what is left to delete is what is left of the files, so that the  *)
(* loop ends with an empty spool at the latest.                            *)
(***************************************************************************)
FitInv ==
    /\ pc = "room" => Size[cur] <= MaxBytes
    /\ "remove" \notin DiskFaults /\ pc = "append" => Total(files) + Size[cur] <= MaxBytes

LEMMA FitStep == WriterInv /\ RoomInv /\ FitInv /\ [Next]_vars => FitInv'
<1> SUFFICES ASSUME TypeOK, Stages, RoomInv, FitInv, [Next]_vars PROVE FitInv'
  BY DEF WriterInv
<1> USE DEF spoolVars, link, memory, loop, locals, outside, history
<1>1. ASSUME pc' \notin {"room", "append"} PROVE FitInv'
  BY <1>1, Zenon DEF FitInv
<1>2. ASSUME UNCHANGED <<pc, files, cur>> PROVE FitInv'
  BY <1>2 DEF FitInv
<1>3. ASSUME NEW f \in Batch, Evict(f) PROVE FitInv'
  BY <1>3 DEF Evict, FitInv
<1>4. CASE Store
  BY <1>4, Zenon DEF Store, FitInv
<1>5. CASE RoomMade
  <2>1. pc' = "append" /\ files' = files /\ cur' = cur /\ pc = "room" /\ (~Overfull(Size[cur]) \/ todo = {})
    BY <1>5, Zenon DEF RoomMade
  <2>2. Size[cur] \in Nat /\ Size[cur] <= MaxBytes /\ MaxBytes \in Nat
    <3>1. cur \in Batch
      BY <2>1, Zenon DEF TypeOK, Stages
    <3> QED BY <2>1, <3>1, SpoolAssumption DEF FitInv
  <2>3. files \in SUBSET Batch
    BY Zenon DEF TypeOK, SpoolTypeOK
  <2>4. Total(files) \in Nat /\ (files = {} => Total(files) = 0)
    BY <2>3, TotalType
  <2>5. ASSUME "remove" \notin DiskFaults PROVE Total(files) + Size[cur] <= MaxBytes
    <3>1. ~Overfull(Size[cur]) \/ files = {}
      BY <2>1, <2>5, Zenon DEF RoomInv
    <3> QED BY <2>2, <2>4, <3>1 DEF Overfull
  <2> QED BY <2>1, <2>5 DEF FitInv
<1>6. CASE AppendFile \/ Crash
  <2>1. pc' \in {"return", "idle"}
    BY <1>6, Zenon DEF AppendFile, Crash
  <2> QED BY <1>1, <2>1
<1>7. CASE Tick \/ DatabaseChange \/ UNCHANGED vars
  BY <1>2, <1>7, Zenon DEF Tick, DatabaseChange, vars
<1>8. ASSUME NEW f \in Batch, Requeue(f) PROVE FitInv'
  BY <1>1, <1>8, Zenon DEF Requeue
<1>9. ASSUME NEW f \in Batch, OnFile(f), ~Evict(f) PROVE FitInv'
  BY <1>1, <1>9, Zenon DEF OnFile, ReplayDrop, ReplayStuck, ReplayUnreadable, ReplayWrite,
     ReplayRemove, ReplayUnavailable, ReplayRejected, QuarantineSpooled, PingRetry, PingGiveUp,
     Readable, At, NextFile
<1>10. ASSUME NEW b \in Batch \cup {0}, Submit(b) PROVE FitInv'
  BY <1>1, <1>10 DEF Submit
<1>11. CASE PingFailed \/ OutOfTime \/ Drained \/ FreshWrite \/ FreshUnavailable
            \/ FreshRejected \/ Fail \/ Finish
  BY <1>1, <1>11, Zenon DEF PingFailed, OutOfTime, Drained, FreshWrite, FreshUnavailable,
     FreshRejected, Fail, Finish
<1> QED
  BY <1>3, <1>4, <1>5, <1>6, <1>7, <1>8, <1>9, <1>10, <1>11 DEF Next, Call, Step

\* When a batch is appended it fits beside the files there are, so that the
\* spool stays within max_bytes unless a file cannot be deleted.
THEOREM AppendsFit == Spec => AppendFits
<1>1. Init => RoomInv /\ FitInv
  BY DEF Init, RoomInv, EvictionOrder, FitInv
<1>2. WriterInv /\ RoomInv /\ FitInv /\ [Next]_vars => RoomInv' /\ FitInv'
  BY RoomStep, FitStep
<1>3. FitInv => [AppendFile /\ "remove" \notin DiskFaults => Total(files) + Size[cur] <= MaxBytes]_vars
  BY Zenon DEF FitInv, AppendFile
<1> QED
  BY Invariance, <1>1, <1>2, <1>3, PTL DEF Spec, AppendFits
=============================================================================
