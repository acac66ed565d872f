--------------------------- MODULE SessionProofs ----------------------------
(***************************************************************************)
(* Proofs about a session and the probe at its other end: the sessions of  *)
(* a node, for any number of probes and faults; then the probe's gpu       *)
(* queries, and its two threads on one stdout, for any bounds.             *)
(***************************************************************************)
EXTENDS NodeSession, Probe, TLAPS

(***************************************************************************)
(* The probes' lock.  A probe that lives and whose pid somebody knows, from *)
(* the file or as a victim, has written the file under the flock and keeps *)
(* that until it is gone; a pid somebody knows is not given out again.     *)
(***************************************************************************)
ProbePC == {"none", "try", "read", "term", "waitterm", "kill", "waitkill", "locked", "hello", "run"}
ProbeState == [pc : ProbePC, victim : Probe \cup {None}, termed : BOOLEAN, stuck : BOOLEAN]

Holding(p) == probe[p].pc \in {"locked", "hello", "run"}
Known(q) == lockfile = q \/ \E p \in Probe : probe[p].victim = q

ProbeLockInv ==
    /\ flock \in Probe \cup {None} /\ lockfile \in Probe \cup {None}
    /\ probe \in [Probe -> ProbeState]
    /\ \A p \in Probe : Holding(p) <=> flock = p
    /\ \A p \in Probe : probe[p].pc \in {"term", "waitterm", "kill", "waitkill"} => probe[p].victim # None
    /\ \A q \in Probe : Alive(q) /\ Known(q) => probe[q].pc \in {"hello", "run"}

(***************************************************************************)
(* A session.  bye settles the outcome once _pump is over (in "grace" there *)
(* was none, in "settle" the outcome is one already); Report has reset     *)
(* spins whenever run() goes on at once.                                   *)
(***************************************************************************)
SessionInv ==
    /\ SessionsEnd
    /\ outcome = "stop" => stopped
    /\ pc \in {"killed", "report"} => group \in {"none", "dying"}
    /\ pc = "settle" => outcome \in {"rotate", "stop"}
    /\ pc = "grace" => ~bye
    /\ pc \in {"term", "termed", "killed", "report"} /\ bye => outcome \in {"rotate", "stop"}
    /\ spins \in {0, 1}
    /\ pc \in {"run", "spawn"} => spins = 0
    /\ pc = "next" /\ AtOnce(outcome) => spins = 0

\* A probe's record after an update of its stage, its victim or the flag of its
\* SIGTERM.
LEMMA StageOf ==
    ASSUME NEW r \in ProbeState, NEW k \in ProbePC
    PROVE  LET s == [r EXCEPT !.pc = k] IN  s \in ProbeState /\ s.pc = k /\ s.victim = r.victim
BY Zenon DEF ProbeState

LEMMA VictimOf ==
    ASSUME NEW r \in ProbeState, NEW v \in Probe \cup {None}
    PROVE  LET s == [r EXCEPT !.victim = v] IN  s \in ProbeState /\ s.pc = r.pc /\ s.victim = v
BY Zenon DEF ProbeState

LEMMA TermedOf ==
    ASSUME NEW r \in ProbeState, NEW b \in BOOLEAN
    PROVE  LET s == [r EXCEPT !.termed = b]
           IN  s \in ProbeState /\ s.pc = r.pc /\ s.victim = r.victim
BY Zenon DEF ProbeState

\* Every step of a probe that goes for the lock preserves ProbeLockInv.
LEMMA AcquireInv ==
    ASSUME ProbeLockInv, NEW p \in Probe, Acquire(p) \/ NoPid(p)
    PROVE  ProbeLockInv'
<1> USE ProbeAssumption DEF ProbeLockInv, ProbeState, ProbePC, Holding, Known, Alive
<1>1. CASE TryLock(p)
  BY <1>1 DEF TryLock, Waiting
<1>2. CASE TryFails(p)
  BY <1>2 DEF TryFails
<1>3. CASE ReadPid(p)
  <2>1. CASE lockfile = None
    BY <1>3, <2>1 DEF ReadPid
  <2>2. CASE lockfile # None
    <3> DEFINE r == [probe[p] EXCEPT !.pc = "term", !.victim = lockfile]
    <3>1. r \in ProbeState /\ r.pc = "term" /\ r.victim = lockfile
      BY <2>2, Zenon
    <3>2. probe' = [probe EXCEPT ![p] = r] /\ flock' = flock /\ lockfile' = lockfile
      BY <1>3, <2>2, Zenon DEF ReadPid
    <3>3. probe[p].pc = "read"
      BY <1>3 DEF ReadPid
    <3> HIDE DEF r
    <3> QED BY <2>2, <3>1, <3>2, <3>3
  <2> QED BY <2>1, <2>2
<1>4. CASE Truncate(p)
  BY <1>4 DEF Truncate
<1>5. CASE WritePid(p)
  <2> DEFINE q == [probe[p] EXCEPT !.pc = "hello"]
             r == [q EXCEPT !.victim = None]
  <2>1. r \in ProbeState /\ r.pc = "hello" /\ r.victim = None
    <3>1. probe[p] \in ProbeState /\ "hello" \in ProbePC /\ None \in Probe \cup {None}
      BY Zenon
    <3> HIDE DEF ProbeLockInv, ProbeState, ProbePC
    <3>2. q \in ProbeState /\ q.pc = "hello"
      BY <3>1, StageOf, Zenon
    <3> HIDE DEF q
    <3> QED BY <3>1, <3>2, VictimOf, Zenon
  <2>2. probe' = [probe EXCEPT ![p] = r] /\ flock' = flock /\ lockfile' = p
    BY <1>5, Zenon DEF WritePid
  <2>3. probe[p].pc = "locked"
    BY <1>5 DEF WritePid
  <2> HIDE DEF r
  <2> QED BY <2>1, <2>2, <2>3
<1>6. CASE Terminate(p)
  <2> DEFINE v == probe[p].victim
             r == [probe[p] EXCEPT !.pc = "waitterm"]
             s == [probe[v] EXCEPT !.termed = Alive(v)]
  <2>1. probe[p].pc = "term" /\ v \in Probe /\ v # p
    BY <1>6 DEF Terminate
  <2>2. /\ r \in ProbeState /\ r.pc = "waitterm" /\ r.victim = v
        /\ s \in ProbeState /\ s.pc = probe[v].pc /\ s.victim = probe[v].victim
    <3>1. probe[p] \in ProbeState /\ probe[v] \in ProbeState /\ "waitterm" \in ProbePC /\ Alive(v) \in BOOLEAN
      BY <2>1, Zenon
    <3> HIDE DEF ProbeLockInv, ProbeState, ProbePC, Alive
    <3>2. r \in ProbeState /\ r.pc = "waitterm" /\ r.victim = v
      BY <3>1, StageOf, Zenon
    <3> QED BY <3>1, <3>2, TermedOf, Zenon
  <2>3. probe' = [probe EXCEPT ![p] = r, ![v] = s] /\ flock' = flock /\ lockfile' = lockfile
    BY <1>6, <2>1 DEF Terminate
  <2> HIDE DEF r, s
  <2> QED BY <2>1, <2>2, <2>3
<1>7. CASE Kill(p)
  <2> DEFINE v == probe[p].victim
             r == [probe[p] EXCEPT !.pc = "waitkill"]
             s == IF Alive(v) /\ probe[v].stuck THEN [probe[v] EXCEPT !.termed = TRUE] ELSE Unborn
  <2>1. probe[p].pc = "kill" /\ v \in Probe /\ v # p
    BY <1>7 DEF Kill
  <2>2. /\ r \in ProbeState /\ r.pc = "waitkill" /\ r.victim = v
        /\ s \in ProbeState
        /\ \/ probe[v].stuck /\ s.pc = probe[v].pc /\ s.victim = probe[v].victim
           \/ ~(Alive(v) /\ probe[v].stuck) /\ s.pc = "none" /\ s.victim = None
    <3>1. probe[p] \in ProbeState /\ probe[v] \in ProbeState /\ "waitkill" \in ProbePC /\ TRUE \in BOOLEAN
      BY <2>1, Zenon
    <3>2. Unborn \in ProbeState /\ Unborn.pc = "none" /\ Unborn.victim = None
      BY DEF Unborn
    <3> HIDE DEF ProbeLockInv, ProbeState, ProbePC, Alive
    <3>3. r \in ProbeState /\ r.pc = "waitkill" /\ r.victim = v
      BY <3>1, StageOf, Zenon
    <3>4. CASE Alive(v) /\ probe[v].stuck
      BY <3>1, <3>3, <3>4, TermedOf, Zenon
    <3>5. CASE ~(Alive(v) /\ probe[v].stuck)
      BY <3>2, <3>3, <3>5, Zenon
    <3> QED BY <3>4, <3>5, Zenon
  <2>3. probe' = [probe EXCEPT ![p] = r, ![v] = s] /\ lockfile' = lockfile
    BY <1>7, <2>1 DEF Kill, Killed
  <2>4. flock' = IF flock = v /\ ~probe[v].stuck THEN None ELSE flock
    BY <1>7 DEF Kill
  <2> HIDE DEF r, s
  <2> QED BY <2>1, <2>2, <2>3, <2>4
<1>8. CASE WaitOver(p)
  BY <1>8 DEF WaitOver, Waiting, Unborn
<1>9. CASE NoPid(p)
  BY <1>9 DEF NoPid, Unborn
<1> QED BY <1>1, <1>2, <1>3, <1>4, <1>5, <1>6, <1>7, <1>8, <1>9 DEF Acquire

\* So does the end of a probe, whatever it was doing.
LEMMA ExitInv ==
    ASSUME ProbeLockInv, NEW p \in Probe, Exit(p)
    PROVE  ProbeLockInv'
BY ProbeAssumption
DEF ProbeLockInv, ProbeState, ProbePC, Holding, Known, Alive, Exit, Unborn

\* And every other step: a probe is born with a pid that nobody knows.
LEMMA ProbeStep == ProbeLockInv /\ [Next]_vars => ProbeLockInv'
<1> SUFFICES ASSUME ProbeLockInv, [Next]_vars PROVE ProbeLockInv'
  OBVIOUS
<1>1. CASE UNCHANGED lockVars
  BY <1>1 DEF lockVars, ProbeLockInv, Holding, Known, Alive
<1>2. ASSUME NEW p \in Probe, Acquire(p) \/ NoPid(p) PROVE ProbeLockInv'
  BY <1>2, AcquireInv
<1>3. ASSUME NEW p \in Probe, Exit(p) PROVE ProbeLockInv'
  BY <1>3, ExitInv
<1>4. ASSUME NEW p \in Probe, Hello(p) PROVE ProbeLockInv'
  BY <1>4 DEF Hello, ProbeLockInv, ProbeState, ProbePC, Holding, Known, Alive
<1>5. ASSUME NEW p \in Probe, Stall(p) \/ Resume(p) PROVE ProbeLockInv'
  <2>1. PICK b \in BOOLEAN : probe' = [probe EXCEPT ![p].stuck = b]
    BY <1>5, Zenon DEF Stall, Resume
  <2>2. UNCHANGED <<flock, lockfile>>
    BY <1>5 DEF Stall, Resume
  <2> QED BY <2>1, <2>2 DEF ProbeLockInv, ProbeState, ProbePC, Holding, Known, Alive
<1>6. ASSUME NEW p \in Probe, Spawned(p) PROVE ProbeLockInv'
  <2>1. Unused(p) /\ UNCHANGED <<flock, lockfile>>
        /\ probe' = [probe EXCEPT ![p] = [Unborn EXCEPT !.pc = "try"]]
    BY <1>6 DEF Spawned
  <2> QED BY <2>1, ProbeAssumption, Zenon
         DEF Unused, Unborn, ProbeLockInv, ProbeState, ProbePC, Holding, Known, Alive
<1>7. CASE Own
  BY <1>1, <1>6, <1>7
  DEF Own, Loop, Line, Eof, Silence, StreamEnds, StreamStopped, Settled, Graced, SigTerm, SigKill,
      GroupEnded, Report, Resumed, Waited
<1>8. CASE SpawnFailed \/ Grow \/ Deadline \/ Stop \/ SshEnds \/ GroupExits \/ Cut \/ Hang \/ Ended
  BY <1>1, <1>8
  DEF SpawnFailed, Grow, Deadline, StreamEnds, Stop, SshEnds, GroupExits, Cut, Hang, Ended, vars
<1>9. CASE \E p \in Probe : Contend(p) \/ Hello(p) \/ Sample(p) \/ Bye(p) \/ Leave(p) \/ Orphaned(p)
                            \/ Stall(p) \/ Resume(p)
  BY <1>1, <1>2, <1>3, <1>4, <1>5, <1>9 DEF Contend, Sample, Bye, Leave, Orphaned
<1>10. CASE UNCHANGED vars
  BY <1>1, <1>10 DEF vars
<1> QED BY <1>7, <1>8, <1>9, <1>10 DEF Next

\* Only the holder is ever signalled (_signal_probe), however many probes the
\* earlier sessions have left behind and however they take over from each other.
THEOREM HolderSignalled == Spec => []OnlyHolderSignalled
<1>1. Init => ProbeLockInv
  BY ProbeAssumption
  DEF Init, LockInit, Unborn, ProbeLockInv, ProbeState, ProbePC, Holding, Known, Alive
<1>2. ProbeLockInv => OnlyHolderSignalled
  BY DEF ProbeLockInv, ProbeState, OnlyHolderSignalled, Holding, Known, Alive
<1> QED BY <1>1, <1>2, ProbeStep, PTL DEF Spec

\* The steps of the session itself preserve SessionInv.
LEMMA OwnStep == SessionInv /\ Own => SessionInv'
<1> SUFFICES ASSUME SessionInv, Own PROVE SessionInv'
  OBVIOUS
<1> USE SessionAssumption DEF SessionInv, SessionsEnd, AtOnce
<1>1. CASE Loop
  BY <1>1 DEF Loop
<1>2. CASE \E p \in Probe : Spawned(p)
  <2>1. /\ pc = "spawn" /\ pc' = "stream" /\ outcome' = "none" /\ ~bye'
        /\ spins' = spins + 1 /\ faults' = faults
    BY <1>2 DEF Spawned
  <2> QED BY <2>1
<1>3. CASE Line
  BY <1>3 DEF Line
<1>4. CASE Eof
  BY <1>4 DEF Eof, StreamEnds, StreamOutcome
<1>5. CASE Silence
  BY <1>5 DEF Silence, StreamEnds, StreamOutcome
<1>6. CASE StreamStopped
  BY <1>6 DEF StreamStopped
<1>7. CASE Settled
  BY <1>7 DEF Settled
<1>8. CASE Graced
  BY <1>8 DEF Graced
<1>9. CASE SigTerm \/ SigKill \/ GroupEnded
  BY <1>9 DEF SigTerm, SigKill, GroupEnded, GroupGone
<1>10. CASE Report
  BY <1>10 DEF Report, EndEvent
<1>11. CASE Resumed
  BY <1>11 DEF Resumed
<1>12. CASE Waited
  BY <1>12 DEF Waited
<1> QED BY <1>1, <1>2, <1>3, <1>4, <1>5, <1>6, <1>7, <1>8, <1>9, <1>10, <1>11, <1>12 DEF Own

\* So does everything that happens to it.
LEMMA SessionStep == SessionInv /\ [Next]_vars => SessionInv'
<1> SUFFICES ASSUME SessionInv, [Next]_vars PROVE SessionInv'
  OBVIOUS
<1> USE SessionAssumption DEF SessionInv, SessionsEnd, AtOnce
<1>1. CASE Own
  BY <1>1, OwnStep
<1>2. CASE SpawnFailed
  BY <1>2 DEF SpawnFailed, Fault
<1>3. CASE Grow
  BY <1>3 DEF Grow
<1>4. CASE Deadline
  BY <1>4 DEF Deadline, StreamEnds, StreamOutcome
<1>5. CASE Stop
  BY <1>5 DEF Stop
<1>6. CASE SshEnds \/ GroupExits
  BY <1>6 DEF SshEnds, GroupExits
<1>7. CASE Cut
  BY <1>7 DEF Cut, Fault
<1>8. CASE Hang
  BY <1>8 DEF Hang, Fault
<1>9. ASSUME NEW p \in Probe, Stall(p) PROVE SessionInv'
  BY <1>9 DEF Stall, Fault
<1>10. CASE UNCHANGED sessionVars
  BY <1>10 DEF sessionVars
<1>11. ASSUME NEW p \in Probe, Hello(p) \/ Sample(p) \/ Bye(p) PROVE SessionInv'
  BY <1>11 DEF Hello, Sample, Bye
<1>12. ASSUME NEW p \in Probe, Contend(p) \/ Leave(p) \/ Orphaned(p) \/ Resume(p) PROVE SessionInv'
  BY <1>10, <1>12 DEF Contend, Leave, Orphaned, Resume
<1>13. CASE Ended \/ UNCHANGED vars
  BY <1>10, <1>13 DEF Ended, vars
<1> QED BY <1>1, <1>2, <1>3, <1>4, <1>5, <1>6, <1>7, <1>8, <1>9, <1>11, <1>12, <1>13, Zenon DEF Next

\* SessionInv holds of every behaviour.
LEMMA SessionInvariant == Spec => []SessionInv
<1>1. Init => SessionInv
  <2>1. Init => /\ pc = "run" /\ outcome = "none" /\ ~bye /\ group = "none"
                /\ faults = 0 /\ reported = "none" /\ spins = 0
    BY DEF Init
  <2> QED BY <2>1, SessionAssumption DEF SessionInv, SessionsEnd, AtOnce
<1> QED BY <1>1, SessionStep, PTL DEF Spec

\* Every session_started is followed by its end before the next, its process
\* group is gone by then or has been sent SIGKILL, and a session whose probe said
\* bye is not lost (_session, _stream, _end_process_group).
THEOREM SessionsAreEnded == Spec => []SessionsEnd
<1>1. SessionInv => SessionsEnd
  BY DEF SessionInv
<1> QED BY <1>1, SessionInvariant, PTL

\* run() never spawns twice without a wait, a healthy session or one that ran
\* for max_lifetime in between.
THEOREM NoSpawnLoop == Spec => []NoTightLoop
<1>1. SessionInv => NoTightLoop
  BY DEF SessionInv, NoTightLoop
<1> QED BY <1>1, SessionInvariant, PTL
-----------------------------------------------------------------------------
(***************************************************************************)
(* The gpu queries.  While the queries so far call for a suspension, what  *)
(* has passed of it and what is left of it are all of it; the streak the   *)
(* code keeps is the number of equal failures running.                     *)
(***************************************************************************)
GpuInv ==
    /\ resume \in 0..Suspend /\ quiet \in 0..Suspend
    /\ streak \in 0..Identical /\ times \in 0..Identical
    /\ result \in Results \cup {"none"}
    /\ Enough => resume + quiet = Suspend
    /\ result \in Failures => failure = result /\ streak = times
    /\ result \notin Failures => failure = "none"

(***************************************************************************)
(* The emitter.  Whoever is in the middle of a line has the lock, and what *)
(* has been received since the last whole line is what it has written.     *)
(***************************************************************************)
Thread == {"main", "dog"}
Kinds == {"hello", "error", "counters", "census", "gpu", "bye"}
Messages == [kind : Kinds \cup {"signal", "none"}, seq : Nat, part : 0..2]

Between == tail = <<>> /\ whole = seq /\ ~told
Begun(m) ==
    /\ m.seq = seq
    /\ m.part = 0 => Between
    /\ m.part = 1 => tail = <<Chunk(m)>> /\ whole = seq /\ ~told
    /\ m.part = 2 => tail = <<>>

ControlInv ==
    /\ todo \in Seq(Kinds)
    /\ mainpc \in {"emit", "write"} => todo # <<>>
    /\ after \notin {"lock", "emit", "write", "report"}
    /\ mainpc = "lock" => dog = "none"
    /\ lock = "main" <=> mainpc \in {"write", "report"}
    /\ lock = "dog" <=> dog = "report"
    /\ mainpc = "write" => writing["main"].kind \in Kinds /\ writing["main"].part \in {0, 1}

EmitInv ==
    /\ seq \in Nat /\ whole \in Nat
    /\ lock \in Thread \cup {"free"}
    /\ writing \in [Thread -> Messages]
    /\ clean
    /\ lock = "free" => Between
    /\ \A t \in Thread : lock = t => Begun(writing[t])

\* The handler sets _signal_at first.
SignalInv == (signum => signal_at) /\ SignalNamed

\* A census of any kind preserves GpuInv.
LEMMA GpuStep ==
    ASSUME GpuInv, Suspended \/ Absent \/ \E r \in Results : Query(r)
    PROVE  GpuInv' /\ (quiet' = 0 /\ Enough => quiet = Suspend)
<1> USE GpuAssumption DEF GpuInv, Enough, Results
<1>1. CASE Suspended
  BY <1>1 DEF Suspended, NoQuery
<1>2. CASE Absent
  BY <1>2 DEF Absent, NoQuery
<1>3. ASSUME NEW r \in Results, Query(r) PROVE GpuInv' /\ (quiet' = 0 /\ Enough => quiet = Suspend)
  <2>1. CASE r \in {"ok", "timeout"}
    BY <1>3, <2>1 DEF Query
  <2>2. CASE r \in Failures
    <3>1. /\ resume = 0 /\ quiet' = 0 /\ result' = r /\ failure' = r /\ streak' = UpTo(Streak(r))
          /\ times' = IF r = result THEN UpTo(times + 1) ELSE 1
          /\ resume' = IF Streak(r) >= Identical THEN Suspend ELSE 0
      BY <1>3, <2>2 DEF Query
    <3>2. streak' = times'
      BY <2>2, <3>1 DEF Streak, UpTo
    <3>3. streak' \in 0..Identical /\ (streak' = Identical => Streak(r) >= Identical)
      BY <3>1 DEF Streak, UpTo
    <3> QED BY <2>2, <3>1, <3>2, <3>3
  <2> QED BY <2>1, <2>2
<1> QED BY <1>1, <1>2, <1>3

\* Every step of the probe is a census of its gpu queries or leaves them alone.
LEMMA GpuSteps ==
    ASSUME [ProbeNext]_probeVars
    PROVE  UNCHANGED gpuVars \/ Suspended \/ Absent \/ \E r \in Results : Query(r)
<1>1. CASE Census
  BY <1>1 DEF Census, Results
<1>2. CASE MainStep /\ ~Census
  BY <1>2 DEF MainStep, AcquireOrExit, Write, EncoderRaises, MainReports, Start, LoopTop,
              EmitCounters, CheckRss, Return
<1>3. CASE DogStep
  BY <1>3, Zenon DEF DogStep, DogCheck, DogReports, DogSelect
<1>4. CASE OnSignal \/ GracePasses \/ Reader \/ Hangup \/ ProbeEnded \/ UNCHANGED probeVars
  BY <1>4 DEF OnSignal, GracePasses, Reader, Hangup, ProbeEnded, probeVars
<1> QED BY <1>1, <1>2, <1>3, <1>4 DEF ProbeNext

\* GpuInv holds of every behaviour.
LEMMA GpuInvariant == ProbeSpec => []GpuInv
<1>1. ProbeInit => GpuInv
  BY GpuAssumption DEF ProbeInit, GpuInit, GpuInv, Enough, Results
<1>2. GpuInv /\ [ProbeNext]_probeVars => GpuInv'
  <2>1. ASSUME GpuInv, UNCHANGED gpuVars PROVE GpuInv'
    BY <2>1 DEF gpuVars, GpuInv, Enough, Results
  <2> QED BY <2>1, GpuStep, GpuSteps
<1> QED BY <1>1, <1>2, PTL DEF ProbeSpec

\* After a timeout, and after enough equal failures whatever came between
\* them, no query is made until the suspension is over (_take, _gpu_resume_at).
THEOREM QueriesSuspended == ProbeSpec => SuspendsQueries
<1>1. GpuInv /\ [ProbeNext]_probeVars => [quiet' = 0 /\ Enough => quiet = Suspend]_gpuVars
  BY GpuStep, GpuSteps
<1> QED BY <1>1, GpuInvariant, PTL DEF ProbeSpec, SuspendsQueries

\* A chunk, or two of the same message, in its place is a line.
LEMMA Lines ==
    ASSUME NEW l, l[2] = whole
    PROVE  IsLine(<<l>>) /\ IsLine(Append(<<l>>, l)) /\ Len(<<l>>) = 1
BY DEF IsLine, Range

\* _put by the thread that holds the lock: the line it writes stays whole.
LEMMA PutStep ==
    ASSUME EmitInv, NEW t \in Thread, lock = t, writing[t].part < 2, Put(t)
    PROVE  /\ clean'
           /\ writing[t].part = 0 =>
                 tail' = <<Chunk(writing[t])>> /\ UNCHANGED <<whole, told>> /\ Between
           /\ writing[t].part = 1 =>
                 tail' = <<>> /\ whole' = whole + 1 /\ (told' => writing[t].kind = "signal")
<1> DEFINE m == writing[t]
<1>1. m \in Messages /\ clean /\ Begun(m) /\ m.part \in {0, 1}
  BY DEF EmitInv, Messages
<1>2. CASE m.part = 0
  BY <1>1, <1>2 DEF Put, Begun, Between
<1>3. CASE m.part = 1
  <2>1. tail = <<Chunk(m)>> /\ Chunk(m)[2] = whole /\ ~told
    BY <1>1, <1>3 DEF Begun, Chunk
  <2>2. IsLine(Append(tail, Chunk(m)))
    BY <2>1, Lines
  <2>3. /\ tail' = <<>> /\ whole' = whole + 1
        /\ clean' = (clean /\ IsLine(Append(tail, Chunk(m))) /\ ~told)
        /\ told' = (told \/ m.kind = "signal")
    BY <1>3 DEF Put
  <2>4. clean' /\ (told' => m.kind = "signal")
    BY <1>1, <2>1, <2>2, <2>3, Zenon
  <2> QED BY <1>3, <2>3, <2>4
<1> QED BY <1>1, <1>2, <1>3

\* _report_signal_and_exit, by either thread.
LEMMA ReportingStep ==
    ASSUME EmitInv, NEW t \in Thread, lock = t, Reporting(t)
    PROVE  EmitInv' /\ lock' = lock /\ \A u \in Thread \ {t} : writing'[u] = writing[u]
<1>1. CASE writing[t].part < 2 /\ Put(t) /\ writing' = [writing EXCEPT ![t].part = @ + 1]
           /\ UNCHANGED <<lock, seq, status>>
  <2> DEFINE m == writing[t]
             n == [m EXCEPT !.part = m.part + 1]
  <2>1. m \in Messages /\ m.part \in {0, 1}
    BY <1>1 DEF EmitInv, Messages
  <2>2. n \in Messages /\ n.part = m.part + 1 /\ n.seq = m.seq /\ Chunk(n) = Chunk(m)
    BY <2>1 DEF Messages, Chunk
  <2>3. writing' = [writing EXCEPT ![t] = n] /\ UNCHANGED <<lock, seq>>
    BY <1>1
  <2>4. /\ clean'
        /\ m.part = 0 => tail' = <<Chunk(m)>> /\ UNCHANGED <<whole, told>> /\ Between
        /\ m.part = 1 => tail' = <<>> /\ whole' = whole + 1
    BY <1>1, PutStep
  <2>5. Begun(m)
    BY DEF EmitInv
  <2> HIDE DEF n
  <2>6. writing' \in [Thread -> Messages] /\ writing'[t] = n
    BY <2>2, <2>3 DEF EmitInv
  <2>7. Begun(writing[t])'
    BY <2>1, <2>2, <2>3, <2>4, <2>5, <2>6 DEF Begun, Between, Chunk
  <2>8. whole' \in Nat /\ seq' \in Nat
    BY <2>1, <2>3, <2>4 DEF EmitInv
  <2> QED BY <2>3, <2>4, <2>6, <2>7, <2>8 DEF EmitInv, Thread
<1>2. CASE UNCHANGED emitVars
  BY <1>2 DEF emitVars, EmitInv, Begun, Between
<1> QED BY <1>1, <1>2 DEF Reporting

\* The emitter and the two threads, together.
ThreadsInv == ControlInv /\ EmitInv

\* A step that leaves the emitter alone preserves EmitInv.
LEMMA EmitterAlone == EmitInv /\ UNCHANGED emitVars => EmitInv'
BY DEF emitVars, EmitInv, Begun, Between

\* Taking the free lock for a message.
LEMMA TakeLock ==
    ASSUME EmitInv, NEW t \in Thread, NEW k \in Kinds \cup {"signal"}, lock = "free", lock' = t,
           writing' = [writing EXCEPT ![t] = Message(k)],
           UNCHANGED <<seq, whole, tail, clean, told>>
    PROVE  EmitInv' /\ writing'[t].kind = k /\ writing'[t].part = 0
<1>1. Message(k) \in Messages /\ Message(k).seq = seq /\ Message(k).part = 0 /\ Message(k).kind = k
  BY DEF Message, Messages, EmitInv
<1>2. writing' \in [Thread -> Messages] /\ writing'[t] = Message(k) /\ Between'
  BY <1>1 DEF EmitInv, Between
<1>3. Begun(writing[t])'
  BY <1>1, <1>2 DEF Begun
<1> QED BY <1>1, <1>2, <1>3 DEF EmitInv, Thread

\* Releasing it after a line, whole or a fragment.
LEMMA ReleaseLock ==
    ASSUME ThreadsInv, NEW rest \in Seq(Kinds), mainpc = "write", Release(rest),
           seq' \in Nat, whole' = seq', clean', ~told', tail' = <<>>, UNCHANGED dog
    PROVE  ThreadsInv'
<1>1. lock' = "free" /\ writing' \in [Thread -> Messages]
  BY DEF Release, ThreadsInv, EmitInv, Nothing, Messages, Thread
<1>2. EmitInv'
  BY <1>1 DEF EmitInv, Between, Thread
<1>3. ControlInv'
  BY <1>1 DEF Release, ThreadsInv, ControlInv
<1> QED BY <1>2, <1>3 DEF ThreadsInv

\* The loop goes on, or has lines to emit.
LEMMA GoesOn ==
    ASSUME ThreadsInv, NEW next \in {"top", "return0", "return3", "counters", "census", "rss"},
           NEW kinds \in {<<"hello">>, <<"hello", "error">>, <<"error">>, <<"counters">>, <<"census">>,
                          <<"gpu", "census">>, <<"bye">>},
           Goes(next) \/ Emits(kinds, next), mainpc \notin {"write", "report"},
           UNCHANGED emitVars, dog' = dog \/ (dog # "report" /\ dog' # "report")
    PROVE  ThreadsInv'
<1>1. kinds \in Seq(Kinds) /\ kinds # <<>>
  <2>1. \A a, b \in Kinds : <<a>> \in Seq(Kinds) /\ <<a, b>> \in Seq(Kinds) /\ <<a>> # <<>> /\ <<a, b>> # <<>>
    OBVIOUS
  <2> QED BY <2>1, Zenon DEF Kinds
<1>2. EmitInv' /\ UNCHANGED <<lock, writing>>
  BY EmitterAlone DEF ThreadsInv, emitVars
<1>3. ControlInv'
  BY <1>1, <1>2 DEF Goes, Emits, ThreadsInv, ControlInv
<1> QED BY <1>2, <1>3 DEF ThreadsInv

\* The main thread preserves it.
LEMMA MainThreads == ThreadsInv /\ MainStep => ThreadsInv'
<1> SUFFICES ASSUME ThreadsInv, MainStep PROVE ThreadsInv'
  OBVIOUS
<1> USE DEF ThreadsInv
<1>1. CASE AcquireOrExit
  <2>1. mainpc = "emit" /\ Head(todo) \in Kinds /\ UNCHANGED <<todo, after, dog>>
    BY <1>1 DEF AcquireOrExit, Main, ControlInv
  <2>2. CASE UNCHANGED <<lock, mainpc, writing>>
    BY <1>1, <2>1, <2>2, EmitterAlone DEF AcquireOrExit, ControlInv, emitVars
  <2>3. CASE lock = "free" /\ lock' = "main" /\ mainpc' = "report"
             /\ writing' = [writing EXCEPT !["main"] = Message("signal")]
    <3>1. EmitInv'
      BY <1>1, <2>3, TakeLock, Zenon DEF AcquireOrExit, Thread
    <3> QED BY <2>1, <2>3, <3>1 DEF ControlInv
  <2>4. CASE lock = "free" /\ lock' = "main" /\ mainpc' = "write"
             /\ writing' = [writing EXCEPT !["main"] = Message(Head(todo))]
    <3>1. EmitInv' /\ writing'["main"].kind = Head(todo) /\ writing'["main"].part = 0
      BY <1>1, <2>1, <2>4, TakeLock, Zenon DEF AcquireOrExit, Thread
    <3> QED BY <2>1, <2>4, <3>1 DEF ControlInv
  <2> QED BY <1>1, <2>2, <2>3, <2>4 DEF AcquireOrExit
<1>2. CASE Write
  <2> DEFINE m == writing["main"]
  <2>1. mainpc = "write" /\ lock = "main" /\ Tail(todo) \in Seq(Kinds) /\ m \in Messages
        /\ m.kind \in Kinds /\ m.part \in {0, 1} /\ Begun(m) /\ clean /\ UNCHANGED dog
    BY <1>2 DEF Write, Main, ControlInv, EmitInv, Thread
  <2>2. CASE m.part = 0 /\ Put("main") /\ writing' = [writing EXCEPT !["main"].part = 1]
             /\ UNCHANGED <<lock, seq, mainVars, status>>
    <3> DEFINE n == [m EXCEPT !.part = 1]
    <3>1. n \in Messages /\ n.part = 1 /\ n.seq = m.seq /\ n.kind = m.kind /\ Chunk(n) = Chunk(m)
      BY <2>1 DEF Messages, Chunk
    <3>2. writing' = [writing EXCEPT !["main"] = n]
      BY <2>2
    <3>3. clean' /\ tail' = <<Chunk(m)>> /\ UNCHANGED <<whole, told>> /\ Between
      BY <2>1, <2>2, PutStep DEF Thread
    <3> HIDE DEF n
    <3>4. writing' \in [Thread -> Messages] /\ writing'["main"] = n
      BY <3>1, <3>2 DEF EmitInv, Thread
    <3>5. Begun(writing["main"])'
      BY <2>1, <2>2, <3>1, <3>3, <3>4 DEF Begun, Between, Chunk
    <3>6. EmitInv'
      BY <2>1, <2>2, <3>3, <3>4, <3>5 DEF EmitInv, Thread
    <3>7. ControlInv'
      BY <2>1, <2>2, <3>1, <3>4 DEF ControlInv, mainVars
    <3> QED BY <3>6, <3>7
  <2>3. CASE m.part = 1 /\ Put("main") /\ seq' = seq + 1 /\ Release(Tail(todo))
    <3>1. clean' /\ tail' = <<>> /\ whole' = whole + 1 /\ ~told'
      BY <2>1, <2>3, PutStep DEF Thread, Kinds
    <3>2. seq' \in Nat /\ whole' = seq'
      BY <2>1, <2>3, <3>1 DEF Begun, EmitInv
    <3> QED BY <2>1, <2>3, <3>1, <3>2, ReleaseLock, Zenon
  <2>4. CASE UNCHANGED <<emitVars, mainVars>>
    BY <2>1, <2>4, EmitterAlone DEF emitVars, mainVars, ControlInv
  <2> QED BY <1>2, <2>2, <2>3, <2>4 DEF Write
<1>3. CASE EncoderRaises
  <2> DEFINE m == writing["main"]
  <2>1. /\ mainpc = "write" /\ m.part \in {0, 1} /\ Begun(m) /\ clean /\ <<"error">> \in Seq(Kinds)
        /\ Release(<<"error">>) /\ UNCHANGED <<dog, seq, whole, told>>
    BY <1>3 DEF EncoderRaises, Main, ControlInv, EmitInv, Thread, Kinds
  <2>2. whole = seq /\ ~told /\ seq \in Nat
    BY <2>1 DEF Begun, Between, EmitInv
  <2>3. CASE m.part = 0
    <3>1. tail = <<>>
      BY <2>1, <2>3 DEF Begun, Between
    <3>2. UNCHANGED <<tail, clean>>
      BY <1>3, <2>3 DEF EncoderRaises
    <3>3. clean' /\ tail' = <<>>
      BY <2>1, <3>1, <3>2
    <3> QED BY <2>1, <2>2, <3>3, ReleaseLock, Zenon
  <2>4. CASE m.part = 1
    <3>1. tail = <<Chunk(m)>> /\ Chunk(m)[2] = whole
      BY <2>1, <2>2, <2>4 DEF Begun, Chunk
    <3>2. IsLine(tail)
      BY <3>1, Lines
    <3>3. tail' = <<>> /\ clean' = (clean /\ IsLine(tail) /\ ~told)
      BY <1>3, <2>4 DEF EncoderRaises
    <3>4. clean'
      BY <2>1, <2>2, <3>2, <3>3, Zenon
    <3> QED BY <2>1, <2>2, <3>3, <3>4, ReleaseLock, Zenon
  <2> QED BY <2>1, <2>3, <2>4
<1>4. CASE MainReports
  <2>1. mainpc = "report" /\ lock = "main" /\ Reporting("main") /\ UNCHANGED <<mainVars, dog>>
    BY <1>4 DEF MainReports, Main, ControlInv
  <2>2. EmitInv' /\ lock' = lock
    BY <2>1, ReportingStep DEF Thread
  <2> QED BY <2>1, <2>2 DEF ControlInv, mainVars
<1>5. CASE Start
  <2>1. mainpc = "lock" /\ UNCHANGED emitVars /\ dog # "report"
    BY <1>5 DEF Start, Main, ControlInv
  <2> QED BY <1>5, <2>1, GoesOn DEF Start
<1>6. CASE LoopTop
  <2>1. mainpc = "top" /\ UNCHANGED <<todo, after, dog>>
    BY <1>6 DEF LoopTop, Main, Goes, mainVars
  <2>2. CASE ReportSignal("main") /\ Goes("report")
    <3>1. EmitInv'
      BY <1>6, <2>2, TakeLock, Zenon DEF LoopTop, ReportSignal, Thread
    <3> QED BY <2>1, <2>2, <3>1 DEF ControlInv, ReportSignal, Goes
  <2>3. CASE UNCHANGED <<lock, writing>> /\ mainpc' \in {"top", "return0", "counters"}
    BY <1>6, <2>1, <2>3, EmitterAlone DEF LoopTop, emitVars, ControlInv
  <2> QED BY <1>6, <2>1, <2>2, <2>3 DEF LoopTop, Goes, mainVars
<1>7. CASE EmitCounters
  BY <1>7, GoesOn DEF EmitCounters, Main
<1>8. CASE Census
  <2>1. mainpc = "census" /\ UNCHANGED <<dog, emitVars>>
    BY <1>8 DEF Census, Main
  <2>2. \/ Goes("top")
        \/ \E kinds \in {<<"census">>, <<"gpu", "census">>, <<"error">>} : Emits(kinds, "rss")
    BY <1>8 DEF Census
  <2> QED BY <2>1, <2>2, GoesOn
<1>9. CASE CheckRss
  BY <1>9, GoesOn DEF CheckRss, Main
<1>10. CASE Return
  BY <1>10, EmitterAlone DEF Return, ControlInv, mainVars, emitVars
<1> QED BY <1>1, <1>2, <1>3, <1>4, <1>5, <1>6, <1>7, <1>8, <1>9, <1>10 DEF MainStep

\* So does the watchdog.
LEMMA DogThreads == ThreadsInv /\ DogStep => ThreadsInv'
<1> SUFFICES ASSUME ThreadsInv, DogStep PROVE ThreadsInv'
  OBVIOUS
<1> USE DEF ThreadsInv
<1>1. CASE DogCheck
  <2>1. dog = "check" /\ mainpc # "lock" /\ UNCHANGED <<mainVars, seq, whole, tail, clean, told>>
    BY <1>1 DEF DogCheck, Dog, ControlInv
  <2>2. CASE ReportSignal("dog") /\ dog' = "report"
    <3>1. lock = "free" /\ lock' = "dog" /\ writing' = [writing EXCEPT !["dog"] = Message("signal")]
      BY <2>2 DEF ReportSignal
    <3>2. EmitInv' /\ writing'["main"] = writing["main"]
      BY <2>1, <3>1, TakeLock, Zenon DEF Thread, EmitInv
    <3> QED BY <2>1, <2>2, <3>1, <3>2 DEF ControlInv, mainVars
  <2>3. CASE UNCHANGED <<lock, writing>> /\ dog' \in {"check", "select"}
    BY <2>1, <2>3, EmitterAlone DEF ControlInv, mainVars, emitVars
  <2> QED BY <1>1, <2>1, <2>2, <2>3, Zenon DEF DogCheck
<1>2. CASE DogReports
  <2>1. dog = "report" /\ lock = "dog" /\ Reporting("dog") /\ UNCHANGED <<mainVars, dog>>
    BY <1>2 DEF DogReports, Dog, ControlInv
  <2>2. EmitInv' /\ lock' = lock /\ writing'["main"] = writing["main"]
    BY <2>1, ReportingStep DEF Thread
  <2> QED BY <2>1, <2>2 DEF ControlInv, mainVars
<1>3. CASE DogSelect
  <2>1. dog = "select" /\ dog' \in {"check", "select"} /\ UNCHANGED <<mainVars, emitVars>>
    BY <1>3 DEF DogSelect, Dog
  <2> QED BY <2>1, EmitterAlone DEF ControlInv, mainVars, emitVars
<1> QED BY <1>1, <1>2, <1>3 DEF DogStep

\* Lines are received whole, numbered without a gap, and none after the report
\* of a signal, whichever thread writes what (_Emitter, _report_signal_and_exit).
THEOREM LinesAreWhole == ProbeSpec => []WholeLines
<1>1. ProbeInit => ThreadsInv
  <2>1. ASSUME ProbeInit PROVE EmitInv
    <3>1. Nothing \in Messages
      BY DEF Nothing, Messages
    <3> QED BY <2>1, <3>1 DEF ProbeInit, EmitInv, Between, Thread
  <2>2. ASSUME ProbeInit PROVE ControlInv
    BY <2>2 DEF ProbeInit, ControlInv
  <2> QED BY <2>1, <2>2 DEF ThreadsInv
<1>2. ThreadsInv /\ [ProbeNext]_probeVars => ThreadsInv'
  <2>1. ASSUME ThreadsInv, UNCHANGED <<mainVars, dog, emitVars>> PROVE ThreadsInv'
    BY <2>1, EmitterAlone DEF ThreadsInv, ControlInv, mainVars, emitVars
  <2>2. ASSUME OnSignal \/ GracePasses \/ Reader \/ Hangup \/ ProbeEnded \/ UNCHANGED probeVars
        PROVE  UNCHANGED <<mainVars, dog, emitVars>>
    BY <2>2 DEF OnSignal, GracePasses, Reader, Hangup, ProbeEnded, probeVars
  <2> QED BY <2>1, <2>2, MainThreads, DogThreads DEF ProbeNext
<1>3. ThreadsInv => WholeLines
  <2> SUFFICES ASSUME ThreadsInv PROVE WholeLines
    OBVIOUS
  <2>1. clean
    BY DEF ThreadsInv, EmitInv
  <2>2. ASSUME tail # <<>> PROVE IsLine(tail) /\ Len(tail) = 1 /\ ~told
    <3>1. PICK t \in Thread : lock = t /\ Begun(writing[t]) /\ writing[t].part = 1
      BY <2>2 DEF ThreadsInv, EmitInv, Between, Begun, Messages
    <3>2. tail = <<Chunk(writing[t])>> /\ Chunk(writing[t])[2] = whole /\ ~told
      BY <3>1 DEF Begun, Chunk
    <3> QED BY <3>2, Lines
  <2> QED BY <2>1, <2>2 DEF WholeLines
<1> QED BY <1>1, <1>2, <1>3, PTL DEF ProbeSpec

\* The handler sets _signal_at before _signum, and nothing unsets them.
LEMMA TimeKnown == (signum => signal_at) /\ [ProbeNext]_probeVars => (signum => signal_at)'
<1> SUFFICES ASSUME signum => signal_at, [ProbeNext]_probeVars PROVE (signum => signal_at)'
  OBVIOUS
<1>1. CASE UNCHANGED <<signal_at, signum>>
  BY <1>1
<1>2. CASE OnSignal
  <2>1. CASE signal_at' = TRUE
    BY <2>1
  <2>2. CASE signal_at /\ UNCHANGED signal_at
    BY <2>2
  <2> QED BY <1>2, <2>1, <2>2, Zenon DEF OnSignal, TimeFirst
<1>3. CASE MainStep
  BY <1>1, <1>3, Zenon DEF MainStep, AcquireOrExit, Write, EncoderRaises, MainReports, Start, LoopTop,
                    EmitCounters, Census, CheckRss, Return, signalVars
<1>4. CASE DogStep
  BY <1>1, <1>4, Zenon DEF DogStep, DogCheck, DogReports, DogSelect, signalVars
<1>5. CASE GracePasses \/ Reader \/ Hangup \/ ProbeEnded \/ UNCHANGED probeVars
  BY <1>1, <1>5, Zenon DEF GracePasses, Reader, Hangup, ProbeEnded, probeVars, signalVars
<1> QED BY <1>2, <1>3, <1>4, <1>5 DEF ProbeNext

\* A probe that has ended does nothing more.
LEMMA EndIsFinal == ~Running /\ [ProbeNext]_probeVars => UNCHANGED probeVars
BY Zenon DEF ProbeNext, MainStep, AcquireOrExit, Write, EncoderRaises, MainReports, Start, LoopTop, EmitCounters,
       Census, CheckRss, Return, DogStep, DogCheck, DogReports, DogSelect, OnSignal, GracePasses,
       Reader, Hangup, ProbeEnded, Main, Dog

\* Where the main thread exits with 0: its reader is gone, or it returns.
LEMMA MainExits ==
    ASSUME MainStep, Running, status' = 0
    PROVE  UNCHANGED <<mainpc, reader>> /\ (reader = "gone" \/ mainpc = "return0")
<1>1. CASE Write
  BY <1>1 DEF Write, Running, os_exit, mainVars, worldVars
<1>2. CASE Return
  BY <1>2 DEF Return, Main, os_exit, mainVars, worldVars
<1>3. CASE MainReports
  BY <1>3 DEF MainReports, Reporting, Running, os_exit, KilledStatus
<1>4. CASE AcquireOrExit \/ LoopTop
  BY <1>4 DEF AcquireOrExit, LoopTop, Running, os_exit, KilledStatus
<1>5. CASE EncoderRaises \/ Start \/ EmitCounters \/ Census \/ CheckRss
  <2>1. UNCHANGED status
    BY <1>5, Zenon DEF EncoderRaises, Start, EmitCounters, Census, CheckRss
  <2> QED BY <2>1 DEF Running
<1> QED BY <1>1, <1>2, <1>3, <1>4, <1>5 DEF MainStep

\* Where the watchdog does: a hangup, or a signal whose time is not known.
LEMMA DogExits ==
    ASSUME DogStep, Running, status' = 0, signum => signal_at
    PROVE  UNCHANGED <<stdin, parent>> /\ (stdin = "eof" \/ parent = "gone")
<1>1. CASE DogCheck
  <2>1. CASE parent = "gone"
    BY <1>1, <2>1 DEF DogCheck, worldVars
  <2>2. CASE status' = KilledStatus \/ UNCHANGED status
    BY <2>2 DEF Running, KilledStatus
  <2> QED BY <1>1, <2>1, <2>2, Zenon DEF DogCheck, os_exit
<1>2. CASE DogReports
  BY <1>2 DEF DogReports, Reporting, Running, os_exit, KilledStatus
<1>3. CASE DogSelect
  BY <1>3 DEF DogSelect, Running, os_exit, worldVars
<1> QED BY <1>1, <1>2, <1>3 DEF DogStep

\* With a signal pending the exit status names it, but for a hangup, a reader
\* that is gone, or a probe that was about to return (_on_signal, _watchdog).
THEOREM StatusNamesSignal == ProbeSpec => []SignalNamed
<1>1. ProbeInit => SignalInv
  BY DEF ProbeInit, SignalInv, SignalNamed
<1>2. SignalInv /\ [ProbeNext]_probeVars => SignalInv'
  <2> SUFFICES ASSUME SignalInv, [ProbeNext]_probeVars PROVE SignalInv'
    OBVIOUS
  <2>1. (signum => signal_at)'
    BY TimeKnown DEF SignalInv
  <2>2. CASE ~Running
    BY <2>1, <2>2, EndIsFinal DEF SignalInv, SignalNamed, probeVars, signalVars, worldVars, mainVars
  <2>3. ASSUME Running, status' = 0
        PROVE  stdin' = "eof" \/ parent' = "gone" \/ reader' = "gone" \/ mainpc' = "return0"
    <3>1. CASE MainStep
      BY <2>3, <3>1, MainExits
    <3>2. CASE DogStep
      BY <2>3, <3>2, DogExits DEF SignalInv
    <3>3. CASE OnSignal \/ GracePasses \/ Reader \/ Hangup \/ ProbeEnded \/ UNCHANGED probeVars
      BY <2>3, <3>3 DEF OnSignal, GracePasses, Reader, Hangup, ProbeEnded, probeVars, Running
    <3> QED BY <3>1, <3>2, <3>3 DEF ProbeNext
  <2> QED BY <2>1, <2>2, <2>3 DEF SignalInv, SignalNamed
<1>3. SignalInv => SignalNamed
  BY DEF SignalInv
<1> QED BY <1>1, <1>2, <1>3, PTL DEF ProbeSpec
=============================================================================
