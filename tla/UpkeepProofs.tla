---------------------------- MODULE UpkeepProofs ----------------------------
(***************************************************************************)
(* Proofs about the upkeep of partitions and of the heartbeat, for any     *)
(* collectors, tables, retentions and intervals.                           *)
(***************************************************************************)
EXTENDS Upkeep, WellFoundedInduction, TLAPS

Partition == Table \X (Oldest..Ahead)

\* A job of a collector; skipped is used as a Boolean only.
IsJob(j) ==
    j \in [pc : {"idle", "upkeep", "writer", "again", "retain"}, age : 0..MaxAge,
           todo : SUBSET Partition, looked : SUBSET Partition, made : SUBSET Partition,
           table : {j.table}, skipped : {j.skipped}, batch : SUBSET Partition]

JobType ==
    /\ day \in 0..(MonthLen - 1)
    /\ partitions \subseteq Partition
    /\ advisory \in [Table -> Collector \cup {None}]
    /\ DOMAIN job = Collector /\ \A c \in Collector : IsJob(job[c])

(***************************************************************************)
(* Whoever has looked for a partition, or made one without committing it,  *)
(* has the advisory lock of its table.                                     *)
(***************************************************************************)
Locked(c, r, held, ps) ==
    /\ \A p \in r.looked : /\ r.pc \in {"upkeep", "writer"} /\ p \in r.todo
                           /\ held[p[1]] = c /\ p \notin ps \cup r.made
    /\ \A p \in r.made : r.pc = "writer" /\ held[p[1]] = c

LockInv == \A c \in Collector : Locked(c, job[c], advisory, partitions)

(***************************************************************************)
(* A month that is past the retention of a collector at a time stays so.   *)
(* What is being made was not past it when its job began, so it is never   *)
(* one of the months that are not told apart; what is being dropped is     *)
(* past it by now; and a partition the batch needs is there, made, to be   *)
(* made, or past some collector's retention.                               *)
(***************************************************************************)
Past(now, c, p) == (p[2] + 1) * MonthLen <= now - Keep[c][p[1]]
Lost(now, p) == \E d \in Collector : Past(now, d, p)

Covers(c, r, ps, now) ==
    /\ r.pc \in {"upkeep", "writer"} => \A p \in r.todo : ~Past(now - r.age, c, p)
    /\ r.pc = "writer" => \A p \in r.batch : p \in ps \cup r.made \cup r.todo \/ Lost(now, p)
    /\ r.pc = "again" => \A p \in r.batch : p \in ps \/ Lost(now, p)
    /\ r.pc = "retain" => \A p \in r.todo : Past(now, c, p)

BatchInv == \A c \in Collector : Covers(c, job[c], partitions, day)

(***************************************************************************)
(* The connection, the due times, and the attempts of a close.             *)
(***************************************************************************)
ClockInv ==
    /\ database \in {"up", "busy", "down"} /\ calm \in 0..CalmUnits
    /\ conn \in [Collector -> {"none", "open", "dead"}]
    /\ heartbeat \in [Collector -> 0..HeartbeatInterval]
    /\ maintenance \in [Collector -> Nat]
    /\ DOMAIN state = Collector /\ DOMAIN tries = Collector
    /\ \A c \in Collector : state[c] # "running" => job[c].pc = "idle"
    /\ \A c \in Collector : state[c] = "closing" =>
          tries[c] \in 1..2 /\ (conn[c] # "none" => tries[c] = 2)

(***************************************************************************)
(* The first of the partitions that are to be made, or dropped.            *)
(***************************************************************************)
LEMMA LeastNatural ==
    ASSUME NEW T \in SUBSET Nat, T # {}
    PROVE  \E x \in T : \A y \in T : x <= y
<1> DEFINE R == {ss \in Nat \X Nat : ss[1] < ss[2]}
<1>1. IsWellFoundedOn(R, Nat)
  BY NatLessThanWellFounded, Zenon DEF OpToRel
<1>2. \A x, y \in Nat : y < x => <<y, x>> \in R
  OBVIOUS
<1> HIDE DEF R
<1>3. PICK x \in T : \A y \in T : ~(<<y, x>> \in R)
  BY <1>1, WFMin, Zenon
<1>4. ASSUME NEW y \in T PROVE x <= y
  <2>1. x \in Nat /\ y \in Nat /\ ~(y < x)
    BY <1>2, <1>3, Zenon
  <2> QED BY <2>1
<1> QED BY <1>4

LEMMA FirstOfSome ==
    ASSUME NEW ps \in SUBSET Partition, ps # {}
    PROVE  First(ps) \in ps
<1>1. \A p \in ps : Position(p[1]) \in Nat /\ p[2] - Oldest \in Nat /\ p[2] \in Int
  <2>1. ASSUME NEW t \in Table PROVE Position(t) \in Nat
    <3>1. \E i \in DOMAIN Tables : Tables[i] = t
      BY DEF Table, Range
    <3>2. Position(t) \in DOMAIN Tables
      BY <3>1 DEF Position
    <3>3. DOMAIN Tables \subseteq Nat
      BY MaintenanceAssumption
    <3> QED BY <3>2, <3>3
  <2>2. \A p \in ps : p[1] \in Table /\ p[2] \in Oldest..Ahead
    BY DEF Partition
  <2> QED BY <2>1, <2>2, MaintenanceAssumption
<1> DEFINE A == {Position(p[1]) : p \in ps}
<1>2. PICK a \in A : \A x \in A : a <= x
  <2>1. A \in SUBSET Nat /\ A # {}
    BY <1>1
  <2> HIDE DEF A
  <2> QED BY <2>1, LeastNatural
<1> DEFINE B == {p[2] - Oldest : p \in {q \in ps : Position(q[1]) = a}}
<1>3. PICK b \in B : \A x \in B : b <= x
  <2>1. B \in SUBSET Nat /\ B # {}
    BY <1>1
  <2> HIDE DEF B
  <2> QED BY <2>1, LeastNatural
<1>4. PICK p \in ps : Position(p[1]) = a /\ p[2] - Oldest = b
  OBVIOUS
<1>5. ASSUME NEW q \in ps PROVE Before(p, q)
  <2>1. a <= Position(q[1]) /\ a \in Nat /\ Position(q[1]) \in Nat
    BY <1>1, <1>2
  <2>2. CASE a = Position(q[1])
    <3>1. p[2] - Oldest <= q[2] - Oldest
      BY <1>3, <1>4, <2>2
    <3>2. p[2] \in Int /\ q[2] \in Int /\ Oldest \in Int
      BY <1>1, MaintenanceAssumption
    <3>3. p[2] <= q[2]
      BY <3>1, <3>2
    <3> QED BY <1>4, <2>2, <3>3 DEF Before
  <2>3. CASE a # Position(q[1])
    BY <1>4, <2>1, <2>3 DEF Before
  <2> QED BY <2>2, <2>3
<1> QED BY <1>5 DEF First

(***************************************************************************)
(* A step in which the job of one collector becomes r.  The others keep    *)
(* their locks; what appears was made under the lock of the one, and only  *)
(* what is past a retention goes.                                          *)
(***************************************************************************)
JobInv == JobType /\ LockInv /\ BatchInv

LEMMA JobStep ==
    ASSUME JobInv, NEW c \in Collector, NEW r, IsJob(r), job' = [job EXCEPT ![c] = r], day' = day,
           partitions' \subseteq Partition, advisory' \in [Table -> Collector \cup {None}],
           \A t \in Table : \A d \in Collector \ {c} : advisory[t] = d => advisory'[t] = d,
           \A p \in partitions' \ partitions : advisory[p[1]] = c,
           \A p \in partitions \ partitions' : Lost(day, p),
           Locked(c, r, advisory', partitions'), Covers(c, r, partitions', day)
    PROVE  JobInv'
<1>1. /\ DOMAIN job' = Collector /\ job'[c] = r
      /\ \A d \in Collector \ {c} : job'[d] = job[d]
  BY DEF JobInv, JobType
<1>2. \A d \in Collector : IsJob(job[d])
  BY DEF JobInv, JobType
<1>3. JobType'
  <2>1. \A d \in Collector : IsJob(job[d])'
    BY <1>1 DEF JobInv, JobType, IsJob
  <2> QED BY <1>1, <2>1 DEF JobInv, JobType
<1>4. ASSUME NEW d \in Collector PROVE Locked(d, job'[d], advisory', partitions')
  <2>1. CASE d = c
    BY <1>1, <2>1
  <2>2. CASE d # c
    <3>1. job'[d] = job[d] /\ Locked(d, job[d], advisory, partitions)
      BY <1>1, <2>2 DEF JobInv, LockInv
    <3>2. \A p \in Partition : p[1] \in Table
      BY DEF Partition
    <3>3. \A p \in job[d].looked \cup job[d].made : advisory'[p[1]] = d
      <4>1. \A p \in job[d].looked \cup job[d].made : advisory[p[1]] = d /\ p \in Partition
        BY <1>2, <3>1 DEF Locked, IsJob
      <4> QED BY <2>2, <3>2, <4>1
    <3>4. \A p \in job[d].looked : p \notin partitions'
      <4>1. \A p \in job[d].looked : advisory[p[1]] = d /\ p \notin partitions
        BY <3>1 DEF Locked
      <4> QED BY <2>2, <4>1
    <3> QED BY <3>1, <3>3, <3>4 DEF Locked
  <2> QED BY <2>1, <2>2
<1>5. ASSUME NEW d \in Collector PROVE Covers(d, job'[d], partitions', day)
  <2>1. CASE d = c
    BY <1>1, <2>1
  <2>2. CASE d # c
    <3>1. job'[d] = job[d] /\ Covers(d, job[d], partitions, day)
      BY <1>1, <2>2 DEF JobInv, BatchInv
    <3>2. \A p \in partitions : p \in partitions' \/ Lost(day, p)
      OBVIOUS
    <3> QED BY <3>1, <3>2 DEF Covers
  <2> QED BY <2>1, <2>2
<1>6. LockInv' /\ BatchInv'
  BY <1>4, <1>5 DEF LockInv, BatchInv
<1> QED BY <1>3, <1>6 DEF JobInv

LEMMA ReleasedOk ==
    ASSUME JobInv, NEW c \in Collector
    PROVE  /\ Released(c) \in [Table -> Collector \cup {None}]
           /\ \A t \in Table : \A d \in Collector \ {c} : advisory[t] = d => Released(c)[t] = d
BY DEF JobInv, JobType, Released

LEMMA WantedIs ==
    ASSUME JobInv, NEW c \in Collector, job[c].todo # {}
    PROVE  /\ Wanted(c) \in job[c].todo /\ Wanted(c) \in Partition /\ Wanted(c)[1] \in Table
           /\ Rest(c) \in SUBSET Partition /\ Rest(c) \subseteq job[c].todo
<1>1. job[c].todo \in SUBSET Partition
  BY DEF JobInv, JobType, IsJob
<1>2. Wanted(c) \in job[c].todo
  BY <1>1, FirstOfSome DEF Wanted
<1> QED BY <1>1, <1>2 DEF Partition, Rest

\* The advisory lock of a table is taken, or had already.
LEMMA TakesLock ==
    ASSUME JobInv, NEW c \in Collector, NEW t \in Table, advisory[t] \in {c, None},
           advisory' = [advisory EXCEPT ![t] = c]
    PROVE  /\ advisory' \in [Table -> Collector \cup {None}] /\ advisory'[t] = c
           /\ \A u \in Table : advisory[u] = c => advisory'[u] = c
           /\ \A u \in Table : \A d \in Collector \ {c} : advisory[u] = d => advisory'[u] = d
<1>1. advisory \in [Table -> Collector \cup {None}]
  BY DEF JobInv, JobType
<1>2. \A u \in Table : advisory'[u] = IF u = t THEN c ELSE advisory[u]
  BY <1>1
<1>3. advisory' \in [Table -> Collector \cup {None}]
  BY <1>1
<1> QED BY <1>2, <1>3, MaintenanceAssumption

\* ensure_partition returns: the partition is there, or has been made.
LEMMA NextStep ==
    ASSUME JobInv, NEW c \in Collector, Creating(c), NEW p \in job[c].todo, NEW made \in SUBSET {p},
           NextToCreate(c, p, made), UNCHANGED day,
           advisory[p[1]] \in {c, None}, made # {} => advisory[p[1]] = c,
           p \in partitions \cup job[c].made \cup made
    PROVE  JobInv'
<1> DEFINE rest == job[c].todo \ {p}
<1>1. /\ IsJob(job[c]) /\ partitions \subseteq Partition /\ advisory \in [Table -> Collector \cup {None}]
      /\ Locked(c, job[c], advisory, partitions) /\ Covers(c, job[c], partitions, day)
  BY DEF JobInv, JobType, LockInv, BatchInv
<1>2. /\ p \in Partition /\ p[1] \in Table /\ rest \in SUBSET Partition /\ rest \subseteq job[c].todo
      /\ job[c].todo \subseteq rest \cup {p}
  BY <1>1 DEF IsJob, Partition
<1>3. CASE job[c].pc = "upkeep"
  <2> DEFINE r == [job[c] EXCEPT !.todo = rest, !.looked = {}]
  <2>1. /\ job' = [job EXCEPT ![c] = r] /\ partitions' = partitions \cup made /\ advisory' = Released(c)
    BY <1>3 DEF NextToCreate
  <2> HIDE DEF rest
  <2>2. /\ IsJob(r) /\ r.pc = "upkeep" /\ r.looked = {} /\ r.made = job[c].made
        /\ r.todo = rest /\ r.age = job[c].age
    BY <1>1, <1>2, <1>3, Zenon DEF IsJob
  <2> HIDE DEF r
  <2>3. r.made = {}
    BY <1>1, <1>3, <2>2 DEF Locked
  <2>4. Locked(c, r, advisory', partitions')
    BY <2>2, <2>3 DEF Locked
  <2>5. Covers(c, r, partitions', day)
    BY <1>1, <1>2, <1>3, <2>2 DEF Covers
  <2>6. partitions' \subseteq Partition /\ (\A q \in partitions' \ partitions : advisory[q[1]] = c)
        /\ partitions \subseteq partitions'
    BY <1>1, <1>2, <2>1
  <2>7. advisory' \in [Table -> Collector \cup {None}]
        /\ \A t \in Table : \A d \in Collector \ {c} : advisory[t] = d => advisory'[t] = d
    BY <2>1, ReleasedOk
  <2> QED BY <2>1, <2>2, <2>4, <2>5, <2>6, <2>7, JobStep, Zenon
<1>4. CASE job[c].pc = "writer"
  <2> DEFINE r == [job[c] EXCEPT !.todo = rest, !.looked = {}, !.made = job[c].made \cup made]
  <2>1. /\ job' = [job EXCEPT ![c] = r] /\ partitions' = partitions
        /\ advisory' = [advisory EXCEPT ![p[1]] = c]
    BY <1>4 DEF NextToCreate
  <2> HIDE DEF rest
  <2>2. /\ IsJob(r) /\ r.pc = "writer" /\ r.looked = {} /\ r.made = job[c].made \cup made
        /\ r.todo = rest /\ r.batch = job[c].batch /\ r.age = job[c].age
    BY <1>1, <1>2, <1>4, Zenon DEF IsJob
  <2> HIDE DEF r
  <2>3. /\ advisory' \in [Table -> Collector \cup {None}] /\ advisory'[p[1]] = c
        /\ \A t \in Table : advisory[t] = c => advisory'[t] = c
        /\ \A t \in Table : \A d \in Collector \ {c} : advisory[t] = d => advisory'[t] = d
    BY <1>2, <2>1, TakesLock, Zenon
  <2>4. \A q \in r.made : advisory'[q[1]] = c
    <3>1. \A q \in job[c].made : advisory[q[1]] = c /\ q[1] \in Table
      BY <1>1 DEF Locked, IsJob, Partition
    <3> QED BY <2>2, <2>3, <3>1
  <2>5. Locked(c, r, advisory', partitions')
    BY <2>2, <2>4 DEF Locked
  <2>6. Covers(c, r, partitions', day)
    BY <1>1, <1>2, <1>4, <2>1, <2>2 DEF Covers
  <2> QED BY <1>1, <2>1, <2>2, <2>3, <2>5, <2>6, JobStep, Zenon
<1> QED BY <1>3, <1>4 DEF Creating

LEMMA LookStep ==
    ASSUME JobInv, NEW c \in Collector, Look(c)
    PROVE  JobInv'
<1>1. /\ Creating(c) /\ job[c].looked = {} /\ UNCHANGED day /\ job[c].todo # {} /\ IsJob(job[c])
      /\ partitions \subseteq Partition /\ advisory \in [Table -> Collector \cup {None}]
      /\ Locked(c, job[c], advisory, partitions) /\ Covers(c, job[c], partitions, day)
  BY DEF Look, Creating, JobInv, JobType, LockInv, BatchInv
<1>2. Wanted(c) \in job[c].todo /\ Wanted(c) \in Partition /\ Wanted(c)[1] \in Table
  BY <1>1, WantedIs
<1>3. advisory[Wanted(c)[1]] \in {c, None}
  BY <1>2 DEF Look, Holds, Free
<1>4. CASE Wanted(c) \in partitions \cup job[c].made
  <2>1. /\ NextToCreate(c, Wanted(c), {}) /\ {} \in SUBSET {Wanted(c)}
        /\ Wanted(c) \in partitions \cup job[c].made \cup {}
    BY <1>4 DEF Look
  <2> QED BY <1>1, <1>2, <1>3, <2>1, NextStep
<1>5. CASE Wanted(c) \notin partitions \cup job[c].made
  <2> DEFINE r == [job[c] EXCEPT !.looked = {Wanted(c)}]
  <2>1. /\ job' = [job EXCEPT ![c] = r] /\ partitions' = partitions
        /\ advisory' = [advisory EXCEPT ![Wanted(c)[1]] = c]
    BY <1>5 DEF Look
  <2>2. /\ IsJob(r) /\ r.pc = job[c].pc /\ r.made = job[c].made /\ r.looked = {Wanted(c)}
        /\ r.todo = job[c].todo /\ r.batch = job[c].batch /\ r.age = job[c].age
    BY <1>1, <1>2, Zenon DEF IsJob
  <2> HIDE DEF r
  <2>3. /\ advisory' \in [Table -> Collector \cup {None}] /\ advisory'[Wanted(c)[1]] = c
        /\ \A t \in Table : advisory[t] = c => advisory'[t] = c
        /\ \A t \in Table : \A d \in Collector \ {c} : advisory[t] = d => advisory'[t] = d
    BY <1>2, <1>3, <2>1, TakesLock, Zenon
  <2>4. \A p \in r.made : r.pc = "writer" /\ advisory'[p[1]] = c
    <3>1. \A p \in job[c].made : job[c].pc = "writer" /\ advisory[p[1]] = c /\ p[1] \in Table
      BY <1>1 DEF Locked, IsJob, Partition
    <3> QED BY <2>2, <2>3, <3>1
  <2>5. Locked(c, r, advisory', partitions')
    BY <1>1, <1>2, <1>5, <2>1, <2>2, <2>3, <2>4 DEF Locked, Creating
  <2>6. Covers(c, r, partitions', day)
    BY <1>1, <2>1, <2>2 DEF Covers
  <2> QED BY <1>1, <2>1, <2>2, <2>3, <2>5, <2>6, JobStep, Zenon
<1> QED BY <1>4, <1>5

LEMMA CreateStep ==
    ASSUME JobInv, NEW c \in Collector, Create(c)
    PROVE  JobInv'
<1>1. PICK p \in job[c].looked : NextToCreate(c, p, {p})
  BY Zenon DEF Create
<1>2. Creating(c) /\ UNCHANGED day
  BY DEF Create
<1>3. p \in job[c].todo /\ advisory[p[1]] = c
  BY DEF JobInv, LockInv, Locked
<1>4. {p} \in SUBSET {p} /\ p \in partitions \cup job[c].made \cup {p}
  OBVIOUS
<1> QED BY <1>1, <1>2, <1>3, <1>4, NextStep

LEMMA CommitStep ==
    ASSUME JobInv, NEW c \in Collector, CommitPartitions(c)
    PROVE  JobInv'
<1> DEFINE r == [job[c] EXCEPT !.pc = "again", !.made = {}]
<1>1. /\ job[c].pc = "writer" /\ job[c].todo = {} /\ UNCHANGED day
      /\ partitions' = partitions \cup job[c].made /\ advisory' = Released(c)
      /\ job' = [job EXCEPT ![c] = r]
  BY DEF CommitPartitions
<1>2. /\ IsJob(job[c]) /\ partitions \subseteq Partition
      /\ Locked(c, job[c], advisory, partitions) /\ Covers(c, job[c], partitions, day)
  BY DEF JobInv, JobType, LockInv, BatchInv
<1>3. IsJob(r) /\ r.pc = "again" /\ r.made = {} /\ r.looked = job[c].looked /\ r.batch = job[c].batch
  BY <1>2, Zenon DEF IsJob
<1> HIDE DEF r
<1>4. r.looked = {}
  BY <1>1, <1>2, <1>3 DEF Locked
<1>5. /\ advisory' \in [Table -> Collector \cup {None}]
      /\ \A t \in Table : \A d \in Collector \ {c} : advisory[t] = d => advisory'[t] = d
  BY <1>1, ReleasedOk
<1>6. partitions' \subseteq Partition /\ (\A p \in partitions' \ partitions : advisory[p[1]] = c)
      /\ partitions \subseteq partitions'
  BY <1>1, <1>2 DEF Locked, IsJob
<1>7. Locked(c, r, advisory', partitions')
  BY <1>3, <1>4 DEF Locked
<1>8. Covers(c, r, partitions', day)
  BY <1>1, <1>2, <1>3 DEF Covers
<1> QED BY <1>1, <1>3, <1>5, <1>6, <1>7, <1>8, JobStep, Zenon

\* What retention lists is past it, at the time of the job and so by now.
LEMMA ExpiredIsPast ==
    ASSUME JobInv, NEW c \in Collector, NEW p \in Partition, Expired(c, p[1], p[2])
    PROVE  Past(day, c, p)
<1>1. /\ day \in Int /\ job[c].age \in Nat /\ Keep[c][p[1]] \in Int /\ (p[2] + 1) * MonthLen \in Int
  <2>1. p[1] \in Table /\ p[2] \in Int
    BY MaintenanceAssumption DEF Partition
  <2>2. IsJob(job[c]) /\ day \in 0..(MonthLen - 1)
    BY DEF JobInv, JobType
  <2>3. job[c].age \in 0..MaxAge
    BY <2>2 DEF IsJob
  <2>4. Keep[c][p[1]] \in Int /\ MonthLen \in Int /\ MaxAge \in Nat
    BY <2>1, MaintenanceAssumption DEF Table
  <2>5. (p[2] + 1) * MonthLen \in Int
    BY <2>1, <2>4
  <2>6. day \in Int /\ job[c].age \in Nat
    BY <2>2, <2>3, <2>4
  <2> QED BY <2>4, <2>5, <2>6
<1> DEFINE x == (p[2] + 1) * MonthLen
           k == Keep[c][p[1]]
<1>2. x <= day - job[c].age - k
  BY DEF Expired, Now
<1>3. x \in Int /\ k \in Int
  BY <1>1
<1> HIDE DEF x, k
<1>4. x <= day - k
  BY <1>1, <1>2, <1>3
<1> QED BY <1>4 DEF x, k, Past

LEMMA ListStep ==
    ASSUME JobInv, NEW c \in Collector, ListTable(c)
    PROVE  JobInv'
<1> DEFINE t == Tables[job[c].table + 1]
           listed == {p \in partitions : p[1] = t /\ Expired(c, t, p[2])}
           r == [job[c] EXCEPT !.pc = "retain", !.table = job[c].table + 1, !.todo = listed]
<1>1. /\ job[c].pc \in {"upkeep", "retain"} /\ job[c].todo = {}
      /\ UNCHANGED <<day, partitions, advisory>> /\ job' = [job EXCEPT ![c] = r]
  BY DEF ListTable
<1>2. /\ IsJob(job[c]) /\ partitions \subseteq Partition
      /\ advisory \in [Table -> Collector \cup {None}] /\ Locked(c, job[c], advisory, partitions)
  BY DEF JobInv, JobType, LockInv
<1>3. listed \in SUBSET Partition /\ \A p \in listed : Past(day, c, p)
  <2>1. \A p \in listed : p \in Partition /\ Expired(c, p[1], p[2])
    BY <1>2
  <2> QED BY <2>1, ExpiredIsPast
<1> HIDE DEF listed
<1>4. IsJob(r) /\ r.pc = "retain" /\ r.made = job[c].made /\ r.looked = job[c].looked /\ r.todo = listed
  BY <1>2, <1>3, Zenon DEF IsJob
<1> HIDE DEF r
<1>5. r.looked = {} /\ r.made = {}
  BY <1>1, <1>2, <1>4 DEF Locked
<1>6. Locked(c, r, advisory', partitions') /\ Covers(c, r, partitions', day)
  BY <1>3, <1>4, <1>5 DEF Locked, Covers
<1> QED BY <1>1, <1>2, <1>4, <1>6, JobStep, Zenon

LEMMA DropStep ==
    ASSUME JobInv, NEW c \in Collector, Drop(c)
    PROVE  JobInv'
<1>1. /\ job[c].pc = "retain" /\ job[c].todo # {} /\ UNCHANGED <<day, advisory>>
      /\ IsJob(job[c]) /\ partitions \subseteq Partition
      /\ advisory \in [Table -> Collector \cup {None}]
      /\ Locked(c, job[c], advisory, partitions) /\ Covers(c, job[c], partitions, day)
  BY DEF Drop, JobInv, JobType, LockInv, BatchInv
<1>2. job[c].looked = {} /\ job[c].made = {} /\ \A p \in job[c].todo : Past(day, c, p)
  BY <1>1 DEF Locked, Covers
<1>3. Wanted(c) \in job[c].todo /\ Rest(c) \in SUBSET Partition /\ Rest(c) \subseteq job[c].todo
  BY <1>1, WantedIs
<1>4. partitions' \in {partitions, partitions \ {Wanted(c)}}
  BY DEF Drop
<1>5. PICK r : /\ job' = [job EXCEPT ![c] = r] /\ IsJob(r) /\ r.pc = "retain" /\ r.made = job[c].made
               /\ r.looked = job[c].looked /\ r.todo = Rest(c)
  <2> DEFINE r1 == [job[c] EXCEPT !.todo = Rest(c), !.skipped = TRUE]
             r2 == [job[c] EXCEPT !.todo = Rest(c)]
  <2>1. job' = [job EXCEPT ![c] = r1] \/ job' = [job EXCEPT ![c] = r2]
    BY DEF Drop
  <2>2. IsJob(r1) /\ r1.pc = "retain" /\ r1.made = job[c].made /\ r1.looked = job[c].looked /\ r1.todo = Rest(c)
    BY <1>1, <1>3, Zenon DEF IsJob
  <2>3. IsJob(r2) /\ r2.pc = "retain" /\ r2.made = job[c].made /\ r2.looked = job[c].looked /\ r2.todo = Rest(c)
    BY <1>1, <1>3, Zenon DEF IsJob
  <2> HIDE DEF r1, r2
  <2> QED BY <2>1, <2>2, <2>3
<1>6. r.looked = {} /\ r.made = {}
  BY <1>2, <1>5
<1>7. Locked(c, r, advisory', partitions') /\ Covers(c, r, partitions', day)
  BY <1>2, <1>3, <1>5, <1>6 DEF Locked, Covers
<1>8. /\ partitions' \subseteq Partition /\ partitions' \subseteq partitions
      /\ \A p \in partitions \ partitions' : Lost(day, p)
  BY <1>1, <1>2, <1>3, <1>4 DEF Lost
<1> QED BY <1>1, <1>5, <1>7, <1>8, JobStep, Zenon

\* A job ends, or begins with nothing looked for or made.
LEMMA FreshStep ==
    ASSUME JobInv, NEW c \in Collector, NEW r, IsJob(r), job' = [job EXCEPT ![c] = r],
           r.looked = {}, r.made = {}, Covers(c, r, partitions, day), UNCHANGED <<day, partitions>>,
           advisory' = advisory \/ advisory' = Released(c)
    PROVE  JobInv'
<1>1. partitions \subseteq Partition /\ advisory \in [Table -> Collector \cup {None}]
  BY DEF JobInv, JobType
<1>2. /\ advisory' \in [Table -> Collector \cup {None}]
      /\ \A t \in Table : \A d \in Collector \ {c} : advisory[t] = d => advisory'[t] = d
  BY <1>1, ReleasedOk
<1>3. Locked(c, r, advisory', partitions')
  BY DEF Locked
<1> QED BY <1>1, <1>2, <1>3, JobStep, Zenon

LEMMA IdleIs == IsJob(Idle) /\ Idle.pc = "idle" /\ Idle.looked = {} /\ Idle.made = {}
BY MaintenanceAssumption DEF IsJob, Idle

LEMMA EndStep ==
    ASSUME JobInv, NEW c \in Collector, job' = [job EXCEPT ![c] = Idle], UNCHANGED <<day, partitions>>,
           advisory' = advisory \/ advisory' = Released(c)
    PROVE  JobInv'
<1>1. Covers(c, Idle, partitions, day)
  BY IdleIs DEF Covers
<1> QED BY <1>1, IdleIs, FreshStep, Zenon

\* A month with a time that is within a collector's retention is not past it.
LEMMA WithinIsKept ==
    ASSUME JobType, NEW c \in Collector, NEW p \in Partition, NEW d \in 0..(MonthLen - 1),
           Within(c, p[1], p[2], d)
    PROVE  ~Past(day, c, p)
<1>1. p[2] \in Int /\ MonthLen \in Nat /\ d \in Nat /\ d < MonthLen /\ day \in Int /\ Keep[c][p[1]] \in Int
  BY MaintenanceAssumption DEF JobType, Partition, Table
<1> DEFINE x == p[2] * MonthLen
           y == (p[2] + 1) * MonthLen
           k == Keep[c][p[1]]
<1>2. x \in Int /\ y = x + MonthLen /\ k \in Int
  BY <1>1
<1>3. x + d >= day - k
  BY DEF Within
<1> HIDE DEF x, y, k
<1>4. ~(y <= day - k)
  BY <1>1, <1>2, <1>3
<1> QED BY <1>4 DEF y, k, Past

LEMMA TickStep ==
    ASSUME JobInv, NEW c \in Collector, Tick(c)
    PROVE  JobInv'
<1> DEFINE r == [Idle EXCEPT !.pc = "upkeep", !.todo = Upcoming]
<1>1. UNCHANGED <<day, partitions, advisory>> /\ (job' = job \/ job' = [job EXCEPT ![c] = r])
  BY DEF Tick
<1>2. Upcoming \in SUBSET Partition
  <2>1. Oldest <= 0
    BY MaintenanceAssumption
  <2> QED BY <2>1, MaintenanceAssumption DEF Upcoming, Partition
<1>3. /\ IsJob(r) /\ r.pc = "upkeep" /\ r.looked = {} /\ r.made = {} /\ r.todo = Upcoming /\ r.age = 0
  <2>1. 0 \in 0..MaxAge
    BY MaintenanceAssumption
  <2> QED BY <1>2, <2>1, Zenon DEF IsJob, Idle
<1> HIDE DEF r
<1>4. ASSUME NEW p \in Upcoming PROVE ~Past(day, c, p)
  <2>1. p[2] \in Nat /\ p[1] \in Table /\ p \in Partition
    BY <1>2, MaintenanceAssumption DEF Upcoming
  <2>2. day \in 0..(MonthLen - 1) /\ Keep[c][p[1]] \in Nat
    BY <2>1, MaintenanceAssumption DEF JobInv, JobType, Table
  <2> DEFINE x == p[2] * MonthLen
             y == (p[2] + 1) * MonthLen
  <2>3. x \in Nat /\ y = x + MonthLen /\ MonthLen \in Nat
    BY <2>1, MaintenanceAssumption
  <2> HIDE DEF x, y
  <2>4. ~(y <= day - Keep[c][p[1]])
    BY <2>2, <2>3
  <2> QED BY <2>4 DEF y, Past
<1>5. Covers(c, r, partitions, day)
  <2>1. day - r.age = day
    BY <1>3 DEF JobInv, JobType
  <2> QED BY <1>3, <1>4, <2>1 DEF Covers
<1>6. CASE job' = job
  BY <1>1, <1>6 DEF JobInv, JobType, IsJob, LockInv, BatchInv
<1>7. CASE job' = [job EXCEPT ![c] = r]
  BY <1>1, <1>3, <1>5, <1>7, FreshStep, Zenon
<1> QED BY <1>1, <1>6, <1>7

LEMMA WriteStep ==
    ASSUME JobInv, NEW c \in Collector, Write(c)
    PROVE  JobInv'
<1>1. UNCHANGED <<day, partitions, advisory>>
  BY DEF Write
<1>2. PICK t \in Table, ms \in SUBSET (Oldest..0) :
         LET batch == {t} \X ms
         IN  /\ \A m \in ms : \E d \in 0..(MonthLen - 1) : Within(c, t, m, d) /\ m * MonthLen + d <= day
             /\ job' = [job EXCEPT ![c] = [Idle EXCEPT !.pc = "writer", !.batch = batch, !.todo = batch]]
  BY Zenon DEF Write
<1> DEFINE batch == {t} \X ms
           r == [Idle EXCEPT !.pc = "writer", !.batch = batch, !.todo = batch]
<1>3. batch \in SUBSET Partition
  <2>1. \A m \in Oldest..0 : m \in Oldest..Ahead
    BY MaintenanceAssumption
  <2> QED BY <2>1, Zenon DEF Partition
<1>4. ASSUME NEW p \in batch PROVE ~Past(day, c, p)
  <2>1. p \in Partition /\ p[1] = t /\ p[2] \in ms
    BY <1>3
  <2>2. PICK d \in 0..(MonthLen - 1) : Within(c, p[1], p[2], d)
    BY <1>2, <2>1
  <2>3. JobType
    BY DEF JobInv
  <2> QED BY <2>1, <2>2, <2>3, WithinIsKept
<1>5. job' = [job EXCEPT ![c] = r]
  BY <1>2
<1> HIDE DEF batch
<1>6. /\ IsJob(r) /\ r.pc = "writer" /\ r.looked = {} /\ r.made = {} /\ r.batch = batch /\ r.todo = batch
      /\ r.age = 0
  <2>1. 0 \in 0..MaxAge
    BY MaintenanceAssumption
  <2> QED BY <1>3, <2>1, Zenon DEF IsJob, Idle
<1> HIDE DEF r
<1>7. Covers(c, r, partitions, day)
  <2>1. day - r.age = day
    BY <1>6 DEF JobInv, JobType
  <2> QED BY <1>4, <1>6, <2>1 DEF Covers
<1> QED BY <1>1, <1>5, <1>6, <1>7, FreshStep, Zenon

LEMMA OutageStep ==
    ASSUME JobInv, Outage
    PROVE  JobInv'
<1> DEFINE Hit(c) == IF job[c].pc \in {"writer", "again"} THEN Idle ELSE [job[c] EXCEPT !.looked = {}]
<1>1. /\ UNCHANGED <<day, partitions>> /\ advisory' = [t \in Table |-> None]
      /\ job' = [c \in Collector |-> Hit(c)]
  BY DEF Outage
<1>2. ASSUME NEW c \in Collector
      PROVE  /\ IsJob(Hit(c)) /\ Hit(c).looked = {} /\ Hit(c).made = {} /\ Hit(c).pc \notin {"writer", "again"}
             /\ Hit(c).pc # "idle" => Hit(c).pc = job[c].pc /\ Hit(c).todo = job[c].todo /\ Hit(c).age = job[c].age
  <2>1. IsJob(job[c]) /\ (job[c].pc # "writer" => job[c].made = {})
    BY DEF JobInv, JobType, LockInv, Locked
  <2>2. CASE job[c].pc \in {"writer", "again"}
    BY <2>2, IdleIs
  <2>3. CASE job[c].pc \notin {"writer", "again"}
    BY <2>1, <2>3, Zenon DEF IsJob
  <2> QED BY <2>2, <2>3
<1>3. \A c \in Collector : job'[c] = Hit(c)
  BY <1>1
<1> HIDE DEF Hit
<1>4. JobType'
  <2>1. DOMAIN job' = Collector /\ \A c \in Collector : IsJob(job[c])'
    BY <1>1, <1>2, <1>3 DEF IsJob
  <2> QED BY <1>1, <2>1 DEF JobInv, JobType
<1>5. LockInv'
  BY <1>2, <1>3 DEF LockInv, Locked
<1>6. BatchInv'
  BY <1>1, <1>2, <1>3 DEF JobInv, BatchInv, Covers
<1> QED BY <1>4, <1>5, <1>6 DEF JobInv

(***************************************************************************)
(* A unit of time passes, and every partition gets the name it has then.   *)
(***************************************************************************)
Renamed(p) == IF day + 1 = MonthLen THEN <<p[1], Older(p[2])>> ELSE p

Passes == day \in 0..(MonthLen - 1) /\ day' = IF day + 1 = MonthLen THEN 0 ELSE day + 1

LEMMA LaterIs ==
    ASSUME NEW ps \in SUBSET Partition
    PROVE  Later(ps) = {Renamed(p) : p \in ps} /\ Later(ps) \in SUBSET Partition
<1>1. Later(ps) = {Renamed(p) : p \in ps}
  BY DEF Later, Renamed
<1>2. ASSUME NEW p \in Partition PROVE Renamed(p) \in Partition
  <2>1. p[1] \in Table /\ p[2] \in Oldest..Ahead
    BY DEF Partition
  <2>2. Older(p[2]) \in Oldest..Ahead
    BY <2>1, MaintenanceAssumption DEF Older
  <2> QED BY <2>1, <2>2 DEF Renamed, Partition
<1> QED BY <1>1, <1>2

\* The end of a month, seen from before and from after.
LEMMA MonthMoves ==
    ASSUME Passes, NEW p \in Partition
    PROVE  /\ Renamed(p)[1] = p[1] /\ p[1] \in Table /\ p[2] \in Int /\ Renamed(p)[2] \in Int
           /\ (p[2] + 1) * MonthLen \in Int /\ (Renamed(p)[2] + 1) * MonthLen \in Int
           /\ \/ p[2] = Oldest /\ Renamed(p)[2] = Oldest
              \/ /\ p[2] > Oldest
                 /\ (Renamed(p)[2] + 1) * MonthLen - day' = (p[2] + 1) * MonthLen - day - 1
<1>1. p[1] \in Table /\ p[2] \in Oldest..Ahead /\ p[2] \in Int /\ Oldest \in Int /\ MonthLen \in Int
  BY MaintenanceAssumption DEF Partition
<1>2. CASE day + 1 = MonthLen
  <2>1. Renamed(p) = <<p[1], Older(p[2])>> /\ day' = 0
    BY <1>2 DEF Renamed, Passes
  <2>2. CASE p[2] = Oldest
    <3>1. Renamed(p)[1] = p[1] /\ Renamed(p)[2] = Oldest
      BY <2>1, <2>2 DEF Older
    <3>2. (Oldest + 1) * MonthLen \in Int
      BY <1>1
    <3> QED BY <1>1, <2>2, <3>1, <3>2
  <2>3. CASE p[2] # Oldest
    <3>1. Renamed(p)[1] = p[1] /\ Renamed(p)[2] = p[2] - 1 /\ p[2] > Oldest
      BY <1>1, <2>1, <2>3 DEF Older
    <3>2. (p[2] - 1 + 1) * MonthLen = p[2] * MonthLen /\ (p[2] + 1) * MonthLen = p[2] * MonthLen + MonthLen
          /\ p[2] * MonthLen \in Int
      BY <1>1
    <3> DEFINE x == p[2] * MonthLen
               y == (p[2] + 1) * MonthLen
               z == (p[2] - 1 + 1) * MonthLen
    <3>3. z - 0 = y - day - 1
      <4>1. z = x /\ y = x + MonthLen /\ x \in Int /\ day \in Int
        BY <3>2 DEF Passes
      <4> HIDE DEF x, y, z
      <4> QED BY <1>1, <1>2, <4>1
    <3> QED BY <1>1, <2>1, <3>1, <3>2, <3>3
  <2> QED BY <2>2, <2>3
<1>3. CASE day + 1 # MonthLen
  <2>1. Renamed(p) = p /\ day' = day + 1
    BY <1>3 DEF Renamed, Passes
  <2>2. (p[2] + 1) * MonthLen \in Int
    BY <1>1
  <2>3. p[2] = Oldest \/ p[2] > Oldest
    BY <1>1
  <2>4. (p[2] + 1) * MonthLen - (day + 1) = (p[2] + 1) * MonthLen - day - 1
    BY <2>2 DEF Passes
  <2> QED BY <1>1, <2>1, <2>2, <2>3, <2>4
<1> QED BY <1>2, <1>3

LEMMA OldestIsPast ==
    ASSUME NEW now \in Int, now >= -MaxAge, NEW c \in Collector, NEW p, p[1] \in Table, p[2] = Oldest
    PROVE  Past(now, c, p)
<1>1. /\ (Oldest + 1) * MonthLen <= -MaxAge - Keep[c][p[1]] /\ Keep[c][p[1]] \in Int /\ MaxAge \in Int
      /\ (Oldest + 1) * MonthLen \in Int
  BY MaintenanceAssumption DEF Table
<1> DEFINE x == (Oldest + 1) * MonthLen
           k == Keep[c][p[1]]
<1>2. x \in Int /\ k \in Int /\ x <= -MaxAge - k /\ MaxAge \in Int
  BY <1>1
<1> HIDE DEF x, k
<1>3. x <= now - k
  BY <1>2
<1> QED BY <1>3 DEF x, k, Past

LEMMA StaysPast ==
    ASSUME NEW x \in Int, NEW y \in Int, NEW t \in Int, NEW u \in Int, NEW k \in Int,
           y - u = x - t - 1, x <= t - k
    PROVE  y <= u - k
OBVIOUS

LEMMA StaysRecent ==
    ASSUME NEW x \in Int, NEW y \in Int, NEW t \in Int, NEW u \in Int, NEW k \in Int, NEW a \in Int,
           y - u = x - t - 1, ~(x <= t - a - k)
    PROVE  ~(y <= u - (a + 1) - k)
OBVIOUS

LEMMA PastLater ==
    ASSUME Passes, NEW c \in Collector, NEW p \in Partition, Past(day, c, p)
    PROVE  Past(day', c, Renamed(p))
<1> DEFINE x == (p[2] + 1) * MonthLen
           y == (Renamed(p)[2] + 1) * MonthLen
           k == Keep[c][p[1]]
<1>1. /\ Renamed(p)[1] = p[1] /\ p[1] \in Table /\ x \in Int /\ y \in Int
      /\ Renamed(p)[2] = Oldest \/ y - day' = x - day - 1
  BY MonthMoves
<1>2. day \in Nat /\ day' \in Nat /\ MaxAge \in Nat /\ k \in Int
  BY <1>1, MaintenanceAssumption DEF Passes, Table
<1>3. CASE Renamed(p)[2] = Oldest
  <2>1. day' >= -MaxAge /\ day' \in Int
    BY <1>2
  <2> QED BY <1>1, <1>3, <2>1, OldestIsPast
<1>4. CASE y - day' = x - day - 1
  <2>1. x <= day - k
    BY DEF Past
  <2> HIDE DEF x, y, k
  <2>2. y <= day' - k
    <3>1. x \in Int /\ y \in Int /\ day \in Int /\ day' \in Int /\ k \in Int /\ 0 \in Int
      BY <1>1, <1>2
    <3> QED BY <1>4, <2>1, <3>1, StaysPast, Zenon
  <2> QED BY <1>1, <2>2 DEF y, k, Past
<1> QED BY <1>1, <1>3, <1>4

\* What a job of less than MaxAge is making keeps a name of its own.
LEMMA RecentLater ==
    ASSUME Passes, NEW c \in Collector, NEW p \in Partition, NEW a \in 0..MaxAge, a < MaxAge,
           ~Past(day - a, c, p)
    PROVE  /\ ~Past(day' - (a + 1), c, Renamed(p))
           /\ \A q \in Partition : Renamed(q) = Renamed(p) => q = p
<1> DEFINE x == (p[2] + 1) * MonthLen
           y == (Renamed(p)[2] + 1) * MonthLen
           k == Keep[c][p[1]]
<1>1. /\ Renamed(p)[1] = p[1] /\ p[1] \in Table /\ p[2] \in Int /\ x \in Int /\ y \in Int
      /\ p[2] = Oldest \/ y - day' = x - day - 1
  BY MonthMoves
<1>2. /\ day \in Nat /\ day' \in Nat /\ MaxAge \in Nat /\ k \in Int /\ a \in Nat
      /\ day - a \in Int /\ day - a >= -MaxAge /\ day' - (a + 1) \in Int /\ day' - (a + 1) >= -MaxAge
  BY <1>1, MaintenanceAssumption DEF Passes, Table
<1>3. p[2] # Oldest
  BY <1>1, <1>2, OldestIsPast
<1>4. ~Past(day' - (a + 1), c, Renamed(p))
  <2>1. ~(x <= day - a - k)
    BY DEF Past
  <2>2. y - day' = x - day - 1
    BY <1>1, <1>3
  <2> HIDE DEF x, y, k
  <2>3. ~(y <= day' - (a + 1) - k)
    <3>1. x \in Int /\ y \in Int /\ day \in Int /\ day' \in Int /\ k \in Int /\ a \in Int
      BY <1>1, <1>2
    <3> QED BY <2>1, <2>2, <3>1, StaysRecent, Zenon
  <2> QED BY <1>1, <2>3 DEF y, k, Past
<1>5. Renamed(p)[2] # Oldest
  BY <1>1, <1>2, <1>4, OldestIsPast
<1>6. ASSUME NEW q \in Partition, Renamed(q) = Renamed(p) PROVE q = p
  <2>1. q = <<q[1], q[2]>> /\ p = <<p[1], p[2]>> /\ q[2] \in Int /\ p[2] \in Int
    BY MaintenanceAssumption DEF Partition
  <2>2. CASE day + 1 # MonthLen
    BY <1>6, <2>2 DEF Renamed
  <2>3. CASE day + 1 = MonthLen
    <3>1. q[1] = p[1] /\ Older(q[2]) = Older(p[2]) /\ Older(p[2]) # Oldest
      BY <1>5, <1>6, <2>3 DEF Renamed
    <3>2. q[2] - 1 = p[2] - 1
      BY <1>3, <3>1 DEF Older
    <3>3. q[2] = p[2]
      BY <2>1, <3>2
    <3> QED BY <2>1, <3>1, <3>3
  <2> QED BY <2>2, <2>3
<1> QED BY <1>4, <1>6

LEMMA AdvanceStep ==
    ASSUME JobInv, Advance
    PROVE  JobInv'
<1>1. /\ day' = IF day + 1 = MonthLen THEN 0 ELSE day + 1
      /\ partitions' = Later(partitions) /\ advisory' = advisory
      /\ \A c \in Collector : job[c].pc # "idle" => job[c].age < MaxAge
  BY DEF Advance
<1>2. /\ Passes /\ partitions \in SUBSET Partition /\ advisory \in [Table -> Collector \cup {None}]
  BY <1>1 DEF JobInv, JobType, Passes
<1>3. day' \in 0..(MonthLen - 1)
  BY <1>2, MaintenanceAssumption DEF Passes
<1>4. partitions' = {Renamed(p) : p \in partitions} /\ partitions' \subseteq Partition
  BY <1>1, <1>2, LaterIs
<1>5. ASSUME NEW c \in Collector
      PROVE  /\ IsJob(job'[c]) /\ Locked(c, job'[c], advisory', partitions')
             /\ Covers(c, job'[c], partitions', day')
  <2>1. /\ IsJob(job[c]) /\ Locked(c, job[c], advisory, partitions)
        /\ Covers(c, job[c], partitions, day)
    BY DEF JobInv, JobType, LockInv, BatchInv
  <2>2. CASE job[c].pc = "idle"
    <3>1. job'[c] = job[c]
      BY <2>2 DEF Advance
    <3>2. job[c].looked = {} /\ job[c].made = {}
      BY <2>1, <2>2 DEF Locked
    <3> QED BY <2>1, <2>2, <3>1, <3>2 DEF Locked, Covers
  <2>3. CASE job[c].pc # "idle"
    <3> DEFINE j == job[c]
               r == [j EXCEPT !.age = j.age + 1, !.todo = Later(j.todo), !.looked = Later(j.looked),
                              !.made = Later(j.made), !.batch = Later(j.batch)]
    <3>1. job'[c] = r
      BY <2>3, Zenon DEF Advance
    <3>2. /\ j.todo \in SUBSET Partition /\ j.looked \in SUBSET Partition /\ j.made \in SUBSET Partition
          /\ j.batch \in SUBSET Partition /\ j.age \in 0..MaxAge /\ j.age + 1 \in 0..MaxAge
      <4>1. j.age \in 0..MaxAge /\ j.age < MaxAge
        BY <1>1, <2>1, <2>3 DEF IsJob
      <4>2. j.age + 1 \in 0..MaxAge
        BY <4>1, MaintenanceAssumption
      <4> QED BY <2>1, <4>1, <4>2 DEF IsJob
    <3>3. /\ Later(j.todo) \in SUBSET Partition /\ Later(j.looked) \in SUBSET Partition
          /\ Later(j.made) \in SUBSET Partition /\ Later(j.batch) \in SUBSET Partition
      BY <3>2, LaterIs
    <3>4. /\ IsJob(r) /\ r.pc = j.pc /\ r.age = j.age + 1
          /\ r.todo = Later(j.todo) /\ r.looked = Later(j.looked)
          /\ r.made = Later(j.made) /\ r.batch = Later(j.batch)
      BY <2>1, <3>2, <3>3, Zenon DEF IsJob
    <3> HIDE DEF r, j
    <3>5. /\ r.todo = {Renamed(p) : p \in j.todo} /\ r.looked = {Renamed(p) : p \in j.looked}
          /\ r.made = {Renamed(p) : p \in j.made} /\ r.batch = {Renamed(p) : p \in j.batch}
      BY <3>2, <3>4, LaterIs
    <3>6. Locked(c, j, advisory, partitions) /\ Covers(c, j, partitions, day)
      BY <2>1 DEF j
    <3>7. \A p \in Partition : Renamed(p)[1] = p[1]
      BY <1>2, MonthMoves
    <3>8. Locked(c, r, advisory', partitions')
      <4>1. ASSUME NEW p \in j.looked PROVE Renamed(p) \notin partitions' \cup r.made
        <5>1. p \in j.todo /\ j.pc \in {"upkeep", "writer"} /\ p \notin partitions \cup j.made
          BY <3>6 DEF Locked
        <5>2. ~Past(day - j.age, c, p) /\ j.age < MaxAge
          BY <1>1, <2>3, <3>6, <5>1 DEF Covers, j
        <5>3. \A q \in Partition : Renamed(q) = Renamed(p) => q = p
          BY <1>2, <3>2, <5>2, RecentLater
        <5> QED BY <1>2, <1>4, <3>2, <3>5, <5>1, <5>3
      <4>2. \A p \in j.looked : j.pc \in {"upkeep", "writer"} /\ p \in j.todo /\ advisory[p[1]] = c
        BY <3>6 DEF Locked
      <4>3. \A p \in j.made : j.pc = "writer" /\ advisory[p[1]] = c
        BY <3>6 DEF Locked
      <4>4. ASSUME NEW p \in r.looked
            PROVE  r.pc \in {"upkeep", "writer"} /\ p \in r.todo /\ advisory'[p[1]] = c
                   /\ p \notin partitions' \cup r.made
        <5>1. PICK q \in j.looked : p = Renamed(q)
          BY <3>5
        <5> QED BY <1>1, <3>2, <3>4, <3>5, <3>7, <4>1, <4>2, <5>1
      <4>5. ASSUME NEW p \in r.made PROVE r.pc = "writer" /\ advisory'[p[1]] = c
        <5>1. PICK q \in j.made : p = Renamed(q)
          BY <3>5
        <5> QED BY <1>1, <3>2, <3>4, <3>7, <4>3, <5>1
      <4> QED BY <4>4, <4>5 DEF Locked
    <3>9. Covers(c, r, partitions', day')
      <4>1. ASSUME r.pc \in {"upkeep", "writer"}, NEW p \in r.todo PROVE ~Past(day' - r.age, c, p)
        <5>1. PICK q \in j.todo : p = Renamed(q)
          BY <3>5
        <5>2. ~Past(day - j.age, c, q) /\ j.age < MaxAge
          BY <1>1, <2>3, <3>4, <3>6, <4>1 DEF Covers, j
        <5>3. ~Past(day' - (j.age + 1), c, Renamed(q))
          BY <1>2, <3>2, <5>2, RecentLater
        <5> QED BY <3>4, <5>1, <5>3
      <4>2. ASSUME r.pc = "retain", NEW p \in r.todo PROVE Past(day', c, p)
        <5>1. PICK q \in j.todo : p = Renamed(q)
          BY <3>5
        <5>2. Past(day, c, q)
          BY <3>4, <3>6, <4>2 DEF Covers
        <5> QED BY <1>2, <3>2, <5>1, <5>2, PastLater
      <4>3. ASSUME NEW q \in Partition, Lost(day, q) PROVE Lost(day', Renamed(q))
        BY <1>2, <4>3, PastLater DEF Lost
      <4>4. ASSUME r.pc = "writer", NEW p \in r.batch
            PROVE  p \in partitions' \cup r.made \cup r.todo \/ Lost(day', p)
        <5>1. PICK q \in j.batch : p = Renamed(q)
          BY <3>5
        <5>2. q \in partitions \cup j.made \cup j.todo \/ Lost(day, q)
          BY <3>4, <3>6, <4>4 DEF Covers
        <5>3. q \in partitions \cup j.made \cup j.todo => p \in partitions' \cup r.made \cup r.todo
          BY <1>4, <3>5, <5>1
        <5>4. Lost(day, q) => Lost(day', p)
          BY <3>2, <4>3, <5>1
        <5> QED BY <5>2, <5>3, <5>4
      <4>5. ASSUME r.pc = "again", NEW p \in r.batch PROVE p \in partitions' \/ Lost(day', p)
        <5>1. PICK q \in j.batch : p = Renamed(q)
          BY <3>5
        <5>2. q \in partitions \/ Lost(day, q)
          BY <3>4, <3>6, <4>5 DEF Covers
        <5>3. Lost(day, q) => Lost(day', p)
          BY <3>2, <4>3, <5>1
        <5> QED BY <1>4, <5>1, <5>2, <5>3
      <4> QED BY <4>1, <4>2, <4>4, <4>5 DEF Covers
    <3> QED BY <3>1, <3>4, <3>8, <3>9
  <2> QED BY <2>2, <2>3
<1>6. JobType'
  <2>1. DOMAIN job' = Collector
    BY Zenon DEF Advance
  <2>2. \A c \in Collector : IsJob(job[c])'
    BY <1>5 DEF IsJob
  <2> QED BY <1>1, <1>2, <1>3, <1>4, <2>1, <2>2 DEF JobType
<1>7. LockInv' /\ BatchInv'
  BY <1>5 DEF LockInv, BatchInv
<1> QED BY <1>6, <1>7 DEF JobInv

LEMMA JobInvStep ==
    ASSUME JobInv, [Next]_vars
    PROVE  JobInv'
<1>1. ASSUME UNCHANGED <<day, partitions, advisory, job>> PROVE JobInv'
  BY <1>1 DEF JobInv, JobType, IsJob, LockInv, BatchInv
<1>2. ASSUME NEW c \in Collector, Own(c) PROVE JobInv'
  <2>1. CASE MaintainOk(c) \/ MaintainFailed(c) \/ WriteAgain(c) \/ WriteFailed(c)
    <3>1. /\ job' = [job EXCEPT ![c] = Idle] /\ UNCHANGED <<day, partitions>>
          /\ advisory' = advisory \/ advisory' = Released(c)
      BY <2>1 DEF MaintainOk, MaintainFailed, WriteAgain, WriteFailed, EndJob
    <3> QED BY <3>1, EndStep, Zenon
  <2>2. CASE Work(c)
    BY <2>2, LookStep, CreateStep, CommitStep, ListStep, DropStep DEF Work, WorkStep
  <2>3. CASE LastBeat(c)
    BY <1>1, <2>3 DEF LastBeat
  <2> QED BY <1>2, <2>1, <2>2, <2>3, TickStep DEF Own
<1>3. ASSUME NEW c \in Collector, Close(c) \/ Start(c) PROVE JobInv'
  BY <1>1, <1>3 DEF Close, Start
<1>4. CASE Weather \/ UNCHANGED vars
  BY <1>1, <1>4 DEF Weather, vars
<1> QED BY <1>2, <1>3, <1>4, WriteStep, OutageStep, AdvanceStep DEF Next

(***************************************************************************)
(* ClockInv.                                                               *)
(***************************************************************************)
\* Work on a job: its collector is running, or the job has ended.
LEMMA OneJob ==
    ASSUME JobInv, ClockInv, NEW c \in Collector, NEW r, job' = [job EXCEPT ![c] = r],
           state[c] = "running" \/ r.pc = "idle", UNCHANGED state
    PROVE  \A d \in Collector : state'[d] # "running" => job'[d].pc = "idle"
BY DEF JobInv, JobType, ClockInv

LEMMA JobsOnly ==
    ASSUME JobInv, ClockInv, UNCHANGED upkeepVars, UNCHANGED database,
           \A d \in Collector : state'[d] # "running" => job'[d].pc = "idle"
    PROVE  ClockInv'
BY DEF ClockInv, upkeepVars

LEMMA WorkClock ==
    ASSUME JobInv, ClockInv, NEW c \in Collector, Work(c) \/ Write(c) \/ WriteAgain(c) \/ WriteFailed(c)
    PROVE  ClockInv'
<1>1. UNCHANGED upkeepVars /\ UNCHANGED database /\ UNCHANGED state
  BY Zenon DEF Work, WorkStep, Look, Create, CommitPartitions, ListTable, Drop, Write, WriteAgain, WriteFailed, upkeepVars
<1>2. CASE Work(c)
  <2>1. job[c].pc # "idle"
    BY <1>2 DEF Work, WorkStep, Look, Create, CommitPartitions, ListTable, Drop, Creating
  <2>2. state[c] = "running"
    BY <2>1 DEF ClockInv
  <2>3. \E r : job' = [job EXCEPT ![c] = r]
    BY <1>2, Zenon DEF Work, WorkStep, Look, Create, NextToCreate, CommitPartitions, ListTable, Drop
  <2>4. \A d \in Collector : state'[d] # "running" => job'[d].pc = "idle"
    BY <1>1, <2>2, <2>3, OneJob, Zenon
  <2> QED BY <1>1, <2>4, JobsOnly
<1>3. CASE Write(c)
  <2>1. state[c] = "running" /\ \E r : job' = [job EXCEPT ![c] = r]
    BY <1>3, Zenon DEF Write, Ready
  <2>2. \A d \in Collector : state'[d] # "running" => job'[d].pc = "idle"
    BY <1>1, <2>1, OneJob, Zenon
  <2> QED BY <1>1, <2>2, JobsOnly
<1>4. CASE WriteAgain(c) \/ WriteFailed(c)
  <2>1. job' = [job EXCEPT ![c] = Idle]
    BY <1>4 DEF WriteAgain, WriteFailed, EndJob
  <2>2. \A d \in Collector : state'[d] # "running" => job'[d].pc = "idle"
    BY <1>1, <2>1, OneJob, IdleIs, Zenon
  <2> QED BY <1>1, <2>2, JobsOnly
<1> QED BY <1>2, <1>3, <1>4

LEMMA TickClock ==
    ASSUME JobInv, ClockInv, NEW c \in Collector, Tick(c) \/ MaintainOk(c) \/ MaintainFailed(c)
    PROVE  ClockInv'
<1>1. UNCHANGED <<state, tries, calm, database>> /\ state[c] = "running"
  BY DEF Tick, MaintainOk, MaintainFailed, Ready, Retained, ClockInv
<1>2. /\ conn' \in [Collector -> {"none", "open", "dead"}]
      /\ \A d \in Collector \ {c} : conn'[d] = conn[d]
  BY DEF Tick, MaintainOk, MaintainFailed, ClockInv
<1>3. heartbeat' \in [Collector -> 0..HeartbeatInterval]
  BY IntervalAssumption DEF Tick, MaintainOk, MaintainFailed, ClockInv
<1>4. maintenance' \in [Collector -> Nat]
  <2>1. \A i \in Nat : Since(c, i) \in Nat
    <3>1. IsJob(job[c])
      BY DEF JobInv, JobType
    <3>2. job[c].age \in Nat
      BY <3>1, MaintenanceAssumption DEF IsJob
    <3> QED BY <3>2 DEF Since
  <2> QED BY <2>1, IntervalAssumption DEF Tick, MaintainOk, MaintainFailed, AfterMaintain, ClockInv
<1>5. \A d \in Collector : state'[d] # "running" => job'[d].pc = "idle"
  <2>1. job' = job \/ \E r : job' = [job EXCEPT ![c] = r]
    BY DEF Tick, MaintainOk, MaintainFailed, EndJob
  <2>2. CASE job' = job
    BY <1>1, <2>2 DEF ClockInv
  <2> QED BY <1>1, <2>1, <2>2, OneJob
<1>6. ASSUME NEW d \in Collector, state'[d] = "closing"
      PROVE  tries'[d] \in 1..2 /\ (conn'[d] # "none" => tries'[d] = 2)
  BY <1>1, <1>2, <1>6 DEF ClockInv
<1> QED BY <1>1, <1>2, <1>3, <1>4, <1>5, <1>6 DEF ClockInv

LEMMA StateClock ==
    ASSUME JobInv, ClockInv, NEW c \in Collector, Close(c) \/ LastBeat(c) \/ Start(c)
    PROVE  ClockInv'
<1>1. UNCHANGED <<job, calm, database>>
  BY DEF Close, LastBeat, Start
<1>2. /\ conn' \in [Collector -> {"none", "open", "dead"}]
      /\ heartbeat' \in [Collector -> 0..HeartbeatInterval] /\ maintenance' \in [Collector -> Nat]
      /\ DOMAIN state' = Collector /\ DOMAIN tries' = Collector
      /\ \A d \in Collector \ {c} : conn'[d] = conn[d] /\ state'[d] = state[d] /\ tries'[d] = tries[d]
  BY IntervalAssumption DEF Close, LastBeat, Start, ClockInv
<1>3. state'[c] # "running" => job[c].pc = "idle"
  BY DEF Close, LastBeat, Start, Ready, ClockInv
<1>4. state'[c] = "closing" => tries'[c] \in 1..2 /\ (conn'[c] # "none" => tries'[c] = 2)
  <2>1. CASE Close(c)
    <3>1. tries' = [tries EXCEPT ![c] = Attempts(c)] /\ conn' = conn /\ c \in DOMAIN tries
      BY <2>1, Zenon DEF Close, ClockInv
    <3>2. tries'[c] = IF conn'[c] # "none" THEN 2 ELSE 1
      BY <3>1, Zenon DEF Attempts
    <3> QED BY <3>2
  <2>2. CASE LastBeat(c)
    <3>1. /\ state[c] = "closing" /\ conn' = [conn EXCEPT ![c] = "none"]
          /\ tries' = [tries EXCEPT ![c] = IF Answers(c) THEN 0 ELSE @ - 1]
          /\ state' = [state EXCEPT ![c] = IF Answers(c) THEN "stopped"
                                           ELSE IF tries[c] = 1 THEN "silent" ELSE @]
      BY <2>2, Zenon DEF LastBeat
    <3>2. /\ conn \in [Collector -> {"none", "open", "dead"}]
          /\ DOMAIN state = Collector /\ DOMAIN tries = Collector /\ tries[c] \in 1..2
      BY <3>1, Zenon DEF ClockInv
    <3> QED BY <3>1, <3>2
  <2>3. CASE Start(c)
    BY <2>3, Zenon DEF Start, ClockInv
  <2> QED BY <2>1, <2>2, <2>3
<1> QED BY <1>1, <1>2, <1>3, <1>4 DEF ClockInv

LEMMA WorldClock ==
    ASSUME JobInv, ClockInv, Outage \/ Weather \/ Advance \/ UNCHANGED vars
    PROVE  ClockInv'
<1>1. CASE Outage
  <2>1. /\ UNCHANGED <<heartbeat, maintenance, state, tries>> /\ database' = "down" /\ calm' = 0
        /\ conn' \in [Collector -> {"none", "open", "dead"}]
        /\ \A c \in Collector : conn'[c] # "none" => conn[c] # "none"
    BY <1>1 DEF Outage, ClockInv
  <2>2. \A c \in Collector : job[c].pc = "idle" => job'[c].pc = "idle"
    BY <1>1, IdleIs DEF Outage, JobInv, JobType, IsJob
  <2> QED BY <2>1, <2>2, IntervalAssumption DEF ClockInv
<1>2. CASE Weather
  BY <1>2, IntervalAssumption DEF Weather, ClockInv
<1>3. CASE Advance
  <2>0. \A c \in Collector : job[c].pc = "idle" => job'[c].pc = "idle"
    BY <1>3, Zenon DEF Advance
  <2>1. /\ UNCHANGED <<database, conn, state, tries>> /\ calm' \in {calm, calm + 1}
        /\ calm' = calm + 1 => calm < CalmUnits
        /\ heartbeat' = [c \in Collector |-> Left(heartbeat[c])]
        /\ maintenance' = [c \in Collector |-> Left(maintenance[c])]
    <3>1. database' = database /\ conn' = conn /\ state' = state /\ tries' = tries
      BY <1>3, Zenon DEF Advance
    <3>2. calm' = (IF database = "up" /\ calm < CalmUnits THEN calm + 1 ELSE calm)
      BY <1>3, Zenon DEF Advance
    <3>3. calm' \in {calm, calm + 1} /\ (calm' = calm + 1 => calm < CalmUnits)
      BY <3>2, IntervalAssumption DEF ClockInv
    <3>4. /\ heartbeat' = [c \in Collector |-> Left(heartbeat[c])]
          /\ maintenance' = [c \in Collector |-> Left(maintenance[c])]
      BY <1>3, Zenon DEF Advance
    <3> QED BY <3>1, <3>3, <3>4
  <2>2. heartbeat' \in [Collector -> 0..HeartbeatInterval] /\ maintenance' \in [Collector -> Nat]
    BY <2>1, IntervalAssumption DEF ClockInv, Left
  <2> QED BY <2>0, <2>1, <2>2, IntervalAssumption DEF ClockInv
<1>4. CASE UNCHANGED vars
  BY <1>4 DEF vars, upkeepVars, ClockInv
<1> QED BY <1>1, <1>2, <1>3, <1>4

LEMMA UpkeepInvariant == Spec => [](JobInv /\ ClockInv)
<1>1. Init => JobInv /\ ClockInv
  <2> SUFFICES ASSUME Init PROVE JobInv /\ ClockInv
    OBVIOUS
  <2>1. DOMAIN job = Collector /\ \A c \in Collector : job[c] = Idle
    BY DEF Init
  <2>2. JobInv
    <3>1. \A c \in Collector : Locked(c, Idle, advisory, partitions) /\ Covers(c, Idle, partitions, day)
      BY IdleIs DEF Locked, Covers
    <3>2. LockInv /\ BatchInv
      BY <2>1, <3>1 DEF LockInv, BatchInv
    <3>3. JobType
      BY <2>1, IdleIs, MaintenanceAssumption DEF Init, JobType
    <3> QED BY <3>2, <3>3 DEF JobInv
  <2>3. ClockInv
    BY <2>1, IdleIs, IntervalAssumption DEF Init, ClockInv
  <2> QED BY <2>2, <2>3
<1>2. JobInv /\ ClockInv /\ [Next]_vars => (JobInv /\ ClockInv)'
  BY JobInvStep, WorkClock, TickClock, StateClock, WorldClock DEF Next, Own
<1> QED BY <1>1, <1>2, PTL DEF Spec

(***************************************************************************)
(* CREATE never meets a partition that another session has made since the  *)
(* look: the advisory lock of ensure_partition covers both, up to the      *)
(* commit.                                                                 *)
(***************************************************************************)
THEOREM CreatesOnce == Spec => []NoDuplicateCreate
<1>1. JobInv /\ ClockInv => NoDuplicateCreate
  <2> SUFFICES ASSUME JobInv, ClockInv PROVE NoDuplicateCreate
    OBVIOUS
  <2>1. TypeOK
    BY DEF JobInv, JobType, ClockInv, TypeOK, Partition
  <2>2. \A c, d \in Collector : \A p \in job[c].looked : p \notin partitions /\ p \notin job[d].made
    BY DEF JobInv, LockInv, Locked
  <2> QED BY <2>1, <2>2 DEF NoDuplicateCreate
<1> QED BY <1>1, UpkeepInvariant, PTL

(***************************************************************************)
(* Retention, run by any collector with its own settings and while time    *)
(* goes on, takes from the second _apply only months that are past some    *)
(* collector's retention by then (_missing_partition, apply_retention).    *)
(***************************************************************************)
THEOREM BatchFits == Spec => []SecondApplyFits
<1>1. JobInv => SecondApplyFits
  <2> SUFFICES ASSUME JobInv, NEW c \in Collector, job[c].pc = "again",
                      NEW p \in job[c].batch, p \notin partitions
               PROVE  \E d \in Collector : \A x \in 0..(MonthLen - 1) : ~Within(d, p[1], p[2], x)
    BY DEF SecondApplyFits
  <2>1. p \in Partition /\ JobType /\ Covers(c, job[c], partitions, day)
    BY DEF JobInv, JobType, IsJob, BatchInv
  <2>2. PICK d \in Collector : Past(day, d, p)
    BY <2>1 DEF Covers, Lost
  <2>3. \A x \in 0..(MonthLen - 1) : ~Within(d, p[1], p[2], x)
    BY <2>1, <2>2, WithinIsKept
  <2> QED BY <2>3
<1> QED BY <1>1, UpkeepInvariant, PTL

(***************************************************************************)
(* A close that ends while the database answers has recorded "stopped",    *)
(* also over a connection that had died unnoticed (Upkeep.close).          *)
(***************************************************************************)
THEOREM CloseIsRecorded == Spec => StoppedIsRecorded
<1>1. ASSUME ClockInv, [Next]_vars, NEW c \in Collector, state[c] = "closing", database # "down"
      PROVE  state'[c] # "silent"
  <2>1. ASSUME NEW d \in Collector, LastBeat(d) PROVE state'[c] # "silent"
    <3>1. CASE d # c
      BY <1>1, <2>1, <3>1 DEF LastBeat, ClockInv
    <3>2. CASE d = c
      BY <1>1, <2>1, <3>2 DEF LastBeat, Answers, ClockInv
    <3> QED BY <3>1, <3>2
  <2>2. ASSUME NEW d \in Collector, Close(d) \/ Start(d) PROVE state'[c] # "silent"
    BY <1>1, <2>2 DEF Close, Start, ClockInv
  <2>3. CASE UNCHANGED state
    BY <1>1, <2>3
  <2> QED BY <1>1, <2>1, <2>2, <2>3, Zenon
         DEF Next, Own, Tick, MaintainOk, MaintainFailed, WriteAgain, WriteFailed, Work, Write,
              Outage, Weather, Advance, upkeepVars, vars
<1>2. ClockInv /\ [Next]_vars =>
        [\A c \in Collector : state[c] = "closing" /\ database # "down" => state'[c] # "silent"]_vars
  BY <1>1
<1> QED BY <1>2, UpkeepInvariant, PTL DEF Spec, StoppedIsRecorded
=============================================================================
