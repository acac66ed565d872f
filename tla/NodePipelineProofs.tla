------------------------ MODULE NodePipelineProofs -------------------------
(***************************************************************************)
(* Proofs about a node's pipeline, for any messages, however many, and     *)
(* however often the clock is set back.                                    *)
(***************************************************************************)
EXTENDS NodePipeline, FiniteSetTheorems, TLAPS

IsMinute(m) == m \in [minute : Nat, sample_count : Nat, rates : {m.rates}]
IsInterval(iv) ==
    iv \in [start : Nat, samples : Nat, gpu_samples : {iv.gpu_samples}, node : {iv.node},
            users : {iv.users}, user_sum : {iv.user_sum}, user_max : {iv.user_max}]

(***************************************************************************)
(* Types.                                                                  *)
(***************************************************************************)
TypeInv ==
    /\ clock \in Nat /\ session_id \in Nat /\ connected \in Int
    /\ first \in Nat \X Nat
    /\ owed \in [counters : Int, censuses : Int]
    /\ last_minute \in Nat \cup {None} /\ last_interval \in Nat \cup {None}
    /\ open # <<>> => IsMinute(open[1])
    /\ interval # <<>> => IsInterval(interval[1])
    /\ prev # <<>> => /\ prev[1].reading \in Readings /\ prev[1].recv \in Nat
                      /\ prev[1].session \in 0..session_id

(***************************************************************************)
(* What has been emitted is not later than the last, and what is open is   *)
(* later than that.                                                        *)
(***************************************************************************)
OrderInv ==
    /\ \A m \in minutes : m \in Nat /\ last_minute # None /\ m <= last_minute
    /\ \A s \in starts : s \in Nat /\ last_interval # None /\ s <= last_interval
    /\ open # <<>> /\ last_minute # None => last_minute < open[1].minute /\ last_minute < first[1]
    /\ interval # <<>> /\ last_interval # None =>
          last_interval < interval[1].start /\ last_interval < first[2]

(***************************************************************************)
(* What a session has been connected for is in the rates, or was before    *)
(* the last message of this session, or after it.                          *)
(***************************************************************************)
OpenCovered == IF open # <<>> THEN Covered(open[1]) ELSE 0

RatesInv ==
    /\ RatesOfSessions
    /\ open # <<>> => \A f \in DOMAIN open[1].rates :
                         open[1].rates[f].elapsed \in Int /\ open[1].rates[f].delta \in Int
    /\ up /\ prev # <<>> /\ prev[1].session = session_id =>
          connected - OpenCovered >= clock - prev[1].recv

(***************************************************************************)
(* Facts about the operators.                                              *)
(***************************************************************************)
LEMMA AtMost == ASSUME NEW i \in Nat, NEW j \in Nat, NEW k \in Nat, i <= j, j <= k PROVE i <= k
OBVIOUS

\* What is covered grows by no more than what was left to cover.
LEMMA StillCovered ==
    ASSUME NEW a \in Int, NEW b \in Int, NEW c \in Int, NEW d \in Int, NEW e \in Int, NEW g \in Int,
           a - b = c - d, c - d >= e, g <= b + e
    PROVE  a >= g
OBVIOUS

\* A minute, or an interval, begins at a natural number.
LEMMA FloorType == ASSUME NEW t \in Nat, NEW l \in Nat \ {0} PROVE Floor(t, l) \in Nat
BY DEF Floor

LEMMA MinuteType == ASSUME NEW t \in Nat PROVE Minute(t) \in Nat
BY FloorType, MinuteAssumption DEF Minute

LEMMA StartType == ASSUME NEW t \in Nat PROVE Start(t) \in Nat
BY FloorType, UsageAssumption DEF Start

LEMMA MinOfTwo == ASSUME NEW a \in Int, NEW b \in Int PROVE Min({a, b}) = IF a <= b THEN a ELSE b
BY DEF Min

LEMMA EarliestIs ==
    ASSUME TypeInv, NEW i \in {1, 2}, NEW new \in BOOLEAN, NEW t \in Nat
    PROVE  /\ Earliest(i, new, t) \in Nat \X Nat
           /\ Earliest(i, new, t)[i] = IF new \/ t <= first[i] THEN t ELSE first[i]
           /\ Earliest(i, new, t)[3 - i] = first[3 - i]
BY MinOfTwo DEF Earliest, TypeInv

\* _add_pair: no rate gets a time of zero or less than nothing, and none more
\* time than has passed.
RatesOk(rates) ==
    \A f \in DOMAIN rates : /\ rates[f].elapsed \in Int /\ rates[f].elapsed > 0
                            /\ rates[f].delta \in Int /\ rates[f].delta >= 0

LEMMA PairAdded ==
    ASSUME NEW rates, RatesOk(rates), NEW a \in Readings, NEW b \in Readings, NEW elapsed \in Nat \ {0}
    PROVE  /\ RatesOk(AddPair(rates, a, b, elapsed))
           /\ Rate(AddPair(rates, a, b, elapsed), "cpu").elapsed <= Rate(rates, "cpu").elapsed + elapsed
           /\ Rate(AddPair(rates, a, b, elapsed), "cpu").elapsed \in Int
           /\ Rate(rates, "cpu").elapsed \in Int
<1> DEFINE grown == {f \in DOMAIN a \cap DOMAIN b : b[f] >= a[f]}
           new == AddPair(rates, a, b, elapsed)
<1>1. \A f \in DOMAIN rates \cup grown : Rate(rates, f).elapsed \in Int /\ Rate(rates, f).elapsed >= 0
                                        /\ Rate(rates, f).delta \in Int /\ Rate(rates, f).delta >= 0
  BY DEF Rate, RatesOk
<1>2. Rate(rates, "cpu").elapsed \in Int
  BY DEF Rate, RatesOk
<1>3. DOMAIN new = DOMAIN rates \cup grown
  BY DEF AddPair
<1>4. ASSUME NEW f \in grown
      PROVE  new[f] = [delta |-> Rate(rates, f).delta + b[f] - a[f], elapsed |-> Rate(rates, f).elapsed + elapsed]
  BY DEF AddPair
<1>5. ASSUME NEW f \in DOMAIN rates \ grown PROVE new[f] = rates[f]
  BY DEF AddPair
<1>6. \A f \in grown : a[f] \in Int /\ b[f] \in Int /\ b[f] >= a[f]
  BY ReadingAssumption
<1> HIDE DEF grown, new
<1>7. RatesOk(new)
  BY <1>1, <1>3, <1>4, <1>5, <1>6 DEF RatesOk
<1>8. Rate(new, "cpu").elapsed \in Int /\ Rate(new, "cpu").elapsed <= Rate(rates, "cpu").elapsed + elapsed
  <2>1. CASE "cpu" \in grown
    BY <1>1, <1>2, <1>3, <1>4, <2>1 DEF Rate
  <2>2. CASE "cpu" \notin grown
    <3>1. Rate(new, "cpu") = Rate(rates, "cpu")
      BY <1>3, <1>5, <2>2 DEF Rate
    <3> QED BY <1>2, <3>1
  <2> QED BY <2>1, <2>2
<1> QED BY <1>2, <1>7, <1>8 DEF new

\* add_counters: the minute that is open afterwards.
LEMMA CountersAdded ==
    ASSUME TypeInv, NEW reading \in Readings, AddCounters(reading, clock, session_id)
    PROVE  LET new == open = <<>> \/ Closes(clock)
               base == IF new THEN <<>> ELSE open[1].rates
           IN  /\ open' # <<>> /\ IsMinute(open[1])'
               /\ open'[1].minute = IF new THEN Minute(clock) ELSE open[1].minute
               /\ open'[1].sample_count = IF new THEN 1 ELSE open[1].sample_count + 1
               /\ open'[1].rates = IF Pairs(clock, session_id)
                                   THEN AddPair(base, prev[1].reading, reading, clock - prev[1].recv)
                                   ELSE base
               /\ prev' # <<>> /\ prev'[1].reading = reading
               /\ prev'[1].recv = clock /\ prev'[1].session = session_id
<1> DEFINE new == open = <<>> \/ Closes(clock)
           base == IF new THEN <<>> ELSE open[1].rates
           cur == IF new THEN [minute |-> Minute(clock), sample_count |-> 0, rates |-> <<>>] ELSE open[1]
           rates == IF Pairs(clock, session_id)
                    THEN AddPair(base, prev[1].reading, reading, clock - prev[1].recv) ELSE base
           m == [minute |-> cur.minute, sample_count |-> cur.sample_count + 1, rates |-> rates]
<1>1. cur.rates = base
  OBVIOUS
<1>2. open' = <<m>>
  BY <1>1 DEF AddCounters
<1>3. prev' = <<[reading |-> reading, recv |-> clock, session |-> session_id]>>
  BY DEF AddCounters
<1>4. /\ cur \in [minute : Nat, sample_count : Nat, rates : {base}]
      /\ cur.minute = IF new THEN Minute(clock) ELSE open[1].minute
      /\ cur.sample_count = IF new THEN 0 ELSE open[1].sample_count
  BY MinuteType, Zenon DEF TypeInv, IsMinute
<1> HIDE DEF cur, rates
<1>5. /\ m \in [minute : Nat, sample_count : Nat, rates : {m.rates}]
      /\ m.minute = cur.minute /\ m.sample_count = cur.sample_count + 1 /\ m.rates = rates
  BY <1>4
<1> HIDE DEF m
<1>6. open' # <<>> /\ open'[1] = m
  BY <1>2
<1>7. IsMinute(open[1])'
  BY <1>5, <1>6 DEF IsMinute
<1>8. prev' # <<>> /\ prev'[1].reading = reading /\ prev'[1].recv = clock /\ prev'[1].session = session_id
  BY <1>3
<1> QED BY <1>4, <1>5, <1>6, <1>7, <1>8, MinuteType DEF rates, TypeInv, IsMinute

\* AddTo: one census more, of the same interval.
LEMMA CensusAdded ==
    ASSUME NEW iv, IsInterval(iv), NEW msg
    PROVE  /\ IsInterval(AddTo(iv, msg))
           /\ AddTo(iv, msg).start = iv.start /\ AddTo(iv, msg).samples = iv.samples + 1
BY DEF IsInterval, AddTo

\* The interval that is open after add_census.
LEMMA ProcessesAdded ==
    ASSUME TypeInv, NEW msg, AddProcesses(msg, Start(clock))
    PROVE  LET new == interval = <<>> \/ Ends(Start(clock))
           IN  /\ interval' # <<>> /\ IsInterval(interval[1])'
               /\ interval'[1].start = IF new THEN Start(clock) ELSE interval[1].start
               /\ interval'[1].samples = IF new THEN 1 ELSE interval[1].samples + 1
<1> DEFINE new == interval = <<>> \/ Ends(Start(clock))
           iv == IF new THEN Opened(Start(clock)) ELSE interval[1]
<1>1. IsInterval(iv) /\ iv.start = (IF new THEN Start(clock) ELSE interval[1].start)
      /\ iv.samples = (IF new THEN 0 ELSE interval[1].samples)
  BY StartType, Zenon DEF TypeInv, IsInterval, Opened
<1>2. interval' = <<AddTo(iv, msg)>>
  BY DEF AddProcesses
<1> HIDE DEF iv
<1>3. interval' # <<>> /\ interval'[1] = AddTo(iv, msg)
  BY <1>2
<1>4. IsInterval(interval[1])'
  BY <1>1, <1>3, CensusAdded DEF IsInterval
<1> QED BY <1>1, <1>3, <1>4, CensusAdded DEF TypeInv, IsInterval

(***************************************************************************)
(* Every step preserves these four.                                        *)
(***************************************************************************)
RowsInv == TypeInv /\ OrderInv /\ SamplesOnce /\ RatesInv

\* The clock does not gain on a session's time.
SessionTime == up' => clock' - clock <= connected' - connected /\ (up \/ session_id' > session_id)

\* A step that leaves alone what the rows are made of.
LEMMA RowsAlone ==
    ASSUME RowsInv, UNCHANGED <<open, prev, interval, last_minute, last_interval, first, owed, minutes, starts>>,
           clock' \in Nat, connected' \in Int, session_id' \in Nat, session_id' >= session_id,
           connected' >= connected, SessionTime
    PROVE  RowsInv'
<1>1. TypeInv'
  BY DEF RowsInv, TypeInv, IsMinute, IsInterval
<1>2. OrderInv' /\ SamplesOnce'
  BY DEF RowsInv, OrderInv, SamplesOnce
<1>3. OpenCovered \in Int /\ OpenCovered' = OpenCovered
  BY DEF RowsInv, RatesInv, OpenCovered, Covered, Rate
<1>4. RatesOfSessions'
  <2>1. connected >= OpenCovered
    BY DEF RowsInv, RatesInv, RatesOfSessions, OpenCovered
  <2>2. connected' >= OpenCovered'
    BY <1>3, <2>1 DEF RowsInv, TypeInv
  <2> QED BY <2>2 DEF RowsInv, RatesInv, RatesOfSessions, OpenCovered
<1>5. ASSUME up', prev # <<>>, prev[1].session = session_id'
      PROVE  connected' - OpenCovered >= clock' - prev[1].recv
  <2>1. up /\ session_id' = session_id
    BY <1>5 DEF RowsInv, TypeInv, SessionTime
  <2>2. connected - OpenCovered >= clock - prev[1].recv
    BY <1>5, <2>1 DEF RowsInv, RatesInv
  <2>3. clock' - clock <= connected' - connected
    BY <1>5 DEF SessionTime
  <2>4. clock \in Int /\ clock' \in Int /\ connected \in Int /\ prev[1].recv \in Int
    BY <1>5 DEF RowsInv, TypeInv
  <2>5. PICK c \in Int, d \in Int, t \in Int, u \in Int :
             c = connected /\ d = connected' /\ t = clock /\ u = clock'
    BY <2>4
  <2>6. c - OpenCovered >= t - prev[1].recv /\ u - t <= d - c
    BY <2>2, <2>3, <2>5, Zenon
  <2>7. d - OpenCovered >= u - prev[1].recv
    BY <1>3, <2>4, <2>6
  <2> QED BY <2>5, <2>7
<1>6. RatesInv'
  BY <1>3, <1>4, <1>5 DEF RowsInv, RatesInv
<1> QED BY <1>1, <1>2, <1>6 DEF RowsInv

\* _counters, of a sample that is not late.
LEMMA CountersStep ==
    ASSUME RowsInv, NEW reading \in Readings, Counters(reading), ~LateCounters(clock)
    PROVE  RowsInv'
<1> DEFINE new == open = <<>> \/ Closes(clock)
           base == IF new THEN <<>> ELSE open[1].rates
<1>1. /\ AddCounters(reading, clock, session_id) /\ up
      /\ first' = Earliest(1, new, Minute(clock))
      /\ UNCHANGED <<interval, session_id, last_interval, up, clock, starts>>
  BY DEF Counters, Receive
<1>2. /\ Closes(clock) => /\ last_minute' = open[1].minute
                          /\ minutes' = minutes \cup {open[1].minute}
                          /\ connected' = connected - Covered(open[1])
                          /\ owed' = Owing(open[1].sample_count)
      /\ ~Closes(clock) => UNCHANGED <<last_minute, minutes, connected>> /\ owed' = Owing(0)
  BY DEF Counters, EmitMinute, Row, Covered
<1>3. /\ open' # <<>> /\ IsMinute(open[1])'
      /\ open'[1].minute = IF new THEN Minute(clock) ELSE open[1].minute
      /\ open'[1].sample_count = IF new THEN 1 ELSE open[1].sample_count + 1
      /\ open'[1].rates = IF Pairs(clock, session_id)
                          THEN AddPair(base, prev[1].reading, reading, clock - prev[1].recv)
                          ELSE base
      /\ prev' # <<>> /\ prev'[1].reading = reading
      /\ prev'[1].recv = clock /\ prev'[1].session = session_id
  BY <1>1, CountersAdded DEF RowsInv
<1>4. /\ clock \in Nat /\ Minute(clock) \in Nat /\ session_id \in Nat /\ connected \in Int
      /\ open # <<>> => open[1].minute \in Nat /\ open[1].sample_count \in Nat
      /\ Closes(clock) => open # <<>> /\ Minute(clock) > open[1].minute
  BY MinuteType, Zenon DEF RowsInv, TypeInv, IsMinute, Closes
<1>5. /\ first' \in Nat \X Nat /\ first'[2] = first[2]
      /\ first'[1] = IF new \/ Minute(clock) <= first[1] THEN Minute(clock) ELSE first[1]
  <2>1. new \in BOOLEAN /\ TypeInv
    BY DEF RowsInv
  <2> HIDE DEF new
  <2>2. /\ Earliest(1, new, Minute(clock)) \in Nat \X Nat
        /\ Earliest(1, new, Minute(clock))[1] = IF new \/ Minute(clock) <= first[1] THEN Minute(clock) ELSE first[1]
        /\ Earliest(1, new, Minute(clock))[3 - 1] = first[3 - 1]
    BY <1>4, <2>1, EarliestIs
  <2> QED BY <1>1, <2>2
<1>6. /\ owed' \in [counters : Int, censuses : Int] /\ owed'.censuses = owed.censuses
      /\ owed'.counters = IF Closes(clock) THEN owed.counters + 1 - open[1].sample_count
                          ELSE owed.counters + 1
  <2>1. CASE Closes(clock)
    <3>1. owed' = [owed EXCEPT !.counters = owed.counters + 1 - open[1].sample_count]
      BY <1>2, <2>1 DEF Owing
    <3>2. open[1].sample_count \in Int /\ owed \in [counters : Int, censuses : Int]
      BY <1>4, <2>1 DEF RowsInv, TypeInv
    <3> QED BY <2>1, <3>1, <3>2
  <2>2. CASE ~Closes(clock)
    <3>1. owed' = [owed EXCEPT !.counters = owed.counters + 1 - 0]
      BY <1>2, <2>2 DEF Owing
    <3> QED BY <2>2, <3>1 DEF RowsInv, TypeInv
  <2> QED BY <2>1, <2>2
<1>7. RatesOk(base) /\ OpenCovered \in Int /\ connected >= OpenCovered
  BY DEF RowsInv, RatesInv, RatesOfSessions, RatesOk, OpenCovered, Covered, Rate
<1>8. Rate(base, "cpu").elapsed = IF new THEN 0 ELSE OpenCovered
  BY DEF Rate, OpenCovered, Covered
<1>9. connected' \in Int /\ connected' - Rate(base, "cpu").elapsed = connected - OpenCovered
  BY <1>2, <1>4, <1>7, <1>8 DEF OpenCovered
<1> HIDE DEF new, base
<1>10. TypeInv'
  <2>1. (last_minute \in Nat \cup {None})'
    BY <1>2, <1>4 DEF RowsInv, TypeInv
  <2>2. (interval # <<>> => IsInterval(interval[1]))'
    BY <1>1 DEF RowsInv, TypeInv, IsInterval
  <2> QED BY <1>1, <1>3, <1>4, <1>5, <1>6, <1>9, <2>1, <2>2 DEF RowsInv, TypeInv
<1>11. OrderInv'
  <2>1. last_minute # None => last_minute \in Nat /\ Minute(clock) > last_minute
    BY <1>4 DEF LateCounters, RowsInv, TypeInv
  <2>2. CASE Closes(clock)
    <3>1. new /\ open # <<>> /\ open[1].minute \in Nat /\ open[1].minute < Minute(clock) /\ open[1].minute # None
      BY <1>4, <2>2, MinuteAssumption DEF new
    <3>2. last_minute' = open[1].minute /\ minutes' = minutes \cup {open[1].minute}
      BY <1>2, <2>2
    <3>3. open'[1].minute = Minute(clock) /\ first'[1] = Minute(clock) /\ first'[2] = first[2]
      BY <1>3, <1>5, <3>1
    <3>4. \A m \in minutes : m \in Nat /\ m <= open[1].minute
      BY <3>1 DEF RowsInv, OrderInv, TypeInv
    <3>5. \A m \in minutes' : m \in Nat /\ m <= last_minute'
      BY <3>1, <3>2, <3>4
    <3>6. last_minute' # None /\ last_minute' < open'[1].minute /\ last_minute' < first'[1]
      BY <3>1, <3>2, <3>3
    <3> QED BY <1>1, <3>3, <3>5, <3>6 DEF RowsInv, OrderInv
  <2>3. CASE ~Closes(clock)
    <3>1. first[1] \in Nat
      BY DEF RowsInv, TypeInv
    <3> QED BY <1>1, <1>2, <1>3, <1>4, <1>5, <2>1, <2>3, <3>1 DEF RowsInv, OrderInv, new
  <2> QED BY <2>2, <2>3
<1>12. SamplesOnce'
  BY <1>1, <1>3, <1>4, <1>6 DEF RowsInv, SamplesOnce, TypeInv, new
<1>13. RatesInv'
  <2> DEFINE elapsed == clock - prev[1].recv
  <2>1. /\ RatesOk(open'[1].rates) /\ Rate(open'[1].rates, "cpu").elapsed \in Int
        /\ connected' >= Rate(open'[1].rates, "cpu").elapsed
    <3>1. CASE Pairs(clock, session_id)
      <4>1. prev # <<>> /\ prev[1].session = session_id /\ prev[1].reading \in Readings
            /\ prev[1].recv \in Nat /\ elapsed \in Nat \ {0}
        BY <1>4, <3>1 DEF Pairs, RowsInv, TypeInv
      <4>2. connected - OpenCovered >= elapsed
        BY <1>1, <4>1 DEF RowsInv, RatesInv
      <4>3. /\ RatesOk(open'[1].rates)
            /\ Rate(open'[1].rates, "cpu").elapsed \in Int /\ Rate(base, "cpu").elapsed \in Int
            /\ Rate(open'[1].rates, "cpu").elapsed <= Rate(base, "cpu").elapsed + elapsed
        BY <1>3, <1>7, <3>1, <4>1, PairAdded, Zenon
      <4>4. connected \in Int /\ elapsed \in Int
        BY <1>4, <4>1
      <4> QED BY <1>7, <1>9, <4>2, <4>3, <4>4, StillCovered
    <3>2. CASE ~Pairs(clock, session_id)
      BY <1>3, <1>4, <1>7, <1>8, <1>9, <3>2
    <3> QED BY <3>1, <3>2
  <2>2. OpenCovered' = Rate(open'[1].rates, "cpu").elapsed
    BY <1>3 DEF OpenCovered, Covered
  <2>3. RatesOfSessions'
    BY <1>3, <2>1 DEF RatesOfSessions, RatesOk, Covered
  <2>4. connected' - OpenCovered' >= clock' - prev'[1].recv
    BY <1>1, <1>3, <1>4, <1>9, <2>1, <2>2
  <2> QED BY <1>3, <2>1, <2>3, <2>4 DEF RatesInv, RatesOk
<1> QED BY <1>10, <1>11, <1>12, <1>13 DEF RowsInv

\* _census, of a full census that is not late.
LEMMA FullCensusStep ==
    ASSUME RowsInv, NEW msg \in Censuses, FullCensus(msg), ~LateCensus(clock),
           UNCHANGED <<open, prev, session_id, last_minute, up, clock, minutes, connected>>
    PROVE  RowsInv'
<1> DEFINE start == Start(clock)
           new == interval = <<>> \/ Ends(start)
<1>1. AddProcesses(msg, start) /\ first' = Earliest(2, new, start)
  BY DEF FullCensus
<1>2. /\ Ends(start) => /\ last_interval' = interval[1].start
                        /\ starts' = starts \cup {interval[1].start}
                        /\ owed' = [owed EXCEPT !.censuses = owed.censuses + 1 - interval[1].samples]
      /\ ~Ends(start) => /\ UNCHANGED <<last_interval, starts>>
                         /\ owed' = [owed EXCEPT !.censuses = owed.censuses + 1]
  BY DEF FullCensus, EmitInterval
<1>3. /\ interval' # <<>> /\ IsInterval(interval[1])'
      /\ interval'[1].start = IF new THEN start ELSE interval[1].start
      /\ interval'[1].samples = IF new THEN 1 ELSE interval[1].samples + 1
  BY <1>1, ProcessesAdded DEF RowsInv
<1>4. /\ clock \in Nat /\ start \in Nat
      /\ interval # <<>> => interval[1].start \in Nat /\ interval[1].samples \in Nat
      /\ Ends(start) => interval # <<>> /\ start > interval[1].start
  BY StartType, Zenon DEF RowsInv, TypeInv, IsInterval, Ends
<1>5. new \in BOOLEAN /\ TypeInv
  BY DEF RowsInv
<1> HIDE DEF start
<1>6. /\ first' \in Nat \X Nat /\ first'[1] = first[1]
      /\ first'[2] = IF new \/ start <= first[2] THEN start ELSE first[2]
  <2> HIDE DEF new
  <2>1. /\ Earliest(2, new, start) \in Nat \X Nat
        /\ Earliest(2, new, start)[2] = IF new \/ start <= first[2] THEN start ELSE first[2]
        /\ Earliest(2, new, start)[3 - 2] = first[3 - 2]
    BY <1>4, <1>5, EarliestIs
  <2> QED BY <1>1, <2>1
<1>7. /\ owed' \in [counters : Int, censuses : Int] /\ owed'.counters = owed.counters
      /\ owed'.censuses = IF Ends(start) THEN owed.censuses + 1 - interval[1].samples
                          ELSE owed.censuses + 1
  <2>1. owed \in [counters : Int, censuses : Int]
    BY DEF RowsInv, TypeInv
  <2>2. CASE Ends(start)
    <3>1. interval[1].samples \in Int
      BY <1>4, <2>2
    <3> QED BY <1>2, <2>1, <2>2, <3>1
  <2>3. CASE ~Ends(start)
    BY <1>2, <2>1, <2>3
  <2> QED BY <2>2, <2>3
<1>8. TypeInv'
  <2>1. (last_interval \in Nat \cup {None})'
    BY <1>2, <1>4 DEF RowsInv, TypeInv
  <2>2. (open # <<>> => IsMinute(open[1]))'
    BY DEF RowsInv, TypeInv, IsMinute
  <2> QED BY <1>3, <1>6, <1>7, <2>1, <2>2 DEF RowsInv, TypeInv
<1>9. OrderInv'
  <2>1. last_interval # None => last_interval \in Nat /\ start > last_interval
    BY <1>4 DEF LateCensus, RowsInv, TypeInv, start
  <2>2. CASE Ends(start)
    <3>1. interval # <<>> /\ interval[1].start \in Nat /\ interval[1].start < start /\ interval[1].start # None
      BY <1>4, <2>2, MinuteAssumption
    <3>2. last_interval' = interval[1].start /\ starts' = starts \cup {interval[1].start}
      BY <1>2, <2>2
    <3>3. interval'[1].start = start /\ first'[2] = start /\ first'[1] = first[1]
      BY <1>3, <1>6, <2>2
    <3>4. \A s \in starts : s \in Nat /\ s <= interval[1].start
      BY <3>1 DEF RowsInv, OrderInv, TypeInv
    <3>5. \A s \in starts' : s \in Nat /\ s <= last_interval'
      BY <3>1, <3>2, <3>4
    <3>6. last_interval' # None /\ last_interval' < interval'[1].start /\ last_interval' < first'[2]
      BY <3>1, <3>2, <3>3
    <3> QED BY <3>3, <3>5, <3>6 DEF RowsInv, OrderInv
  <2>3. CASE ~Ends(start)
    <3>1. first[2] \in Nat
      BY DEF RowsInv, TypeInv
    <3> QED BY <1>2, <1>3, <1>4, <1>6, <2>1, <2>3, <3>1 DEF RowsInv, OrderInv
  <2> QED BY <2>2, <2>3
<1>10. SamplesOnce'
  BY <1>3, <1>4, <1>7 DEF RowsInv, SamplesOnce, TypeInv
<1>11. RatesInv'
  BY DEF RowsInv, RatesInv, RatesOfSessions, OpenCovered
<1> QED BY <1>8, <1>9, <1>10, <1>11 DEF RowsInv

\* flush.
LEMMA FlushStep ==
    ASSUME RowsInv, Flush
    PROVE  RowsInv'
<1>1. /\ open' = <<>> /\ interval' = <<>> /\ ~up /\ UNCHANGED <<prev, session_id, up, clock, first>>
      /\ open # <<>> => /\ last_minute' = open[1].minute /\ minutes' = minutes \cup {open[1].minute}
                        /\ connected' = connected - Covered(open[1])
      /\ open = <<>> => UNCHANGED <<last_minute, minutes, connected>>
      /\ interval # <<>> => last_interval' = interval[1].start /\ starts' = starts \cup {interval[1].start}
      /\ interval = <<>> => UNCHANGED <<last_interval, starts>>
      /\ owed' = [counters |-> owed.counters - (IF open # <<>> THEN open[1].sample_count ELSE 0),
                  censuses |-> owed.censuses - (IF interval # <<>> THEN interval[1].samples ELSE 0)]
  BY DEF Flush, FlushMinutes, EmitMinute, EmitInterval, Row, Covered, envVars
<1>2. /\ open # <<>> => open[1].minute \in Nat /\ open[1].sample_count \in Nat
      /\ interval # <<>> => interval[1].start \in Nat /\ interval[1].samples \in Nat
  BY DEF RowsInv, TypeInv, IsMinute, IsInterval
<1>3. owed'.counters = 0 /\ owed'.censuses = 0 /\ owed' \in [counters : Int, censuses : Int]
  <2>1. /\ owed.counters = IF open # <<>> THEN open[1].sample_count ELSE 0
        /\ owed.censuses = IF interval # <<>> THEN interval[1].samples ELSE 0
    BY Zenon DEF RowsInv, SamplesOnce
  <2>2. owed.counters \in Int /\ owed.censuses \in Int
    BY <1>2, <2>1
  <2>3. owed' = [counters |-> owed.counters - owed.counters, censuses |-> owed.censuses - owed.censuses]
    BY <1>1, <2>1, Zenon
  <2>4. owed' = [counters |-> 0, censuses |-> 0]
    BY <2>2, <2>3
  <2> QED BY <2>4
<1>4. connected' \in Int /\ connected' >= 0
  <2>1. /\ connected \in Int /\ connected >= OpenCovered /\ OpenCovered \in Int
        /\ open = <<>> => OpenCovered = 0
    BY DEF RowsInv, TypeInv, RatesInv, RatesOfSessions, OpenCovered, Covered, Rate
  <2>2. CASE open # <<>>
    <3>1. connected' = connected - OpenCovered
      BY <1>1, <2>2, Zenon DEF OpenCovered
    <3> QED BY <2>1, <3>1
  <2>3. CASE open = <<>>
    <3>1. connected' = connected /\ OpenCovered = 0
      BY <1>1, <2>1, <2>3, Zenon
    <3> QED BY <2>1, <3>1
  <2> QED BY <2>2, <2>3, Zenon
<1>5. TypeInv'
  BY <1>1, <1>2, <1>3, <1>4, Zenon DEF RowsInv, TypeInv
<1>6. \A m \in minutes' : m \in Nat /\ last_minute' # None /\ m <= last_minute'
  <2>1. CASE open # <<>>
    <3>1. last_minute' = open[1].minute /\ minutes' = minutes \cup {open[1].minute} /\ open[1].minute \in Nat
      BY <1>1, <1>2, <2>1, Zenon
    <3> QED BY <2>1, <3>1, MinuteAssumption DEF RowsInv, OrderInv, TypeInv
  <2>2. CASE open = <<>>
    <3>1. last_minute' = last_minute /\ minutes' = minutes
      BY <1>1, <2>2, Zenon
    <3> QED BY <2>2, <3>1, MinuteAssumption DEF RowsInv, OrderInv, TypeInv
  <2> QED BY <2>1, <2>2, Zenon
<1>7. \A s \in starts' : s \in Nat /\ last_interval' # None /\ s <= last_interval'
  <2>1. CASE interval # <<>>
    <3>1. last_interval' = interval[1].start /\ starts' = starts \cup {interval[1].start}
      BY <1>1, <2>1, Zenon
    <3> QED BY <1>2, <2>1, <3>1, MinuteAssumption DEF RowsInv, OrderInv, TypeInv
  <2>2. CASE interval = <<>>
    <3>1. last_interval' = last_interval /\ starts' = starts
      BY <1>1, <2>2, Zenon
    <3> QED BY <2>2, <3>1, MinuteAssumption DEF RowsInv, OrderInv, TypeInv
  <2> QED BY <2>1, <2>2, Zenon
<1>8. OrderInv' /\ SamplesOnce' /\ RatesInv'
  BY <1>1, <1>3, <1>4, <1>6, <1>7 DEF OrderInv, SamplesOnce, RatesInv, RatesOfSessions
<1> QED BY <1>5, <1>8 DEF RowsInv

LEMMA RowsStep ==
    ASSUME RowsInv, [Next]_vars
    PROVE  RowsInv'
<1>1. clock \in Nat /\ session_id \in Nat /\ connected \in Int
  BY DEF RowsInv, TypeInv
<1>2. CASE Tick
  <2>1. clock' = clock + 1 /\ connected' = (IF up THEN connected + 1 ELSE connected) /\ UNCHANGED <<up, session_id>>
    BY <1>2 DEF Tick, pipeVars
  <2>2. UNCHANGED <<open, prev, interval, last_minute, last_interval, first, owed, minutes, starts>>
    BY <1>2 DEF Tick, minuteVars, pipeVars
  <2>3. SessionTime
    BY <1>1, <2>1 DEF SessionTime
  <2> QED BY <1>1, <2>1, <2>2, <2>3, RowsAlone
<1>3. CASE StepBack
  <2>1. clock' \in 0..(clock - 1) /\ UNCHANGED <<connected, up, session_id>>
    BY <1>3 DEF StepBack, pipeVars, history
  <2>2. UNCHANGED <<open, prev, interval, last_minute, last_interval, first, owed, minutes, starts>>
    BY <1>3 DEF StepBack, minuteVars, pipeVars, history
  <2>3. clock' - clock <= connected' - connected
    <3>1. PICK t \in Int, u \in Int, c \in Int : t = clock /\ u = clock' /\ c = connected /\ u <= t
      BY <1>1, <2>1
    <3>2. u <= t
      BY <3>1
    <3>3. u - t <= c - c
      BY <3>2
    <3> QED BY <2>1, <3>1, <3>3, Zenon
  <2>4. up' => up
    BY <2>1
  <2>5. SessionTime
    BY <2>3, <2>4 DEF SessionTime
  <2> QED BY <1>1, <2>1, <2>2, <2>5, RowsAlone
<1>4. CASE SessionStarted
  <2>1. session_id' = session_id + 1 /\ UNCHANGED <<connected, clock>>
    BY <1>4 DEF SessionStarted, history
  <2>2. UNCHANGED <<open, prev, interval, last_minute, last_interval, first, owed, minutes, starts>>
    BY <1>4 DEF SessionStarted, minuteVars, history
  <2>3. SessionTime
    BY <1>1, <2>1 DEF SessionTime
  <2> QED BY <1>1, <2>1, <2>2, <2>3, RowsAlone
<1>5. ASSUME \/ SessionEnded \/ Ended \/ UNCHANGED vars
      PROVE  RowsInv'
  <2>1. UNCHANGED <<connected, clock, session_id>> /\ (up' => up)
    BY <1>5 DEF SessionEnded, Ended, vars, envVars, pipeVars, history
  <2>2. UNCHANGED <<open, prev, interval, last_minute, last_interval, first, owed, minutes, starts>>
    BY <1>5 DEF SessionEnded, Ended, vars, minuteVars, pipeVars, history
  <2>3. SessionTime
    BY <1>1, <2>1 DEF SessionTime
  <2> QED BY <1>1, <2>1, <2>2, <2>3, RowsAlone
<1>6. ASSUME NEW reading \in Readings, Counters(reading)
      PROVE  RowsInv'
  <2>1. CASE LateCounters(clock)
    <3>1. UNCHANGED <<connected, clock, session_id, up>>
      BY <1>6, <2>1 DEF Counters
    <3>2. UNCHANGED <<open, prev, interval, last_minute, last_interval, first, owed, minutes, starts>>
      BY <1>6, <2>1 DEF Counters, minuteVars
    <3>3. SessionTime
      BY <1>1, <3>1, <1>6 DEF SessionTime, Counters, Receive
    <3> QED BY <1>1, <3>1, <3>2, <3>3, RowsAlone
  <2>2. CASE ~LateCounters(clock)
    BY <1>6, <2>2, CountersStep
  <2> QED BY <2>1, <2>2
<1>7. ASSUME NEW msg \in Censuses, Census(msg)
      PROVE  RowsInv'
  <2>1. UNCHANGED <<open, prev, session_id, last_minute, up, clock, minutes, connected>>
    BY <1>7 DEF Census
  <2>2. CASE ~LateCensus(clock) /\ FullCensus(msg)
    BY <2>1, <2>2, FullCensusStep
  <2>3. CASE UNCHANGED <<interval, last_interval, starts, owed, first>>
    <3>1. SessionTime
      BY <1>1, <1>7, <2>1 DEF SessionTime, Census, Receive
    <3> QED BY <1>1, <2>1, <2>3, <3>1, RowsAlone
  <2> QED BY <1>7, <2>2, <2>3 DEF Census, SummaryCensus
<1> QED BY <1>2, <1>3, <1>4, <1>5, <1>6, <1>7, FlushStep DEF Next

LEMMA RowsInit == Init => RowsInv
BY DEF Init, MinutesInit, RowsInv, TypeInv, OrderInv, SamplesOnce, RatesInv, RatesOfSessions

LEMMA RowsInvariant == Spec => []RowsInv
BY RowsInit, RowsStep, PTL DEF Spec

(***************************************************************************)
(* However the receiver's clock is set back, what is open is later than    *)
(* every minute, or interval, that has been emitted: no row comes twice    *)
(* and none before an earlier one (_last_minute, _last_interval).          *)
(***************************************************************************)
THEOREM RowsComeInOrder == Spec => []RowsInOrder
<1>1. RowsInv => RowsInOrder
  <2> SUFFICES ASSUME RowsInv PROVE RowsInOrder
    OBVIOUS
  <2>1. /\ open # <<>> => open[1].minute \in Nat
        /\ interval # <<>> => interval[1].start \in Nat
        /\ first[1] \in Nat /\ first[2] \in Nat
        /\ last_minute # None => last_minute \in Nat
        /\ last_interval # None => last_interval \in Nat
    BY DEF RowsInv, TypeInv, IsMinute, IsInterval
  <2>2. \A m \in minutes : open # <<>> => m < open[1].minute /\ m < first[1]
    BY <2>1 DEF RowsInv, OrderInv
  <2>3. \A s \in starts : interval # <<>> => s < interval[1].start /\ s < first[2]
    BY <2>1 DEF RowsInv, OrderInv
  <2> QED BY <2>2, <2>3 DEF RowsInOrder
<1> QED BY <1>1, RowsInvariant, PTL

(***************************************************************************)
(* A message that is not reported late counts in exactly one row, and none *)
(* is left when flush has been called (sample_count, _late).               *)
(***************************************************************************)
THEOREM SamplesCountOnce == Spec => []SamplesOnce
<1>1. RowsInv => SamplesOnce
  BY DEF RowsInv
<1> QED BY <1>1, RowsInvariant, PTL

(***************************************************************************)
(* No rate is divided by zero, none is negative, and together they cover   *)
(* no more time than there was a session, whatever the clock and the       *)
(* counters do (_add_pair, and the session of _prev).                      *)
(***************************************************************************)
THEOREM RatesCoverSessions == Spec => []RatesOfSessions
<1>1. RowsInv => RatesOfSessions
  BY DEF RowsInv, RatesInv
<1> QED BY <1>1, RowsInvariant, PTL

(***************************************************************************)
(* The newest of a set of minutes.                                         *)
(***************************************************************************)
LEMMA LeastNatural ==
    ASSUME NEW T \in SUBSET Nat, T # {}
    PROVE  \E x \in T : \A y \in T : x <= y
<1> DEFINE R == {ss \in Nat \X Nat : ss[1] < ss[2]}
<1>1. IsWellFoundedOn(R, Nat)
  BY NatLessThanWellFounded, Zenon DEF OpToRel
<1>2. \A x, y \in Nat : y < x => <<y, x>> \in R
  OBVIOUS
<1> HIDE DEF R
<1>3. PICK x \in T : \A y \in T : ~(<<y, x>> \in R)
  BY <1>1, WFMin, Zenon
<1>4. ASSUME NEW y \in T PROVE x <= y
  <2>1. x \in Nat /\ y \in Nat /\ ~(y < x)
    BY <1>2, <1>3, Zenon
  <2> QED BY <2>1
<1> QED BY <1>4

\* Those later than m.
Later(S, m) == {n \in S : n > m}

LEMMA LaterFinite ==
    ASSUME NEW S \in SUBSET Nat, IsFiniteSet(S), NEW T \in SUBSET S, NEW m
    PROVE  /\ IsFiniteSet(Later(S, m)) /\ Cardinality(Later(S, m)) \in Nat
           /\ IsFiniteSet(Later(T, m)) /\ Cardinality(Later(T, m)) \in Nat
           /\ Cardinality(Later(T, m)) <= Cardinality(Later(S, m))
<1>1. Later(S, m) \subseteq S /\ Later(T, m) \subseteq Later(S, m)
  BY Zenon DEF Later
<1>2. IsFiniteSet(Later(S, m))
  BY <1>1, FS_Subset
<1> QED BY <1>1, <1>2, FS_Subset, FS_CardinalityType

LEMMA LaterOfLater ==
    ASSUME NEW S \in SUBSET Nat, NEW m \in Nat, NEW n \in Nat, n > m
    PROVE  Later(S, n) \subseteq Later(S, m)
<1>1. ASSUME NEW j \in S, j > n PROVE j > m
  <2>1. j \in Nat
    OBVIOUS
  <2> QED BY <1>1, <2>1
<1> QED BY <1>1, Zenon DEF Later

LEMMA NewestIs ==
    ASSUME NEW k, NEW S, NEW m
    PROVE  m \in Newest(k, S) <=> m \in S /\ Cardinality(Later(S, m)) < k
BY DEF Newest, Later

\* Of what comes after b, the newest are those of the newest that do.
LEMMA NewestAbove ==
    ASSUME NEW k, NEW S \in SUBSET Nat, NEW b \in Nat
    PROVE  {m \in Newest(k, S) : m >= b} = Newest(k, {m \in S : m >= b})
<1> DEFINE A == {m \in S : m >= b}
<1>1. ASSUME NEW m \in A PROVE Later(A, m) = Later(S, m)
  <2>1. ASSUME NEW n \in S, n > m PROVE n >= b
    <3>1. m \in Nat /\ n \in Nat /\ m >= b
      OBVIOUS
    <3> QED BY <2>1, <3>1
  <2> QED BY <2>1, Zenon DEF Later
<1>2. ASSUME NEW m
      PROVE  m \in {n \in Newest(k, S) : n >= b} <=> m \in Newest(k, A)
  <2>1. m \in {n \in Newest(k, S) : n >= b} <=> m \in A /\ Cardinality(Later(S, m)) < k
    BY NewestIs
  <2>2. m \in Newest(k, A) <=> m \in A /\ Cardinality(Later(A, m)) < k
    BY NewestIs
  <2> QED BY <1>1, <2>1, <2>2, Zenon
<1> QED BY <1>2

\* There are k of them at the most.
LEMMA NewestFit ==
    ASSUME NEW k \in Nat, NEW S \in SUBSET Nat, IsFiniteSet(S)
    PROVE  Cardinality(Newest(k, S)) <= k
<1> DEFINE N == Newest(k, S)
<1>1. N \subseteq S /\ N \in SUBSET Nat /\ IsFiniteSet(N)
  BY FS_Subset, Zenon DEF Newest
<1>2. CASE N = {}
  BY <1>2, FS_EmptySet
<1>3. CASE N # {}
  <2>1. PICK y \in N : \A z \in N : y <= z
    BY <1>1, <1>3, LeastNatural
  <2>2. y \in Nat /\ Cardinality(Later(S, y)) < k /\ Cardinality(Later(S, y)) \in Nat /\ IsFiniteSet(Later(S, y))
    BY <1>1, NewestIs, LaterFinite
  <2>3. N \ {y} \subseteq Later(S, y)
    BY <1>1, <2>1, <2>2 DEF Later
  <2>4. IsFiniteSet(N \ {y}) /\ Cardinality(N \ {y}) <= Cardinality(Later(S, y)) /\ Cardinality(N \ {y}) \in Nat
    BY <2>2, <2>3, FS_Subset, FS_CardinalityType
  <2>5. Cardinality(N) = Cardinality(N \ {y}) + 1
    <3>1. N = (N \ {y}) \cup {y}
      BY <2>1
    <3>2. Cardinality((N \ {y}) \cup {y}) = Cardinality(N \ {y}) + 1
      BY <2>4, FS_AddElement, Zenon
    <3> QED BY <3>1, <3>2, Zenon
  <2> QED BY <2>2, <2>4, <2>5
<1> QED BY <1>2, <1>3

\* What was dropped would not be among the newest after another has come.
LEMMA NewestAgain ==
    ASSUME NEW k \in Nat, NEW S \in SUBSET Nat, IsFiniteSet(S), NEW x \in Nat
    PROVE  Newest(k, Newest(k, S) \cup {x}) = Newest(k, S \cup {x})
<1> DEFINE N == Newest(k, S)
           Sx == S \cup {x}
           Nx == N \cup {x}
<1>1. N \in SUBSET S /\ Nx \in SUBSET Sx /\ Sx \in SUBSET Nat /\ IsFiniteSet(Sx)
  BY FS_AddElement DEF Newest
<1>2. \A m \in S : m \in N <=> Cardinality(Later(S, m)) < k
  BY NewestIs
<1> HIDE DEF N
<1>3. ASSUME NEW m \in N, NEW n \in S, n > m PROVE n \in N
  <2>1. m \in Nat /\ n \in Nat
    BY <1>1
  <2>2. Later(S, n) \subseteq Later(S, m)
    BY <1>3, <2>1, LaterOfLater
  <2>3. Cardinality(Later(S, n)) <= Cardinality(Later(S, m))
    BY <2>2, LaterFinite, FS_Subset
  <2>4. Cardinality(Later(S, n)) \in Nat /\ Cardinality(Later(S, m)) \in Nat
    BY LaterFinite
  <2>5. Cardinality(Later(S, m)) < k
    BY <1>1, <1>2
  <2> QED BY <1>2, <2>3, <2>4, <2>5
<1>4. ASSUME NEW y \in N PROVE Later(Nx, y) = Later(Sx, y)
  BY <1>1, <1>3, Zenon DEF Later
<1>5. ASSUME NEW y \in S \ N, y # x PROVE ~(Cardinality(Later(Sx, y)) < k)
  <2>1. S \in SUBSET Sx
    OBVIOUS
  <2>2. Cardinality(Later(S, y)) <= Cardinality(Later(Sx, y))
    BY <1>1, <2>1, LaterFinite
  <2>3. Cardinality(Later(S, y)) \in Nat /\ Cardinality(Later(Sx, y)) \in Nat
    BY <1>1, LaterFinite
  <2> QED BY <1>2, <2>2, <2>3
<1>6. ASSUME x \notin N
      PROVE  Cardinality(Later(Nx, x)) < k <=> Cardinality(Later(Sx, x)) < k
  <2>1. Later(Nx, x) = Later(N, x) /\ Later(Sx, x) = Later(S, x)
    BY DEF Later
  <2>2. /\ Cardinality(Later(N, x)) \in Nat /\ Cardinality(Later(S, x)) \in Nat
        /\ Cardinality(Later(N, x)) <= Cardinality(Later(S, x)) /\ IsFiniteSet(Later(N, x))
    BY <1>1, LaterFinite
  <2>3. CASE Later(S, x) \subseteq N
    <3>1. Later(S, x) = Later(N, x)
      BY <1>1, <2>3, Zenon DEF Later
    <3> QED BY <2>1, <3>1
  <2>4. CASE ~(Later(S, x) \subseteq N)
    <3> DEFINE Size(n) == Cardinality(Later(S, n))
               Out == Later(S, x) \ N
               T == {Size(n) : n \in Out}
    <3>1. T \in SUBSET Nat /\ T # {}
      BY <2>4, LaterFinite
    <3>2. PICK t \in T : \A u \in T : t <= u
      BY <3>1, LeastNatural, Zenon
    <3>3. PICK n \in Out : t = Size(n)
      OBVIOUS
    <3>4. n \in S /\ n \in Nat /\ n > x /\ n \notin N
      BY DEF Later
    <3>5. ASSUME NEW j \in Later(S, n) PROVE j \in Later(N, x)
      <4>1. j \in S /\ j \in Nat /\ j > n /\ j > x
        BY <3>4 DEF Later
      <4>2. SUFFICES ASSUME j \notin N PROVE FALSE
        BY <4>1 DEF Later
      <4>3. j \in Out
        BY <4>1, <4>2 DEF Later
      <4>4. Size(n) <= Size(j)
        BY <3>2, <3>3, <4>3
      <4>5. Later(S, j) \subseteq Later(S, n) /\ j \notin Later(S, j)
        <5>1. j \notin Later(S, j)
          BY <4>1 DEF Later
        <5> QED BY <3>4, <4>1, <5>1, LaterOfLater
      <4>6. Size(j) <= Size(n) /\ Size(j) \in Nat /\ Size(n) \in Nat /\ IsFiniteSet(Later(S, n))
        BY <4>5, LaterFinite, FS_Subset
      <4>7. Size(j) = Size(n)
        BY <4>4, <4>6
      <4>8. Later(S, j) = Later(S, n)
        BY <4>5, <4>6, <4>7, FS_Subset
      <4> QED BY <4>5, <4>8
    <3>6. Cardinality(Later(S, n)) <= Cardinality(Later(N, x)) /\ Cardinality(Later(S, n)) \in Nat
      BY <2>2, <3>5, LaterFinite, FS_Subset
    <3>7. ~(Cardinality(Later(S, n)) < k)
      BY <1>2, <3>4
    <3> QED BY <2>1, <2>2, <3>6, <3>7
  <2> QED BY <2>3, <2>4
<1>7. ASSUME NEW y PROVE y \in Newest(k, Nx) <=> y \in Newest(k, Sx)
  <2>1. /\ y \in Newest(k, Nx) <=> y \in Nx /\ Cardinality(Later(Nx, y)) < k
        /\ y \in Newest(k, Sx) <=> y \in Sx /\ Cardinality(Later(Sx, y)) < k
    BY NewestIs
  <2>2. CASE y \in N
    BY <1>1, <1>4, <2>1, <2>2
  <2>3. CASE y \notin N /\ y = x
    BY <1>6, <2>1, <2>3
  <2>4. CASE y \notin N /\ y # x
    BY <1>5, <2>1, <2>4, Zenon
  <2> QED BY <2>2, <2>3, <2>4
<1> QED BY <1>7 DEF N

(***************************************************************************)
(* The censuses that wait, with the minutes that may still come counted    *)
(* from Bound; the aggregator and the pipeline agree on the last minute.   *)
(***************************************************************************)
Bound == IF open # <<>> THEN open[1].minute ELSE 0
NewMinutes == {m \in DOMAIN heard : lastClosed # None => m > lastClosed}
From(S, b) == {m \in S : m >= b}

PendingInv ==
    /\ From(DOMAIN census, Bound) = Newest(MaxPending, From(NewMinutes, Bound))
    /\ Cardinality(DOMAIN census) <= MaxPending
    /\ DOMAIN census \subseteq NewMinutes
    /\ \A m \in DOMAIN census : m >= Bound => census[m] = heard[m]

HeardInv ==
    /\ TypeInv /\ OrderInv /\ lastClosed = last_minute
    /\ DOMAIN heard \subseteq Nat /\ IsFiniteSet(DOMAIN heard)

LEMMA PendingIs == ASSUME HeardInv PROVE PendingInv <=> PendingCensuses
<1>1. Bound \in Nat /\ NewMinutes \subseteq Nat
  BY DEF HeardInv, TypeInv, IsMinute, Bound, NewMinutes
<1>2. ASSUME NEW m \in Nat PROVE m >= Bound <=> (open # <<>> => m >= open[1].minute)
  BY DEF Bound
<1>3. ASSUME NEW S \in SUBSET Nat
      PROVE  From(S, Bound) = {m \in S : open # <<>> => m >= open[1].minute}
  <2>1. \A m \in S : m >= Bound <=> (open # <<>> => m >= open[1].minute)
    BY <1>2
  <2> QED BY <2>1, Zenon DEF From
<1>5. PendingCensuses <=>
        /\ {m \in DOMAIN census : open # <<>> => m >= open[1].minute}
              = Newest(MaxPending, {m \in NewMinutes : open # <<>> => m >= open[1].minute})
        /\ Cardinality(DOMAIN census) <= MaxPending /\ DOMAIN census \subseteq NewMinutes
        /\ \A m \in DOMAIN census : (open # <<>> => m >= open[1].minute) => census[m] = heard[m]
  BY DEF PendingCensuses, NewMinutes
<1>6. CASE DOMAIN census \subseteq NewMinutes
  <2>1. DOMAIN census \in SUBSET Nat /\ NewMinutes \in SUBSET Nat
    BY <1>1, <1>6, Zenon
  <2>2. (\A m \in DOMAIN census : m >= Bound => census[m] = heard[m])
           <=> (\A m \in DOMAIN census : (open # <<>> => m >= open[1].minute) => census[m] = heard[m])
    BY <1>2, <2>1
  <2>3. From(DOMAIN census, Bound) = {m \in DOMAIN census : open # <<>> => m >= open[1].minute}
    BY <1>3, <2>1
  <2>4. From(NewMinutes, Bound) = {m \in NewMinutes : open # <<>> => m >= open[1].minute}
    BY <1>3, <2>1
  <2> QED BY <1>5, <2>2, <2>3, <2>4, Zenon DEF PendingInv
<1>7. CASE ~(DOMAIN census \subseteq NewMinutes)
  BY <1>5, <1>7 DEF PendingInv
<1> QED BY <1>6, <1>7

LEMMA PendingFinite ==
    ASSUME HeardInv, PendingInv
    PROVE  /\ DOMAIN census \in SUBSET Nat /\ IsFiniteSet(DOMAIN census) /\ Bound \in Nat
           /\ NewMinutes \in SUBSET Nat /\ IsFiniteSet(NewMinutes)
<1>1. NewMinutes \in SUBSET Nat /\ NewMinutes \in SUBSET DOMAIN heard
  BY DEF HeardInv, NewMinutes
<1>2. IsFiniteSet(DOMAIN heard)
  BY DEF HeardInv
<1>3. IsFiniteSet(NewMinutes)
  BY <1>1, <1>2, FS_Subset, Zenon
<1>4. DOMAIN census \in SUBSET NewMinutes
  BY DEF PendingInv
<1>5. IsFiniteSet(DOMAIN census)
  BY <1>3, <1>4, FS_Subset, Zenon
<1>6. Bound \in Nat
  BY DEF HeardInv, TypeInv, IsMinute, Bound
<1> QED BY <1>1, <1>3, <1>4, <1>5, <1>6, Zenon

\* Minutes are closed, or can no longer come: only what is before b is forgotten.
LEMMA BoundRises ==
    ASSUME HeardInv, PendingInv, NEW b \in Nat, b >= Bound, UNCHANGED heard,
           NEW closed \in SUBSET Nat, \A m \in closed : m < b,
           NewMinutes' = NewMinutes \ closed, \A m \in NewMinutes' : m >= Bound' <=> m >= b,
           DOMAIN census' = DOMAIN census \ closed, \A m \in DOMAIN census' : census'[m] = census[m]
    PROVE  PendingInv'
<1>1. /\ DOMAIN census \in SUBSET Nat /\ IsFiniteSet(DOMAIN census) /\ Bound \in Nat
      /\ NewMinutes \in SUBSET Nat
  BY PendingFinite
<1>2. DOMAIN census' \subseteq NewMinutes'
  BY DEF PendingInv
<1>3. ASSUME NEW S \in SUBSET Nat
      PROVE  From(S \ closed, b) = From(From(S, Bound), b) /\ From(S, Bound) \in SUBSET Nat
  <2>1. ASSUME NEW m \in S PROVE m \notin closed /\ m >= b <=> m >= Bound /\ m >= b
    <3>1. m \in Nat
      OBVIOUS
    <3> QED BY <1>1, <3>1
  <2>2. From(S \ closed, b) \subseteq From(From(S, Bound), b)
    BY <2>1, Zenon DEF From
  <2>3. From(From(S, Bound), b) \subseteq From(S \ closed, b)
    BY <2>1, Zenon DEF From
  <2>4. From(S, Bound) \in SUBSET Nat
    BY Zenon DEF From
  <2> QED BY <2>2, <2>3, <2>4
<1>4. \A k : \A S \in SUBSET Nat : From(Newest(k, S), b) = Newest(k, From(S, b))
  BY NewestAbove DEF From
<1>5. From(DOMAIN census', b) = From(Newest(MaxPending, From(NewMinutes, Bound)), b)
  BY <1>1, <1>3 DEF PendingInv
<1>6. From(Newest(MaxPending, From(NewMinutes, Bound)), b) = Newest(MaxPending, From(NewMinutes', b))
  BY <1>1, <1>3, <1>4
<1>7. From(DOMAIN census', b) = From(DOMAIN census', Bound') /\ From(NewMinutes', b) = From(NewMinutes', Bound')
  BY <1>2 DEF From
<1>8. Cardinality(DOMAIN census') <= MaxPending
  <2>1. DOMAIN census' \in SUBSET DOMAIN census
    OBVIOUS
  <2>2. Cardinality(DOMAIN census') <= Cardinality(DOMAIN census) /\ IsFiniteSet(DOMAIN census')
    BY <1>1, <2>1, FS_Subset
  <2>3. Cardinality(DOMAIN census') \in Nat /\ Cardinality(DOMAIN census) \in Nat
    BY <1>1, <2>2, FS_CardinalityType
  <2>4. Cardinality(DOMAIN census) <= MaxPending /\ MaxPending \in Nat
    BY MinuteAssumption, Zenon DEF PendingInv
  <2> QED BY <2>2, <2>3, <2>4, AtMost
<1>9. ASSUME NEW m \in DOMAIN census', m >= Bound' PROVE census'[m] = heard'[m]
  <2>1. m \in DOMAIN census /\ m \in Nat /\ census'[m] = census[m] /\ m >= b
    BY <1>1, <1>2, <1>9
  <2>2. m >= Bound
    BY <1>1, <2>1
  <2> QED BY <2>1, <2>2 DEF PendingInv
<1> QED BY <1>2, <1>5, <1>6, <1>7, <1>8, <1>9, Zenon DEF PendingInv

\* add_census, of a census that is not late.
LEMMA CensusRecorded ==
    ASSUME HeardInv, PendingInv, NEW status, AddCensus(status, clock), Heard(status),
           UNCHANGED <<open, lastClosed>>
    PROVE  PendingInv'
<1> DEFINE x == Minute(clock)
<1>1. /\ DOMAIN census \in SUBSET Nat /\ IsFiniteSet(DOMAIN census) /\ Bound \in Nat
      /\ NewMinutes \in SUBSET Nat /\ IsFiniteSet(NewMinutes)
  BY PendingFinite
<1>2. x \in Nat
  BY MinuteType DEF HeardInv, TypeInv
<1>3. Bound' = Bound
  BY DEF Bound
<1>4. /\ DOMAIN heard' = DOMAIN heard \cup {x} /\ heard'[x] = status
      /\ \A m \in DOMAIN heard : m # x => heard'[m] = heard[m]
  BY DEF Heard
<1>5. NewMinutes' = IF lastClosed # None => x > lastClosed THEN NewMinutes \cup {x} ELSE NewMinutes
  BY <1>4 DEF NewMinutes
<1>6. CASE lastClosed # None /\ x <= lastClosed
  <2>1. census' = census
    BY <1>6 DEF AddCensus
  <2>2. lastClosed \in Nat /\ ~(x > lastClosed)
    BY <1>2, <1>6 DEF HeardInv, TypeInv
  <2>3. NewMinutes' = NewMinutes
    <3>1. ~(lastClosed # None => x > lastClosed)
      BY <1>6, <2>2, Zenon
    <3> QED BY <1>5, <3>1, Zenon
  <2>4. x \notin NewMinutes
    BY <1>6, <2>2 DEF NewMinutes
  <2>5. \A m \in DOMAIN census : m # x /\ m \in DOMAIN heard
    BY <2>4, Zenon DEF PendingInv, NewMinutes
  <2> QED BY <1>3, <1>4, <2>1, <2>3, <2>5 DEF PendingInv
<1>7. CASE (lastClosed # None => x > lastClosed) /\ ~(x >= Bound)
  <2>1. open # <<>> /\ x < open[1].minute
    <3>1. x < Bound
      BY <1>1, <1>2, <1>7
    <3>2. Bound # 0
      BY <1>2, <3>1
    <3> QED BY <3>1, <3>2, Zenon DEF Bound
  <2>2. census' = census
    BY <2>1 DEF AddCensus
  <2>3. NewMinutes' = NewMinutes \cup {x} /\ From(NewMinutes', Bound) = From(NewMinutes, Bound)
    BY <1>5, <1>7 DEF From
  <2>4. \A m \in DOMAIN census : m >= Bound => m # x /\ m \in DOMAIN heard
    BY <1>7 DEF PendingInv, NewMinutes
  <2> QED BY <1>3, <1>4, <2>2, <2>3, <2>4 DEF PendingInv
<1>8. CASE (lastClosed # None => x > lastClosed) /\ x >= Bound
  <2> DEFINE D == DOMAIN census \cup {x}
             C == From(NewMinutes, Bound)
  <2>1. ~(open # <<>> /\ x < open[1].minute) /\ ~(lastClosed # None /\ x <= lastClosed)
    <3>1. /\ lastClosed # None => lastClosed \in Nat
          /\ open # <<>> => open[1].minute \in Nat
      BY DEF HeardInv, TypeInv, IsMinute
    <3> QED BY <1>2, <1>8, <3>1 DEF Bound
  <2>2. census' = [m \in Newest(MaxPending, D) |-> IF m = x THEN status ELSE census[m]]
    BY <2>1 DEF AddCensus, Kept
  <2>3. DOMAIN census' = Newest(MaxPending, D) /\ Newest(MaxPending, D) \subseteq D
    BY <2>2 DEF Newest
  <2>4. D \in SUBSET Nat /\ IsFiniteSet(D)
    BY <1>1, <1>2, FS_AddElement
  <2>5. C \in SUBSET Nat /\ IsFiniteSet(C)
    <3>1. C \in SUBSET NewMinutes
      BY DEF From
    <3> QED BY <1>1, <3>1, FS_Subset, Zenon
  <2>6. NewMinutes' = NewMinutes \cup {x}
    BY <1>5, <1>8
  <2>7. From(NewMinutes', Bound) = C \cup {x} /\ From(D, Bound) = From(DOMAIN census, Bound) \cup {x}
    BY <1>8, <2>6 DEF From
  <2> HIDE DEF D, C, x
  <2>8. From(Newest(MaxPending, D), Bound) = Newest(MaxPending, From(D, Bound))
    BY <1>1, <2>4, NewestAbove DEF From
  <2>9. From(DOMAIN census, Bound) = Newest(MaxPending, C)
    BY DEF PendingInv, C
  <2>10. From(DOMAIN census', Bound) = Newest(MaxPending, Newest(MaxPending, C) \cup {x})
    BY <2>3, <2>7, <2>8, <2>9, Zenon
  <2>11. From(DOMAIN census', Bound) = Newest(MaxPending, From(NewMinutes', Bound))
    <3>1. MaxPending \in Nat
      BY MinuteAssumption
    <3>2. Newest(MaxPending, Newest(MaxPending, C) \cup {x}) = Newest(MaxPending, C \cup {x})
      BY <1>2, <2>5, <3>1, NewestAgain, Zenon
    <3> QED BY <2>7, <2>10, <3>2, Zenon
  <2>12. Cardinality(DOMAIN census') <= MaxPending
    BY <2>3, <2>4, NewestFit, MinuteAssumption
  <2>13. DOMAIN census' \subseteq NewMinutes'
    BY <2>3, <2>6 DEF PendingInv, D
  <2>14. ASSUME NEW m \in DOMAIN census', m >= Bound PROVE census'[m] = heard'[m]
    <3>1. CASE m = x
      BY <1>4, <2>2, <2>3, <3>1
    <3>2. CASE m # x
      <4>1. m \in DOMAIN census /\ census'[m] = census[m]
        BY <2>2, <2>3, <3>2 DEF D
      <4>2. census[m] = heard[m] /\ m \in DOMAIN heard
        BY <2>14, <4>1 DEF PendingInv, NewMinutes
      <4> QED BY <1>4, <3>2, <4>1, <4>2
    <3> QED BY <3>1, <3>2, Zenon
  <2> QED BY <1>3, <2>11, <2>12, <2>13, <2>14 DEF PendingInv
<1> QED
  <2>1. lastClosed # None => lastClosed \in Nat
    BY DEF HeardInv, TypeInv
  <2> QED BY <1>2, <1>6, <1>7, <1>8, <2>1

\* _close: the minute, and those before it.
LEMMA CloseStep ==
    ASSUME HeardInv, PendingInv, open # <<>>, Close, UNCHANGED heard,
           open' = <<>> \/ (Bound' \in Nat /\ Bound' > Bound)
    PROVE  PendingInv'
<1> DEFINE c == open[1].minute
           closed == {m \in Nat : m <= c}
           b == IF open' = <<>> THEN c + 1 ELSE Bound'
<1>1. c \in Nat /\ c # None /\ Bound = c /\ (lastClosed # None => lastClosed \in Nat /\ lastClosed < c)
  BY MinuteAssumption DEF HeardInv, TypeInv, OrderInv, IsMinute, Bound
<1>2. b \in Nat /\ b > c
  BY <1>1
<1>3. lastClosed' = c /\ DOMAIN census' = {m \in DOMAIN census : m > c} /\ \A m \in DOMAIN census' : census'[m] = census[m]
  BY DEF Close, Pending
<1>4. DOMAIN heard \subseteq Nat /\ DOMAIN census \subseteq Nat
  BY PendingFinite DEF HeardInv
<1>5. NewMinutes' = NewMinutes \ closed
  <2>1. NewMinutes' = {m \in DOMAIN heard : m > c}
    BY <1>1, <1>3 DEF NewMinutes
  <2>2. ASSUME NEW m \in DOMAIN heard
        PROVE  m > c <=> (lastClosed # None => m > lastClosed) /\ m \notin closed
    <3>1. m \in Nat
      BY <1>4
    <3> QED BY <1>1, <3>1
  <2> QED BY <2>1, <2>2 DEF NewMinutes
<1>6. DOMAIN census' = DOMAIN census \ closed
  <2>1. ASSUME NEW m \in DOMAIN census PROVE m > c <=> m \notin closed
    <3>1. m \in Nat
      BY <1>4
    <3> QED BY <1>1, <3>1
  <2> QED BY <1>3, <2>1
<1>7. \A m \in NewMinutes' : m >= Bound' <=> m >= b
  <2>1. CASE open' = <<>>
    <3>1. Bound' = 0 /\ b = c + 1
      BY <2>1 DEF Bound
    <3>2. \A m \in NewMinutes' : m \in Nat /\ m > c
      BY <1>1, <1>4, <1>5 DEF NewMinutes
    <3> QED BY <1>1, <3>1, <3>2
  <2>2. CASE open' # <<>>
    BY <2>2
  <2> QED BY <2>1, <2>2
<1>8. closed \in SUBSET Nat /\ (\A m \in closed : m < b) /\ b >= Bound
  BY <1>1, <1>2
<1> HIDE DEF b, c, closed
<1> QED BY <1>2, <1>3, <1>5, <1>6, <1>7, <1>8, BoundRises

LEMMA PendingStep ==
    ASSUME HeardInv, PendingInv, [Next]_vars
    PROVE  PendingInv'
<1>1. CASE UNCHANGED <<open, census, lastClosed, heard>>
  BY <1>1 DEF PendingInv, Bound, NewMinutes, From
<1>2. ASSUME NEW reading \in Readings, Counters(reading), ~LateCounters(clock)
      PROVE  PendingInv'
  <2>1. AddCounters(reading, clock, session_id) /\ UNCHANGED heard
    BY <1>2 DEF Counters
  <2>2. /\ open' # <<>> /\ Minute(clock) \in Nat
        /\ open'[1].minute = IF open = <<>> \/ Closes(clock) THEN Minute(clock) ELSE open[1].minute
    BY <2>1, CountersAdded, MinuteType DEF HeardInv, TypeInv
  <2>3. CASE Closes(clock)
    <3>1. open # <<>> /\ Close
      BY <2>1, <2>3, Zenon DEF AddCounters, Closes
    <3>2. Bound' = Minute(clock) /\ Bound = open[1].minute /\ Minute(clock) > open[1].minute
      BY <2>2, <2>3 DEF Bound, Closes
    <3> QED BY <2>1, <2>2, <3>1, <3>2, CloseStep
  <2>4. CASE ~Closes(clock)
    <3>1. UNCHANGED <<census, lastClosed>>
      BY <2>1, <2>4, Zenon DEF AddCounters
    <3>2. Bound \in Nat
      BY DEF HeardInv, TypeInv, IsMinute, Bound
    <3>3. Bound' \in Nat /\ Bound' >= Bound
      BY <2>2, <2>4, <3>2 DEF Bound
    <3>4. NewMinutes' = NewMinutes \ {} /\ DOMAIN census' = DOMAIN census \ {}
      BY <2>1, <3>1 DEF NewMinutes
    <3>5. /\ {} \in SUBSET Nat /\ \A m \in {} : m < Bound'
          /\ \A m \in NewMinutes' : m >= Bound' <=> m >= Bound'
          /\ \A m \in DOMAIN census' : census'[m] = census[m]
      BY <3>1
    <3> QED BY <2>1, <3>3, <3>4, <3>5, BoundRises, Zenon
  <2> QED BY <2>3, <2>4
<1>3. ASSUME NEW msg \in Censuses, Census(msg)
      PROVE  PendingInv'
  <2>1. UNCHANGED <<open, lastClosed>>
    BY <1>3 DEF Census
  <2>2. \/ UNCHANGED <<census, heard>>
        \/ AddCensus(msg.gpu_status, clock) /\ Heard(msg.gpu_status)
    BY <1>3 DEF Census, FullCensus, SummaryCensus
  <2> QED BY <1>1, <2>1, <2>2, CensusRecorded
<1>4. CASE Flush
  <2>1. UNCHANGED heard /\ open' = <<>>
    BY <1>4 DEF Flush, FlushMinutes
  <2>2. CASE open # <<>>
    <3>1. Close
      BY <1>4, <2>2 DEF Flush, FlushMinutes
    <3>2. open' = <<>> \/ (Bound' \in Nat /\ Bound' > Bound)
      BY <2>1
    <3> QED BY <2>1, <2>2, <3>1, <3>2, CloseStep, Zenon
  <2>3. CASE open = <<>>
    BY <1>1, <1>4, <2>1, <2>3 DEF Flush, FlushMinutes
  <2> QED BY <2>2, <2>3
<1>5. CASE Tick \/ StepBack \/ SessionStarted \/ SessionEnded \/ Ended \/ UNCHANGED vars
  BY <1>1, <1>5 DEF Tick, StepBack, SessionStarted, SessionEnded, Ended, vars, minuteVars, history
<1>6. ASSUME NEW reading \in Readings, Counters(reading), LateCounters(clock)
      PROVE  PendingInv'
  BY <1>1, <1>6 DEF Counters, minuteVars
<1> QED BY <1>2, <1>3, <1>4, <1>5, <1>6 DEF Next

LEMMA HeardStep ==
    ASSUME HeardInv, RowsInv', [Next]_vars
    PROVE  HeardInv'
<1>1. TypeInv' /\ OrderInv'
  BY DEF RowsInv
<1>2. lastClosed' = last_minute'
  BY Zenon DEF HeardInv, Next, Tick, StepBack, SessionStarted, SessionEnded, Ended, vars, minuteVars, pipeVars, history,
         Counters, AddCounters, Close, EmitMinute, Row, Census, Flush, FlushMinutes
<1>3. CASE UNCHANGED heard
  BY <1>1, <1>2, <1>3 DEF HeardInv
<1>4. CASE \E status : Heard(status)
  <2>1. DOMAIN heard' = DOMAIN heard \cup {Minute(clock)}
    BY <1>4 DEF Heard
  <2>2. IsFiniteSet(DOMAIN heard')
    <3>1. IsFiniteSet(DOMAIN heard)
      BY DEF HeardInv
    <3> QED BY <2>1, <3>1, FS_AddElement
  <2>3. DOMAIN heard' \subseteq Nat
    BY <2>1, MinuteType, Zenon DEF HeardInv, TypeInv
  <2> QED BY <1>1, <1>2, <2>2, <2>3 DEF HeardInv
<1>5. UNCHANGED heard \/ \E status : Heard(status)
  BY DEF Next, Tick, StepBack, SessionStarted, SessionEnded, Ended, vars, history,
         Counters, Census, FullCensus, SummaryCensus, Flush
<1> QED BY <1>3, <1>4, <1>5

(***************************************************************************)
(* Of the censuses that wait for the counters of their minute, those that  *)
(* can still be in a row are the ones of the newest minutes that were      *)
(* heard of, each the last of its minute; no more wait than there is room  *)
(* for, and none for a minute that is closed (add_census, _close).         *)
(***************************************************************************)
THEOREM CensusesPending == Spec => []PendingCensuses
<1>1. Init => HeardInv /\ PendingInv
  <2> SUFFICES ASSUME Init PROVE HeardInv /\ PendingInv
    OBVIOUS
  <2>1. /\ DOMAIN heard = {} /\ DOMAIN census = {} /\ lastClosed = last_minute
        /\ TypeInv /\ OrderInv
    <3>1. heard = <<>> /\ census = <<>> /\ lastClosed = last_minute
      BY Zenon DEF Init, MinutesInit
    <3>2. TypeInv /\ OrderInv
      BY RowsInit, Zenon DEF RowsInv
    <3> QED BY <3>1, <3>2
  <2>2. HeardInv
    BY <2>1, FS_EmptySet DEF HeardInv
  <2>3. PendingInv
    BY <2>1, FS_EmptySet, MinuteAssumption DEF PendingInv, NewMinutes, From, Newest
  <2> QED BY <2>2, <2>3
<1>2. HeardInv /\ PendingInv /\ RowsInv' /\ [Next]_vars => (HeardInv /\ PendingInv)'
  BY HeardStep, PendingStep
<1>3. HeardInv /\ PendingInv => PendingCensuses
  BY PendingIs
<1> QED BY <1>1, <1>2, <1>3, RowsInvariant, PTL DEF Spec
=============================================================================
