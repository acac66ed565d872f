-------------------------- MODULE MinuteAggregator --------------------------
(***************************************************************************)
(* MinuteAggregator (pipeline/node_metrics.py): counters messages of one   *)
(* node into one row a minute, by the clock of the receiver, which may     *)
(* step back.                                                              *)
(*                                                                         *)
(* The counters of a message are a function from the families it has (cpu, *)
(* network, metadata operations, the probe's own cpu) to a reading.  Two   *)
(* consecutive readings of one session give a difference over a time, a    *)
(* lower reading is a reset.  Gauges, offsets and scan times, which are    *)
(* copied, and the rounding of the rates are left out.                     *)
(***************************************************************************)
EXTENDS Integers, FiniteSets, FiniteSetsExt, Sequences

CONSTANTS None,
          MinuteLen,    \* the units of the clock in a minute
          MaxPending    \* _MAX_PENDING_CENSUS_MINUTES

ASSUME MinuteAssumption == MinuteLen \in Nat \ {0} /\ MaxPending \in Nat /\ None \notin Int

VARIABLES open,         \* <<>>, or <<the open _Minute>>
          prev,         \* <<>>, or the last message: <<[reading, recv, session]>>
          census,       \* pending censuses: minute -> gpu_status of its last one
          lastClosed

minuteVars == <<open, prev, census, lastClosed>>

Floor(t, length) == t - (t % length)
Minute(recv) == Floor(recv, MinuteLen)

MinutesInit == open = <<>> /\ prev = <<>> /\ census = <<>> /\ lastClosed = None
-----------------------------------------------------------------------------
(***************************************************************************)
(* add_census.  The oldest minutes make room.                              *)
(***************************************************************************)
Newest(k, S) == {m \in S : Cardinality({n \in S : n > m}) < k}
\* Mutant: room is made by the newest.
KeptOldest(S) == {m \in S : Cardinality({n \in S : n < m}) < MaxPending}

Kept(S) == Newest(MaxPending, S)

AddCensus(status, recv) ==
    LET minute == Minute(recv)
        dropped == \/ open # <<>> /\ minute < open[1].minute
                   \/ lastClosed # None /\ minute <= lastClosed
    IN census' = IF dropped THEN census
                 ELSE [m \in Kept(DOMAIN census \cup {minute}) |->
                          IF m = minute THEN status ELSE census[m]]
-----------------------------------------------------------------------------
(***************************************************************************)
(* _add_pair: each family on its own, unless it was reset.                 *)
(***************************************************************************)
Rate(rates, f) == IF f \in DOMAIN rates THEN rates[f] ELSE [delta |-> 0, elapsed |-> 0]

AddPair(rates, a, b, elapsed) ==
    LET grown == {f \in DOMAIN a \cap DOMAIN b : b[f] >= a[f]}
    IN [f \in DOMAIN rates \cup grown |->
            IF f \in grown THEN [delta |-> Rate(rates, f).delta + b[f] - a[f],
                                 elapsed |-> Rate(rates, f).elapsed + elapsed]
            ELSE rates[f]]

\* Mutant: the session is not looked at.
PairsAcross(recv, session) == prev # <<>> /\ recv > prev[1].recv
\* The previous message gives a pair: same session, and the clock has advanced.
Pairs(recv, session) == prev # <<>> /\ prev[1].session = session /\ recv > prev[1].recv

-----------------------------------------------------------------------------
(***************************************************************************)
(* add_counters, flush and _close: the row that is closed, if any.         *)
(***************************************************************************)
Closes(recv) == open # <<>> /\ Minute(recv) > open[1].minute

Row == LET m == open[1]
       IN  [minute |-> m.minute, sample_count |-> m.sample_count, rates |-> m.rates,
            gpu_status |-> IF m.minute \in DOMAIN census THEN census[m.minute] ELSE None]

Pending == {m \in DOMAIN census : m > open[1].minute}

Close == /\ lastClosed' = open[1].minute
         /\ census' = [m \in Pending |-> census[m]]

AddCounters(reading, recv, session) ==
    LET cur == IF open = <<>> \/ Closes(recv)
               THEN [minute |-> Minute(recv), sample_count |-> 0, rates |-> <<>>]
               ELSE open[1]
        rates == IF Pairs(recv, session)
                 THEN AddPair(cur.rates, prev[1].reading, reading, recv - prev[1].recv)
                 ELSE cur.rates
    IN /\ open' = <<[minute |-> cur.minute, sample_count |-> cur.sample_count + 1, rates |-> rates]>>
       /\ prev' = <<[reading |-> reading, recv |-> recv, session |-> session]>>
       /\ IF Closes(recv) THEN Close ELSE UNCHANGED <<census, lastClosed>>

FlushMinutes ==
    /\ open' = <<>>
    /\ IF open # <<>> THEN Close ELSE UNCHANGED <<census, lastClosed>>
    /\ UNCHANGED prev
=============================================================================
