---------------------------- MODULE NodePipeline ----------------------------
(***************************************************************************)
(* NodePipeline (pipeline/node_pipeline.py): the messages and the session  *)
(* events of one node, in the order of their receipt, into records; with   *)
(* the two aggregators it drives.  Which samples are late is decided here, *)
(* from the last minute and the last interval that were emitted.           *)
(*                                                                         *)
(* A capture that is replayed may hold censuses without their processes    *)
(* ("summary"); it holds no others then.  Hello and error messages change  *)
(* nothing here but the labels (boot id, version) of later rows, and are   *)
(* left out with the live rows that copy a message.                        *)
(***************************************************************************)
EXTENDS MinuteAggregator, UsageAggregator

CONSTANTS Readings,     \* the counters a message may bring
          MaxClock, MaxBack, MaxMessages, MaxSessions   \* bounds

ASSUME ReadingAssumption == \A r \in Readings : \A f \in DOMAIN r : r[f] \in Int

VARIABLES mode,
          session_id, last_minute, last_interval,
          up,                  \* a session is connected
          clock, back,         \* the receiver's clock; how often it was set back
          messages,            \* how many there have been
          done,                \* flush() has been called
          minutes, starts,     \* history: the minutes and the intervals emitted
          owed,                \* history: samples received that no row has, nor a late_sample
          first,               \* history: earliest minute and interval of the samples that are open
          connected,           \* history: the time of sessions that no emitted rate covers
          heard                \* history: minute -> gpu_status, for censuses that were not late

pipeVars == <<mode, session_id, last_minute, last_interval, done>>
envVars == <<up, clock, back, messages>>
history == <<minutes, starts, owed, first, connected, heard>>
vars == <<minuteVars, interval, pipeVars, envVars, history>>

Init ==
    /\ MinutesInit /\ interval = <<>>
    /\ mode \in {"full", "summary"}
    /\ session_id = 0 /\ last_minute = None /\ last_interval = None
    /\ up = FALSE /\ clock = 0 /\ back = 0 /\ messages = 0 /\ done = FALSE
    /\ minutes = {} /\ starts = {}
    /\ owed = [counters |-> 0, censuses |-> 0] /\ first = <<0, 0>> /\ connected = 0 /\ heard = <<>>
-----------------------------------------------------------------------------
(***************************************************************************)
(* The clock advances, or is set back.                                     *)
(***************************************************************************)
Tick ==
    /\ ~done /\ clock < MaxClock
    /\ clock' = clock + 1
    /\ connected' = IF up THEN connected + 1 ELSE connected
    /\ UNCHANGED <<minuteVars, interval, pipeVars, up, back, messages, minutes, starts, owed, first, heard>>

StepBack ==
    /\ ~done /\ back < MaxBack
    /\ back' = back + 1
    /\ clock' \in 0..(clock - 1)
    /\ UNCHANGED <<minuteVars, interval, pipeVars, up, messages, history>>
-----------------------------------------------------------------------------
(***************************************************************************)
(* on_event.  Only session_started changes anything here.                  *)
(***************************************************************************)
SessionStarted ==
    /\ ~done /\ ~up /\ session_id < MaxSessions
    /\ up' = TRUE
    /\ session_id' = session_id + 1
    /\ UNCHANGED <<minuteVars, interval, mode, last_minute, last_interval, done, clock, back,
                   messages, history>>

SessionEnded ==
    /\ ~done /\ up
    /\ up' = FALSE
    /\ UNCHANGED <<minuteVars, interval, pipeVars, clock, back, messages, history>>

Earliest(i, new, t) == [first EXCEPT ![i] = IF new THEN t ELSE Min({@, t})]

Receive ==
    /\ ~done /\ up /\ messages < MaxMessages
    /\ messages' = messages + 1
-----------------------------------------------------------------------------
(***************************************************************************)
(* _counters.  A minute that has been emitted takes no more samples.       *)
(***************************************************************************)
Covered(r) == Rate(r.rates, "cpu").elapsed

EmitMinute ==
    /\ last_minute' = Row.minute
    /\ minutes' = minutes \cup {Row.minute}
    /\ connected' = connected - Covered(Row)

\* Mutant: the last minute emitted is opened again.
LateCountersAgain(recv) == last_minute # None /\ Minute(recv) < last_minute

LateCounters(recv) == last_minute # None /\ Minute(recv) <= last_minute

Owing(emitted) == [owed EXCEPT !.counters = @ + 1 - emitted]

Counters(reading) ==
    /\ Receive
    /\ \/ /\ LateCounters(clock)
          /\ UNCHANGED <<minuteVars, last_minute, minutes, owed, first, connected>>
       \/ /\ ~LateCounters(clock)
          /\ AddCounters(reading, clock, session_id)
          /\ first' = Earliest(1, open = <<>> \/ Closes(clock), Minute(clock))
          /\ IF Closes(clock)
             THEN EmitMinute /\ owed' = Owing(Row.sample_count)
             ELSE UNCHANGED <<last_minute, minutes, connected>> /\ owed' = Owing(0)
    /\ UNCHANGED <<interval, mode, session_id, last_interval, done, up, clock, back, starts, heard>>
-----------------------------------------------------------------------------
(***************************************************************************)
(* _census, with and without processes.                                    *)
(***************************************************************************)
EmitInterval ==
    /\ last_interval' = interval[1].start
    /\ starts' = starts \cup {interval[1].start}

Start(recv) == Floor(recv, IntervalLen)
LateCensus(recv) == last_interval # None /\ Start(recv) <= last_interval

Heard(status) == heard' = [m \in DOMAIN heard \cup {Minute(clock)} |->
                              IF m = Minute(clock) THEN status ELSE heard[m]]

FullCensus(msg) ==
    /\ AddProcesses(msg, Start(clock))
    /\ first' = Earliest(2, interval = <<>> \/ Ends(Start(clock)), Start(clock))
    /\ IF Ends(Start(clock))
       THEN EmitInterval /\ owed' = [owed EXCEPT !.censuses = @ + 1 - interval[1].samples]
       ELSE UNCHANGED <<last_interval, starts>> /\ owed' = [owed EXCEPT !.censuses = @ + 1]
    /\ AddCensus(msg.gpu_status, clock) /\ Heard(msg.gpu_status)

SummaryCensus(msg) ==
    /\ AddCensus(msg.gpu_status, clock) /\ Heard(msg.gpu_status)
    /\ UNCHANGED <<interval, last_interval, starts, owed, first>>

Census(msg) ==
    LET isLate == IF mode = "full" THEN LateCensus(clock) ELSE LateCounters(clock)
    IN /\ Receive
       /\ \/ isLate /\ UNCHANGED <<census, interval, last_interval, starts, owed, first, heard>>
          \/ ~isLate /\ mode = "full" /\ FullCensus(msg)
          \/ ~isLate /\ mode = "summary" /\ SummaryCensus(msg)
       /\ UNCHANGED <<open, prev, lastClosed, mode, session_id, last_minute, done, up, clock, back,
                      minutes, connected>>
-----------------------------------------------------------------------------
(***************************************************************************)
(* flush: the collector stops, or the capture has been replayed.           *)
(***************************************************************************)
Flush ==
    /\ ~done /\ ~up
    /\ done' = TRUE
    /\ FlushMinutes
    /\ IF open # <<>> THEN EmitMinute ELSE UNCHANGED <<last_minute, minutes, connected>>
    /\ interval' = <<>>
    /\ IF interval # <<>> THEN EmitInterval ELSE UNCHANGED <<last_interval, starts>>
    /\ owed' = [counters |-> owed.counters - (IF open # <<>> THEN open[1].sample_count ELSE 0),
                censuses |-> owed.censuses - (IF interval # <<>> THEN interval[1].samples ELSE 0)]
    /\ UNCHANGED <<mode, session_id, envVars, first, heard>>

Ended == done /\ UNCHANGED vars

Next == \/ Tick \/ StepBack \/ SessionStarted \/ SessionEnded
        \/ \E reading \in Readings : Counters(reading)
        \/ \E msg \in Censuses : Census(msg)
        \/ Flush \/ Ended

Spec == Init /\ [][Next]_vars
-----------------------------------------------------------------------------
(***************************************************************************)
(* _last_minute and _last_interval: however the clock is set back, rows    *)
(* are emitted in order and once.  All samples that are open, and the row  *)
(* they are in, are later than every minute, or interval, that has been    *)
(* emitted.                                                                *)
(***************************************************************************)
RowsInOrder ==
    /\ \A m \in minutes : open # <<>> => m < open[1].minute /\ m < first[1]
    /\ \A s \in starts : interval # <<>> => s < interval[1].start /\ s < first[2]

(***************************************************************************)
(* _late, sample_count: a sample counts in exactly one row, or is reported *)
(* late; at the end no sample is left.                                     *)
(***************************************************************************)
SamplesOnce ==
    /\ owed.counters = IF open # <<>> THEN open[1].sample_count ELSE 0
    /\ owed.censuses = IF interval # <<>> THEN interval[1].samples ELSE 0

(***************************************************************************)
(* add_census, _close: of the censuses that wait for counters, those that  *)
(* can still be in a row are the ones of the newest minutes, and each is   *)
(* the last one of its minute; no more wait than there is room for, and    *)
(* none for a minute that is closed.                                       *)
(***************************************************************************)
PendingCensuses ==
    LET MayCome(m) == open # <<>> => m >= open[1].minute
        new == {m \in DOMAIN heard : lastClosed # None => m > lastClosed}
    IN /\ {m \in DOMAIN census : MayCome(m)} = Newest(MaxPending, {m \in new : MayCome(m)})
       /\ Cardinality(DOMAIN census) <= MaxPending /\ DOMAIN census \subseteq new
       /\ \A m \in DOMAIN census : MayCome(m) => census[m] = heard[m]

(***************************************************************************)
(* _add_pair and the session of _prev: the time a rate is divided by is    *)
(* never zero, and no rate is negative, whatever the clock and the         *)
(* counters do.  The rates of all rows together cover no more time than    *)
(* there was a session; a gap between two sessions is never in them.       *)
(***************************************************************************)
RatesOfSessions ==
    /\ connected >= IF open # <<>> THEN Covered(open[1]) ELSE 0
    /\ open # <<>> =>
         \A f \in DOMAIN open[1].rates : open[1].rates[f].elapsed > 0 /\ open[1].rates[f].delta >= 0

(***************************************************************************)
(* "A user's by_category and by_dormancy are per-key sums of               *)
(* by_category_dormancy": what a user's row leaves out can be had from     *)
(* what it stores, and the users add up to the node.  An average is at     *)
(* most the maximum beside it, over all censuses, or for the gpus over     *)
(* those that measured them.                                               *)
(***************************************************************************)
UsersAddUp == interval # <<>> => AddsUp(interval[1]) /\ AveragesInRange(interval[1])
=============================================================================
