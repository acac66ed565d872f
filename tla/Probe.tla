------------------------------- MODULE Probe --------------------------------
(***************************************************************************)
(* The streaming probe (probe/probe.py) on its node: the main loop and the *)
(* watchdog thread, which share the emitter, against a reader that may     *)
(* stall or go, a signal, and a hangup.                                    *)
(*                                                                         *)
(* A line is written in two chunks, the second with its newline.  A signal *)
(* handler runs between two steps of the main thread, which waits for it.  *)
(***************************************************************************)
EXTENDS GpuQueries, Sequences, Functions

CONSTANTS CountersTo, CensusTo   \* bounds: none are due once seq has got there

VARIABLES mainpc, todo, after,  \* the main loop; lines it is to emit, and where it goes then
          dog,                  \* the watchdog
          lock,                 \* _Emitter._lock: "free", or its holder
          seq,
          writing,              \* thread -> the message it writes; part: chunks it has written
          signal_at, signum,    \* set by the handler, one after the other
          grace,                \* SIGNAL_REPORT_GRACE_SEC are over
          status,               \* the exit status, -1 while it runs
          reader,               \* reading, stalled, gone
          stdin, parent,        \* open or eof; there or gone
          whole, tail,          \* history: whole lines received; the chunks after the last line
          clean, told           \* history: all lines are as they should be; one reported the signal

mainVars == <<mainpc, todo, after>>
emitVars == <<lock, seq, writing, whole, tail, clean, told>>
signalVars == <<signal_at, signum, grace>>
worldVars == <<reader, stdin, parent>>
probeVars == <<gpuVars, mainVars, dog, emitVars, signalVars, status, worldVars>>

Nothing == [kind |-> "none", seq |-> 0, part |-> 0]

ProbeInit ==
    /\ GpuInit
    /\ mainpc = "lock" /\ todo = <<>> /\ after = "none"
    /\ dog = "none" /\ lock = "free" /\ seq = 0
    /\ writing = [t \in {"main", "dog"} |-> Nothing]
    /\ signal_at = FALSE /\ signum = FALSE /\ grace = FALSE
    /\ status = -1
    /\ reader = "reading" /\ stdin = "open" /\ parent = "there"
    /\ whole = 0 /\ tail = <<>> /\ clean = TRUE /\ told = FALSE

Running == status = -1
KilledStatus == 128           \* 128 + signum
os_exit(code) == status' = code

\* The handler has begun and not ended: the main thread runs it.
Handling == signal_at # signum
Main(at) == Running /\ ~Handling /\ mainpc = at
Dog(at) == Running /\ dog = at
-----------------------------------------------------------------------------
(***************************************************************************)
(* What happens around the probe.                                          *)
(***************************************************************************)
Reader ==
    /\ Running /\ reader # "gone"
    /\ reader' \in {"reading", "stalled", "gone"} \ {reader}
    /\ UNCHANGED <<gpuVars, mainVars, dog, emitVars, signalVars, status, stdin, parent>>

Hangup ==
    /\ Running /\ stdin = "open" /\ parent = "there"
    /\ \/ stdin' = "eof" /\ UNCHANGED parent
       \/ parent' = "gone" /\ UNCHANGED stdin
    /\ UNCHANGED <<gpuVars, mainVars, dog, emitVars, signalVars, status, reader>>

GracePasses ==
    /\ Running /\ signal_at /\ ~grace
    /\ grace' = TRUE
    /\ UNCHANGED <<gpuVars, mainVars, dog, emitVars, signal_at, signum, status, worldVars>>

(***************************************************************************)
(* _on_signal, of the first signal: _signal_at, then _signum.              *)
(***************************************************************************)
\* Mutant: in the other order; the handler still runs until both are set.
NumberFirst == \/ ~signum /\ signum' = TRUE /\ UNCHANGED signal_at
               \/ signum /\ ~signal_at /\ signal_at' = TRUE /\ UNCHANGED signum

TimeFirst == \/ ~signal_at /\ signal_at' = TRUE /\ UNCHANGED signum
             \/ signal_at /\ ~signum /\ signum' = TRUE /\ UNCHANGED signal_at

OnSignal ==
    /\ Running /\ TimeFirst
    /\ UNCHANGED <<gpuVars, mainVars, dog, emitVars, grace, status, worldVars>>
-----------------------------------------------------------------------------
(***************************************************************************)
(* _write, by the thread that holds the lock: _put after _put.  The first  *)
(* line always fits into the pipe.                                         *)
(***************************************************************************)
Message(kind) == [kind |-> kind, seq |-> seq, part |-> 0]
Chunk(m) == <<m.kind, m.seq>>

Writable == reader = "reading" \/ (reader = "stalled" /\ whole = 0)

\* A line of one message, in its place; or one fragment.
IsLine(line) == Range(line) = {line[1]} /\ Len(line) <= 2 /\ line[1][2] = whole

\* One chunk: the second ends the line.
Put(t) ==
    LET m == writing[t]
    IN /\ Writable
       /\ IF m.part = 0
          THEN tail' = Append(tail, Chunk(m)) /\ UNCHANGED <<whole, clean, told>>
          ELSE /\ tail' = <<>> /\ whole' = whole + 1
               /\ clean' = (clean /\ IsLine(Append(tail, Chunk(m))) /\ ~told)
               /\ told' = (told \/ m.kind = "signal")

\* Mutant: the report does not wait for the lock.
ReportAtOnce(t) == /\ lock' = t
                   /\ writing' = [writing EXCEPT ![t] = Message("signal")]

\* _report_signal_and_exit, once the lock is taken.
ReportSignal(t) == /\ lock = "free" /\ lock' = t
                   /\ writing' = [writing EXCEPT ![t] = Message("signal")]

Reporting(t) ==
    \/ /\ writing[t].part < 2 /\ Put(t)
       /\ writing' = [writing EXCEPT ![t].part = @ + 1]
       /\ UNCHANGED <<lock, seq, status>>
    \/ /\ writing[t].part = 2 \/ reader = "gone"
       /\ os_exit(KilledStatus)
       /\ UNCHANGED emitVars
-----------------------------------------------------------------------------
(***************************************************************************)
(* _Emitter.emit in the main thread, of the first line it is to emit.      *)
(***************************************************************************)
\* Mutant: waits for the lock however long it takes.
GivesUpNever == FALSE

\* No time remains, or the lock was not to be had until then.
GivesUp == signum /\ grace

AcquireOrExit ==
    /\ Main("emit")
    /\ \/ /\ ~GivesUp /\ lock = "free" /\ lock' = "main"
          /\ mainpc' = IF signum THEN "report" ELSE "write"
          /\ writing' = [writing EXCEPT !["main"] = Message(IF signum THEN "signal" ELSE Head(todo))]
          /\ UNCHANGED status
       \/ GivesUp /\ os_exit(KilledStatus) /\ UNCHANGED <<lock, mainpc, writing>>
    /\ UNCHANGED <<gpuVars, todo, after, dog, seq, whole, tail, clean, told, signalVars, worldVars>>

\* The lock is released, and the next line is due.
Release(rest) ==
    /\ lock' = "free"
    /\ writing' = [writing EXCEPT !["main"] = Nothing]
    /\ todo' = rest
    /\ mainpc' = IF rest = <<>> THEN after ELSE "emit"
    /\ after' = IF rest = <<>> THEN "none" ELSE after

Write ==
    /\ Main("write")
    /\ \/ /\ writing["main"].part = 0 /\ Put("main")
          /\ writing' = [writing EXCEPT !["main"].part = 1]
          /\ UNCHANGED <<lock, seq, mainVars, status>>
       \/ /\ writing["main"].part = 1 /\ Put("main")
          /\ seq' = seq + 1 /\ Release(Tail(todo))
          /\ UNCHANGED status
       \/ /\ reader = "gone" /\ os_exit(0)
          /\ UNCHANGED <<emitVars, mainVars>>
    /\ UNCHANGED <<gpuVars, dog, signalVars, worldVars>>

\* The encoder raises: a fragment is ended with a newline, and an error is due instead.
EncoderRaises ==
    /\ Main("write") /\ writing["main"].kind \in {"counters", "census"}
    /\ IF writing["main"].part = 0 THEN UNCHANGED <<tail, clean>>
       ELSE Writable /\ tail' = <<>> /\ clean' = (clean /\ IsLine(tail) /\ ~told)
    /\ Release(<<"error">>)
    /\ UNCHANGED <<gpuVars, dog, seq, whole, told, signalVars, status, worldVars>>
-----------------------------------------------------------------------------
(***************************************************************************)
(* stream: the lock, hello, then the loop.  What is due is left open.      *)
(***************************************************************************)
Emits(kinds, next) == mainpc' = "emit" /\ todo' = kinds /\ after' = next
Goes(next) == mainpc' = next /\ UNCHANGED <<todo, after>>

Start ==
    /\ Main("lock")
    /\ \/ /\ dog' = "check"
          /\ \E kinds \in {<<"hello">>, <<"hello", "error">>} : Emits(kinds, "top")
       \/ UNCHANGED dog /\ Emits(<<"error">>, "return3")
    /\ UNCHANGED <<gpuVars, emitVars, signalVars, status, worldVars>>

\* check_signal: the lock is had within the wait, or not; then the parent.
LoopTop ==
    /\ Main("top")
    /\ \/ signum /\ ReportSignal("main") /\ Goes("report") /\ UNCHANGED status
       \/ signum /\ lock # "free" /\ grace /\ os_exit(KilledStatus) /\ UNCHANGED <<mainVars, lock, writing>>
       \/ /\ ~signum \/ (lock # "free" /\ ~grace)
          /\ Goes(IF parent = "gone" THEN "return0" ELSE "counters")
          /\ UNCHANGED <<lock, writing, status>>
    /\ UNCHANGED <<gpuVars, dog, seq, whole, tail, clean, told, signalVars, worldVars>>

MainReports ==
    /\ Main("report") /\ Reporting("main")
    /\ UNCHANGED <<gpuVars, mainVars, dog, signalVars, worldVars>>

EmitCounters ==
    /\ Main("counters")
    /\ \/ seq < CountersTo /\ \E kind \in {"counters", "error"} : Emits(<<kind>>, "census")
       \/ Goes("census")
    /\ UNCHANGED <<gpuVars, dog, emitVars, signalVars, status, worldVars>>

\* _take: a failed query is an error line before the census.
Census ==
    /\ Main("census")
    /\ \/ Goes("top") /\ UNCHANGED gpuVars
       \/ /\ seq < CensusTo
          /\ \/ (Suspended \/ Absent \/ Query("ok")) /\ Emits(<<"census">>, "rss")
             \/ \E r \in Results \ {"ok"} : Query(r) /\ Emits(<<"gpu", "census">>, "rss")
             \/ UNCHANGED gpuVars /\ Emits(<<"error">>, "rss")
    /\ UNCHANGED <<dog, emitVars, signalVars, status, worldVars>>

CheckRss ==
    /\ Main("rss")
    /\ Emits(<<"bye">>, "return0") \/ Goes("top")
    /\ UNCHANGED <<gpuVars, dog, emitVars, signalVars, status, worldVars>>

Return ==
    /\ \/ Main("return0") /\ os_exit(0)
       \/ Main("return3") /\ os_exit(3)
    /\ UNCHANGED <<gpuVars, mainVars, dog, emitVars, signalVars, worldVars>>
-----------------------------------------------------------------------------
(***************************************************************************)
(* _watchdog: the parent, a signal, stdin, round and round.  An exception  *)
(* ends it like an eof: _signal_at may not be set.                         *)
(***************************************************************************)
DogCheck ==
    /\ Dog("check")
    /\ \/ parent = "gone" /\ os_exit(0) /\ UNCHANGED <<dog, lock, writing>>
       \/ parent = "there" /\ ~signum /\ dog' = "select" /\ UNCHANGED <<lock, writing, status>>
       \/ parent = "there" /\ signum /\ ReportSignal("dog") /\ dog' = "report" /\ UNCHANGED status
       \/ /\ parent = "there" /\ signum /\ lock # "free"
          /\ CASE ~signal_at -> os_exit(0) /\ UNCHANGED dog
               [] signal_at /\ grace -> os_exit(KilledStatus) /\ UNCHANGED dog
               [] signal_at /\ ~grace -> dog' = "select" /\ UNCHANGED status
          /\ UNCHANGED <<lock, writing>>
    /\ UNCHANGED <<gpuVars, mainVars, seq, whole, tail, clean, told, signalVars, worldVars>>

DogReports ==
    /\ Dog("report") /\ Reporting("dog")
    /\ UNCHANGED <<gpuVars, mainVars, dog, signalVars, worldVars>>

DogSelect ==
    /\ Dog("select")
    /\ IF stdin = "eof" THEN os_exit(0) /\ UNCHANGED dog ELSE dog' = "check" /\ UNCHANGED status
    /\ UNCHANGED <<gpuVars, mainVars, emitVars, signalVars, worldVars>>
-----------------------------------------------------------------------------
ProbeEnded == ~Running /\ UNCHANGED probeVars

MainStep == \/ AcquireOrExit \/ Write \/ EncoderRaises \/ MainReports
            \/ Start \/ LoopTop \/ EmitCounters \/ Census \/ CheckRss \/ Return

DogStep == DogCheck \/ DogReports \/ DogSelect

ProbeNext == MainStep \/ DogStep \/ OnSignal \/ GracePasses \/ Reader \/ Hangup \/ ProbeEnded

ProbeSpec == ProbeInit /\ [][ProbeNext]_probeVars

(***************************************************************************)
(* Both threads are scheduled, time passes, and a handler that has begun   *)
(* runs to its end.  Nothing is assumed of the reader.                     *)
(***************************************************************************)
FairProbeSpec == /\ ProbeSpec
                 /\ WF_probeVars(MainStep) /\ WF_probeVars(DogStep) /\ WF_probeVars(GracePasses)
                 /\ WF_probeVars(Handling /\ OnSignal)
-----------------------------------------------------------------------------
(***************************************************************************)
(* "Lines are written under a lock, so the report always follows whole     *)
(* lines": a line received is of one message, whole or the fragment of one *)
(* that could not be encoded; whole lines are numbered from 0 without a    *)
(* gap, and nothing follows the report of a signal.                        *)
(***************************************************************************)
WholeLines == clean /\ (tail # <<>> => IsLine(tail) /\ Len(tail) = 1 /\ ~told)

(***************************************************************************)
(* "a kill on the node is told apart from a transport failure": with a     *)
(* signal pending the status names it, unless there was a hangup, the      *)
(* reader was gone, or the probe was about to return.                      *)
(***************************************************************************)
SignalNamed ==
    signum /\ status = 0 => \/ stdin = "eof" \/ parent = "gone" \/ reader = "gone"
                            \/ mainpc = "return0"

(***************************************************************************)
(* "waiting longer than the grace would wedge both threads", and           *)
(* _watchdog: "its own checks cannot be the only ones".  A signal ends the *)
(* probe, also when its reader has stalled, whoever holds the lock; and it *)
(* does not outlive its connection or its parent, whatever the main loop   *)
(* is doing.                                                               *)
(***************************************************************************)
ProbeEnds == (signum \/ stdin = "eof" \/ parent = "gone") ~> ~Running
=============================================================================
