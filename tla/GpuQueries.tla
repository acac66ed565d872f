----------------------------- MODULE GpuQueries -----------------------------
(***************************************************************************)
(* The gpu queries of the probe's censuses (probe/probe.py, _Census).  A   *)
(* query that times out, or that fails the same way several times running, *)
(* suspends them.  Time is counted in censuses.                            *)
(***************************************************************************)
EXTENDS Integers

CONSTANTS Failures,     \* what nvidia-smi may fail with, word for word; not a timeout
          Suspend,      \* GPU_SUSPEND_SEC, in censuses
          Identical     \* GPU_IDENTICAL_FAILURES_TO_SUSPEND

ASSUME GpuAssumption ==
    /\ Suspend \in Nat \ {0} /\ Identical \in Nat \ {0}
    /\ Failures \cap {"none", "ok", "timeout"} = {}

VARIABLES resume,       \* censuses to come before _gpu_resume_at
          failure, streak,
          quiet,        \* history: censuses since the last query
          result, times \* history: its result, and how many queries running had that

gpuVars == <<resume, failure, streak, quiet, result, times>>

GpuInit == resume = 0 /\ failure = "none" /\ streak = 0 /\ quiet = Suspend /\ result = "none" /\ times = 0

\* One nvidia-smi, or two, within gpu_timeout_sec.
Results == {"ok", "timeout"} \cup Failures

\* Mutant: a suspension ends the streak.
StreakAnew(r) == IF r = failure THEN (streak % Identical) + 1 ELSE 1

Streak(r) == IF r = failure THEN streak + 1 ELSE 1

UpTo(n) == IF n > Identical THEN Identical ELSE n   \* larger ones are not told apart

NoQuery == /\ quiet' = IF quiet < Suspend THEN quiet + 1 ELSE quiet
           /\ UNCHANGED <<failure, streak, result, times>>

Suspended == resume > 0 /\ resume' = resume - 1 /\ NoQuery

\* nvidia-smi is not there, for now.
Absent == resume = 0 /\ UNCHANGED resume /\ NoQuery

Query(r) ==
    /\ resume = 0
    /\ quiet' = 0 /\ result' = r /\ times' = IF r = result /\ r \in Failures THEN UpTo(times + 1) ELSE 1
    /\ IF r \in {"ok", "timeout"}
       THEN failure' = "none" /\ streak' = 0
       ELSE failure' = r /\ streak' = UpTo(Streak(r))
    /\ resume' = IF r = "timeout" \/ (r # "ok" /\ Streak(r) >= Identical) THEN Suspend ELSE 0

\* The queries so far call for a suspension.
Enough == result = "timeout" \/ (result \in Failures /\ times = Identical)

(***************************************************************************)
(* "a wedged driver does not collect a new hung nvidia-smi every census"   *)
(* and "a failure that persists after one re-suspends at once": after a    *)
(* timeout, and after as many equal failures as it takes whatever came     *)
(* between them, the next query is a suspension away.                      *)
(***************************************************************************)
SuspendsQueries == [][quiet' = 0 /\ Enough => quiet = Suspend]_gpuVars
=============================================================================
